---------------------------- MODULE LibraryProofs ----------------------------
(***************************************************************************)
(* A library shared by any number of processes keeps the units saved in    *)
(* it, and none of them finds it broken unless a process was killed while  *)
(* it wrote.                                                               *)
(***************************************************************************)
EXTENDS Library, FiniteSetTheorems, TLAPS

-----------------------------------------------------------------------------
(* The inductive invariant.                                                *)

Frames == [unit : Units, kind : Kinds \cup {None}, deps : SUBSET Units]

TypeInv == TypeOK /\ loading \in [Procs -> Seq(Frames)]

\* Who reads the index or a unit holds a lock, who writes the exclusive one.
Writing == {"save_units", "save_index", "write_index"}

Locked(p) ==
    /\ pc[p] = "read_index" => p \in shared \/ excl = p
    /\ pc[p] \in Writing => excl = p
    /\ pc[p] = "load" /\ loading[p][1].kind = None => p \in shared

LockInv == (excl # None => shared = {}) /\ \A p \in Procs : Locked(p)

\* A file is torn while it is written, or since its writer was killed.
TornInv ==
    /\ \A u \in Units : files[u] = Torn =>
          crashes > 0 \/ \E w \in Procs : pc[w] = "save_units" /\ writing[w] = u
    /\ index = Torn => crashes > 0 \/ \E w \in Procs : pc[w] = "write_index"
    /\ TornOnlyByCrash

\* What lib_save has open.
SaveOf(p) ==
    /\ pc[p] = "write_index" => index = Torn
    /\ pc[p] \in {"save_index", "write_index"} => Dirty(p) = {}
    /\ pc[p] = "save_units" /\ writing[p] # None => writing[p] \in Dirty(p)
    /\ pc[p] \notin {"save_units", "dead"} => writing[p] = None

SaveInv == \A p \in Procs : SaveOf(p)

\* What is listed has a file or waits in the cache to be written.
Backed(p, u) ==
    /\ cache[p][u] # None => mem[p][u] # None
    /\ mem[p][u] # None => files[u] # None \/ cache[p][u] # None
    /\ cache[p][u] # None => cache[p][u].dirty \/ files[u] # None

FileInv ==
    /\ \A p \in Procs, u \in Units : Backed(p, u)
    /\ \A u \in Units :
          index \notin {None, Torn} /\ index.entries[u] # None => files[u] # None

\* The units being loaded: the innermost may still have to be read.
Stack(p) ==
    /\ loading[p] # <<>>
    /\ loading[p][1].kind = None => cache[p][loading[p][1].unit] = None
    /\ \A i \in 2 .. Len(loading[p]) : loading[p][i].kind # None
    /\ \A i \in 1 .. Len(loading[p]) :
          loading[p][i].kind # None => files[loading[p][i].unit] # None

LoadInv == \A p \in Procs : pc[p] \in {"get_lock", "load"} => Stack(p)

\* The names a process saw in the index last are still in it: the list grows.
SeenIn(p, L) ==
    /\ L \subseteq Listed(mem[p])
    /\ seen[p].size = 1 + Cardinality(L)
    /\ index # None
    /\ index \notin {None, Torn} => L \subseteq Listed(index.entries)
    /\ \A w \in Procs : pc[w] = "write_index" => L \subseteq Listed(mem[w])

SeenInv == \A p \in Procs : seen[p].size = 0 \/ \E L \in SUBSET Units : SeenIn(p, L)

SavedInv ==
    /\ index = None => saved = {}
    /\ \A w \in Procs : pc[w] = "write_index" => saved \subseteq Listed(mem[w])
    /\ NoLostEntry

LibInv ==
    /\ TypeInv /\ LockInv /\ TornInv /\ SaveInv /\ FileInv /\ LoadInv /\ SeenInv
    /\ SavedInv /\ NeverCorrupt

-----------------------------------------------------------------------------
(* The steps of a process.                                                 *)

Opens(p) == lib_new(p) \/ CreateLockFile(p) \/ InitLock(p) \/ lib_init(p)
Loads(p) == GetLock(p) \/ ReadUnit(p) \/ LoadDep(p) \/ UnitLoaded(p)
Saves(p) == \/ SaveLock(p) \/ CloseUnit(p) \/ UnitsSaved(p) \/ OpenIndex(p)
            \/ CloseIndex(p) \/ \E u \in Units : OpenUnit(p, u)
Calls(p) == \/ \E u \in Units, k \in Kinds : lib_put(p, u, k)
            \/ \E u \in Units : lib_get(p, u)
            \/ lib_save(p)
Ends(p) == Exit(p) \/ Crash(p)

Acts(p) == Opens(p) \/ Loads(p) \/ Saves(p) \/ Calls(p) \/ Ends(p)

Rests == Tick \/ UNCHANGED vars

LEMMA Steps == [Next]_vars => Rests \/ \E p \in Procs : Acts(p)
BY Zenon DEF Next, Step, Request, Finished, Rests, Acts, Opens, Loads, Saves, Calls, Ends

\* A process leaves the memory, the locks and the fate of the others alone.
OthersKept(q) ==
    /\ pc'[q] = pc[q] /\ mem'[q] = mem[q] /\ seen'[q] = seen[q]
    /\ cache'[q] = cache[q] /\ loading'[q] = loading[q]
    /\ writing'[q] = writing[q] /\ failed'[q] = failed[q]

LocksKept(q) ==
    /\ q \in shared' <=> q \in shared
    /\ excl' = q <=> excl = q

Relocks(p) == \/ file_read_lock(p) \/ file_write_lock(p) \/ file_unlock(p)
              \/ UNCHANGED <<shared, excl>>

LEMMA LocksKeep ==
  ASSUME NEW p \in Procs, Relocks(p), NEW q \in Procs, q # p
  PROVE  LocksKept(q)
<1> USE LibraryAssumption DEF LocksKept
<1>1. CASE file_read_lock(p)
  BY <1>1 DEF file_read_lock
<1>2. CASE file_write_lock(p)
  BY <1>2 DEF file_write_lock
<1>3. CASE file_unlock(p)
  BY <1>3 DEF file_unlock
<1> QED BY Zenon, <1>1, <1>2, <1>3 DEF Relocks

LEMMA ActRelocks ==
  ASSUME NEW p \in Procs, Acts(p)
  PROVE  Relocks(p)
<1> USE DEF Relocks
<1>1. CASE Opens(p)
  BY Zenon, <1>1 DEF Opens, lib_new, CreateLockFile, InitLock, lib_init, Fatal
<1>2. CASE Loads(p)
  BY Zenon, <1>2 DEF Loads, GetLock, ReadUnit, LoadDep, UnitLoaded, Fatal
<1>3. CASE Saves(p)
  BY Zenon, <1>3 DEF Saves, SaveLock, CloseUnit, UnitsSaved, OpenIndex, CloseIndex, OpenUnit, Fatal
<1>4. CASE Calls(p) \/ Ends(p)
  BY Zenon, <1>4 DEF Calls, Ends, lib_put, lib_get, lib_save, Exit, Crash
<1> QED BY Zenon, <1>1, <1>2, <1>3, <1>4 DEF Acts

LEMMA OthersKeep ==
  ASSUME TypeInv, NEW p \in Procs, Acts(p), NEW q \in Procs, q # p
  PROVE  OthersKept(q)
<1>1. CASE lib_new(p)
  BY Zenon, <1>1 DEF lib_new, Goto, memory, history, TypeInv, TypeOK, OthersKept
<1>2. CASE CreateLockFile(p)
  BY Zenon, <1>2 DEF CreateLockFile, Goto, memory, history, TypeInv, TypeOK, OthersKept
<1>3. CASE InitLock(p)
  BY Zenon, <1>3 DEF InitLock, Goto, memory, history, TypeInv,
     TypeOK, OthersKept
<1>4. CASE lib_init(p)
  BY Zenon, <1>4 DEF lib_init, MergeIndex, Fatal, Goto, TypeInv, TypeOK, OthersKept
<1>5. CASE GetLock(p)
  BY Zenon, <1>5 DEF GetLock, Goto, memory, history, TypeInv, TypeOK, OthersKept
<1>6. CASE ReadUnit(p)
  BY Zenon, <1>6 DEF ReadUnit, Fatal, Goto, TypeInv, TypeOK, OthersKept
<1>7. CASE LoadDep(p)
  BY Zenon, <1>7 DEF LoadDep, Fatal, Goto, TypeInv, TypeOK, OthersKept
<1>8. CASE UnitLoaded(p)
  BY Zenon, <1>8 DEF UnitLoaded, PutAux, Goto, history, TypeInv, TypeOK, OthersKept
<1>9. CASE SaveLock(p)
  BY Zenon, <1>9 DEF SaveLock, Goto, memory, history, TypeInv, TypeOK, OthersKept
<1>10. ASSUME NEW u \in Units, OpenUnit(p, u) PROVE OthersKept(q)
  BY Zenon, <1>10 DEF OpenUnit, history, TypeInv, TypeOK, OthersKept
<1>11. CASE CloseUnit(p)
  BY Zenon, <1>11 DEF CloseUnit, history, TypeInv, TypeOK, OthersKept
<1>12. CASE UnitsSaved(p)
  BY Zenon, <1>12 DEF UnitsSaved, Goto, memory, history, TypeInv, TypeOK, OthersKept
<1>13. CASE OpenIndex(p)
  BY Zenon, <1>13 DEF OpenIndex, MergeIndex, Fatal, Goto, TypeInv, TypeOK, OthersKept
<1>14. CASE CloseIndex(p)
  BY Zenon, <1>14 DEF CloseIndex, Goto, TypeInv, TypeOK, OthersKept
<1>15. ASSUME NEW u \in Units, NEW k \in Kinds, lib_put(p, u, k) PROVE OthersKept(q)
  BY Zenon, <1>15 DEF lib_put, PutAux, history, TypeInv, TypeOK, OthersKept
<1>16. ASSUME NEW u \in Units, lib_get(p, u) PROVE OthersKept(q)
  BY Zenon, <1>16 DEF lib_get, Goto, history, TypeInv, TypeOK, OthersKept
<1>17. CASE lib_save(p)
  BY Zenon, <1>17 DEF lib_save, Goto, memory, history, TypeInv, TypeOK, OthersKept
<1>18. CASE Exit(p)
  BY Zenon, <1>18 DEF Exit, Goto, memory, history, TypeInv, TypeOK, OthersKept
<1>19. CASE Crash(p)
  BY Zenon, <1>19 DEF Crash, Goto, memory, TypeInv, TypeOK, OthersKept
<1> QED BY Zenon, <1>1, <1>2, <1>3, <1>4, <1>5, <1>6, <1>7, <1>8, <1>9, <1>10, <1>11, <1>12,
           <1>13, <1>14, <1>15, <1>16, <1>17, <1>18, <1>19 DEF Acts, Opens, Loads, Saves, Calls, Ends
-----------------------------------------------------------------------------
(* The stack of units being loaded.                                        *)

LEMMA FrameTop ==
  ASSUME NEW s \in Seq(Frames), s # <<>>
  PROVE  /\ Len(s) \in Nat \ {0} /\ s[1] \in Frames
         /\ s[1].unit \in Units /\ s[1].kind \in Kinds \cup {None} /\ s[1].deps \subseteq Units
<1>1. Len(s) \in Nat \ {0} /\ s[1] \in Frames
  OBVIOUS
<1> QED BY <1>1 DEF Frames

\* The innermost unit is read, and its dependencies are loaded one by one.
LEMMA FrameRead ==
  ASSUME NEW s \in Seq(Frames), s # <<>>, NEW r \in Frames
  PROVE  LET t == [s EXCEPT ![1] = r]
         IN  /\ t \in Seq(Frames) /\ t # <<>> /\ Len(t) = Len(s) /\ t[1] = r
             /\ \A i \in 2 .. Len(s) : t[i] = s[i]
<1>1. Len(s) \in Nat \ {0} /\ DOMAIN s = 1 .. Len(s)
  OBVIOUS
<1> QED BY <1>1

LEMMA FrameDeps ==
  ASSUME NEW s \in Seq(Frames), s # <<>>, NEW d \in Units
  PROVE  LET t == [s EXCEPT ![1].deps = @ \ {d}]
         IN  /\ t \in Seq(Frames) /\ t # <<>> /\ Len(t) = Len(s)
             /\ t[1].kind = s[1].kind /\ t[1].unit = s[1].unit
             /\ \A i \in 2 .. Len(s) : t[i] = s[i]
<1>1. Len(s) \in Nat \ {0} /\ DOMAIN s = 1 .. Len(s) /\ s[1] \in Frames
  OBVIOUS
<1>2. [s[1] EXCEPT !.deps = @ \ {d}] \in Frames
  BY <1>1 DEF Frames
<1> QED BY <1>1, <1>2 DEF Frames

\* lib_get for a dependency, and its return.
LEMMA FramePush ==
  ASSUME NEW s \in Seq(Frames), NEW u \in Units
  PROVE  LET t == <<Frame(u)>> \o s
         IN  /\ t \in Seq(Frames) /\ t # <<>> /\ Len(t) = Len(s) + 1
             /\ t[1].kind = None /\ t[1].unit = u
             /\ \A i \in 2 .. Len(t) : i - 1 \in 1 .. Len(s) /\ t[i] = s[i - 1]
<1>1. Frame(u) \in Frames /\ Frame(u).kind = None /\ Frame(u).unit = u
  BY DEF Frame, Frames
<1> QED BY <1>1

LEMMA FramePop ==
  ASSUME NEW s \in Seq(Frames), s # <<>>
  PROVE  /\ Tail(s) \in Seq(Frames) /\ Len(Tail(s)) = Len(s) - 1
         /\ Len(s) # 1 => Tail(s) # <<>>
         /\ \A i \in 1 .. Len(Tail(s)) : i + 1 \in 2 .. Len(s) /\ Tail(s)[i] = s[i + 1]
<1>1. Len(s) \in Nat \ {0}
  OBVIOUS
<1>2. Tail(s) \in Seq(Frames) /\ Len(Tail(s)) = Len(s) - 1
  OBVIOUS
<1>3. \A i \in 1 .. Len(Tail(s)) : Tail(s)[i] = s[i + 1]
  OBVIOUS
<1>4. \A i \in 1 .. Len(Tail(s)) : i + 1 \in 2 .. Len(s)
  BY <1>1, <1>2
<1>5. Len(s) # 1 => Tail(s) # <<>>
  <2>1. Len(s) # 1 => Len(Tail(s)) # 0
    BY <1>1, <1>2
  <2> QED BY <1>2, <2>1
<1> QED BY Zenon, <1>2, <1>3, <1>4, <1>5

\* What loading does to the stack: only a unit that is not in the cache is
\* still to be read, and the lock is held for that.
LEMMA LoadSteps ==
  ASSUME LibInv, NEW p \in Procs, Loads(p), pc'[p] \in {"get_lock", "load"}
  PROVE  /\ loading'[p] \in Seq(Frames) /\ Stack(p)'
         /\ loading'[p][1].kind = None => p \in shared'
<1>a. /\ loading \in [Procs -> Seq(Frames)] /\ loading[p] \in Seq(Frames)
      /\ Stack(p) /\ pc[p] \in {"get_lock", "load"}
      /\ files \in [Units -> Kinds \cup {None, Torn}]
      /\ cache \in [Procs -> [Units -> {None} \cup Cached]]
      /\ pc \in [Procs -> {"start", "create", "lock_ex", "lock_sh", "read_index", "ready",
                          "get_lock", "load", "save_lock", "save_units", "save_index",
                          "write_index", "done", "dead"}]
  <2>1. pc[p] \in {"get_lock", "load"}
    BY Zenon DEF Loads, GetLock, ReadUnit, LoadDep, UnitLoaded
  <2> QED BY Zenon, <2>1 DEF LibInv, TypeInv, TypeOK, LoadInv
<1>b. \A k \in Kinds : k # None
  BY Zenon, LibraryAssumption
<1>c. /\ Len(loading[p]) \in Nat \ {0} /\ loading[p] # <<>> /\ loading[p][1] \in Frames
      /\ loading[p][1].unit \in Units /\ loading[p][1].deps \subseteq Units
  BY Zenon, <1>a, FrameTop DEF Stack
<1>1. CASE GetLock(p)
  BY <1>1, <1>a DEF GetLock, file_read_lock, memory, disk, Stack
<1>2. CASE ReadUnit(p)
  <2> DEFINE s == loading[p]
             u == s[1].unit
             r == [s[1] EXCEPT !.kind = files[u], !.deps = Deps[u]]
             t == [s EXCEPT ![1] = r]
  <2>1. /\ files[u] \in Kinds
        /\ loading' = [loading EXCEPT ![p][1].kind = files[u], ![p][1].deps = Deps[u]]
        /\ files' = files
    BY Zenon, <1>2, <1>a DEF ReadUnit, Fatal, Goto, disk
  <2>2. loading'[p] = t
    BY <1>a, <2>1
  <2>3. Deps[u] \in SUBSET Units
    BY <1>c, LibraryAssumption
  <2>4. /\ t \in Seq(Frames) /\ t # <<>> /\ Len(t) = Len(s)
        /\ t[1].kind = files[u] /\ t[1].unit = u
        /\ \A k \in 2 .. Len(s) : t[k] = s[k]
    <3>1. r \in Frames /\ r.kind = files[u] /\ r.unit = u
      BY <1>c, <2>1, <2>3 DEF Frames
    <3> HIDE DEF r
    <3> QED BY <1>a, <1>c, <3>1, FrameRead
  <2> HIDE DEF t, u
  <2>5. \A k \in 1 .. Len(t) : t[k].kind # None => files[t[k].unit] # None
    <3>1. \A k \in 1 .. Len(t) : k = 1 \/ k \in 2 .. Len(s)
      BY <1>c, <2>4
    <3>2. \A k \in 2 .. Len(s) : s[k].kind # None => files[s[k].unit] # None
      BY <1>a, <1>c DEF Stack
    <3> QED BY Zenon, <1>b, <2>1, <2>4, <3>1, <3>2
  <2>6. \A k \in 2 .. Len(t) : t[k].kind # None
    BY <1>a, <2>4 DEF Stack
  <2> QED BY Zenon, <1>b, <2>1, <2>2, <2>4, <2>5, <2>6 DEF Stack
<1>3. CASE LoadDep(p)
  <2>1. PICK d \in loading[p][1].deps :
          \/ /\ cache[p][d] = None
             /\ file_read_lock(p)
             /\ loading' = [loading EXCEPT ![p] = <<Frame(d)>> \o @]
          \/ loading' = [loading EXCEPT ![p][1].deps = @ \ {d}]
    BY Zenon, <1>3, <1>a DEF LoadDep, Fatal, Goto
  <2>2. d \in Units /\ loading[p][1].kind # None
    BY Zenon, <1>3, <1>c, <2>1 DEF LoadDep
  <2>3. files' = files /\ cache' = cache
    BY Zenon, <1>3 DEF LoadDep, disk
  <2>4. CASE /\ cache[p][d] = None
             /\ file_read_lock(p)
             /\ loading' = [loading EXCEPT ![p] = <<Frame(d)>> \o @]
    <3> DEFINE s == loading[p]
               t == <<Frame(d)>> \o s
    <3>1. loading'[p] = t
      BY <1>a, <2>4
    <3>2. /\ t \in Seq(Frames) /\ t # <<>> /\ Len(t) = Len(s) + 1
          /\ t[1].kind = None /\ t[1].unit = d
          /\ \A k \in 2 .. Len(t) : k - 1 \in 1 .. Len(s) /\ t[k] = s[k - 1]
      BY Zenon, <1>a, <2>2, FramePush
    <3> HIDE DEF t
    <3>3. \A k \in 1 .. Len(s) : s[k].kind # None /\ files[s[k].unit] # None
      BY <1>a, <1>c, <2>2 DEF Stack
    <3>4. \A k \in 2 .. Len(t) : t[k].kind # None /\ files[t[k].unit] # None
      BY Zenon, <3>2, <3>3
    <3>5. \A k \in 1 .. Len(t) : k = 1 \/ k \in 2 .. Len(t)
      BY <3>2, <1>c
    <3>6. p \in shared'
      BY Zenon, <2>4 DEF file_read_lock
    <3> QED BY Zenon, <2>3, <2>4, <3>1, <3>2, <3>4, <3>5, <3>6 DEF Stack
  <2>5. CASE loading' = [loading EXCEPT ![p][1].deps = @ \ {d}]
    <3> DEFINE s == loading[p]
               t == [s EXCEPT ![1].deps = @ \ {d}]
    <3>1. loading'[p] = t
      BY <1>a, <2>5
    <3>2. /\ t \in Seq(Frames) /\ t # <<>> /\ Len(t) = Len(s)
          /\ t[1].kind = s[1].kind /\ t[1].unit = s[1].unit
          /\ \A k \in 2 .. Len(s) : t[k] = s[k]
      BY <1>a, <2>2, FrameDeps DEF Stack
    <3> HIDE DEF t
    <3>3. \A k \in 1 .. Len(t) : t[k].kind # None /\ files[t[k].unit] # None
      BY <1>a, <1>c, <2>2, <3>2 DEF Stack
    <3>4. \A k \in 2 .. Len(t) : k \in 1 .. Len(t)
      BY <1>c, <3>2
    <3> QED BY Zenon, <2>2, <2>3, <3>1, <3>2, <3>3, <3>4 DEF Stack
  <2> QED BY Zenon, <2>1, <2>4, <2>5
<1>4. CASE UnitLoaded(p)
  <2> DEFINE s == loading[p]
             t == Tail(s)
  <2>1. loading' = [loading EXCEPT ![p] = Tail(@)] /\ files' = files
    BY Zenon, <1>4 DEF UnitLoaded, disk
  <2>2. loading'[p] = t
    BY <1>a, <2>1
  <2>3. Len(s) # 1
    BY Zenon, <1>4, <1>a DEF UnitLoaded, Goto
  <2>4. /\ t \in Seq(Frames) /\ Len(t) = Len(s) - 1 /\ t # <<>>
        /\ \A k \in 1 .. Len(t) : k + 1 \in 2 .. Len(s) /\ t[k] = s[k + 1]
    BY Zenon, <1>a, <2>3, FramePop DEF Stack
  <2> HIDE DEF t
  <2>5. \A k \in 2 .. Len(s) : s[k].kind # None /\ files[s[k].unit] # None
    BY <1>a, <1>c DEF Stack
  <2>6. \A k \in 1 .. Len(t) : t[k].kind # None /\ files[t[k].unit] # None
    BY Zenon, <2>4, <2>5
  <2>7. 1 \in 1 .. Len(t) /\ \A k \in 2 .. Len(t) : k \in 1 .. Len(t)
    BY <1>c, <2>3, <2>4
  <2> QED BY Zenon, <2>1, <2>2, <2>4, <2>6, <2>7 DEF Stack
<1> QED BY Zenon, <1>1, <1>2, <1>3, <1>4 DEF Loads

-----------------------------------------------------------------------------
(* Locks.                                                                  *)

Labels == {"start", "create", "lock_ex", "lock_sh", "read_index", "ready", "get_lock", "load",
           "save_lock", "save_units", "save_index", "write_index", "done", "dead"}

\* Where a process goes.
LEMMA LoadsGoto ==
  ASSUME pc \in [Procs -> Labels], NEW p \in Procs, Loads(p)
  PROVE  pc'[p] \in {"load", "ready", "dead"} /\ pc[p] \in {"get_lock", "load"}
BY Zenon DEF Loads, GetLock, ReadUnit, LoadDep, UnitLoaded, Fatal, Goto

LEMMA CallsGoto ==
  ASSUME pc \in [Procs -> Labels], NEW p \in Procs, Calls(p) \/ Ends(p)
  PROVE  pc'[p] \in {"ready", "get_lock", "save_lock", "done", "dead"}
BY Zenon DEF Calls, Ends, lib_put, lib_get, lib_save, Exit, Crash, Goto

LEMMA OpensGoto ==
  ASSUME pc \in [Procs -> Labels], NEW p \in Procs, Opens(p)
  PROVE  pc'[p] \in {"create", "lock_ex", "lock_sh", "read_index", "ready", "dead"}
BY Zenon DEF Opens, lib_new, CreateLockFile, InitLock, lib_init, Fatal, Goto

\* A lock is held wherever the library is read or written: what the loading
\* of a dependency leaves unlocked is not read any more.
LEMMA LockStep ==
  ASSUME LibInv, NEW p \in Procs, Acts(p)
  PROVE  LockInv'
<1>t. TypeInv
  BY Zenon DEF LibInv
<1>1. excl' # None => shared' = {}
  <2>1. Relocks(p)
    BY Zenon, ActRelocks
  <2> QED BY <2>1 DEF Relocks, file_read_lock, file_write_lock, file_unlock, LibInv, LockInv
<1>2. ASSUME NEW q \in Procs, q # p PROVE Locked(q)'
  BY Zenon, <1>2, <1>t, OthersKeep, ActRelocks, LocksKeep
     DEF OthersKept, LocksKept, LibInv, LockInv, Locked
<1>3. Locked(p)'
  <2>t. pc \in [Procs -> Labels]
    BY Zenon, <1>t DEF TypeInv, TypeOK, Labels
  <2>l. Locked(p)
    BY Zenon DEF LibInv, LockInv
  <2>1. CASE InitLock(p)
    BY <2>1, <2>t DEF InitLock, file_read_lock, file_write_lock, Goto, Locked, Writing
  <2>2. CASE lib_new(p) \/ CreateLockFile(p) \/ lib_init(p)
    <3>1. pc'[p] \in {"create", "lock_ex", "lock_sh", "ready", "dead"}
      BY Zenon, <2>2, <2>t DEF lib_new, CreateLockFile, lib_init, Fatal, Goto
    <3> QED BY <3>1 DEF Locked, Writing
  <2>3. CASE Loads(p)
    <3>1. pc'[p] \in {"load", "ready", "dead"}
      BY Zenon, <2>t, <2>3, LoadsGoto
    <3>2. pc'[p] = "load" /\ loading'[p][1].kind = None => p \in shared'
      BY Zenon, <2>3, LoadSteps
    <3> QED BY <3>1, <3>2 DEF Locked, Writing
  <2>4. CASE SaveLock(p)
    BY <2>4, <2>t DEF SaveLock, file_write_lock, Goto, Locked, Writing
  <2>5. CASE CloseUnit(p) \/ \E u \in Units : OpenUnit(p, u)
    BY Zenon, <2>5, <2>l DEF CloseUnit, OpenUnit, Locked
  <2>6. CASE UnitsSaved(p) \/ OpenIndex(p)
    <3>1. pc[p] \in Writing
      BY Zenon, <2>6 DEF UnitsSaved, OpenIndex, Writing
    <3>2. pc'[p] = "dead" \/ (pc'[p] \in {"save_index", "write_index"} /\ excl' = excl)
      BY Zenon, <2>6, <2>t DEF UnitsSaved, OpenIndex, Fatal, Goto
    <3> QED BY <2>l, <3>1, <3>2 DEF Locked, Writing
  <2>7. CASE CloseIndex(p)
    BY <2>7, <2>t DEF CloseIndex, Goto, Locked, Writing
  <2>8. CASE Calls(p) \/ Ends(p)
    <3>1. pc'[p] \in {"ready", "get_lock", "save_lock", "done", "dead"}
      BY Zenon, <2>8, <2>t, CallsGoto
    <3> QED BY <3>1 DEF Locked, Writing
  <2> QED BY Zenon, <2>1, <2>2, <2>3, <2>4, <2>5, <2>6, <2>7, <2>8 DEF Acts, Opens, Saves
<1> QED BY Zenon, <1>1, <1>2, <1>3 DEF LockInv

-----------------------------------------------------------------------------
(* Files.                                                                  *)

\* lib_save_unit has a dirty unit of the cache open.
LEMMA OpenFile ==
  ASSUME LibInv, NEW p \in Procs, pc[p] = "save_units", writing[p] # None
  PROVE  /\ writing[p] \in Units /\ cache[p][writing[p]] \in Cached
         /\ cache[p][writing[p]].kind \in Kinds
<1>1. writing[p] \in Units /\ cache[p][writing[p]] # None
  BY Zenon DEF LibInv, SaveInv, SaveOf, Dirty
<1>2. cache[p][writing[p]] \in Cached
  <2>1. cache \in [Procs -> [Units -> {None} \cup Cached]]
    BY Zenon DEF LibInv, TypeInv, TypeOK
  <2> QED BY <1>1, <2>1
<1> QED BY <1>1, <1>2 DEF Cached

\* A file, once there, does not go away.
LEMMA FilesKeep ==
  ASSUME LibInv, NEW p \in Procs, Acts(p), NEW u \in Units, files[u] # None
  PROVE  files'[u] # None
<1>1. CASE CloseUnit(p)
  <2>1. files'[u] = files[u] \/ files'[u] = cache[p][writing[p]].kind
    BY Zenon, <1>1 DEF CloseUnit, LibInv, TypeInv, TypeOK
  <2> QED BY Zenon, <1>1, <2>1, OpenFile, LibraryAssumption DEF CloseUnit
<1>2. ASSUME NEW v \in Units, OpenUnit(p, v) PROVE files'[u] # None
  BY Zenon, <1>2, LibraryAssumption DEF OpenUnit, LibInv, TypeInv, TypeOK
<1>3. CASE files' = files
  BY Zenon, <1>3
<1> QED BY Zenon, <1>1, <1>2, <1>3 DEF Acts, Opens, lib_new, CreateLockFile, InitLock, lib_init,
     Loads, GetLock, ReadUnit, LoadDep, UnitLoaded, Saves, SaveLock, UnitsSaved, OpenIndex,
     CloseIndex, Calls, lib_put, lib_get, lib_save, Ends, Exit, Crash, disk

\* The index is only written by lib_save.
LEMMA IndexSteps ==
  ASSUME NEW p \in Procs, Acts(p)
  PROVE  index' = index \/ index' = Torn \/ CloseIndex(p)
BY Zenon DEF Acts, Opens, lib_new, CreateLockFile, InitLock, lib_init, Loads, GetLock,
   ReadUnit, LoadDep, UnitLoaded, Saves, SaveLock, UnitsSaved, OpenIndex, OpenUnit,
   CloseUnit, Calls, lib_put, lib_get, lib_save, Ends, Exit, Crash, disk

\* The files lib_save writes.
LEMMA SaveStep ==
  ASSUME LibInv, NEW p \in Procs, Acts(p)
  PROVE  SaveInv'
<1>t. TypeInv /\ pc \in [Procs -> Labels]
  BY Zenon DEF LibInv, TypeInv, TypeOK, Labels
<1>1. ASSUME NEW q \in Procs, q # p PROVE SaveOf(q)'
  <2>1. SaveOf(q)
    BY Zenon DEF LibInv, SaveInv
  <2>2. OthersKept(q) /\ Dirty(q)' = Dirty(q)
    BY Zenon, <1>1, <1>t, OthersKeep DEF OthersKept, Dirty
  <2>3. pc[q] = "write_index" /\ index = Torn => index' = Torn
    <3>1. index' = index \/ index' = Torn \/ CloseIndex(p)
      BY Zenon, IndexSteps
    <3>2. CloseIndex(p) => excl = p
      BY Zenon DEF CloseIndex, LibInv, LockInv, Locked, Writing
    <3>3. pc[q] = "write_index" => excl = q
      BY Zenon DEF LibInv, LockInv, Locked, Writing
    <3> QED BY Zenon, <1>1, <3>1, <3>2, <3>3
  <2> QED BY Zenon, <2>1, <2>2, <2>3 DEF SaveOf, OthersKept
<1>2. SaveOf(p)'
  <2>1. SaveOf(p)
    BY Zenon DEF LibInv, SaveInv
  <2>2. CASE Opens(p) \/ Loads(p) \/ Calls(p) \/ Ends(p)
    <3>1. pc'[p] \notin {"save_units", "save_index", "write_index"}
      BY <2>2, <1>t, LoadsGoto, CallsGoto, OpensGoto
    <3>2. pc'[p] = "dead" \/ pc[p] \notin {"save_units", "dead"}
      BY Zenon, <1>t, <2>2 DEF Opens, lib_new, CreateLockFile, InitLock, lib_init, Loads, GetLock,
         ReadUnit, LoadDep, UnitLoaded, Calls, lib_put, lib_get, lib_save, Ends, Exit, Crash, Goto
    <3>3. writing' = writing
      BY Zenon, <2>2 DEF Opens, lib_new, CreateLockFile, InitLock, lib_init, Loads, GetLock, ReadUnit,
         LoadDep, UnitLoaded, Calls, lib_put, lib_get, lib_save, Ends, Exit, Crash, memory
    <3> QED BY Zenon, <2>1, <3>1, <3>2, <3>3 DEF SaveOf
  <2>3. CASE SaveLock(p)
    <3>1. pc[p] = "save_lock" /\ pc'[p] = "save_units" /\ writing' = writing
      BY Zenon, <1>t, <2>3 DEF SaveLock, Goto, memory
    <3> QED BY <2>1, <3>1 DEF SaveOf
  <2>4. ASSUME NEW u \in Units, OpenUnit(p, u) PROVE SaveOf(p)'
    <3>1. pc[p] = "save_units" /\ pc' = pc /\ writing'[p] = u /\ cache' = cache /\ u \in Dirty(p)
      BY Zenon, <2>4, <1>t DEF OpenUnit, TypeInv, TypeOK
    <3>2. Dirty(p)' = Dirty(p)
      BY Zenon, <3>1 DEF Dirty
    <3> QED BY <3>1, <3>2 DEF SaveOf
  <2>5. CASE CloseUnit(p)
    <3>1. pc[p] = "save_units" /\ pc' = pc /\ writing'[p] = None
      BY Zenon, <2>5, <1>t DEF CloseUnit, TypeInv, TypeOK
    <3> QED BY <3>1 DEF SaveOf
  <2>6. CASE UnitsSaved(p)
    <3>1. pc'[p] = "save_index" /\ writing[p] = None /\ writing' = writing /\ cache' = cache
          /\ Dirty(p) = {}
      BY Zenon, <2>6, <1>t DEF UnitsSaved, Goto, memory
    <3>2. Dirty(p)' = Dirty(p)
      BY Zenon, <3>1 DEF Dirty
    <3> QED BY <3>1, <3>2 DEF SaveOf
  <2>7. CASE OpenIndex(p)
    <3>1. /\ pc[p] = "save_index" /\ writing' = writing /\ cache' = cache
          /\ pc'[p] = "dead" \/ (pc'[p] = "write_index" /\ index' = Torn)
      BY Zenon, <2>7, <1>t DEF OpenIndex, Fatal, Goto
    <3>2. Dirty(p)' = Dirty(p)
      BY Zenon, <3>1 DEF Dirty
    <3> QED BY <2>1, <3>1, <3>2 DEF SaveOf
  <2>8. CASE CloseIndex(p)
    <3>1. pc[p] = "write_index" /\ pc'[p] = "ready" /\ writing' = writing
      BY Zenon, <2>8, <1>t DEF CloseIndex, Goto
    <3> QED BY <2>1, <3>1 DEF SaveOf
  <2> QED BY Zenon, <2>2, <2>3, <2>4, <2>5, <2>6, <2>7, <2>8 DEF Acts, Saves
<1> QED BY Zenon, <1>1, <1>2 DEF SaveInv

\* What is listed stays backed by a file or by the cache.
LEMMA FileStep ==
  ASSUME LibInv, NEW p \in Procs, Acts(p)
  PROVE  FileInv'
<1>t. /\ TypeInv /\ pc \in [Procs -> Labels] /\ mem \in [Procs -> Entries]
      /\ cache \in [Procs -> [Units -> {None} \cup Cached]]
  BY Zenon DEF LibInv, TypeInv, TypeOK, Labels
<1>b. \A q \in Procs, u \in Units : Backed(q, u)
  BY Zenon DEF LibInv, FileInv
<1>i. \A u \in Units :
        index \notin {None, Torn} /\ index.entries[u] # None => files[u] # None
  BY Zenon DEF LibInv, FileInv
<1>1. ASSUME NEW q \in Procs, q # p, NEW u \in Units PROVE Backed(q, u)'
  <2>1. mem'[q] = mem[q] /\ cache'[q] = cache[q]
    BY Zenon, <1>1, <1>t, OthersKeep DEF OthersKept
  <2>2. files[u] # None => files'[u] # None
    BY Zenon, <1>1, FilesKeep
  <2> QED BY Zenon, <1>1, <1>b, <2>1, <2>2 DEF Backed
<1>2. ASSUME NEW u \in Units PROVE Backed(p, u)'
  <2>0. CASE mem' = mem /\ cache' = cache
    BY Zenon, <2>0, <1>2, <1>b, FilesKeep DEF Backed
  <2>1. CASE MergeIndex(p) /\ index \notin {None, Torn} /\ cache' = cache
    <3>1. mem'[p][u] = IF index.entries[u] # None THEN index.entries[u] ELSE mem[p][u]
      BY <2>1, <1>2, <1>t DEF MergeIndex
    <3> QED BY Zenon, <2>1, <3>1, <1>2, <1>b, <1>i, FilesKeep DEF Backed
  <2>2. ASSUME NEW v \in Units, NEW k \in Kinds, PutAux(p, v, k, TRUE) PROVE Backed(p, u)'
    <3>1. /\ cache'[p][u] = IF u = v THEN [kind |-> k, dirty |-> TRUE] ELSE cache[p][u]
          /\ mem'[p][u] = IF u = v THEN k ELSE mem[p][u]
      BY <2>2, <1>2, <1>t DEF PutAux, Entries
    <3>2. [kind |-> k, dirty |-> TRUE] # None /\ k # None
      <4>1. [kind |-> k, dirty |-> TRUE] \in Cached
        BY DEF Cached
      <4> QED BY Zenon, <4>1, LibraryAssumption, MarksAssumption
    <3> QED BY <3>1, <3>2, <1>2, <1>b, FilesKeep DEF Backed
  <2>3. CASE UnitLoaded(p)
    <3> DEFINE v == loading[p][1].unit
               k == loading[p][1].kind
    <3>1. Stack(p) /\ loading[p] \in Seq(Frames)
      BY Zenon, <2>3 DEF UnitLoaded, LibInv, LoadInv, TypeInv
    <3>2. v \in Units /\ k \in Kinds /\ 1 \in 1 .. Len(loading[p])
      BY <2>3, <3>1, FrameTop DEF Stack, UnitLoaded
    <3>3. files[v] # None /\ files' = files
      BY Zenon, <2>3, <3>1, <3>2 DEF Stack, UnitLoaded, disk
    <3>4. PutAux(p, v, k, FALSE)
      BY Zenon, <2>3 DEF UnitLoaded
    <3> HIDE DEF v, k
    <3>5. /\ cache'[p][u] = IF u = v THEN [kind |-> k, dirty |-> FALSE] ELSE cache[p][u]
          /\ mem'[p][u] = IF u = v THEN k ELSE mem[p][u]
      BY <3>2, <3>4, <1>2, <1>t DEF PutAux, Entries
    <3>6. [kind |-> k, dirty |-> FALSE] # None /\ k # None
      <4>1. [kind |-> k, dirty |-> FALSE] \in Cached
        BY <3>2 DEF Cached
      <4> QED BY Zenon, <4>1, <3>2, LibraryAssumption, MarksAssumption
    <3> QED BY <3>3, <3>5, <3>6, <1>2, <1>b DEF Backed
  <2>4. CASE CloseUnit(p)
    <3> DEFINE v == writing[p]
    <3>1. v \in Units /\ cache[p][v] \in Cached /\ cache[p][v].kind \in Kinds
      BY Zenon, <2>4, OpenFile DEF CloseUnit
    <3>2. /\ cache' = [cache EXCEPT ![p][v].dirty = FALSE] /\ mem' = mem
          /\ files' = [files EXCEPT ![v] = cache[p][v].kind]
      BY Zenon, <2>4 DEF CloseUnit
    <3> HIDE DEF v
    <3>3. u # v => cache'[p][u] = cache[p][u]
      BY <3>1, <3>2, <1>2, <1>t
    <3>4. u = v => cache'[p][u] \in Cached /\ files'[u] \in Kinds
      BY <3>1, <3>2, <1>2, <1>t DEF Cached, TypeInv, TypeOK
    <3>5. cache[p][v] # None
      BY <3>1, MarksAssumption
    <3> QED BY Zenon, <3>2, <3>3, <3>4, <3>5, <1>2, <1>b, FilesKeep, LibraryAssumption, MarksAssumption
            DEF Backed
  <2>5. \A v \in Units, k \in Kinds : lib_put(p, v, k) => PutAux(p, v, k, TRUE)
    BY Zenon DEF lib_put
  <2>6. CASE lib_init(p) \/ OpenIndex(p)
    BY Zenon, <2>0, <2>1, <2>6 DEF lib_init, OpenIndex, IndexChanged
  <2>7. CASE \E v \in Units, k \in Kinds : lib_put(p, v, k)
    BY Zenon, <2>2, <2>5, <2>7
  <2> QED BY Zenon, <2>0, <2>3, <2>4, <2>6, <2>7 DEF Acts, Opens, lib_new, CreateLockFile, InitLock,
     Loads, GetLock, ReadUnit, LoadDep, Saves, SaveLock, UnitsSaved, CloseIndex, OpenUnit, Calls,
     lib_get, lib_save, Ends, Exit, Crash, memory
<1>3. ASSUME NEW u \in Units, index' \notin {None, Torn}, index'.entries[u] # None
      PROVE  files'[u] # None
  <2>1. CASE CloseIndex(p)
    <3>1. index'.entries = mem[p] /\ pc[p] = "write_index" /\ files' = files
      BY <2>1 DEF CloseIndex
    <3>2. cache[p][u] # None => ~cache[p][u].dirty
      BY Zenon, <3>1 DEF LibInv, SaveInv, SaveOf, Dirty
    <3> QED BY Zenon, <1>3, <1>b, <3>1, <3>2 DEF Backed
  <2>2. CASE index' = index
    BY Zenon, <1>3, <1>i, <2>2, FilesKeep
  <2>3. index' = index \/ index' = Torn \/ CloseIndex(p)
    BY Zenon, IndexSteps
  <2> QED BY Zenon, <1>3, <2>1, <2>2, <2>3
<1> QED BY Zenon, <1>1, <1>2, <1>3 DEF FileInv

-----------------------------------------------------------------------------
(* Errors.                                                                 *)

Dies(p, why) == failed' = [failed EXCEPT ![p] = why]

\* What a process that meets an error has found.
LEMMA FailedSteps ==
  ASSUME NEW p \in Procs, Acts(p)
  PROVE  LET u == loading[p][1].unit
         IN  \/ failed' = failed
             \/ Dies(p, "torn") /\ pc[p] \in {"read_index", "save_index"} /\ index = Torn
             \/ /\ pc[p] = "load" /\ loading[p][1].kind = None
                /\ \/ Dies(p, "torn") /\ files[u] = Torn
                   \/ Dies(p, "corrupt") /\ files[u] = None /\ mem[p][u] # None
             \/ Dies(p, "missing") \/ Dies(p, "outdated")
<1>1. CASE Opens(p)
  BY Zenon, <1>1 DEF Opens, lib_new, CreateLockFile, InitLock, lib_init, Fatal, Dies, history
<1>2. CASE Loads(p)
  BY Zenon, <1>2 DEF Loads, GetLock, ReadUnit, LoadDep, UnitLoaded, Fatal, Dies, history
<1>3. CASE Saves(p)
  BY Zenon, <1>3 DEF Saves, SaveLock, CloseUnit, UnitsSaved, OpenIndex, CloseIndex, OpenUnit, Fatal,
     Dies, history
<1>4. CASE Calls(p) \/ Ends(p)
  BY Zenon, <1>4 DEF Calls, Ends, lib_put, lib_get, lib_save, Exit, Crash, history
<1> QED BY Zenon, <1>1, <1>2, <1>3, <1>4 DEF Acts

\* The exclusive lock keeps a reader away from what is being written.
LEMMA TornRead ==
  ASSUME LibInv, NEW p \in Procs,
         \/ pc[p] \in {"read_index", "save_index"} /\ index = Torn
         \/ /\ pc[p] = "load" /\ loading[p][1].kind = None
            /\ \E u \in Units : files[u] = Torn
  PROVE  crashes > 0
<1>1. \A w \in Procs : pc[w] \in Writing => excl = w
  BY Zenon DEF LibInv, LockInv, Locked
<1>2. excl # None => shared = {}
  BY Zenon DEF LibInv, LockInv
<1>3. \A w \in Procs : w # None
  BY Zenon, LibraryAssumption
<1>4. CASE pc[p] \in {"read_index", "save_index"} /\ index = Torn
  <2>1. p \in shared \/ excl = p
    BY <1>1, <1>4 DEF LibInv, LockInv, Locked, Writing
  <2>2. crashes > 0 \/ \E w \in Procs : pc[w] = "write_index"
    BY Zenon, <1>4 DEF LibInv, TornInv
  <2> QED BY <1>1, <1>2, <1>3, <1>4, <2>1, <2>2 DEF Writing
<1>5. CASE /\ pc[p] = "load" /\ loading[p][1].kind = None
           /\ \E u \in Units : files[u] = Torn
  <2>1. p \in shared
    BY Zenon, <1>5 DEF LibInv, LockInv, Locked
  <2>2. crashes > 0 \/ \E w \in Procs : pc[w] = "save_units"
    BY Zenon, <1>5 DEF LibInv, TornInv
  <2> QED BY <1>1, <1>2, <1>3, <2>1, <2>2 DEF Writing
<1> QED BY Zenon, <1>4, <1>5

\* The innermost unit of a lib_get is a unit.
LEMMA LoadUnit ==
  ASSUME LibInv, NEW p \in Procs, pc[p] = "load"
  PROVE  loading[p][1].unit \in Units
<1>1. loading[p] \in Seq(Frames) /\ loading[p] # <<>>
  BY Zenon DEF LibInv, TypeInv, LoadInv, Stack
<1> QED BY Zenon, <1>1, FrameTop

LEMMA CorruptStep ==
  ASSUME LibInv, NEW p \in Procs, Acts(p)
  PROVE  NeverCorrupt'
<1> DEFINE u == loading[p][1].unit
<1>1. failed \in [Procs -> {"no", "torn", "missing", "corrupt", "outdated"}] /\ NeverCorrupt
  BY Zenon DEF LibInv, TypeInv, TypeOK
<1>2. ~(pc[p] = "load" /\ loading[p][1].kind = None /\ files[u] = None /\ mem[p][u] # None)
  <2> SUFFICES ASSUME pc[p] = "load", loading[p][1].kind = None, files[u] = None, mem[p][u] # None
               PROVE  FALSE
    OBVIOUS
  <2>1. u \in Units
    BY Zenon, LoadUnit
  <2>2. cache[p][u] = None
    BY Zenon DEF LibInv, LoadInv, Stack
  <2> QED BY Zenon, <2>1, <2>2 DEF LibInv, FileInv, Backed
<1>3. \/ failed' = failed
      \/ Dies(p, "torn") \/ Dies(p, "missing") \/ Dies(p, "outdated")
  BY Zenon, <1>2, FailedSteps
<1> HIDE DEF u
<1> QED BY <1>1, <1>3 DEF NeverCorrupt, Dies

LEMMA TornStep ==
  ASSUME LibInv, NEW p \in Procs, Acts(p)
  PROVE  TornInv'
<1>t. /\ TypeInv /\ pc \in [Procs -> Labels] /\ crashes \in Nat
      /\ files \in [Units -> Kinds \cup {None, Torn}]
      /\ failed \in [Procs -> {"no", "torn", "missing", "corrupt", "outdated"}]
  <2>1. crashes \in 0 .. MaxCrashes
    BY Zenon DEF LibInv, TypeInv, TypeOK
  <2>2. crashes \in Nat
    BY <2>1, LibraryAssumption
  <2> QED BY Zenon, <2>2 DEF LibInv, TypeInv, TypeOK, Labels
<1>o. ASSUME NEW q \in Procs, q # p PROVE pc'[q] = pc[q] /\ writing'[q] = writing[q]
  BY Zenon, <1>o, <1>t, OthersKeep DEF OthersKept
<1>c. crashes' = crashes \/ crashes' > 0
  <2>1. crashes' = crashes \/ crashes' = crashes + 1
    BY Zenon DEF Acts, Opens, lib_new, CreateLockFile, InitLock, lib_init, Loads, GetLock, ReadUnit,
       LoadDep, UnitLoaded, Saves, SaveLock, UnitsSaved, OpenIndex, CloseIndex, OpenUnit, CloseUnit,
       Calls, lib_put, lib_get, lib_save, Ends, Exit, Crash, history
  <2> QED BY <1>t, <2>1
<1>1. ASSUME NEW u \in Units, files'[u] = Torn
      PROVE  crashes' > 0 \/ \E w \in Procs : pc'[w] = "save_units" /\ writing'[w] = u
  <2>1. ASSUME NEW v \in Units, OpenUnit(p, v), u = v
        PROVE  pc'[p] = "save_units" /\ writing'[p] = u
    BY Zenon, <2>1, <1>t DEF OpenUnit, TypeInv, TypeOK
  <2>2. ASSUME files[u] = Torn, pc[p] # "save_units" \/ writing[p] # u
        PROVE  crashes' > 0 \/ \E w \in Procs : pc'[w] = "save_units" /\ writing'[w] = u
    <3>1. crashes > 0 \/ \E w \in Procs : pc[w] = "save_units" /\ writing[w] = u
      BY Zenon, <2>2 DEF LibInv, TornInv
    <3>2. ASSUME NEW w \in Procs, pc[w] = "save_units", writing[w] = u
          PROVE  pc'[w] = "save_units" /\ writing'[w] = u
      BY Zenon, <1>o, <2>2, <3>2
    <3>3. crashes > 0 => crashes' > 0
      BY Zenon, <1>c
    <3> QED BY Zenon, <3>1, <3>2, <3>3
  <2>3. ASSUME NEW v \in Units, OpenUnit(p, v), u # v
        PROVE  files[u] = Torn /\ writing[p] # u
    BY Zenon, <2>3, <1>1, <1>t, LibraryAssumption DEF OpenUnit
  <2>4. CASE CloseUnit(p)
    <3>1. writing[p] \in Units /\ cache[p][writing[p]].kind \in Kinds
      BY Zenon, <2>4, OpenFile DEF CloseUnit
    <3>2. files'[u] = IF u = writing[p] THEN cache[p][u].kind ELSE files[u]
      BY Zenon, <2>4, <1>1, <1>t, <3>1 DEF CloseUnit
    <3>3. files[u] = Torn /\ writing[p] # u
      BY Zenon, <1>1, <3>1, <3>2, LibraryAssumption
    <3> QED BY Zenon, <2>2, <3>3
  <2>5. CASE Crash(p)
    <3>1. crashes' = crashes + 1
      BY Zenon, <2>5 DEF Crash
    <3> QED BY <1>t, <3>1
  <2>6. \/ files' = files /\ (pc[p] # "save_units" \/ writing[p] = None)
        \/ Crash(p) \/ CloseUnit(p) \/ \E v \in Units : OpenUnit(p, v)
    BY Zenon DEF Acts, Opens, lib_new, CreateLockFile, InitLock, lib_init, Loads, GetLock, ReadUnit,
       LoadDep, UnitLoaded, Saves, SaveLock, UnitsSaved, OpenIndex, CloseIndex, Calls, lib_put,
       lib_get, lib_save, Ends, Exit, disk
  <2>7. u # None
    BY Zenon, LibraryAssumption
  <2> QED BY Zenon, <1>1, <2>1, <2>2, <2>3, <2>4, <2>5, <2>6, <2>7
<1>2. ASSUME index' = Torn
      PROVE  crashes' > 0 \/ \E w \in Procs : pc'[w] = "write_index"
  <2>1. CASE index = Torn /\ pc[p] # "write_index"
    BY Zenon, <1>o, <1>c, <2>1 DEF LibInv, TornInv
  <2>2. CASE CloseIndex(p)
    <3>1. mem[p] \in Entries /\ clock \in 1 .. MaxTime
      BY Zenon DEF LibInv, TypeInv, TypeOK
    <3>2. index' \in Indexes
      BY <2>2, <3>1, LibraryAssumption DEF CloseIndex, Indexes
    <3> QED BY Zenon, <1>2, <3>2, MarksAssumption
  <2>3. CASE Crash(p)
    <3>1. crashes' = crashes + 1
      BY Zenon, <2>3 DEF Crash
    <3> QED BY <1>t, <3>1
  <2>4. \/ index' = index /\ pc[p] # "write_index"
        \/ pc'[p] = "write_index" \/ Crash(p) \/ CloseIndex(p)
    BY Zenon, <1>t DEF Acts, Opens, lib_new, CreateLockFile, InitLock, lib_init, Loads, GetLock,
       ReadUnit, LoadDep, UnitLoaded, Saves, SaveLock, UnitsSaved, OpenIndex, OpenUnit, CloseUnit,
       Calls, lib_put, lib_get, lib_save, Ends, Exit, disk, Goto, Fatal
  <2> QED BY Zenon, <1>2, <2>1, <2>2, <2>3, <2>4
<1>3. TornOnlyByCrash'
  <2>1. ASSUME Dies(p, "torn") PROVE crashes > 0 \/ failed' = failed
    <3>1. failed'[p] = "torn"
      BY Zenon, <2>1, <1>t DEF Dies
    <3>2. ~Dies(p, "corrupt") /\ ~Dies(p, "missing") /\ ~Dies(p, "outdated")
      BY <3>1, <1>t DEF Dies
    <3> QED BY Zenon, <3>2, FailedSteps, TornRead, LoadUnit
  <2>2. ASSUME NEW q \in Procs, failed'[q] = "torn" PROVE crashes > 0
    <3>1. CASE failed' = failed
      BY Zenon, <2>2, <3>1 DEF LibInv, TornInv, TornOnlyByCrash
    <3>2. CASE Dies(p, "torn")
      BY Zenon, <2>1, <3>1, <3>2
    <3>3. ASSUME NEW why, why # "torn", Dies(p, why) PROVE crashes > 0
      <4>1. failed[q] = "torn"
        BY Zenon, <2>2, <3>3, <1>t DEF Dies
      <4> QED BY Zenon, <4>1 DEF LibInv, TornInv, TornOnlyByCrash
    <3>4. \/ failed' = failed
          \/ Dies(p, "torn") \/ Dies(p, "corrupt") \/ Dies(p, "missing") \/ Dies(p, "outdated")
      BY Zenon, FailedSteps
    <3> QED BY <3>1, <3>2, <3>3, <3>4
  <2>3. crashes > 0 => crashes' > 0
    BY Zenon, <1>c
  <2> QED BY Zenon, <2>2, <2>3 DEF TornOnlyByCrash
<1> QED BY Zenon, <1>1, <1>2, <1>3 DEF TornInv
\* The stacks of the calls in progress.
LEMMA LoadStep ==
  ASSUME LibInv, NEW p \in Procs, Acts(p)
  PROVE  LoadInv'
<1>t. TypeInv /\ pc \in [Procs -> Labels] /\ loading \in [Procs -> Seq(Frames)]
  BY Zenon DEF LibInv, TypeInv, TypeOK, Labels
<1>1. ASSUME NEW q \in Procs, q # p, pc'[q] \in {"get_lock", "load"} PROVE Stack(q)'
  <2>1. /\ pc'[q] = pc[q] /\ loading'[q] = loading[q] /\ cache'[q] = cache[q]
    BY Zenon, <1>1, <1>t, OthersKeep DEF OthersKept
  <2>2. Stack(q)
    BY Zenon, <1>1, <2>1 DEF LibInv, LoadInv
  <2>3. \A i \in 1 .. Len(loading[q]) : loading[q][i].unit \in Units
    <3>1. loading[q] \in Seq(Frames)
      BY Zenon, <1>t
    <3>2. \A i \in 1 .. Len(loading[q]) : loading[q][i] \in Frames
      BY <3>1
    <3> QED BY <3>2 DEF Frames
  <2> QED BY Zenon, <2>1, <2>2, <2>3, FilesKeep DEF Stack
<1>2. ASSUME pc'[p] \in {"get_lock", "load"} PROVE Stack(p)'
  <2>1. CASE Loads(p)
    BY Zenon, <1>2, <2>1, LoadSteps
  <2>2. ASSUME NEW u \in Units, lib_get(p, u) PROVE Stack(p)'
    <3>1. loading'[p] = <<Frame(u)>> /\ cache'[p][u] = None
      BY <2>2, <1>t DEF lib_get
    <3>2. /\ Len(<<Frame(u)>>) = 1 /\ <<Frame(u)>> # <<>> /\ <<Frame(u)>>[1].kind = None
          /\ <<Frame(u)>>[1].unit = u
      BY DEF Frame
    <3> HIDE DEF Frame
    <3> QED BY <3>1, <3>2 DEF Stack
  <2>3. Loads(p) \/ \E u \in Units : lib_get(p, u)
    BY Zenon, <1>2, <1>t DEF Acts, Opens, lib_new, CreateLockFile, InitLock, lib_init, Saves, SaveLock,
       UnitsSaved, OpenIndex, CloseIndex, OpenUnit, CloseUnit, Calls, lib_put, lib_save, Ends, Exit,
       Crash, Goto, Fatal
  <2> QED BY Zenon, <2>1, <2>2, <2>3
<1> QED BY Zenon, <1>1, <1>2 DEF LoadInv

-----------------------------------------------------------------------------
(* The index.                                                              *)

\* One process writes at a time.
LEMMA WriterAlone ==
  ASSUME LibInv, NEW p \in Procs, pc[p] \in Writing, NEW q \in Procs, q # p
  PROVE  pc[q] \notin Writing
BY Zenon DEF LibInv, LockInv, Locked

\* Names are only added to the list in memory.
LEMMA ListedKeep ==
  ASSUME LibInv, NEW p \in Procs, Acts(p), NEW q \in Procs
  PROVE  Listed(mem[q]) \subseteq Listed(mem'[q])
<1>t. TypeInv /\ mem \in [Procs -> [Units -> Kinds \cup {None}]]
  BY Zenon DEF LibInv, TypeInv, TypeOK, Entries
<1>1. CASE q # p
  BY Zenon, <1>1, <1>t, OthersKeep DEF OthersKept
<1>2. CASE mem' = mem
  BY Zenon, <1>2
<1>3. CASE MergeIndex(p)
  <2> SUFFICES ASSUME NEW u \in Units, mem[p][u] # None, q = p PROVE mem'[p][u] # None
    BY Zenon, <1>1 DEF Listed
  <2>1. mem'[p][u] = IF index.entries[u] # None THEN index.entries[u] ELSE mem[p][u]
    BY <1>3, <1>t DEF MergeIndex
  <2> QED BY Zenon, <2>1
<1>4. ASSUME NEW v \in Units, NEW k \in Kinds, NEW d \in BOOLEAN, PutAux(p, v, k, d)
      PROVE  Listed(mem[q]) \subseteq Listed(mem'[q])
  <2> SUFFICES ASSUME NEW u \in Units, mem[p][u] # None, q = p PROVE mem'[p][u] # None
    BY Zenon, <1>1 DEF Listed
  <2>1. mem'[p][u] = IF u = v THEN k ELSE mem[p][u]
    BY <1>4, <1>t DEF PutAux
  <2> QED BY Zenon, <2>1, LibraryAssumption
<1>5. CASE UnitLoaded(p)
  <2>1. loading[p] \in Seq(Frames) /\ loading[p] # <<>>
    BY Zenon, <1>5 DEF UnitLoaded, LibInv, LoadInv, Stack, TypeInv
  <2>2. loading[p][1].unit \in Units /\ loading[p][1].kind \in Kinds
    BY Zenon, <1>5, <2>1, FrameTop DEF UnitLoaded
  <2>3. PutAux(p, loading[p][1].unit, loading[p][1].kind, FALSE)
    BY Zenon, <1>5 DEF UnitLoaded
  <2>4. FALSE \in BOOLEAN
    OBVIOUS
  <2> QED BY Zenon, <1>4, <2>2, <2>3, <2>4
<1>6. CASE \E u \in Units, k \in Kinds : lib_put(p, u, k)
  <2>1. TRUE \in BOOLEAN
    OBVIOUS
  <2> QED BY Zenon, <1>4, <1>6, <2>1 DEF lib_put
<1> QED BY Zenon, <1>2, <1>3, <1>5, <1>6 DEF Acts, Opens, lib_new, CreateLockFile, InitLock, lib_init,
     Loads, GetLock, ReadUnit, LoadDep, Saves, SaveLock, UnitsSaved, OpenIndex, CloseIndex, OpenUnit,
     CloseUnit, Calls, lib_get, lib_save, Ends, Exit, Crash, memory

\* lib_save writes at least the names in the index: it has just read them, or
\* the index has as many names as when it was last read or written.
LEMMA OpenedListed ==
  ASSUME LibInv, NEW p \in Procs, OpenIndex(p), pc'[p] = "write_index"
  PROVE  \/ index = None
         \/ index \notin {None, Torn} /\ Listed(index.entries) \subseteq Listed(mem'[p])
<1>t. /\ pc \in [Procs -> Labels] /\ mem \in [Procs -> [Units -> Kinds \cup {None}]]
      /\ index \in {None, Torn} \cup [entries : Entries, mtime : 1 .. MaxTime]
  BY Zenon DEF LibInv, TypeInv, TypeOK, Entries, Labels
<1>1. CASE MergeIndex(p) /\ IndexChanged(p) /\ index # Torn
  <2> SUFFICES ASSUME NEW u \in Units, index.entries[u] # None PROVE mem'[p][u] # None
    BY Zenon, <1>1 DEF Listed, IndexChanged
  <2>1. mem'[p][u] = IF index.entries[u] # None THEN index.entries[u] ELSE mem[p][u]
    BY <1>1, <1>t DEF MergeIndex
  <2> QED BY Zenon, <2>1
<1>2. CASE ~IndexChanged(p) /\ mem' = mem
  <2> SUFFICES ASSUME index # None
               PROVE  index # Torn /\ Listed(index.entries) \subseteq Listed(mem[p])
    BY Zenon, <1>2
  <2> DEFINE I == Listed(index.entries)
  <2>1. index # Torn /\ SizeOf(index.entries) = seen[p].size
    BY Zenon, <1>2 DEF IndexChanged
  <2>2. IsFiniteSet(I) /\ Cardinality(I) \in Nat
    BY LibraryAssumption, FS_Subset, FS_CardinalityType DEF Listed
  <2>3. seen[p].size = 1 + Cardinality(I) /\ seen[p].size # 0
    BY <2>1, <2>2 DEF SizeOf
  <2>4. PICK L \in SUBSET Units : SeenIn(p, L)
    BY Zenon, <2>3 DEF LibInv, SeenInv
  <2>5. L \subseteq I /\ L \subseteq Listed(mem[p]) /\ seen[p].size = 1 + Cardinality(L)
    BY Zenon, <2>1, <2>4 DEF SeenIn
  <2> HIDE DEF I
  <2>6. Cardinality(L) \in Nat
    BY <2>2, <2>5, FS_Subset, FS_CardinalityType
  <2>7. Cardinality(L) = Cardinality(I)
    BY <2>2, <2>3, <2>5, <2>6
  <2>8. I = L
    BY <2>2, <2>5, <2>7, FS_Subset
  <2> QED BY Zenon, <2>1, <2>5, <2>8 DEF I
<1>3. (MergeIndex(p) /\ IndexChanged(p) /\ index # Torn) \/ (~IndexChanged(p) /\ mem' = mem)
  BY Zenon, <1>t DEF OpenIndex, Fatal, Goto
<1> QED BY Zenon, <1>1, <1>2, <1>3

\* Only lib_save comes to write the index.
LEMMA WriterOpened ==
  ASSUME LibInv, NEW p \in Procs, Acts(p), NEW w \in Procs, pc'[w] = "write_index"
  PROVE  \/ w # p /\ pc[w] = "write_index" /\ mem'[w] = mem[w] /\ ~CloseIndex(p) /\ ~OpenIndex(p)
         \/ w = p /\ OpenIndex(p)
<1>t. TypeInv /\ pc \in [Procs -> Labels]
  BY Zenon DEF LibInv, TypeInv, TypeOK, Labels
<1>1. CASE w # p
  <2>1. pc[w] = "write_index" /\ mem'[w] = mem[w]
    BY Zenon, <1>1, <1>t, OthersKeep DEF OthersKept
  <2>2. CloseIndex(p) \/ OpenIndex(p) => pc[p] \in Writing
    BY Zenon DEF CloseIndex, OpenIndex, Writing
  <2>3. pc[w] \in Writing
    BY <2>1 DEF Writing
  <2> QED BY Zenon, <1>1, <2>1, <2>2, <2>3, WriterAlone
<1>2. CASE w = p
  BY Zenon, <1>2, <1>t DEF Acts, Opens, lib_new, CreateLockFile, InitLock, lib_init, Loads, GetLock,
     ReadUnit, LoadDep, UnitLoaded, Saves, SaveLock, UnitsSaved, CloseIndex, OpenUnit, CloseUnit,
     Calls, lib_put, lib_get, lib_save, Ends, Exit, Crash, Fatal, Goto
<1> QED BY Zenon, <1>1, <1>2
\* The index after lib_save is what lib_save has in memory.
LEMMA IndexClosed ==
  ASSUME LibInv, NEW p \in Procs, CloseIndex(p)
  PROVE  /\ pc[p] = "write_index" /\ index' \notin {None, Torn} /\ index'.entries = mem[p]
         /\ index' \in [entries : Entries, mtime : 1 .. MaxTime]
         /\ saved' = saved \cup {u \in Units : cache[p][u] # None} /\ mem' = mem
<1>1. mem[p] \in Entries /\ clock \in 1 .. MaxTime
  BY Zenon DEF LibInv, TypeInv, TypeOK
<1>2. index' \in [entries : Entries, mtime : 1 .. MaxTime] /\ index'.entries = mem[p]
  BY <1>1 DEF CloseIndex
<1>3. index' \in Indexes
  BY <1>2, LibraryAssumption DEF Indexes
<1> QED BY Zenon, <1>2, <1>3, MarksAssumption DEF CloseIndex

LEMMA SavedStep ==
  ASSUME LibInv, NEW p \in Procs, Acts(p)
  PROVE  SavedInv'
<1>s. SavedInv
  BY Zenon DEF LibInv
<1>1. saved' = saved \/ CloseIndex(p)
  BY Zenon DEF Acts, Opens, lib_new, CreateLockFile, InitLock, lib_init, Loads, GetLock, ReadUnit,
     LoadDep, UnitLoaded, Saves, SaveLock, UnitsSaved, OpenIndex, OpenUnit, CloseUnit, Calls, lib_put,
     lib_get, lib_save, Ends, Exit, Crash, history
<1>2. CASE CloseIndex(p)
  <2>1. saved' \subseteq Listed(mem[p])
    <3>1. saved \subseteq Listed(mem[p])
      BY Zenon, <1>2, <1>s, IndexClosed DEF SavedInv
    <3>2. {u \in Units : cache[p][u] # None} \subseteq Listed(mem[p])
      BY Zenon DEF LibInv, FileInv, Backed, Listed
    <3> QED BY Zenon, <1>2, <3>1, <3>2, IndexClosed
  <2>2. \A w \in Procs : pc'[w] # "write_index"
    BY Zenon, <1>2, WriterOpened DEF CloseIndex, OpenIndex
  <2> QED BY Zenon, <1>2, <2>1, <2>2, IndexClosed DEF SavedInv, NoLostEntry
<1>3. CASE ~CloseIndex(p)
  <2>1. saved' = saved /\ (index' = index \/ index' = Torn)
    BY Zenon, <1>1, <1>3, IndexSteps
  <2>2. Torn # None
    BY Zenon, LibraryAssumption
  <2>3. ASSUME NEW w \in Procs, pc'[w] = "write_index" PROVE saved \subseteq Listed(mem'[w])
    <3>1. CASE w # p
      BY Zenon, <1>s, <2>3, <3>1, WriterOpened DEF SavedInv
    <3>2. CASE w = p
      BY Zenon, <1>s, <2>3, <3>2, WriterOpened, OpenedListed DEF SavedInv, NoLostEntry
    <3> QED BY Zenon, <3>1, <3>2
  <2> QED BY Zenon, <1>s, <2>1, <2>2, <2>3 DEF SavedInv, NoLostEntry
<1> QED BY Zenon, <1>2, <1>3

\* A process that does not read or write the index still sees what it saw.
LEMMA SeenKeep ==
  ASSUME LibInv, NEW p \in Procs, Acts(p), NEW q \in Procs, seen'[q] = seen[q],
         NEW L \in SUBSET Units, SeenIn(q, L)
  PROVE  SeenIn(q, L)'
<1>s. /\ L \subseteq Listed(mem[q]) /\ seen[q].size = 1 + Cardinality(L) /\ index # None
      /\ index \notin {None, Torn} => L \subseteq Listed(index.entries)
      /\ \A w \in Procs : pc[w] = "write_index" => L \subseteq Listed(mem[w])
  BY Zenon DEF SeenIn
<1>1. L \subseteq Listed(mem'[q])
  BY Zenon, <1>s, ListedKeep
<1>2. index' # None /\ (index' \notin {None, Torn} => L \subseteq Listed(index'.entries))
  <2>1. CASE CloseIndex(p)
    BY Zenon, <1>s, <2>1, IndexClosed
  <2>2. Torn # None
    BY Zenon, LibraryAssumption
  <2> QED BY Zenon, <1>s, <2>1, <2>2, IndexSteps
<1>3. ASSUME NEW w \in Procs, pc'[w] = "write_index" PROVE L \subseteq Listed(mem'[w])
  <2>1. CASE w # p
    BY Zenon, <1>s, <1>3, <2>1, WriterOpened
  <2>2. CASE w = p
    BY Zenon, <1>s, <1>3, <2>2, WriterOpened, OpenedListed
  <2> QED BY Zenon, <2>1, <2>2
<1> QED BY Zenon, <1>s, <1>1, <1>2, <1>3 DEF SeenIn

LEMMA SeenStep ==
  ASSUME LibInv, NEW p \in Procs, Acts(p)
  PROVE  SeenInv'
<1> SUFFICES ASSUME NEW q \in Procs
             PROVE  seen'[q].size = 0 \/ \E L \in SUBSET Units : SeenIn(q, L)'
  BY Zenon DEF SeenInv
<1>t. /\ TypeInv /\ mem \in [Procs -> [Units -> Kinds \cup {None}]]
      /\ seen \in [Procs -> [mtime : 0 .. MaxTime, size : 0 .. Cardinality(Units) + 1]]
      /\ pc \in [Procs -> Labels]
  BY Zenon DEF LibInv, TypeInv, TypeOK, Entries, Labels
<1>1. CASE seen'[q] = seen[q]
  BY Zenon, <1>1, SeenKeep DEF LibInv, SeenInv
<1>2. CASE q = p /\ MergeIndex(p) /\ index \notin {None, Torn}
  <2> DEFINE I == Listed(index.entries)
  <2>1. seen'[p].size = 1 + Cardinality(I)
    BY <1>2, <1>t DEF MergeIndex, SizeOf
  <2>2. I \subseteq Listed(mem'[p])
    <3> SUFFICES ASSUME NEW u \in Units, index.entries[u] # None PROVE mem'[p][u] # None
      BY Zenon DEF Listed
    <3>1. mem'[p][u] = IF index.entries[u] # None THEN index.entries[u] ELSE mem[p][u]
      BY <1>2, <1>t DEF MergeIndex
    <3> QED BY Zenon, <3>1
  <2>3. \A w \in Procs : pc[w] # "write_index"
    BY Zenon, <1>2 DEF LibInv, SaveInv, SaveOf
  <2>4. ~CloseIndex(p)
    BY Zenon, <2>3 DEF CloseIndex
  <2>5. Torn # None /\ (index' = index \/ index' = Torn)
    BY Zenon, <2>4, IndexSteps, LibraryAssumption
  <2>6. \A w \in Procs : pc'[w] = "write_index" => w = p
    BY Zenon, <2>3, WriterOpened
  <2>7. I \in SUBSET Units
    BY Zenon DEF Listed
  <2> HIDE DEF I
  <2>8. index' \notin {None, Torn} => I = Listed(index'.entries)
    BY Zenon, <2>5 DEF I
  <2> QED BY Zenon, <1>2, <2>1, <2>2, <2>5, <2>6, <2>7, <2>8 DEF SeenIn
<1>3. CASE q = p /\ CloseIndex(p)
  <2> DEFINE I == Listed(mem[p])
  <2>1. seen'[p].size = 1 + Cardinality(I)
    BY <1>3, <1>t DEF CloseIndex, SizeOf
  <2>2. I \subseteq Listed(mem'[p]) /\ index' \notin {None, Torn} /\ I = Listed(index'.entries)
    BY Zenon, <1>3, IndexClosed
  <2>3. \A w \in Procs : pc'[w] # "write_index"
    BY Zenon, <1>3, WriterOpened, IndexClosed DEF OpenIndex
  <2>4. I \in SUBSET Units
    BY Zenon DEF Listed
  <2> HIDE DEF I
  <2> QED BY Zenon, <1>3, <2>1, <2>2, <2>3, <2>4 DEF SeenIn
<1>4. q # p => seen'[q] = seen[q]
  BY Zenon, <1>t, OthersKeep DEF OthersKept
<1>5. seen' = seen \/ CloseIndex(p) \/ (MergeIndex(p) /\ index \notin {None, Torn})
  BY Zenon DEF Acts, Opens, lib_new, CreateLockFile, InitLock, lib_init, Loads, GetLock, ReadUnit,
     LoadDep, UnitLoaded, Saves, SaveLock, UnitsSaved, OpenIndex, IndexChanged, OpenUnit, CloseUnit,
     Calls, lib_put, lib_get, lib_save, Ends, Exit, Crash, memory
<1> QED BY Zenon, <1>1, <1>2, <1>3, <1>4, <1>5
-----------------------------------------------------------------------------
(* Types.                                                                  *)

\* The index that is read has its type.
LEMMA MergedIndex ==
  ASSUME LibInv, NEW p \in Procs, MergeIndex(p), index \notin {None, Torn}
  PROVE  /\ mem' \in [Procs -> Entries]
         /\ seen' \in [Procs -> [mtime : 0 .. MaxTime, size : 0 .. Cardinality(Units) + 1]]
<1>1. /\ index \in [entries : [Units -> Kinds \cup {None}], mtime : 1 .. MaxTime]
      /\ mem \in [Procs -> [Units -> Kinds \cup {None}]]
      /\ seen \in [Procs -> [mtime : 0 .. MaxTime, size : 0 .. Cardinality(Units) + 1]]
  BY Zenon DEF LibInv, TypeInv, TypeOK, Entries
<1>2. SizeOf(index.entries) \in 0 .. Cardinality(Units) + 1
  BY LibraryAssumption, FS_Subset, FS_CardinalityType DEF SizeOf, Listed
<1>3. [mtime |-> index.mtime, size |-> SizeOf(index.entries)]
        \in [mtime : 0 .. MaxTime, size : 0 .. Cardinality(Units) + 1]
  BY <1>1, <1>2
<1>4. [u \in Units |-> IF index.entries[u] # None THEN index.entries[u] ELSE mem[p][u]]
        \in [Units -> Kinds \cup {None}]
  BY <1>1
<1>5. seen' \in [Procs -> [mtime : 0 .. MaxTime, size : 0 .. Cardinality(Units) + 1]]
  BY Zenon, <1>1, <1>3 DEF MergeIndex
<1>6. mem' = [mem EXCEPT ![p] =
                [u \in Units |-> IF index.entries[u] # None THEN index.entries[u] ELSE mem[p][u]]]
  BY Zenon DEF MergeIndex
<1>7. mem' \in [Procs -> [Units -> Kinds \cup {None}]]
  BY Zenon, <1>1, <1>4, <1>6
<1> QED BY Zenon, <1>5, <1>7 DEF Entries

LEMMA PutTypes ==
  ASSUME LibInv, NEW p \in Procs, NEW u \in Units, NEW k \in Kinds, NEW d \in BOOLEAN,
         PutAux(p, u, k, d)
  PROVE  /\ mem' \in [Procs -> Entries]
         /\ cache' \in [Procs -> [Units -> {None} \cup Cached]]
<1>1. /\ mem \in [Procs -> [Units -> Kinds \cup {None}]]
      /\ cache \in [Procs -> [Units -> {None} \cup Cached]]
  BY Zenon DEF LibInv, TypeInv, TypeOK, Entries
<1>2. [kind |-> k, dirty |-> d] \in Cached
  BY DEF Cached
<1> QED BY <1>1, <1>2 DEF PutAux, Entries

LEMMA MemoryTypes ==
  ASSUME LibInv, NEW p \in Procs, Acts(p)
  PROVE  /\ mem' \in [Procs -> Entries]
         /\ seen' \in [Procs -> [mtime : 0 .. MaxTime, size : 0 .. Cardinality(Units) + 1]]
         /\ cache' \in [Procs -> [Units -> {None} \cup Cached]]
<1>t. /\ mem \in [Procs -> Entries]
      /\ seen \in [Procs -> [mtime : 0 .. MaxTime, size : 0 .. Cardinality(Units) + 1]]
      /\ cache \in [Procs -> [Units -> {None} \cup Cached]]
  BY Zenon DEF LibInv, TypeInv, TypeOK
<1>1. CASE lib_init(p) \/ OpenIndex(p)
  BY Zenon, <1>1, <1>t, MergedIndex DEF lib_init, OpenIndex, IndexChanged
<1>2. CASE UnitLoaded(p)
  <2>1. loading[p] \in Seq(Frames) /\ loading[p] # <<>>
    BY Zenon, <1>2 DEF UnitLoaded, LibInv, LoadInv, Stack, TypeInv
  <2>2. loading[p][1].unit \in Units /\ loading[p][1].kind \in Kinds
    BY Zenon, <1>2, <2>1, FrameTop DEF UnitLoaded
  <2>3. PutAux(p, loading[p][1].unit, loading[p][1].kind, FALSE) /\ seen' = seen
    BY Zenon, <1>2 DEF UnitLoaded
  <2>4. FALSE \in BOOLEAN
    OBVIOUS
  <2> QED BY Zenon, <1>t, <2>2, <2>3, <2>4, PutTypes
<1>3. ASSUME NEW u \in Units, NEW k \in Kinds, lib_put(p, u, k)
      PROVE  /\ mem' \in [Procs -> Entries] /\ seen' = seen
             /\ cache' \in [Procs -> [Units -> {None} \cup Cached]]
  <2>1. PutAux(p, u, k, TRUE) /\ seen' = seen
    BY Zenon, <1>3 DEF lib_put
  <2>2. TRUE \in BOOLEAN
    OBVIOUS
  <2> QED BY Zenon, <2>1, <2>2, PutTypes
<1>4. CASE CloseUnit(p)
  <2> DEFINE v == writing[p]
  <2>1. v \in Units /\ cache[p][v] \in Cached
    BY Zenon, <1>4, OpenFile DEF CloseUnit
  <2>2. cache' = [cache EXCEPT ![p][v].dirty = FALSE] /\ mem' = mem /\ seen' = seen
    BY Zenon, <1>4 DEF CloseUnit
  <2> HIDE DEF v
  <2>3. [cache[p][v] EXCEPT !.dirty = FALSE] \in Cached
    BY <2>1 DEF Cached
  <2>4. cache' \in [Procs -> [Units -> {None} \cup Cached]]
    BY <1>t, <2>1, <2>2, <2>3
  <2> QED BY Zenon, <1>t, <2>2, <2>4
<1>5. CASE CloseIndex(p)
  <2>1. /\ clock \in 1 .. MaxTime /\ mem' = mem /\ cache' = cache
        /\ seen' = [seen EXCEPT ![p] = [mtime |-> clock, size |-> SizeOf(mem[p])]]
    BY Zenon, <1>5 DEF CloseIndex, LibInv, TypeInv, TypeOK
  <2>2. SizeOf(mem[p]) \in 0 .. Cardinality(Units) + 1
    BY LibraryAssumption, FS_Subset, FS_CardinalityType DEF SizeOf, Listed
  <2> QED BY <1>t, <2>1, <2>2
<1>6. CASE mem' = mem /\ seen' = seen /\ cache' = cache
  BY Zenon, <1>t, <1>6
<1> QED BY Zenon, <1>1, <1>2, <1>3, <1>4, <1>5, <1>6, <1>t DEF Acts, Opens, lib_new, CreateLockFile,
     InitLock, Loads, GetLock, ReadUnit, LoadDep, Saves, SaveLock, UnitsSaved, OpenUnit,
     Calls, lib_get, lib_save, Ends, Exit, Crash, memory

LEMMA LoadingTypes ==
  ASSUME LibInv, NEW p \in Procs, Acts(p)
  PROVE  loading' \in [Procs -> Seq(Frames)]
<1>t. loading \in [Procs -> Seq(Frames)] /\ pc \in [Procs -> Labels]
  BY Zenon DEF LibInv, TypeInv, TypeOK, Labels
<1>e. <<>> \in Seq(Frames)
  OBVIOUS
<1>1. ASSUME NEW u \in Units, lib_get(p, u) PROVE loading' \in [Procs -> Seq(Frames)]
  <2>1. <<Frame(u)>> \in Seq(Frames)
    BY DEF Frame, Frames
  <2> QED BY Zenon, <1>t, <1>1, <2>1 DEF lib_get
<1>2. CASE Loads(p)
  <2>1. \A q \in Procs : q # p => loading'[q] = loading[q]
    BY Zenon, <1>2, OthersKeep DEF Acts, OthersKept, LibInv
  <2>2. loading'[p] \in Seq(Frames)
    <3>1. pc'[p] \in {"load", "ready", "dead"} /\ pc[p] \in {"get_lock", "load"}
      BY Zenon, <1>t, <1>2, LoadsGoto
    <3>2. CASE pc'[p] = "load"
      BY Zenon, <1>2, <3>2, LoadSteps
    <3>3. CASE pc'[p] \in {"ready", "dead"}
      <4>1. loading[p] # <<>>
        BY Zenon, <3>1 DEF LibInv, LoadInv, Stack
      <4>2. loading'[p] \in {<<>>, loading[p], Tail(loading[p])}
        BY Zenon, <1>2, <1>t, <3>1, <3>3 DEF Loads, GetLock, ReadUnit, LoadDep, UnitLoaded, Goto, Fatal
      <4> QED BY Zenon, <1>e, <1>t, <4>1, <4>2, FramePop
    <3> QED BY Zenon, <3>1, <3>2, <3>3
  <2>3. loading' = [q \in Procs |-> loading'[q]]
    BY <1>2, <1>t DEF Loads, GetLock, ReadUnit, LoadDep, UnitLoaded, memory
  <2> QED BY Zenon, <1>t, <2>1, <2>2, <2>3
<1>3. loading' = loading \/ Loads(p) \/ \E u \in Units : lib_get(p, u)
  BY Zenon DEF Acts, Opens, lib_new, CreateLockFile, InitLock, lib_init, Saves, SaveLock, UnitsSaved,
     OpenIndex, CloseIndex, OpenUnit, CloseUnit, Calls, lib_put, lib_save, Ends, Exit, Crash, memory
<1> QED BY Zenon, <1>t, <1>1, <1>2, <1>3
LEMMA TypeStep ==
  ASSUME LibInv, NEW p \in Procs, Acts(p)
  PROVE  TypeInv'
<1>t. TypeInv /\ TypeOK
  BY Zenon DEF LibInv, TypeInv
<1>1. marker' \in BOOLEAN /\ clock' = clock
  BY Zenon, <1>t DEF TypeOK, Acts, Opens, lib_new, CreateLockFile, InitLock, lib_init, Loads, GetLock,
     ReadUnit, LoadDep, UnitLoaded, Saves, SaveLock, UnitsSaved, OpenIndex, CloseIndex, OpenUnit,
     CloseUnit, Calls, lib_put, lib_get, lib_save, Ends, Exit, Crash, disk
<1>2. shared' \subseteq Procs /\ excl' \in Procs \cup {None}
  <2>1. Relocks(p)
    BY Zenon, ActRelocks
  <2> QED BY <1>t, <2>1 DEF TypeOK, Relocks, file_read_lock, file_write_lock, file_unlock
<1>3. files' \in [Units -> Kinds \cup {None, Torn}]
  <2>1. CASE CloseUnit(p)
    BY Zenon, <1>t, <2>1, OpenFile DEF CloseUnit, TypeOK
  <2>2. files' = files \/ CloseUnit(p) \/ \E u \in Units : files' = [files EXCEPT ![u] = Torn]
    BY Zenon DEF Acts, Opens, lib_new, CreateLockFile, InitLock, lib_init, Loads, GetLock, ReadUnit,
       LoadDep, UnitLoaded, Saves, SaveLock, UnitsSaved, OpenIndex, CloseIndex, OpenUnit, Calls,
       lib_put, lib_get, lib_save, Ends, Exit, Crash, disk
  <2> QED BY Zenon, <1>t, <2>1, <2>2 DEF TypeOK
<1>4. index' \in {None, Torn} \cup [entries : Entries, mtime : 1 .. MaxTime]
  BY Zenon, <1>t, IndexSteps, IndexClosed DEF TypeOK
<1>5. pc' \in [Procs -> Labels]
  <2>1. pc' = pc \/ \E l \in Labels : pc' = [pc EXCEPT ![p] = l]
    <3>1. CASE Opens(p)
      BY <3>1 DEF Opens, lib_new, CreateLockFile, InitLock, lib_init, Goto, Fatal, Labels
    <3>2. CASE Loads(p)
      BY <3>2 DEF Loads, GetLock, ReadUnit, LoadDep, UnitLoaded, Goto, Fatal, Labels
    <3>3. CASE Saves(p)
      BY <3>3 DEF Saves, SaveLock, UnitsSaved, OpenIndex, CloseIndex, OpenUnit, CloseUnit, Goto, Fatal,
         Labels
    <3>4. CASE Calls(p) \/ Ends(p)
      BY <3>4 DEF Calls, lib_put, lib_get, lib_save, Ends, Exit, Crash, Goto, Labels
    <3> QED BY Zenon, <3>1, <3>2, <3>3, <3>4 DEF Acts
  <2>2. pc \in [Procs -> Labels]
    BY Zenon, <1>t DEF TypeOK, Labels
  <2> QED BY Zenon, <2>1, <2>2
<1>6. ops' \in [Procs -> 0 .. MaxOps]
  <2>1. ops' = ops \/ Call(p)
    BY Zenon DEF Acts, Opens, lib_new, CreateLockFile, InitLock, lib_init, Loads, GetLock,
       ReadUnit, LoadDep, UnitLoaded, Saves, SaveLock, UnitsSaved, OpenIndex, CloseIndex, OpenUnit,
       CloseUnit, Calls, lib_put, lib_get, lib_save, Ends, Exit, Crash
  <2>2. ops \in [Procs -> 0 .. MaxOps]
    BY Zenon, <1>t DEF TypeOK
  <2> QED BY <2>1, <2>2, LibraryAssumption DEF Call
<1>7. writing' \in [Procs -> Units \cup {None}]
  <2>1. \/ writing' = writing \/ writing' = [writing EXCEPT ![p] = None]
        \/ \E u \in Units : writing' = [writing EXCEPT ![p] = u]
    BY Zenon DEF Acts, Opens, lib_new, CreateLockFile, InitLock, lib_init, Loads, GetLock,
       ReadUnit, LoadDep, UnitLoaded, Saves, SaveLock, UnitsSaved, OpenIndex, CloseIndex, OpenUnit,
       CloseUnit, Calls, lib_put, lib_get, lib_save, Ends, Exit, Crash, memory
  <2> QED BY Zenon, <1>t, <2>1 DEF TypeOK
<1>8. saved' \subseteq Units
  <2>1. saved' = saved \/ saved' = saved \cup {u \in Units : cache[p][u] # None}
    BY Zenon DEF Acts, Opens, lib_new, CreateLockFile, InitLock, lib_init, Loads, GetLock, ReadUnit,
       LoadDep, UnitLoaded, Saves, SaveLock, UnitsSaved, OpenIndex, CloseIndex, OpenUnit, CloseUnit,
       Calls, lib_put, lib_get, lib_save, Ends, Exit, Crash, history
  <2> QED BY Zenon, <1>t, <2>1 DEF TypeOK
<1>9. crashes' \in 0 .. MaxCrashes
  <2>1. crashes' = crashes \/ (crashes < MaxCrashes /\ crashes' = crashes + 1)
    BY Zenon DEF Acts, Opens, lib_new, CreateLockFile, InitLock, lib_init, Loads, GetLock, ReadUnit,
       LoadDep, UnitLoaded, Saves, SaveLock, UnitsSaved, OpenIndex, CloseIndex, OpenUnit, CloseUnit,
       Calls, lib_put, lib_get, lib_save, Ends, Exit, Crash, history
  <2>2. crashes \in 0 .. MaxCrashes
    BY Zenon, <1>t DEF TypeOK
  <2> QED BY <2>1, <2>2, LibraryAssumption
<1>10. failed' \in [Procs -> {"no", "torn", "missing", "corrupt", "outdated"}]
  <2>1. \/ failed' = failed
        \/ Dies(p, "torn") \/ Dies(p, "corrupt") \/ Dies(p, "missing") \/ Dies(p, "outdated")
    BY Zenon, FailedSteps
  <2>2. failed \in [Procs -> {"no", "torn", "missing", "corrupt", "outdated"}]
    BY Zenon, <1>t DEF TypeOK
  <2> QED BY <2>1, <2>2 DEF Dies
<1>11. \A q \in Procs : \A i \in DOMAIN loading'[q] :
          loading'[q][i] \in [unit : Units, kind : Kinds \cup {None}, deps : SUBSET Units]
  <2>1. loading' \in [Procs -> Seq(Frames)]
    BY Zenon, LoadingTypes
  <2>2. \A q \in Procs : \A i \in DOMAIN loading'[q] : loading'[q][i] \in Frames
    BY <2>1
  <2> QED BY Zenon, <2>2 DEF Frames
<1>12. clock' \in 1 .. MaxTime
  BY Zenon, <1>t, <1>1 DEF TypeOK
<1> QED BY Zenon, <1>1, <1>2, <1>3, <1>4, <1>5, <1>6, <1>7, <1>8, <1>9, <1>10, <1>11, <1>12,
           MemoryTypes, LoadingTypes DEF TypeInv, TypeOK, Labels

-----------------------------------------------------------------------------
(* The theorems.                                                           *)

LEMMA LibInit == ASSUME Init PROVE LibInv
<1>0. Torn # None /\ 1 \in 1 .. MaxTime /\ 0 \in 0 .. MaxTime /\ 0 \in 0 .. MaxOps
      /\ 0 \in 0 .. MaxCrashes
  BY LibraryAssumption
<1>1. TypeInv
  <2>1. Cardinality(Units) \in Nat
    BY LibraryAssumption, FS_CardinalityType
  <2>2. [mtime |-> 0, size |-> 0] \in [mtime : 0 .. MaxTime, size : 0 .. Cardinality(Units) + 1]
    BY <1>0, <2>1
  <2>3. Empty \in [Units -> Kinds \cup {None}] /\ Empty \in [Units -> Kinds \cup {None, Torn}]
    BY Zenon DEF Empty
  <2>4. <<>> \in Seq(Frames) /\ DOMAIN <<>> = {}
    OBVIOUS
  <2>5. /\ seen \in [Procs -> [mtime : 0 .. MaxTime, size : 0 .. Cardinality(Units) + 1]]
        /\ loading \in [Procs -> Seq(Frames)]
        /\ \A q \in Procs : DOMAIN loading[q] = {}
    BY Zenon, <2>2, <2>4 DEF Init
  <2> QED BY Zenon, <1>0, <2>3, <2>5 DEF Init, TypeInv, TypeOK, Entries
<1>2. LockInv /\ SaveInv /\ LoadInv
  BY Zenon DEF Init, LockInv, Locked, Writing, SaveInv, SaveOf, LoadInv
<1>3. TornInv /\ NeverCorrupt
  BY Zenon, <1>0 DEF Init, Empty, TornInv, TornOnlyByCrash, NeverCorrupt
<1>4. FileInv
  BY Zenon DEF Init, Empty, FileInv, Backed
<1>5. SeenInv
  BY DEF Init, SeenInv
<1>6. SavedInv
  BY Zenon DEF Init, SavedInv, NoLostEntry
<1> QED BY Zenon, <1>1, <1>2, <1>3, <1>4, <1>5, <1>6 DEF LibInv

LEMMA LibNext == ASSUME LibInv, [Next]_vars PROVE LibInv'
<1>1. ASSUME NEW p \in Procs, Acts(p) PROVE LibInv'
  BY Zenon, <1>1, TypeStep, LockStep, TornStep, SaveStep, FileStep, LoadStep, SeenStep, SavedStep,
     CorruptStep DEF LibInv
<1>2. CASE Rests
  <2>1. UNCHANGED <<marker, shared, excl, files, index, pc, ops, memory, history>>
    BY Zenon, <1>2 DEF Rests, Tick, vars, memory, history
  <2>2. TypeInv'
    <3>1. clock \in 1 .. MaxTime
      BY Zenon DEF LibInv, TypeInv, TypeOK
    <3>2. clock' = clock \/ (clock < MaxTime /\ clock' = clock + 1)
      BY Zenon, <1>2 DEF Rests, Tick, vars
    <3>3. clock' \in 1 .. MaxTime
      BY <3>1, <3>2, LibraryAssumption
    <3> QED BY Zenon, <2>1, <3>3 DEF LibInv, TypeInv, TypeOK, memory, history
  <2>3. LockInv' /\ SaveInv' /\ LoadInv'
    BY Zenon, <2>1 DEF LibInv, LockInv, Locked, SaveInv, SaveOf, Dirty, LoadInv, Stack, memory, history
  <2>4. TornInv' /\ NeverCorrupt' /\ FileInv'
    BY Zenon, <2>1 DEF LibInv, TornInv, TornOnlyByCrash, NeverCorrupt, FileInv, Backed, memory, history
  <2>5. SavedInv'
    BY Zenon, <2>1 DEF LibInv, SavedInv, NoLostEntry, memory, history
  <2>6. SeenInv'
    BY Zenon, <2>1 DEF LibInv, SeenInv, SeenIn, memory
  <2> QED BY Zenon, <2>2, <2>3, <2>4, <2>5, <2>6 DEF LibInv
<1> QED BY Zenon, <1>1, <1>2, Steps

\* The inductive invariant holds for every number of processes, units and
\* kinds, every dependency order and every bound.
THEOREM LibraryInvariant == Spec => []LibInv
BY LibInit, LibNext, PTL DEF Spec

\* No lib_save loses an entry of the index that another one wrote, however
\* stale the copy it merges and writes back: an index with as many names as
\* when it was last seen has the same names.
THEOREM EntriesKept == Spec => []NoLostEntry
<1>1. LibInv => NoLostEntry
  BY Zenon DEF LibInv, SavedInv
<1> QED BY <1>1, LibraryInvariant, PTL

\* No process finds a unit listed but missing, and none an unreadable file
\* unless one was killed while it wrote.
THEOREM LibraryErrors == Spec => []ErrorsExplained
<1>1. LibInv => ErrorsExplained
  BY Zenon DEF LibInv, TypeInv, TornInv, ErrorsExplained
<1> QED BY <1>1, LibraryInvariant, PTL
=============================================================================
