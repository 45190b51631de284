------------------------------- MODULE Library -------------------------------
(***************************************************************************)
(* A design library on disk, shared by several nvc processes (lib.c).      *)
(*                                                                         *)
(* A library is a directory with a lock file _NVC_LIB, one file per design *)
(* unit and a file _index that lists the name and the kind of every unit.  *)
(* A process opens or creates the library (lib_new), keeps a copy of the   *)
(* index and a cache of the units in memory, adds the units it analyses    *)
(* (lib_put), loads units together with the units they depend on           *)
(* (lib_get), and writes what is dirty and the merged index (lib_save).    *)
(* Everything on disk is protected by flock(2) on the lock file; the locks *)
(* of a process go away when it ends, however it ends.                     *)
(*                                                                         *)
(* fopen(.., "wb") truncates, and a file is complete again only when it is *)
(* closed: in between it is Torn, and fbuf_open of a Torn file is fatal.   *)
(***************************************************************************)
EXTENDS Naturals, Sequences, FiniteSets

CONSTANTS
    Procs,          \* the nvc processes
    Units,          \* names of design units
    Kinds,          \* kinds of design unit (entity, package, ...)
    Deps,           \* Deps[u]: the units that unit u depends on
    MaxOps,         \* bound: lib_put, lib_get and lib_save calls of a process
    MaxTime,        \* bound: ticks of the file system's clock
    MaxCrashes,     \* bound: processes that are killed
    None, Torn

ASSUME LibraryAssumption ==
    /\ IsFiniteSet(Units)
    /\ Deps \in [Units -> SUBSET Units]
    /\ \A u \in Units : \A d \in Deps[u] : u \notin Deps[d] \cup {d}
    /\ None \notin Kinds \cup Procs \cup Units /\ Torn \notin Kinds \cup {None}
    /\ {MaxOps, MaxCrashes} \subseteq Nat /\ MaxTime \in Nat \ {0}

VARIABLES
    marker,         \* the lock file _NVC_LIB exists
    shared, excl,   \* holders of flock(LOCK_SH), holder of flock(LOCK_EX)
    files,          \* files[u]: None, Torn or the kind of the unit stored
    index,          \* the file _index: None, Torn or [entries, mtime]
    clock,          \* time stamp given to files
    pc, ops,        \* what a process is doing, calls it made so far
    mem,            \* lib->index: the kind of each unit listed, or None
    seen,           \* lib->index_mtime and lib->index_size
    cache,          \* lib->lookup: None or [kind, dirty]
    loading,        \* lib_get calls in progress, the innermost first
    writing,        \* the unit whose file lib_save_unit has open, or None
    saved,          \* history: units of completed lib_save calls
    crashes, failed \* history: killed processes, processes that met an error

vars == <<marker, shared, excl, files, index, clock, pc, ops, mem, seen, cache,
          loading, writing, saved, crashes, failed>>

disk == <<marker, files, index, clock>>
memory == <<mem, seen, cache, loading, writing>>
history == <<saved, crashes, failed>>

Entries == [Units -> Kinds \cup {None}]
Indexes == [entries : Entries, mtime : Nat]
Cached == [kind : Kinds, dirty : BOOLEAN]

ASSUME MarksAssumption == None \notin Indexes \cup Cached /\ Torn \notin Indexes

Empty == [u \in Units |-> None]
Listed(entries) == {u \in Units : entries[u] # None}

\* The length of the index file grows with the number of names in it.
SizeOf(entries) == 1 + Cardinality(Listed(entries))

TypeOK ==
    /\ marker \in BOOLEAN
    /\ shared \subseteq Procs /\ excl \in Procs \cup {None}
    /\ files \in [Units -> Kinds \cup {None, Torn}]
    /\ index \in {None, Torn} \cup [entries : Entries, mtime : 1 .. MaxTime]
    /\ clock \in 1 .. MaxTime
    /\ pc \in [Procs -> {"start", "create", "lock_ex", "lock_sh", "read_index",
                         "ready", "get_lock", "load", "save_lock", "save_units",
                         "save_index", "write_index", "done", "dead"}]
    /\ ops \in [Procs -> 0 .. MaxOps]
    /\ mem \in [Procs -> Entries]
    /\ seen \in [Procs -> [mtime : 0 .. MaxTime, size : 0 .. Cardinality(Units) + 1]]
    /\ cache \in [Procs -> [Units -> {None} \cup Cached]]
    /\ \A p \in Procs : \A i \in DOMAIN loading[p] :
          loading[p][i] \in [unit : Units, kind : Kinds \cup {None},
                             deps : SUBSET Units]
    /\ writing \in [Procs -> Units \cup {None}]
    /\ saved \subseteq Units
    /\ crashes \in 0 .. MaxCrashes
    /\ failed \in [Procs -> {"no", "torn", "missing", "corrupt",
                             "outdated"}]

Init ==
    /\ marker = FALSE
    /\ shared = {} /\ excl = None
    /\ files = Empty
    /\ index = None
    /\ clock = 1
    /\ pc = [p \in Procs |-> "start"]
    /\ ops = [p \in Procs |-> 0]
    /\ mem = [p \in Procs |-> Empty]
    /\ seen = [p \in Procs |-> [mtime |-> 0, size |-> 0]]
    /\ cache = [p \in Procs |-> [u \in Units |-> None]]
    /\ loading = [p \in Procs |-> <<>>]
    /\ writing = [p \in Procs |-> None]
    /\ saved = {} /\ crashes = 0
    /\ failed = [p \in Procs |-> "no"]

-----------------------------------------------------------------------------
(* flock(2) *)

Goto(p, l) == pc' = [pc EXCEPT ![p] = l]
Call(p) == /\ ops[p] < MaxOps
           /\ ops' = [ops EXCEPT ![p] = @ + 1]

file_read_lock(p) ==
    /\ excl \in {None, p}
    /\ shared' = shared \cup {p}
    /\ excl' = None

file_write_lock(p) ==
    /\ excl \in {None, p} /\ shared \subseteq {p}
    /\ excl' = p
    /\ shared' = {}

file_unlock(p) ==
    /\ shared' = shared \ {p}
    /\ excl' = IF excl = p THEN None ELSE excl

\* fatal() ends the process: its locks are released, its memory is gone.
Fatal(p, why) ==
    /\ Goto(p, "dead")
    /\ failed' = [failed EXCEPT ![p] = why]
    /\ file_unlock(p)

-----------------------------------------------------------------------------
(* lib_new, lib_init *)

\* lib_open_at finds the lock file, or the directory is made; making it is
\* idempotent and no process relies on having made it.
lib_new(p) ==
    /\ pc[p] = "start"
    /\ Goto(p, IF marker THEN "lock_sh" ELSE "create")
    /\ UNCHANGED <<disk, shared, excl, ops, memory, history>>

\* open(.., O_CREAT | O_EXCL): the loser opens the winner's file.
CreateLockFile(p) ==
    /\ pc[p] = "create"
    /\ Goto(p, IF marker THEN "lock_sh" ELSE "lock_ex")
    /\ marker' = TRUE
    /\ UNCHANGED <<files, index, clock, shared, excl, ops, memory, history>>

InitLock(p) ==
    /\ \/ pc[p] = "lock_ex" /\ file_write_lock(p)
       \/ pc[p] = "lock_sh" /\ file_read_lock(p)
    /\ Goto(p, "read_index")
    /\ UNCHANGED <<disk, ops, memory, history>>

\* lib_read_index: the file's entries are merged into the list in memory and
\* win over what was there.
MergeIndex(p) ==
    /\ mem' = [mem EXCEPT ![p] =
                 [u \in Units |-> IF index.entries[u] # None
                                  THEN index.entries[u] ELSE @[u]]]
    /\ seen' = [seen EXCEPT ![p] = [mtime |-> index.mtime,
                                    size |-> SizeOf(index.entries)]]

\* Mutant: the lock is not released after the index is read.
lib_initKeepsLock(p) ==
    /\ pc[p] = "read_index"
    /\ \/ /\ index = Torn
          /\ Fatal(p, "torn")
          /\ UNCHANGED <<mem, seen>>
       \/ /\ index = None
          /\ Goto(p, "ready")
          /\ UNCHANGED <<shared, excl, mem, seen, failed>>
       \/ /\ index \notin {None, Torn}
          /\ MergeIndex(p)
          /\ Goto(p, "ready") /\ file_unlock(p)
          /\ UNCHANGED failed
    /\ UNCHANGED <<disk, ops, cache, loading, writing, saved, crashes>>

lib_init(p) ==
    /\ pc[p] = "read_index"
    /\ \/ /\ index = Torn
          /\ Fatal(p, "torn")
          /\ UNCHANGED <<mem, seen>>
       \/ /\ index = None
          /\ Goto(p, "ready") /\ file_unlock(p)
          /\ UNCHANGED <<mem, seen, failed>>
       \/ /\ index \notin {None, Torn}
          /\ MergeIndex(p)
          /\ Goto(p, "ready") /\ file_unlock(p)
          /\ UNCHANGED failed
    /\ UNCHANGED <<disk, ops, cache, loading, writing, saved, crashes>>

-----------------------------------------------------------------------------
(* lib_put *)

\* lib_put_aux: into the cache and, through lib_add_to_index, into the index
\* in memory.
PutAux(p, u, k, dirty) ==
    /\ cache' = [cache EXCEPT ![p][u] = [kind |-> k, dirty |-> dirty]]
    /\ mem' = [mem EXCEPT ![p][u] = k]

lib_put(p, u, k) ==
    /\ pc[p] = "ready" /\ Call(p)
    /\ PutAux(p, u, k, TRUE)
    /\ UNCHANGED <<disk, shared, excl, pc, seen, loading, writing, history>>

-----------------------------------------------------------------------------
(* lib_get: units not in the cache are read from disk, and object_read calls
   back into lib_get for every dependency that is not loaded yet.  The inner
   call's file_unlock drops the lock of the outer one. *)

Frame(u) == [unit |-> u, kind |-> None, deps |-> {}]

\* A unit that is not in the cache: the call waits for the shared lock.
lib_get(p, u) ==
    /\ pc[p] = "ready" /\ cache[p][u] = None /\ Call(p)
    /\ Goto(p, "get_lock")
    /\ loading' = [loading EXCEPT ![p] = <<Frame(u)>>]
    /\ UNCHANGED <<disk, shared, excl, mem, seen, cache, writing, history>>

\* Mutant: a unit is read without the lock.
GetUnlocked(p) ==
    /\ pc[p] = "get_lock"
    /\ Goto(p, "load")
    /\ UNCHANGED <<disk, shared, excl, ops, memory, history>>

GetLock(p) ==
    /\ pc[p] = "get_lock"
    /\ file_read_lock(p)
    /\ Goto(p, "load")
    /\ UNCHANGED <<disk, ops, memory, history>>

\* fbuf_open maps and unpacks the whole file.
ReadUnit(p) ==
    LET u == loading[p][1].unit
    IN  /\ pc[p] = "load" /\ loading[p][1].kind = None
        /\ \/ /\ files[u] = Torn
              /\ Fatal(p, "torn")
              /\ UNCHANGED loading
           \/ /\ files[u] = None /\ mem[p][u] # None
              /\ Fatal(p, "corrupt")
              /\ UNCHANGED loading
           \/ /\ files[u] = None /\ mem[p][u] = None /\ Len(loading[p]) > 1
              /\ Fatal(p, "missing")
              /\ UNCHANGED loading
           \/ /\ files[u] = None /\ mem[p][u] = None /\ Len(loading[p]) = 1
              /\ file_unlock(p) /\ Goto(p, "ready")
              /\ loading' = [loading EXCEPT ![p] = <<>>]
              /\ UNCHANGED failed
           \/ /\ files[u] \in Kinds
              /\ loading' = [loading EXCEPT ![p][1].kind = files[u],
                                            ![p][1].deps = Deps[u]]
              /\ UNCHANGED <<shared, excl, pc, failed>>
        /\ UNCHANGED <<disk, ops, mem, seen, cache, writing, saved, crashes>>

\* object_read: the next dependency of the unit being read is loaded first,
\* then its checksum is compared with the one recorded in the unit.  Contents
\* are abstracted to kinds, so the comparison may go either way.
LoadDep(p) ==
    /\ pc[p] = "load" /\ loading[p][1].kind # None
    /\ \E d \in loading[p][1].deps :
          \/ /\ cache[p][d] = None
             /\ file_read_lock(p)
             /\ loading' = [loading EXCEPT ![p] = <<Frame(d)>> \o @]
             /\ UNCHANGED <<pc, failed>>
          \/ /\ cache[p][d] # None
             /\ loading' = [loading EXCEPT ![p][1].deps = @ \ {d}]
             /\ UNCHANGED <<shared, excl, pc, failed>>
          \/ /\ cache[p][d] # None
             /\ Fatal(p, "outdated")
             /\ UNCHANGED loading
    /\ UNCHANGED <<disk, ops, mem, seen, cache, writing, saved, crashes>>

\* The unit is read: lib_put_aux, then file_unlock in lib_get_aux.
UnitLoaded(p) ==
    /\ pc[p] = "load" /\ loading[p][1].kind # None /\ loading[p][1].deps = {}
    /\ PutAux(p, loading[p][1].unit, loading[p][1].kind, FALSE)
    /\ file_unlock(p)
    /\ loading' = [loading EXCEPT ![p] = Tail(@)]
    /\ IF Len(loading[p]) = 1 THEN Goto(p, "ready") ELSE UNCHANGED pc
    /\ UNCHANGED <<disk, ops, seen, writing, history>>

-----------------------------------------------------------------------------
(* lib_save: dirty units first, then the index, under the exclusive lock. *)

Dirty(p) == {u \in Units : cache[p][u] # None /\ cache[p][u].dirty}

lib_save(p) ==
    /\ pc[p] = "ready" /\ Call(p)
    /\ Goto(p, "save_lock")
    /\ UNCHANGED <<disk, shared, excl, memory, history>>

SaveLock(p) ==
    /\ pc[p] = "save_lock"
    /\ file_write_lock(p)
    /\ Goto(p, "save_units")
    /\ UNCHANGED <<disk, ops, memory, history>>

\* lib_save_unit: the file is opened for writing ...
OpenUnit(p, u) ==
    /\ pc[p] = "save_units" /\ writing[p] = None /\ u \in Dirty(p)
    /\ writing' = [writing EXCEPT ![p] = u]
    /\ files' = [files EXCEPT ![u] = Torn]
    /\ UNCHANGED <<marker, index, clock, shared, excl, pc, ops, mem, seen, cache,
                   loading, history>>

\* ... and closed.
CloseUnit(p) ==
    LET u == writing[p]
    IN  /\ pc[p] = "save_units" /\ u # None
        /\ writing' = [writing EXCEPT ![p] = None]
        /\ files' = [files EXCEPT ![u] = cache[p][u].kind]
        /\ cache' = [cache EXCEPT ![p][u].dirty = FALSE]
        /\ UNCHANGED <<marker, index, clock, shared, excl, pc, ops, mem, seen,
                       loading, history>>

UnitsSaved(p) ==
    /\ pc[p] = "save_units" /\ writing[p] = None /\ Dirty(p) = {}
    /\ Goto(p, "save_index")
    /\ UNCHANGED <<disk, shared, excl, ops, memory, history>>

\* Mutant: only the time stamp of the index is compared.
IndexChangedByTime(p) ==
    /\ index # None
    /\ index # Torn => index.mtime # seen[p].mtime

\* "Library was updated concurrently": the file is not the one last read or
\* written by this process.
IndexChanged(p) ==
    /\ index # None
    /\ index # Torn => \/ index.mtime # seen[p].mtime
                       \/ SizeOf(index.entries) # seen[p].size

\* The index is read again if it changed, then opened for writing.
OpenIndex(p) ==
    /\ pc[p] = "save_index"
    /\ \/ /\ IndexChanged(p) /\ index = Torn
          /\ Fatal(p, "torn")
          /\ UNCHANGED <<mem, seen, index>>
       \/ /\ IndexChanged(p) /\ index # Torn
          /\ MergeIndex(p)
          /\ Goto(p, "write_index") /\ index' = Torn
          /\ UNCHANGED <<shared, excl, failed>>
       \/ /\ ~IndexChanged(p)
          /\ Goto(p, "write_index") /\ index' = Torn
          /\ UNCHANGED <<shared, excl, mem, seen, failed>>
    /\ UNCHANGED <<marker, files, clock, ops, cache, loading, writing, saved,
                   crashes>>

\* The index is closed, its time stamp and size are noted, the lock released.
CloseIndex(p) ==
    /\ pc[p] = "write_index"
    /\ index' = [entries |-> mem[p], mtime |-> clock]
    /\ seen' = [seen EXCEPT ![p] = [mtime |-> clock, size |-> SizeOf(mem[p])]]
    /\ file_unlock(p)
    /\ Goto(p, "ready")
    /\ saved' = saved \cup {u \in Units : cache[p][u] # None}
    /\ UNCHANGED <<marker, files, clock, ops, mem, cache, loading, writing,
                   crashes, failed>>

-----------------------------------------------------------------------------
(* The environment *)

\* A process that finished, or that found errors and does not save.
Exit(p) ==
    /\ pc[p] = "ready"
    /\ Goto(p, "done")
    /\ file_unlock(p)
    /\ UNCHANGED <<disk, ops, memory, history>>

\* A process is killed: the kernel releases its locks.
Crash(p) ==
    /\ pc[p] \notin {"start", "done", "dead"} /\ crashes < MaxCrashes
    /\ crashes' = crashes + 1
    /\ Goto(p, "dead")
    /\ file_unlock(p)
    /\ UNCHANGED <<disk, ops, memory, saved, failed>>

\* Time stamps have a granularity: two saves may see the same time.
Tick ==
    /\ clock < MaxTime
    /\ clock' = clock + 1
    /\ UNCHANGED <<marker, files, index, shared, excl, pc, ops, memory, history>>

Step(p) ==
    \/ lib_new(p) \/ CreateLockFile(p) \/ InitLock(p) \/ lib_init(p)
    \/ GetLock(p) \/ ReadUnit(p) \/ LoadDep(p) \/ UnitLoaded(p)
    \/ SaveLock(p)
    \/ \E u \in Units : OpenUnit(p, u)
    \/ CloseUnit(p) \/ UnitsSaved(p) \/ OpenIndex(p) \/ CloseIndex(p)

Request(p) ==
    \/ \E u \in Units, k \in Kinds : lib_put(p, u, k)
    \/ \E u \in Units : lib_get(p, u)
    \/ lib_save(p) \/ Exit(p)

Finished ==
    /\ \A p \in Procs : pc[p] \in {"done", "dead"}
    /\ UNCHANGED vars

Next ==
    \/ \E p \in Procs : Step(p) \/ Request(p) \/ Crash(p)
    \/ Tick
    \/ Finished

Spec == Init /\ [][Next]_vars

\* The kernel schedules every process, so a call in progress goes on.
FairSpec == Spec /\ \A p \in Procs : WF_vars(Step(p))

-----------------------------------------------------------------------------
(* Properties *)

\* Every unit of a lib_save that returned stays listed in the index, whoever
\* saves afterwards with whatever stale copy of it: the index is re-read when
\* its time stamp or its size is not the one last seen, and a save in the same
\* tick of the clock is told by the size.
NoLostEntry ==
    index \notin {None, Torn} => saved \subseteq Listed(index.entries)

\* Whatever is listed in an index on disk has a file, also when a process is
\* killed in the middle of lib_save: "library corrupt: unit present in index
\* but missing on disk" is never reported.
NeverCorrupt == \A p \in Procs : failed[p] # "corrupt"

\* A process dies of an unreadable file only if some process was killed while
\* it wrote: the lock excludes writers even from a lib_get whose lock was
\* dropped by the loading of a dependency, because a unit is unpacked in one go
\* before its dependencies are loaded.
TornOnlyByCrash ==
    (\E p \in Procs : failed[p] = "torn") => crashes > 0

\* No process finds the library broken by what another one does to it, short of
\* being killed in the middle of a write.
ErrorsExplained == TypeOK /\ NeverCorrupt /\ TornOnlyByCrash

\* Every lib_new, lib_get and lib_save returns, or the process ends: nobody
\* waits for the lock for ever, a killed holder included.
CallsReturn ==
    \A p \in Procs :
        pc[p] \notin {"ready", "done", "dead"} ~> pc[p] \in {"ready", "done", "dead"}
=============================================================================
