--------------------------- MODULE NvcLockProofs ---------------------------
(***************************************************************************)
(* Safety of nvc_lock and nvc_unlock for every number of threads, locks    *)
(* and parking bays, every hash of locks to bays and every spin limit.     *)
(* There is one lemma per action, each showing that it preserves IInv.     *)
(***************************************************************************)
EXTENDS NvcLock, FiniteSetTheorems, TLAPS

\* The first CAS of nvc_lock: a new owner, or a thread that starts to spin.
LEMMA LockFastInv == ASSUME IInv, NEW t \in Threads, NEW l \in Locks, LockFast(t, l) PROVE IInv'
<1> USE LockAssumption DEF IInv, LockFast, Goto, MyBay, Word, UNLOCKED, LOCKED, CONTENDED, IS_LOCKED,
           HAS_PARKED
<1>1. TypeOK'
  BY DEF TypeOK, PCs, OwnerPCs, LockPCs
<1>2. LockInv'
  BY DEF TypeOK, LockInv, MutualExclusion, UnlockAssertion, Owns, OwnerPCs
<1>3. MutualExclusion'
  BY DEF TypeOK, LockInv, MutualExclusion, Owns, OwnerPCs
<1>4. UnlockAssertion'
  BY DEF TypeOK, LockInv, MutualExclusion, UnlockAssertion, Owns, OwnerPCs
<1>5. NoLostWakeup'
  <2> SUFFICES ASSUME NEW b \in Bays, NEW u \in waiting[b]
               PROVE  \/ /\ word'[lk'[u]] = CONTENDED
                         /\ \E v \in Threads : Owns(v, lk[u])'
                      \/ \E v \in Threads : pc'[v] = "broadcast" /\ MyBay(v)' = b
    BY Zenon DEF NoLostWakeup
  <2>1. u \in Threads /\ u # t /\ lk'[u] = lk[u] /\ lk[u] \in Locks
    BY DEF TypeOK, LockInv
  <2>2. CASE word[lk[u]] = CONTENDED /\ \E v \in Threads : Owns(v, lk[u])
    <3>1. word'[lk[u]] = CONTENDED
      BY Zenon, <2>1, <2>2 DEF TypeOK
    <3>2. \A v \in Threads : Owns(v, lk[u]) => Owns(v, lk[u])'
      BY Zenon, <2>1 DEF TypeOK, Owns, OwnerPCs
    <3> QED BY Zenon, <2>1, <2>2, <3>1, <3>2
  <2>3. CASE \E v \in Threads : pc[v] = "broadcast" /\ MyBay(v) = b
    BY Zenon, <2>3 DEF TypeOK
  <2> QED BY Zenon, <2>2, <2>3 DEF NoLostWakeup
<1>6. ParkedCount'
  <2>1. \A b \in Bays : ParkedIn(b)' = ParkedIn(b)
    BY DEF ParkedIn, TypeOK, LockInv
  <2> QED BY Zenon, <2>1 DEF ParkedCount, TypeOK
<1> QED BY Zenon, <1>1, <1>2, <1>3, <1>4, <1>5, <1>6

\* A turn of the spin loop touches only the thread's own locals.
LEMMA SpinInv == ASSUME IInv, NEW t \in Threads, Spin(t) PROVE IInv'
<1> USE LockAssumption DEF IInv, Spin, Goto, MyBay, Word, UNLOCKED, LOCKED, CONTENDED, IS_LOCKED,
           HAS_PARKED
<1>1. TypeOK'
  BY DEF TypeOK, PCs, OwnerPCs, LockPCs
<1>2. LockInv'
  BY DEF TypeOK, LockInv, MutualExclusion, UnlockAssertion, Owns, OwnerPCs
<1>3. MutualExclusion'
  BY DEF TypeOK, LockInv, MutualExclusion, Owns, OwnerPCs
<1>4. UnlockAssertion'
  BY DEF TypeOK, LockInv, MutualExclusion, UnlockAssertion, Owns, OwnerPCs
<1>5. NoLostWakeup'
  BY DEF TypeOK, LockInv, UnlockAssertion, NoLostWakeup, Owns, OwnerPCs
<1>6. ParkedCount'
  <2>1. \A b \in Bays : ParkedIn(b)' = ParkedIn(b)
    BY DEF ParkedIn, TypeOK, LockInv
  <2> QED BY Zenon, <2>1 DEF ParkedCount, TypeOK
<1> QED BY Zenon, <1>1, <1>2, <1>3, <1>4, <1>5, <1>6

\* Setting HAS_PARKED leaves the owner in place and a sleeper's lock contended.
LEMMA MarkInv == ASSUME IInv, NEW t \in Threads, Mark(t) PROVE IInv'
<1> USE LockAssumption DEF IInv, Mark, Goto, MyBay, Word, UNLOCKED, LOCKED, CONTENDED, IS_LOCKED,
           HAS_PARKED
<1>1. TypeOK'
  BY Zenon DEF TypeOK, PCs, OwnerPCs, LockPCs
<1>2. LockInv'
  BY DEF TypeOK, LockInv, MutualExclusion, UnlockAssertion, Owns, OwnerPCs
<1>3. MutualExclusion'
  BY DEF TypeOK, LockInv, MutualExclusion, Owns, OwnerPCs
<1>4. UnlockAssertion'
  BY DEF TypeOK, LockInv, MutualExclusion, UnlockAssertion, Owns, OwnerPCs
<1>5. NoLostWakeup'
  BY DEF TypeOK, LockInv, UnlockAssertion, NoLostWakeup, Owns, OwnerPCs
<1>6. ParkedCount'
  <2>1. \A b \in Bays : ParkedIn(b)' = ParkedIn(b)
    BY DEF ParkedIn, TypeOK, LockInv
  <2> QED BY Zenon, <2>1 DEF ParkedCount, TypeOK
<1> QED BY Zenon, <1>1, <1>2, <1>3, <1>4, <1>5, <1>6

\* thread_park taking the bay's mutex.
LEMMA ParkMutexInv == ASSUME IInv, NEW t \in Threads, ParkMutex(t) PROVE IInv'
<1> USE LockAssumption DEF IInv, ParkMutex, Goto, MyBay, Word, UNLOCKED, LOCKED, CONTENDED, IS_LOCKED,
           HAS_PARKED
<1>1. TypeOK'
  BY Zenon DEF TypeOK, PCs, OwnerPCs, LockPCs
<1>2. LockInv'
  BY DEF TypeOK, LockInv, MutualExclusion, UnlockAssertion, Owns, OwnerPCs
<1>3. MutualExclusion'
  BY DEF TypeOK, LockInv, MutualExclusion, Owns, OwnerPCs
<1>4. UnlockAssertion'
  BY DEF TypeOK, LockInv, MutualExclusion, UnlockAssertion, Owns, OwnerPCs
<1>5. NoLostWakeup'
  BY DEF TypeOK, LockInv, UnlockAssertion, NoLostWakeup, Owns, OwnerPCs
<1>6. ParkedCount'
  <2>1. \A b \in Bays : ParkedIn(b)' = ParkedIn(b)
    BY DEF ParkedIn, TypeOK, LockInv
  <2> QED BY Zenon, <2>1 DEF ParkedCount, TypeOK
<1> QED BY Zenon, <1>1, <1>2, <1>3, <1>4, <1>5, <1>6

\* lock_park_cb under the mutex.
LEMMA ParkCbInv == ASSUME IInv, NEW t \in Threads, ParkCb(t) PROVE IInv'
<1> USE LockAssumption DEF IInv, ParkCb, Goto, MyBay, Word, UNLOCKED, LOCKED, CONTENDED, IS_LOCKED,
           HAS_PARKED
<1>1. TypeOK'
  BY DEF TypeOK, PCs, OwnerPCs, LockPCs
<1>2. LockInv'
  BY DEF TypeOK, LockInv, MutualExclusion, UnlockAssertion, Owns, OwnerPCs
<1>3. MutualExclusion'
  BY DEF TypeOK, LockInv, MutualExclusion, Owns, OwnerPCs
<1>4. UnlockAssertion'
  BY DEF TypeOK, LockInv, MutualExclusion, UnlockAssertion, Owns, OwnerPCs
<1>5. NoLostWakeup'
  BY DEF TypeOK, LockInv, UnlockAssertion, NoLostWakeup, Owns, OwnerPCs
<1>6. ParkedCount'
  <2>1. \A b \in Bays : ParkedIn(b)' = ParkedIn(b)
    BY DEF ParkedIn, TypeOK, LockInv
  <2> QED BY Zenon, <2>1 DEF ParkedCount, TypeOK
<1> QED BY Zenon, <1>1, <1>2, <1>3, <1>4, <1>5, <1>6

\* Blocking: the thread becomes a member of ParkedIn as the count grows.
LEMMA ParkWaitInv == ASSUME IInv, NEW t \in Threads, ParkWait(t) PROVE IInv'
<1> USE LockAssumption DEF IInv, ParkWait, Goto, MyBay, Word, UNLOCKED, LOCKED, CONTENDED, IS_LOCKED,
           HAS_PARKED
<1>1. TypeOK'
  BY DEF TypeOK, PCs, OwnerPCs, LockPCs
<1>2. LockInv'
  BY DEF TypeOK, LockInv, MutualExclusion, UnlockAssertion, Owns, OwnerPCs
<1>3. MutualExclusion'
  BY DEF TypeOK, LockInv, MutualExclusion, Owns, OwnerPCs
<1>4. UnlockAssertion'
  BY DEF TypeOK, LockInv, MutualExclusion, UnlockAssertion, Owns, OwnerPCs
<1>5. NoLostWakeup'
  <2> SUFFICES ASSUME NEW b \in Bays, NEW u \in waiting'[b]
               PROVE  \/ word[lk[u]] = CONTENDED /\ \E v \in Threads : Owns(v, lk[u])'
                      \/ \E v \in Threads : pc'[v] = "broadcast" /\ MyBay(v) = b
    BY Zenon DEF NoLostWakeup
  <2>1. \A v \in Threads, l \in Locks : Owns(v, l)' <=> Owns(v, l)
    BY Zenon DEF Owns, OwnerPCs, TypeOK
  <2>2. CASE u = t
    <3>1. word[lk[t]] = CONTENDED /\ lk[t] \in Locks /\ u \in Threads
      BY Zenon, <2>2 DEF TypeOK, LockInv
    <3>2. \E v \in Threads : Owns(v, lk[t])
      BY Zenon, <3>1 DEF LockInv
    <3> QED BY Zenon, <2>1, <2>2, <3>1, <3>2
  <2>3. CASE u # t
    <3>1. u \in waiting[b] /\ u \in Threads
      BY Zenon, <2>3 DEF TypeOK
    <3> QED BY Zenon, <2>1, <2>3, <3>1 DEF NoLostWakeup, TypeOK
  <2> QED BY Zenon, <2>2, <2>3
<1>6. ParkedCount'
  <2> DEFINE b0 == MyBay(t)
  <2>1. ParkedIn(b0)' = ParkedIn(b0) \cup {t} /\ t \notin ParkedIn(b0)
    BY DEF ParkedIn, TypeOK, LockInv
  <2>2. \A b \in Bays \ {b0} : ParkedIn(b)' = ParkedIn(b)
    BY DEF ParkedIn, TypeOK, LockInv
  <2>3. IsFiniteSet(ParkedIn(b0))
    BY Zenon, FS_Subset DEF ParkedIn
  <2>4. Cardinality(ParkedIn(b0)') = Cardinality(ParkedIn(b0)) + 1
    BY Zenon, <2>1, <2>3, FS_AddElement
  <2> QED BY Zenon, <2>2, <2>4 DEF ParkedCount, TypeOK
<1> QED BY Zenon, <1>1, <1>2, <1>3, <1>4, <1>5, <1>6

\* Waking: the thread leaves ParkedIn as the count drops, which it can
\* only do from a positive value.
LEMMA ParkWakeInv == ASSUME IInv, NEW t \in Threads, ParkWake(t) PROVE IInv'
<1> USE LockAssumption DEF IInv, ParkWake, Goto, MyBay, Word, UNLOCKED, LOCKED, CONTENDED, IS_LOCKED,
           HAS_PARKED
<1>1. TypeOK'
  <2>1. t \in ParkedIn(MyBay(t)) /\ MyBay(t) \in Bays
    BY Zenon DEF ParkedIn, TypeOK
  <2>2. IsFiniteSet(ParkedIn(MyBay(t)))
    BY Zenon, FS_Subset DEF ParkedIn
  <2>3. parked[MyBay(t)] # 0
    BY Zenon, <2>1, <2>2, FS_EmptySet DEF ParkedCount
  <2> QED BY <2>1, <2>3 DEF TypeOK, PCs, OwnerPCs, LockPCs
<1>2. LockInv'
  BY DEF TypeOK, LockInv, MutualExclusion, UnlockAssertion, Owns, OwnerPCs
<1>3. MutualExclusion'
  BY DEF TypeOK, LockInv, MutualExclusion, Owns, OwnerPCs
<1>4. UnlockAssertion'
  BY DEF TypeOK, LockInv, MutualExclusion, UnlockAssertion, Owns, OwnerPCs
<1>5. NoLostWakeup'
  BY DEF TypeOK, LockInv, UnlockAssertion, NoLostWakeup, Owns, OwnerPCs
<1>6. ParkedCount'
  <2> DEFINE b0 == MyBay(t)
  <2>1. ParkedIn(b0)' = ParkedIn(b0) \ {t} /\ t \in ParkedIn(b0)
    BY DEF ParkedIn, TypeOK, LockInv
  <2>2. \A b \in Bays \ {b0} : ParkedIn(b)' = ParkedIn(b)
    BY DEF ParkedIn, TypeOK, LockInv
  <2>3. IsFiniteSet(ParkedIn(b0))
    BY Zenon, FS_Subset DEF ParkedIn
  <2>4. Cardinality(ParkedIn(b0)') = Cardinality(ParkedIn(b0)) - 1
    BY Zenon, <2>1, <2>3, FS_RemoveElement
  <2> QED BY Zenon, <2>2, <2>4 DEF ParkedCount, TypeOK
<1> QED BY Zenon, <1>1, <1>2, <1>3, <1>4, <1>5, <1>6

\* A wake-up for no reason.
LEMMA SpuriousWakeInv == ASSUME IInv, NEW t \in Threads, SpuriousWake(t) PROVE IInv'
<1> USE LockAssumption DEF IInv, SpuriousWake, Goto, MyBay, Word, UNLOCKED, LOCKED, CONTENDED, IS_LOCKED,
           HAS_PARKED
<1>1. TypeOK'
  BY Zenon DEF TypeOK, PCs, OwnerPCs, LockPCs
<1>2. LockInv'
  BY DEF TypeOK, LockInv, MutualExclusion, UnlockAssertion, Owns, OwnerPCs
<1>3. MutualExclusion'
  BY Zenon DEF TypeOK, LockInv, MutualExclusion, Owns, OwnerPCs
<1>4. UnlockAssertion'
  BY Zenon DEF TypeOK, LockInv, MutualExclusion, UnlockAssertion, Owns, OwnerPCs
<1>5. NoLostWakeup'
  BY DEF TypeOK, LockInv, UnlockAssertion, NoLostWakeup, Owns, OwnerPCs
<1>6. ParkedCount'
  <2>1. \A b \in Bays : ParkedIn(b)' = ParkedIn(b)
    BY DEF ParkedIn, TypeOK, LockInv
  <2> QED BY Zenon, <2>1 DEF ParkedCount, TypeOK
<1> QED BY Zenon, <1>1, <1>2, <1>3, <1>4, <1>5, <1>6

\* Re-reading the lock word after thread_park.
LEMMA ReloadInv == ASSUME IInv, NEW t \in Threads, Reload(t) PROVE IInv'
<1> USE LockAssumption DEF IInv, Reload, Goto, MyBay, Word, UNLOCKED, LOCKED, CONTENDED, IS_LOCKED,
           HAS_PARKED
<1>1. TypeOK'
  BY DEF TypeOK, PCs, OwnerPCs, LockPCs
<1>2. LockInv'
  BY DEF TypeOK, LockInv, MutualExclusion, UnlockAssertion, Owns, OwnerPCs
<1>3. MutualExclusion'
  BY DEF TypeOK, LockInv, MutualExclusion, Owns, OwnerPCs
<1>4. UnlockAssertion'
  BY DEF TypeOK, LockInv, MutualExclusion, UnlockAssertion, Owns, OwnerPCs
<1>5. NoLostWakeup'
  BY DEF TypeOK, LockInv, UnlockAssertion, NoLostWakeup, Owns, OwnerPCs
<1>6. ParkedCount'
  <2>1. \A b \in Bays : ParkedIn(b)' = ParkedIn(b)
    BY DEF ParkedIn, TypeOK, LockInv
  <2> QED BY Zenon, <2>1 DEF ParkedCount, TypeOK
<1> QED BY Zenon, <1>1, <1>2, <1>3, <1>4, <1>5, <1>6

\* The second CAS: it succeeds only on a word without IS_LOCKED, hence
\* without an owner.
LEMMA GrabInv == ASSUME IInv, NEW t \in Threads, Grab(t) PROVE IInv'
<1> USE LockAssumption DEF IInv, Grab, Goto, MyBay, Word, UNLOCKED, LOCKED, CONTENDED, IS_LOCKED,
           HAS_PARKED
<1>1. TypeOK'
  BY DEF TypeOK, PCs, OwnerPCs, LockPCs
<1>2. LockInv'
  <2>1. CASE word[lk[t]] = state[t]
    <3>1. IS_LOCKED \notin word[lk[t]]
      BY Zenon, <2>1 DEF LockInv
    <3>2. \A u \in Threads, l \in Locks :
            Owns(u, l)' <=> (Owns(u, l) \/ (u = t /\ l = lk[t]))
      BY Zenon, <2>1 DEF Owns, OwnerPCs, TypeOK
    <3>3. \A l \in Locks : l # lk[t] => word'[l] = word[l]
      BY Zenon, <2>1 DEF TypeOK
    <3>4. lk[t] \in Locks /\ IS_LOCKED \in word'[lk[t]]
      BY <2>1 DEF TypeOK
    <3>5. \A l \in Locks : IS_LOCKED \in word'[l] <=> \E u \in Threads : Owns(u, l)'
      BY Zenon, <3>2, <3>3, <3>4 DEF LockInv
    <3>6. \A u \in Threads : pc'[u] = "park_wait" => word'[lk'[u]] = CONTENDED
      <4>1. SUFFICES ASSUME NEW u \in Threads, pc'[u] = "park_wait"
                     PROVE  word'[lk'[u]] = CONTENDED
        OBVIOUS
      <4>2. u # t /\ word[lk[u]] = CONTENDED /\ lk'[u] = lk[u] /\ lk[u] \in Locks
        BY <2>1, <4>1 DEF LockInv, TypeOK
      <4>3. lk[u] # lk[t]
        BY Zenon, <3>1, <4>2
      <4> QED BY Zenon, <3>3, <4>2, <4>3
    <3>7. /\ \A u \in Threads : pc'[u] \in {"park_cb", "park_wait", "unpark_cb"}
                                 => mutex'[MyBay(u)'] = u
          /\ \A u \in Threads : pc'[u] = "grab" => IS_LOCKED \notin state'[u]
          /\ \A b \in Bays : \A u \in waiting'[b] : pc'[u] = "parked" /\ MyBay(u)' = b
      BY <2>1 DEF LockInv, TypeOK
    <3> QED BY Zenon, <3>5, <3>6, <3>7 DEF LockInv
  <2>2. CASE word[lk[t]] # state[t]
    BY <2>2 DEF TypeOK, LockInv, Owns, OwnerPCs
  <2> QED BY Zenon, <2>1, <2>2
<1>3. MutualExclusion'
  BY DEF TypeOK, LockInv, MutualExclusion, Owns, OwnerPCs
<1>4. UnlockAssertion'
  BY DEF TypeOK, LockInv, MutualExclusion, UnlockAssertion, Owns, OwnerPCs
<1>5. NoLostWakeup'
  BY DEF TypeOK, LockInv, UnlockAssertion, NoLostWakeup, Owns, OwnerPCs
<1>6. ParkedCount'
  <2>1. \A b \in Bays : ParkedIn(b)' = ParkedIn(b)
    BY DEF ParkedIn, TypeOK, LockInv
  <2> QED BY Zenon, <2>1 DEF ParkedCount, TypeOK
<1> QED BY Zenon, <1>1, <1>2, <1>3, <1>4, <1>5, <1>6

\* The CAS of nvc_unlock: a lock without HAS_PARKED has no sleepers.
LEMMA UnlockFastInv == ASSUME IInv, NEW t \in Threads, UnlockFast(t) PROVE IInv'
<1> USE LockAssumption DEF IInv, UnlockFast, Goto, MyBay, Word, UNLOCKED, LOCKED, CONTENDED, IS_LOCKED,
           HAS_PARKED
<1>1. TypeOK'
  BY DEF TypeOK, PCs, OwnerPCs, LockPCs
<1>2. LockInv'
  <2>1. CASE word[lk[t]] = LOCKED
    <3>1. \A u \in Threads, l \in Locks :
            Owns(u, l)' <=> Owns(u, l) /\ l # lk[t]
      BY Zenon, <2>1 DEF Owns, OwnerPCs, TypeOK, MutualExclusion
    <3>2. \A l \in Locks : l # lk[t] => word'[l] = word[l]
      BY Zenon, <2>1 DEF TypeOK
    <3>3. word'[lk[t]] = UNLOCKED
      BY <2>1 DEF TypeOK
    <3>4. \A l \in Locks :
            IS_LOCKED \in word'[l] <=> \E u \in Threads : Owns(u, l)'
      BY <3>1, <3>2, <3>3 DEF LockInv
    <3>5. ASSUME NEW u \in Threads, pc'[u] = "park_wait"
          PROVE  word'[lk'[u]] = CONTENDED
      <4>1. word[lk[u]] = CONTENDED
        BY <3>5 DEF LockInv, TypeOK
      <4>2. lk[u] # lk[t]
        BY <2>1, <4>1
      <4> QED BY Zenon, <3>2, <4>1, <4>2 DEF TypeOK
    <3> QED BY <2>1, <3>4, <3>5 DEF LockInv, TypeOK
  <2>2. CASE word[lk[t]] # LOCKED
    BY <2>2 DEF TypeOK, LockInv, Owns, OwnerPCs
  <2> QED BY Zenon, <2>1, <2>2
<1>3. MutualExclusion'
  BY DEF TypeOK, LockInv, MutualExclusion, Owns, OwnerPCs
<1>4. UnlockAssertion'
  BY DEF TypeOK, LockInv, MutualExclusion, UnlockAssertion, Owns, OwnerPCs
<1>5. NoLostWakeup'
  <2>1. CASE word[lk[t]] = LOCKED
    <3> SUFFICES ASSUME NEW b \in Bays, NEW u \in waiting[b]
                 PROVE  \/ /\ word'[lk[u]] = CONTENDED
                           /\ \E v \in Threads : Owns(v, lk[u])'
                        \/ \E v \in Threads : pc'[v] = "broadcast" /\ MyBay(v) = b
      BY Zenon DEF NoLostWakeup
    <3>1. u \in Threads
      BY Zenon DEF TypeOK
    <3>2. CASE word[lk[u]] = CONTENDED /\ \E v \in Threads : Owns(v, lk[u])
      <4>1. lk[u] # lk[t]
        BY <2>1, <3>2
      <4> QED BY Zenon, <2>1, <3>1, <3>2, <4>1 DEF TypeOK, Owns, OwnerPCs
    <3>3. CASE \E v \in Threads : pc[v] = "broadcast" /\ MyBay(v) = b
      BY Zenon, <2>1, <3>3 DEF TypeOK
    <3> QED BY Zenon, <3>2, <3>3 DEF NoLostWakeup
  <2>2. CASE word[lk[t]] # LOCKED
    BY <2>2 DEF TypeOK, NoLostWakeup, Owns, OwnerPCs
  <2> QED BY Zenon, <2>1, <2>2
<1>6. ParkedCount'
  <2>1. \A b \in Bays : ParkedIn(b)' = ParkedIn(b)
    BY DEF ParkedIn, TypeOK, LockInv
  <2> QED BY Zenon, <2>1 DEF ParkedCount, TypeOK
<1> QED BY Zenon, <1>1, <1>2, <1>3, <1>4, <1>5, <1>6

\* thread_unpark taking the bay's mutex.
LEMMA UnparkMutexInv == ASSUME IInv, NEW t \in Threads, UnparkMutex(t) PROVE IInv'
<1> USE LockAssumption DEF IInv, UnparkMutex, Goto, MyBay, Word, UNLOCKED, LOCKED, CONTENDED, IS_LOCKED,
           HAS_PARKED
<1>1. TypeOK'
  BY Zenon DEF TypeOK, PCs, OwnerPCs, LockPCs
<1>2. LockInv'
  BY DEF TypeOK, LockInv, MutualExclusion, UnlockAssertion, Owns, OwnerPCs
<1>3. MutualExclusion'
  BY DEF TypeOK, LockInv, MutualExclusion, Owns, OwnerPCs
<1>4. UnlockAssertion'
  BY DEF TypeOK, LockInv, MutualExclusion, UnlockAssertion, Owns, OwnerPCs
<1>5. NoLostWakeup'
  BY DEF TypeOK, LockInv, UnlockAssertion, NoLostWakeup, Owns, OwnerPCs
<1>6. ParkedCount'
  <2>1. \A b \in Bays : ParkedIn(b)' = ParkedIn(b)
    BY DEF ParkedIn, TypeOK, LockInv
  <2> QED BY Zenon, <2>1 DEF ParkedCount, TypeOK
<1> QED BY Zenon, <1>1, <1>2, <1>3, <1>4, <1>5, <1>6

\* lock_unpark_cb: the release is followed by this thread's broadcast.
LEMMA UnparkCbInv == ASSUME IInv, NEW t \in Threads, UnparkCb(t) PROVE IInv'
<1> USE LockAssumption DEF IInv, UnparkCb, Goto, MyBay, Word, UNLOCKED, LOCKED, CONTENDED, IS_LOCKED,
           HAS_PARKED
<1>1. TypeOK'
  BY Zenon DEF TypeOK, PCs, OwnerPCs, LockPCs
<1>2. LockInv'
  BY DEF TypeOK, LockInv, MutualExclusion, UnlockAssertion, Owns, OwnerPCs
<1>3. MutualExclusion'
  BY DEF TypeOK, LockInv, MutualExclusion, Owns, OwnerPCs
<1>4. UnlockAssertion'
  BY DEF TypeOK, LockInv, MutualExclusion, UnlockAssertion, Owns, OwnerPCs
<1>5. NoLostWakeup'
  BY DEF TypeOK, LockInv, UnlockAssertion, NoLostWakeup, Owns, OwnerPCs
<1>6. ParkedCount'
  <2>1. \A b \in Bays : ParkedIn(b)' = ParkedIn(b)
    BY DEF ParkedIn, TypeOK, LockInv
  <2> QED BY Zenon, <2>1 DEF ParkedCount, TypeOK
<1> QED BY Zenon, <1>1, <1>2, <1>3, <1>4, <1>5, <1>6

\* The broadcast empties the bay.
LEMMA BroadcastInv == ASSUME IInv, NEW t \in Threads, Broadcast(t) PROVE IInv'
<1> USE LockAssumption DEF IInv, Broadcast, Goto, MyBay, Word, UNLOCKED, LOCKED, CONTENDED, IS_LOCKED,
           HAS_PARKED
<1>1. TypeOK'
  BY Zenon DEF TypeOK, PCs, OwnerPCs, LockPCs
<1>2. LockInv'
  BY DEF TypeOK, LockInv, MutualExclusion, UnlockAssertion, Owns, OwnerPCs
<1>3. MutualExclusion'
  BY DEF TypeOK, LockInv, MutualExclusion, Owns, OwnerPCs
<1>4. UnlockAssertion'
  BY DEF TypeOK, LockInv, MutualExclusion, UnlockAssertion, Owns, OwnerPCs
<1>5. NoLostWakeup'
  BY DEF TypeOK, LockInv, UnlockAssertion, NoLostWakeup, Owns, OwnerPCs
<1>6. ParkedCount'
  <2>1. \A b \in Bays : ParkedIn(b)' = ParkedIn(b)
    BY DEF ParkedIn, TypeOK, LockInv
  <2> QED BY Zenon, <2>1 DEF ParkedCount, TypeOK
<1> QED BY Zenon, <1>1, <1>2, <1>3, <1>4, <1>5, <1>6

-----------------------------------------------------------------------------

LEMMA InitInv == Init => IInv
<1> SUFFICES ASSUME Init PROVE IInv
  OBVIOUS
<1> USE LockAssumption DEF Init
<1>1. TypeOK
  BY DEF TypeOK, Word, UNLOCKED, PCs
<1>2. LockInv /\ MutualExclusion /\ UnlockAssertion /\ NoLostWakeup
  BY Zenon DEF LockInv, MutualExclusion, UnlockAssertion, NoLostWakeup, Owns,
         OwnerPCs, UNLOCKED
<1>3. \A b \in Bays : ParkedIn(b) = {}
  BY Zenon DEF ParkedIn
<1>4. ParkedCount
  BY Zenon, <1>3, FS_EmptySet DEF ParkedCount
<1> QED BY Zenon, <1>1, <1>2, <1>4 DEF IInv

LEMMA NextInv == IInv /\ [Next]_vars => IInv'
<1> SUFFICES ASSUME IInv, [Next]_vars PROVE IInv'
  OBVIOUS
<1>1. CASE UNCHANGED vars
  BY <1>1 DEF vars, IInv, TypeOK, LockInv, MutualExclusion, UnlockAssertion,
              ParkedCount, ParkedIn, NoLostWakeup, Owns, MyBay
<1>2. ASSUME NEW t \in Threads, NEW l \in Locks, LockFast(t, l) PROVE IInv'
  BY Zenon, <1>2, LockFastInv
<1>3. ASSUME NEW t \in Threads, LocalStep(t) PROVE IInv'
  BY Zenon, <1>3, SpinInv, MarkInv, ParkCbInv, ParkWaitInv, ReloadInv, GrabInv,
     UnlockFastInv, UnparkCbInv, BroadcastInv DEF LocalStep
<1>4. ASSUME NEW t \in Threads, MutexStep(t) PROVE IInv'
  BY Zenon, <1>4, ParkMutexInv, UnparkMutexInv, ParkWakeInv DEF MutexStep
<1>5. ASSUME NEW t \in Threads, SpuriousWake(t) PROVE IInv'
  BY Zenon, <1>5, SpuriousWakeInv
<1> QED BY Zenon, <1>1, <1>2, <1>3, <1>4, <1>5 DEF Next

\* IInv is an invariant of every execution of nvc_lock and nvc_unlock.
THEOREM LockInvariant == Spec => []IInv
  BY InitInv, NextInv, PTL DEF Spec

\* Two threads never own the same nvc_lock_t.
THEOREM LockMutualExclusion == Spec => []MutualExclusion
<1>1. IInv => MutualExclusion
  BY Zenon DEF IInv
<1> QED BY <1>1, LockInvariant, PTL

\* The assertions in nvc_unlock and lock_unpark_cb never fail.
THEOREM LockUnlockAssertion == Spec => []UnlockAssertion
<1>1. IInv => UnlockAssertion
  BY Zenon DEF IInv
<1> QED BY <1>1, LockInvariant, PTL

\* A thread that sleeps in a bay has an owner or a broadcaster that will
\* wake it: lock_park_cb's check under the bay's mutex loses no wake-up.
THEOREM LockNoLostWakeup == Spec => []NoLostWakeup
<1>1. IInv => NoLostWakeup
  BY Zenon DEF IInv
<1> QED BY <1>1, LockInvariant, PTL

-----------------------------------------------------------------------------
(* The refinement: the owner of a lock is the thread with Owns(t, l). *)

\* An owner is the one that OwnerOf chooses, before and after a step.
LEMMA OwnerOfOwner ==
  ASSUME MutualExclusion, MutualExclusion', NEW t \in Threads, NEW l \in Locks
  PROVE  /\ Owns(t, l) => OwnerOf(l) = t
         /\ Owns(t, l)' => OwnerOf(l)' = t
  BY Zenon DEF MutualExclusion, OwnerOf

\* A step that changes no ownership is invisible through the mapping.
LEMMA OwnersUnchanged ==
  ASSUME MutualExclusion, MutualExclusion',
         \A t \in Threads, l \in Locks : Owns(t, l)' <=> Owns(t, l)
  PROVE  UNCHANGED ownerMap
<1> SUFFICES ASSUME NEW l \in Locks PROVE OwnerOf(l)' = OwnerOf(l)
  BY Zenon DEF ownerMap
<1>1. CASE \E t \in Threads : Owns(t, l)
  BY Zenon, <1>1, OwnerOfOwner
<1>2. CASE ~ \E t \in Threads : Owns(t, l)
  BY Zenon, <1>2 DEF OwnerOf
<1> QED BY Zenon, <1>1, <1>2

\* A step that makes t the first owner of l, and changes no other ownership,
\* acquires the abstract mutex.
LEMMA OwnerAcquires ==
  ASSUME MutualExclusion, MutualExclusion', NEW t \in Threads, NEW l \in Locks,
         Owns(t, l)', \A u \in Threads : ~ Owns(u, l),
         \A u \in Threads, k \in Locks : k # l => (Owns(u, k)' <=> Owns(u, k))
  PROVE  M!Next
<1>1. OwnerOf(l) = NoThread /\ OwnerOf(l)' = t
  BY Zenon, OwnerOfOwner DEF OwnerOf
<1>2. \A k \in Locks : k # l => OwnerOf(k)' = OwnerOf(k)
  <2> SUFFICES ASSUME NEW k \in Locks, k # l PROVE OwnerOf(k)' = OwnerOf(k)
    OBVIOUS
  <2>1. CASE \E u \in Threads : Owns(u, k)
    BY Zenon, <2>1, OwnerOfOwner
  <2>2. CASE ~ \E u \in Threads : Owns(u, k)
    BY Zenon, <2>2 DEF OwnerOf
  <2> QED BY Zenon, <2>1, <2>2
<1>3. M!Acquire(t, l)
  BY Zenon, <1>1, <1>2 DEF M!Acquire, ownerMap
<1> QED BY Zenon, <1>3 DEF M!Next

\* A step by which the owner t of l gives it up, and that changes no other
\* ownership, releases the abstract mutex.
LEMMA OwnerReleases ==
  ASSUME MutualExclusion, MutualExclusion', NEW t \in Threads, NEW l \in Locks,
         Owns(t, l), \A u \in Threads : ~ Owns(u, l)',
         \A u \in Threads, k \in Locks : k # l => (Owns(u, k)' <=> Owns(u, k))
  PROVE  M!Next
<1>1. OwnerOf(l) = t /\ OwnerOf(l)' = NoThread
  BY Zenon, OwnerOfOwner DEF OwnerOf
<1>2. \A k \in Locks : k # l => OwnerOf(k)' = OwnerOf(k)
  <2> SUFFICES ASSUME NEW k \in Locks, k # l PROVE OwnerOf(k)' = OwnerOf(k)
    OBVIOUS
  <2>1. CASE \E u \in Threads : Owns(u, k)
    BY Zenon, <2>1, OwnerOfOwner
  <2>2. CASE ~ \E u \in Threads : Owns(u, k)
    BY Zenon, <2>2 DEF OwnerOf
  <2> QED BY Zenon, <2>1, <2>2
<1>3. M!Release(t, l)
  BY Zenon, <1>1, <1>2 DEF M!Release, ownerMap
<1> QED BY Zenon, <1>3 DEF M!Next

\* Every step of the lock's code is a step of the abstract mutex or a stutter:
\* LockFast and Grab acquire, UnlockFast and UnparkCb release.
LEMMA StepRefines ==
  ASSUME IInv, IInv', [Next]_vars PROVE M!Next \/ UNCHANGED ownerMap
<1> USE DEF Goto, MyBay
<1>1. TypeOK /\ LockInv /\ MutualExclusion /\ MutualExclusion'
  BY Zenon DEF IInv
<1>2. ASSUME NEW t \in Threads, NEW l \in Locks, LockFast(t, l)
      PROVE  M!Next \/ UNCHANGED ownerMap
  <2>1. CASE word[l] = UNLOCKED
    <3>1. Owns(t, l)' /\ \A u \in Threads : ~ Owns(u, l)
      BY <1>1, <1>2, <2>1 DEF LockFast, TypeOK, LockInv, Owns, OwnerPCs,
                              UNLOCKED, IS_LOCKED
    <3>2. \A u \in Threads, k \in Locks : k # l => (Owns(u, k)' <=> Owns(u, k))
      BY Zenon, <1>1, <1>2, <2>1 DEF LockFast, TypeOK, Owns, OwnerPCs
    <3> QED BY Zenon, <1>1, <3>1, <3>2, OwnerAcquires
  <2>2. CASE word[l] # UNLOCKED
    <3>1. \A u \in Threads, k \in Locks : Owns(u, k)' <=> Owns(u, k)
      BY Zenon, <1>1, <1>2, <2>2 DEF LockFast, TypeOK, Owns, OwnerPCs
    <3> QED BY Zenon, <1>1, <3>1, OwnersUnchanged
  <2> QED BY Zenon, <2>1, <2>2
<1>3. ASSUME NEW t \in Threads, Grab(t)
      PROVE  M!Next \/ UNCHANGED ownerMap
  <2>1. CASE word[lk[t]] = state[t]
    <3>1. PICK l \in Locks : l = lk[t]
      BY Zenon, <1>1 DEF TypeOK
    <3>2. Owns(t, l)' /\ \A u \in Threads : ~ Owns(u, l)
      BY <1>1, <1>3, <2>1, <3>1 DEF Grab, TypeOK, LockInv, Owns, OwnerPCs
    <3>3. \A u \in Threads, k \in Locks : k # l => (Owns(u, k)' <=> Owns(u, k))
      BY Zenon, <1>1, <1>3, <2>1, <3>1 DEF Grab, TypeOK, Owns, OwnerPCs
    <3> QED BY Zenon, <1>1, <3>2, <3>3, OwnerAcquires
  <2>2. CASE word[lk[t]] # state[t]
    <3>1. \A u \in Threads, k \in Locks : Owns(u, k)' <=> Owns(u, k)
      BY Zenon, <1>1, <1>3, <2>2 DEF Grab, TypeOK, Owns, OwnerPCs
    <3> QED BY Zenon, <1>1, <3>1, OwnersUnchanged
  <2> QED BY Zenon, <2>1, <2>2
<1>4. ASSUME NEW t \in Threads, UnlockFast(t) \/ UnparkCb(t)
      PROVE  M!Next \/ UNCHANGED ownerMap
  <2>1. CASE pc'[t] = "unpark"
    <3>1. \A u \in Threads, k \in Locks : Owns(u, k)' <=> Owns(u, k)
      BY Zenon, <1>1, <1>4, <2>1 DEF UnlockFast, UnparkCb, TypeOK, Owns, OwnerPCs
    <3> QED BY Zenon, <1>1, <3>1, OwnersUnchanged
  <2>2. CASE pc'[t] # "unpark"
    <3>1. PICK k \in Locks : k = lk[t]
      BY Zenon, <1>1 DEF TypeOK
    <3>2. Owns(t, k) /\ ~ Owns(t, k)'
      BY Zenon, <1>1, <1>4, <2>2, <3>1
         DEF UnlockFast, UnparkCb, TypeOK, Owns, OwnerPCs
    <3>3. \A u \in Threads : u # t => ~ Owns(u, k)'
      BY Zenon, <1>1, <1>4, <3>2
         DEF UnlockFast, UnparkCb, TypeOK, Owns, MutualExclusion
    <3>4. \A u \in Threads, m \in Locks :
            m # k => (Owns(u, m)' <=> Owns(u, m))
      BY Zenon, <1>1, <1>4, <3>1 DEF UnlockFast, UnparkCb, TypeOK, Owns
    <3>5. \A u \in Threads : ~ Owns(u, k)'
      BY Zenon, <3>2, <3>3
    <3> QED BY Zenon, <1>1, <3>2, <3>4, <3>5, OwnerReleases
  <2> QED BY Zenon, <2>1, <2>2
<1>5. ASSUME NEW t \in Threads,
             \/ Spin(t) \/ Mark(t) \/ ParkCb(t) \/ ParkWait(t) \/ Reload(t)
             \/ Broadcast(t) \/ MutexStep(t) \/ SpuriousWake(t)
      PROVE  M!Next \/ UNCHANGED ownerMap
  <2>1. \A u \in Threads, k \in Locks : Owns(u, k)' <=> Owns(u, k)
    BY Zenon, <1>1, <1>5 DEF Spin, Mark, ParkMutex, ParkCb, ParkWait, ParkWake,
       SpuriousWake, Reload, Broadcast, UnparkMutex, MutexStep, TypeOK, Owns,
       OwnerPCs
  <2> QED BY Zenon, <1>1, <2>1, OwnersUnchanged
<1>6. CASE UNCHANGED vars
  <2>1. \A u \in Threads, k \in Locks : Owns(u, k)' <=> Owns(u, k)
    BY Zenon, <1>6 DEF vars, Owns
  <2> QED BY Zenon, <1>1, <2>1, OwnersUnchanged
<1> QED BY Zenon, <1>2, <1>3, <1>4, <1>5, <1>6 DEF Next, LocalStep

\* nvc_lock and nvc_unlock implement the abstract mutex.
THEOREM LockImplementsMutex == Spec => ImplementsMutex
<1>1. Init => M!Init
  BY Zenon DEF Init, M!Init, ownerMap, OwnerOf, Owns, OwnerPCs
<1>2. IInv /\ IInv' /\ [Next]_vars => [M!Next]_ownerMap
  BY Zenon, StepRefines
<1> QED BY <1>1, <1>2, LockInvariant, PTL DEF Spec, ImplementsMutex, M!Spec

=============================================================================
