------------------------------ MODULE NvcLock ------------------------------
(***************************************************************************)
(* The adaptive lock of thread.c: a one-byte lock word taken with a CAS,   *)
(* and a parking lot of condition variables ("bays") that several locks    *)
(* share.  Every access to shared memory is an action of its own; pc names *)
(* the access a thread is about to make.                                   *)
(***************************************************************************)
EXTENDS Naturals, FiniteSets

CONSTANTS
  Threads,
  Locks,
  Bays,
  BayOf,       \* parking_bay_for: the hash of a lock's address to a bay
  LockSpins,   \* LOCK_SPINS
  NoThread

ASSUME LockAssumption ==
  /\ BayOf \in [Locks -> Bays]
  /\ LockSpins \in Nat
  /\ NoThread \notin Threads
  /\ IsFiniteSet(Threads)

IS_LOCKED  == "IS_LOCKED"
HAS_PARKED == "HAS_PARKED"

\* A lock word is the set of its bits.
Word       == SUBSET {IS_LOCKED, HAS_PARKED}
UNLOCKED   == {}
LOCKED     == {IS_LOCKED}
CONTENDED  == {IS_LOCKED, HAS_PARKED}

VARIABLES
  word,      \* the nvc_lock_t itself
  mutex,     \* bay->mutex: its owner
  parked,    \* bay->parked
  waiting,   \* threads blocked on bay->cond
  pc,
  lk,        \* the lock argument of the call a thread is in
  state,     \* nvc_lock's local copy of the lock word
  spins      \* nvc_lock's local spin count

vars == <<word, mutex, parked, waiting, pc, lk, state, spins>>

\* The accesses of a thread that owns its lock, and of one waiting for it.
OwnerPCs == {"held", "unpark", "unpark_cb"}
LockPCs  == {"spin", "mark", "park", "park_cb", "park_wait", "parked",
             "reload", "grab"}
PCs      == {"idle", "broadcast"} \cup OwnerPCs \cup LockPCs

MyBay(t) == BayOf[lk[t]]
Goto(t, l) == pc' = [pc EXCEPT ![t] = l]

Init ==
  /\ word    = [l \in Locks |-> UNLOCKED]
  /\ mutex   = [b \in Bays |-> NoThread]
  /\ parked  = [b \in Bays |-> 0]
  /\ waiting = [b \in Bays |-> {}]
  /\ pc      = [t \in Threads |-> "idle"]
  /\ lk      \in [Threads -> Locks]
  /\ state   = [t \in Threads |-> UNLOCKED]
  /\ spins   = [t \in Threads |-> 0]

-----------------------------------------------------------------------------
(* nvc_lock *)

\* Mutant: a call while another lock is held loses track of that lock.
LockFastNested(t, l) ==
  /\ pc[t] \in {"idle", "held"}
  /\ lk' = [lk EXCEPT ![t] = l]
  /\ \/ /\ word[l] = UNLOCKED
        /\ word' = [word EXCEPT ![l] = LOCKED]
        /\ Goto(t, "held")
        /\ UNCHANGED <<state, spins>>
     \/ /\ word[l] # UNLOCKED
        /\ state' = [state EXCEPT ![t] = word[l]]
        /\ spins' = [spins EXCEPT ![t] = 0]
        /\ Goto(t, "spin")
        /\ UNCHANGED word
  /\ UNCHANGED <<mutex, parked, waiting>>

\* The first CAS: the uncontended case.
LockFast(t, l) ==
  /\ pc[t] = "idle"
  /\ lk' = [lk EXCEPT ![t] = l]
  /\ \/ /\ word[l] = UNLOCKED
        /\ word' = [word EXCEPT ![l] = LOCKED]
        /\ Goto(t, "held")
        /\ UNCHANGED <<state, spins>>
     \/ /\ word[l] # UNLOCKED
        /\ state' = [state EXCEPT ![t] = word[l]]
        /\ spins' = [spins EXCEPT ![t] = 0]
        /\ Goto(t, "spin")
        /\ UNCHANGED word
  /\ UNCHANGED <<mutex, parked, waiting>>

\* One turn of the spin loop, or its exit (locals no later step reads are
\* reset, so that they do not tell states apart).
Spin(t) ==
  /\ pc[t] = "spin"
  /\ \/ /\ IS_LOCKED \in state[t] /\ spins[t] < LockSpins
        /\ spins' = [spins EXCEPT ![t] = @ + 1]
        /\ state' = [state EXCEPT ![t] = word[lk[t]]]
        /\ UNCHANGED pc
     \/ /\ IS_LOCKED \in state[t] /\ spins[t] >= LockSpins
        /\ spins' = [spins EXCEPT ![t] = 0]
        /\ state' = [state EXCEPT ![t] = UNLOCKED]
        /\ Goto(t, "mark")
     \/ /\ IS_LOCKED \notin state[t]
        /\ spins' = [spins EXCEPT ![t] = 0]
        /\ Goto(t, "grab")
        /\ UNCHANGED state
  /\ UNCHANGED <<word, mutex, parked, waiting, lk>>

\* Announce a parked thread; a failed CAS is ignored.
Mark(t) ==
  /\ pc[t] = "mark"
  /\ word' = IF word[lk[t]] = LOCKED
             THEN [word EXCEPT ![lk[t]] = CONTENDED] ELSE word
  /\ Goto(t, "park")
  /\ UNCHANGED <<mutex, parked, waiting, lk, state, spins>>

\* thread_park: take the bay's mutex.
ParkMutex(t) ==
  /\ pc[t] = "park"
  /\ mutex[MyBay(t)] = NoThread
  /\ mutex' = [mutex EXCEPT ![MyBay(t)] = t]
  /\ Goto(t, "park_cb")
  /\ UNCHANGED <<word, parked, waiting, lk, state, spins>>

\* Mutant: lock_park_cb only checks that the lock is owned.
ParkCbOwnedOnly(t) ==
  /\ pc[t] = "park_cb"
  /\ \/ /\ IS_LOCKED \in word[lk[t]]
        /\ Goto(t, "park_wait")
        /\ UNCHANGED mutex
     \/ /\ IS_LOCKED \notin word[lk[t]]
        /\ mutex' = [mutex EXCEPT ![MyBay(t)] = NoThread]
        /\ Goto(t, "reload")
  /\ UNCHANGED <<word, parked, waiting, lk, state, spins>>

\* lock_park_cb, with the mutex held.
ParkCb(t) ==
  /\ pc[t] = "park_cb"
  /\ \/ /\ word[lk[t]] = CONTENDED
        /\ Goto(t, "park_wait")
        /\ UNCHANGED mutex
     \/ /\ word[lk[t]] # CONTENDED
        /\ mutex' = [mutex EXCEPT ![MyBay(t)] = NoThread]
        /\ Goto(t, "reload")
  /\ UNCHANGED <<word, parked, waiting, lk, state, spins>>

\* Count the thread and block: the wait releases the mutex atomically.
ParkWait(t) ==
  /\ pc[t] = "park_wait"
  /\ parked'  = [parked EXCEPT ![MyBay(t)] = @ + 1]
  /\ waiting' = [waiting EXCEPT ![MyBay(t)] = @ \cup {t}]
  /\ mutex'   = [mutex EXCEPT ![MyBay(t)] = NoThread]
  /\ Goto(t, "parked")
  /\ UNCHANGED <<word, lk, state, spins>>

\* platform_cond_wait returns with the mutex held; thread_park drops it
\* after decrementing the count, which nothing else can see in between.
ParkWake(t) ==
  /\ pc[t] = "parked"
  /\ t \notin waiting[MyBay(t)]
  /\ mutex[MyBay(t)] = NoThread
  /\ parked' = [parked EXCEPT ![MyBay(t)] = @ - 1]
  /\ Goto(t, "reload")
  /\ UNCHANGED <<word, mutex, waiting, lk, state, spins>>

\* POSIX allows a condition wait to return for no reason.
SpuriousWake(t) ==
  /\ t \in waiting[MyBay(t)]
  /\ waiting' = [waiting EXCEPT ![MyBay(t)] = @ \ {t}]
  /\ UNCHANGED <<word, mutex, parked, pc, lk, state, spins>>

\* After thread_park: retry from the top, or try to take a free lock.
Reload(t) ==
  /\ pc[t] = "reload"
  /\ state' = [state EXCEPT ![t] = word[lk[t]]]
  /\ spins' = [spins EXCEPT ![t] = 0]
  /\ Goto(t, IF IS_LOCKED \in word[lk[t]] THEN "spin" ELSE "grab")
  /\ UNCHANGED <<word, mutex, parked, waiting, lk>>

\* The CAS on a word seen unowned; on failure it reloads state.
Grab(t) ==
  /\ pc[t] = "grab"
  /\ \/ /\ word[lk[t]] = state[t]
        /\ word' = [word EXCEPT ![lk[t]] = @ \cup {IS_LOCKED}]
        /\ state' = [state EXCEPT ![t] = UNLOCKED]
        /\ Goto(t, "held")
        /\ UNCHANGED spins
     \/ /\ word[lk[t]] # state[t]
        /\ state' = [state EXCEPT ![t] = word[lk[t]]]
        /\ spins' = [spins EXCEPT ![t] = 0]
        /\ Goto(t, "spin")
        /\ UNCHANGED word
  /\ UNCHANGED <<mutex, parked, waiting, lk>>

-----------------------------------------------------------------------------
(* nvc_unlock *)

\* Mutant: the CAS is tried again instead of waking the parked threads.
UnlockFastRetry(t) ==
  /\ pc[t] = "held"
  /\ \/ /\ word[lk[t]] = LOCKED
        /\ word' = [word EXCEPT ![lk[t]] = UNLOCKED]
        /\ Goto(t, "idle")
     \/ word[lk[t]] # LOCKED /\ UNCHANGED <<word, pc>>
  /\ UNCHANGED <<mutex, parked, waiting, lk, state, spins>>

UnlockFast(t) ==
  /\ pc[t] = "held"
  /\ \/ /\ word[lk[t]] = LOCKED
        /\ word' = [word EXCEPT ![lk[t]] = UNLOCKED]
        /\ Goto(t, "idle")
     \/ /\ word[lk[t]] # LOCKED
        /\ Goto(t, "unpark")
        /\ UNCHANGED word
  /\ UNCHANGED <<mutex, parked, waiting, lk, state, spins>>

\* thread_unpark: take the bay's mutex.
UnparkMutex(t) ==
  /\ pc[t] = "unpark"
  /\ mutex[MyBay(t)] = NoThread
  /\ mutex' = [mutex EXCEPT ![MyBay(t)] = t]
  /\ Goto(t, "unpark_cb")
  /\ UNCHANGED <<word, parked, waiting, lk, state, spins>>

\* lock_unpark_cb releases the lock, keeping the bit while anyone is parked
\* in the bay, on this lock or another.
UnparkCb(t) ==
  /\ pc[t] = "unpark_cb"
  /\ word' = [word EXCEPT ![lk[t]] =
                IF parked[MyBay(t)] > 0 THEN {HAS_PARKED} ELSE UNLOCKED]
  /\ mutex' = [mutex EXCEPT ![MyBay(t)] = NoThread]
  /\ Goto(t, "broadcast")
  /\ UNCHANGED <<parked, waiting, lk, state, spins>>

Broadcast(t) ==
  /\ pc[t] = "broadcast"
  /\ waiting' = [waiting EXCEPT ![MyBay(t)] = {}]
  /\ Goto(t, "idle")
  /\ UNCHANGED <<word, mutex, parked, lk, state, spins>>

-----------------------------------------------------------------------------

\* What a thread does by itself; ParkMutex, UnparkMutex and ParkWake also
\* need the bay's mutex.
LocalStep(t) ==
  Spin(t) \/ Mark(t) \/ ParkCb(t) \/ ParkWait(t) \/ Reload(t) \/ Grab(t)
    \/ UnlockFast(t) \/ UnparkCb(t) \/ Broadcast(t)

MutexStep(t) == ParkMutex(t) \/ UnparkMutex(t) \/ ParkWake(t)

Next == \E t \in Threads :
          \/ \E l \in Locks : LockFast(t, l)
          \/ LocalStep(t)
          \/ MutexStep(t)
          \/ SpuriousWake(t)

\* The host schedules every runnable thread, critical sections end, and a
\* thread blocked on a pthread mutex that keeps being freed gets it in the
\* end.  Nothing obliges a thread to call nvc_lock, or a wait to return
\* spuriously.
Fairness == \A t \in Threads : WF_vars(LocalStep(t)) /\ SF_vars(MutexStep(t))

Spec     == Init /\ [][Next]_vars
FairSpec == Spec /\ Fairness

-----------------------------------------------------------------------------
(* Properties *)

Owns(t, l) == lk[t] = l /\ pc[t] \in OwnerPCs

ParkedIn(b) == {t \in Threads : pc[t] = "parked" /\ MyBay(t) = b}

\* Lock words have only the two bits of nvc_lock_t, and every thread is at a
\* step of nvc_lock, nvc_unlock, thread_park or thread_unpark.
TypeOK ==
  /\ word    \in [Locks -> Word]
  /\ mutex   \in [Bays -> Threads \cup {NoThread}]
  /\ parked  \in [Bays -> Nat]
  /\ waiting \in [Bays -> SUBSET Threads]
  /\ pc      \in [Threads -> PCs]
  /\ lk      \in [Threads -> Locks]
  /\ state   \in [Threads -> Word]
  /\ spins   \in [Threads -> 0..LockSpins]

\* nvc_lock never lets a second thread in: two threads between nvc_lock and
\* the release inside nvc_unlock hold different locks.
MutualExclusion ==
  \A t, u \in Threads : t # u => \A l \in Locks : ~(Owns(t, l) /\ Owns(u, l))

\* The assertions of nvc_unlock and lock_unpark_cb: an owner whose fast
\* unlock failed still finds both bits set when it releases the lock, however
\* other threads' CASes interleave.
UnlockAssertion ==
  \A t \in Threads :
    pc[t] \in {"unpark", "unpark_cb"} => word[lk[t]] = CONTENDED

\* bay->parked counts exactly the threads blocked in the bay, so the
\* assertion parked > 0 in thread_park holds and lock_unpark_cb never drops
\* HAS_PARKED while somebody sleeps.
ParkedCount == \A b \in Bays : parked[b] = Cardinality(ParkedIn(b))

\* No lost wake-up: while a thread sleeps on the bay's condition variable its
\* lock has an owner that will find HAS_PARKED set, or some thread that
\* released a lock of the same bay is about to broadcast.
NoLostWakeup ==
  \A b \in Bays : \A t \in waiting[b] :
    \/ word[lk[t]] = CONTENDED /\ \E u \in Threads : Owns(u, lk[t])
    \/ \E u \in Threads : pc[u] = "broadcast" /\ MyBay(u) = b

\* What the proofs add to make these inductive: who holds a bay's mutex, that
\* IS_LOCKED says exactly that there is an owner, that a thread about to block
\* still sees its lock contended, and that only blocked threads are waiting.
LockInv ==
  /\ \A t \in Threads : pc[t] \in {"park_cb", "park_wait", "unpark_cb"}
                          => mutex[MyBay(t)] = t
  /\ \A l \in Locks : IS_LOCKED \in word[l] <=> \E t \in Threads : Owns(t, l)
  /\ \A t \in Threads : pc[t] = "grab" => IS_LOCKED \notin state[t]
  /\ \A t \in Threads : pc[t] = "park_wait" => word[lk[t]] = CONTENDED
  /\ \A b \in Bays : \A t \in waiting[b] : pc[t] = "parked" /\ MyBay(t) = b

\* The lock is safe: two threads never own it, the bits of its word and the
\* counts of the bays tell the truth, and no wake-up is lost between the check
\* in lock_park_cb and the wait in thread_park.
IInv == /\ TypeOK
        /\ LockInv
        /\ MutualExclusion
        /\ UnlockAssertion
        /\ ParkedCount
        /\ NoLostWakeup

\* A parked thread is always woken up again (thread_unpark broadcasts because
\* the threads of a bay may be waiting for different locks).
ParkedThreadsWake ==
  \A t \in Threads : \A b \in Bays : t \in waiting[b] ~> t \notin waiting[b]

\* The lock word and its owner implement the abstract mutex.
OwnerOf(l) == IF \E t \in Threads : Owns(t, l)
              THEN CHOOSE t \in Threads : Owns(t, l) ELSE NoThread

ownerMap == [l \in Locks |-> OwnerOf(l)]

M == INSTANCE Mutex WITH owner <- ownerMap

\* Every step of nvc_lock and nvc_unlock is an acquisition, a release or
\* invisible to the callers.
ImplementsMutex == M!Spec
=============================================================================
