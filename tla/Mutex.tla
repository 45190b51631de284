------------------------------- MODULE Mutex -------------------------------
(***************************************************************************)
(* What nvc_lock and nvc_unlock (src/thread.h) promise their callers: a    *)
(* lock has at most one owner, and only the owner gives it up.             *)
(***************************************************************************)
CONSTANTS Threads, Locks, NoThread

VARIABLE owner

Init == owner = [l \in Locks |-> NoThread]

Acquire(t, l) == /\ owner[l] = NoThread
                 /\ owner' = [owner EXCEPT ![l] = t]

Release(t, l) == /\ owner[l] = t
                 /\ owner' = [owner EXCEPT ![l] = NoThread]

Next == \E t \in Threads, l \in Locks : Acquire(t, l) \/ Release(t, l)

Spec == Init /\ [][Next]_owner
=============================================================================
