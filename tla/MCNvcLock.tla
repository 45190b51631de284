----------------------------- MODULE MCNvcLock -----------------------------
(* Two locks that hash to the same parking bay. *)
EXTENDS NvcLock

CONSTANTS l1, l2, b1

MCLocks == {l1, l2}
MCBays  == {b1}
MCBayOf == [l \in MCLocks |-> b1]
=============================================================================
