------------------------------ MODULE MCDriver ------------------------------
(* A signal with four nexuses, of which the processes assign two.          *)
EXTENDS Driver, TLC

CONSTANTS n1, n2, n3, n4

MCAssigned == {n1, n2}
MCNexuses  == MCAssigned \cup {n3, n4}

Symmetry == Permutations(MCAssigned)
=============================================================================
