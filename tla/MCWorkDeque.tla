---------------------------- MODULE MCWorkDeque ----------------------------
(* Two thieves, small deques and enough tags that none wraps around.       *)
EXTENDS WorkDeque, TLC

Symmetry == Permutations(Thieves)
=============================================================================
