------------------------------ MODULE MCLibrary ------------------------------
(* Instances of Library for TLC. *)
EXTENDS Library

CONSTANTS p1, p2, top, pkg, entity

\* A design entity that uses a package.
MCDeps == [u \in Units |-> IF u = top THEN {pkg} ELSE {}]
=============================================================================
