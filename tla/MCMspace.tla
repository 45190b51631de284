------------------------------- MODULE MCMspace -------------------------------
(* Instances of Mspace for TLC. *)
EXTENDS Mspace, TLC

CONSTANTS t1, t2

\* A word in the overrun margin.
MCJunk == {MaxLines * LineWords}

\* mask.c: the operations on ranges of bits agree with those on sets.  The
\* formula has no variables: one state is enough to look at it in.
MasksRight == Init => MasksCorrect
=============================================================================
