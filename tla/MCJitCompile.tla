----------------------------- MODULE MCJitCompile -----------------------------
(* Instances of JitCompile for TLC. *)
EXTENDS JitCompile, TLC

CONSTANTS t1, t2, outer, inner, pkg, lost

\* Two units that take each other's offsets, a package that both need, and a
\* unit without a body.
MCCalls == outer :> {inner} @@ inner :> {} @@ pkg :> {inner} @@ lost :> {}
MCUprefs == outer :> {inner} @@ inner :> {outer} @@ pkg :> {} @@ lost :> {}
MCLinks == outer :> {pkg} @@ inner :> {pkg} @@ pkg :> {} @@ lost :> {}
=============================================================================
