----------------------------- MODULE DriverSpec -----------------------------
(***************************************************************************)
(* What the drivers of a signal promise: each has a current value and a    *)
(* projected output waveform, a set of transactions at distinct times.     *)
(* An assignment replaces what it supersedes and nothing else, and the     *)
(* value changes exactly when a transaction matures.                       *)
(***************************************************************************)
EXTENDS Integers

CONSTANTS Nexuses, Vals, MaxTime, Initial, NULL, Register

VARIABLES
  now,
  cur,    \* the value of each nexus
  proj    \* the projected waveform: transactions [at, val]

dvars == <<now, cur, proj>>

Init ==
  /\ now  \in {0, 1}
  /\ cur  = [n \in Nexuses |-> Initial]
  /\ proj = [n \in Nexuses |-> {}]

\* Later transactions are deleted, and so are the ones in the rejection
\* interval with another value (the comment in insert_transaction).
Project(p, t, v, reject) ==
  {w \in p : w.at < t /\ (w.at >= t - reject => w.val = v)}
    \cup {[at |-> t, val |-> v]}

\* The transaction w is assigned to n.
Assign(n, w, reject) ==
  /\ UNCHANGED <<now, cur>>
  /\ proj' = [proj EXCEPT ![n] = Project(@, w.at, w.val, reject)]

\* A simulation cycle at time t applies the transactions that mature then.
Due(n, t) == {w \in proj[n] : w.at = t}

Value(n, w) ==
  IF w.val # NULL THEN w.val ELSE IF Register THEN cur[n] ELSE Initial

Cycle(t) ==
  /\ \A n \in Nexuses : \A w \in proj[n] : w.at >= t
  /\ now'  = t
  /\ cur'  = [n \in Nexuses |-> IF Due(n, t) = {} THEN cur[n]
                                ELSE Value(n, CHOOSE w \in Due(n, t) : TRUE)]
  /\ proj' = [n \in Nexuses |-> proj[n] \ Due(n, t)]

Next ==
  \/ \E n \in Nexuses : \E w \in proj'[n] :
       /\ w.at \in now .. MaxTime /\ w.val \in Vals \cup {NULL}
       /\ \E reject \in 0 .. w.at - now : Assign(n, w, reject)
  \/ \E t \in now .. MaxTime : Cycle(t)

Spec == Init /\ [][Next]_dvars
=============================================================================
