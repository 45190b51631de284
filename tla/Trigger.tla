------------------------------ MODULE Trigger -------------------------------
(***************************************************************************)
(* The event controls of Verilog (rt/model.c): trees of triggers that are  *)
(* shared between processes, registered with the nexuses they depend on,   *)
(* and evaluated at most once in an epoch.                                 *)
(*                                                                         *)
(* A trigger is [kind, args]: an edge function of vlog-lower.c on a nexus, *)
(* a level trigger on the nexuses of a signal, or the disjunction of two   *)
(* triggers.  A process has one event control.                             *)
(***************************************************************************)
EXTENDS Integers, SequencesExt

CONSTANTS
  Triggers,     \* the trigger table, in the order the triggers are allocated
  EventControls \* the assignments of triggers to processes looked at

TriggerIds   == DOMAIN Triggers
TriggerNets  == {"a", "b"}

-----------------------------------------------------------------------------
(* Lists of wakeable objects: a tagged pointer to a single one or an array *)
(* in which 0 is a hole that clear_event left.                             *)

NoPending == [array |-> FALSE, wake |-> <<>>]

sched_event(pending, obj) ==
  LET wake == pending.wake
      free == {i \in DOMAIN wake : wake[i] \in {0, obj}}
  IN CASE pending = NoPending -> [array |-> FALSE, wake |-> <<obj>>]
       [] ~pending.array /\ wake = <<obj>> -> pending
       [] ~pending.array /\ wake \notin {<<>>, <<obj>>} ->
            [array |-> TRUE, wake |-> Append(wake, obj)]
       [] pending.array /\ free # {} ->
            [pending EXCEPT !.wake[Min(free)] = obj]
       [] pending.array /\ free = {} ->
            [pending EXCEPT !.wake = Append(@, obj)]

clear_event(pending, obj) ==
  LET at == {i \in DOMAIN pending.wake : pending.wake[i] = obj}
  IN CASE at = {} -> pending
       [] at # {} /\ ~pending.array -> NoPending
       [] at # {} /\ pending.array -> [pending EXCEPT !.wake[Min(at)] = 0]

Listed(pending) == Range(pending.wake) \ {0}

-----------------------------------------------------------------------------
(* Arming and evaluating a trigger.  A state has the nexuses that are      *)
(* high, the ones with an event in this cycle, the triggers evaluated in   *)
(* this epoch, those that are true, the pending lists of nexuses and       *)
(* triggers, and the processes woken by the last step.                     *)

RECURSIVE TriggerOn(_)
TriggerOn(t) ==
  IF Triggers[t].kind = "or"
  THEN TriggerOn(Triggers[t].args[1]) \o TriggerOn(Triggers[t].args[2])
  ELSE Triggers[t].args

arm_trigger(st, t) ==
  LET register(acc, n) == [acc EXCEPT !.nets[n] = sched_event(@, t)]
  IN FoldLeft(register, st, TriggerOn(t))

x_enable_trigger(st, t, proc) ==
  LET armed == IF st.pending[t] = NoPending THEN arm_trigger(st, t) ELSE st
  IN [armed EXCEPT !.pending[t] = sched_event(@, proc), !.woken = {}]

x_disable_trigger(st, t, proc) ==
  [st EXCEPT !.pending[t] = clear_event(@, proc), !.woken = {}]

\* vlog_lower_edge_fn compares the value of the nexus with the level after the
\* edge; a level trigger asks for an event in this cycle.
Leaf(st, t) ==
  LET n == Triggers[t].args[1]
  IN CASE Triggers[t].kind = "posedge" -> n \in st.high
       [] Triggers[t].kind = "negedge" -> n \notin st.high
       [] Triggers[t].kind = "level" -> Range(Triggers[t].args) \cap st.event # {}

RECURSIVE run_trigger(_, _)
run_trigger(st, t) ==
  LET args  == Triggers[t].args
      left  == run_trigger(st, args[1])
      both  == IF args[1] \in left.true THEN left ELSE run_trigger(left, args[2])
      after == IF Triggers[t].kind = "or" THEN both ELSE st
      res   == IF Triggers[t].kind = "or" THEN Range(args) \cap both.true # {}
               ELSE Leaf(st, t)
  IN IF t \in st.done THEN st
     ELSE [after EXCEPT !.done = @ \cup {t},
                        !.true = IF res THEN @ \cup {t} ELSE @]

\* async_run_trigger, and wakeup_one of a trigger during a blocking update.
RunAndWake(st, t) ==
  LET ran == run_trigger(st, t)
  IN IF t \in ran.true THEN [ran EXCEPT !.woken = @ \cup Listed(ran.pending[t])]
     ELSE ran

\* wakeup_all of the pending list of a nexus.
WakeNexus(st, n) ==
  LET run(acc, t) == IF t = 0 THEN acc ELSE RunAndWake(acc, t)
  IN FoldLeft(run, st, st.nets[n].wake)

-----------------------------------------------------------------------------
(* What changes values, each with the triggers it runs. *)

Toggle(st, ns) ==
  [st EXCEPT !.high = (@ \ ns) \cup (ns \ @), !.event = @ \cup ns, !.woken = {}]

NewEpoch(st) == [st EXCEPT !.done = {}, !.true = {}]

\* model_cycle with new values on ns: the triggers are queued and run together
\* after the epoch has moved on.
CycleUpdate(st, ns) ==
  FoldLeft(WakeNexus, NewEpoch(Toggle([st EXCEPT !.event = {}], ns)), SetToSeq(ns))

\* Mutant: the epoch does not move on.
deposit_signalSameEpoch(st, n) == WakeNexus(Toggle(st, {n}), n)

\* A blocking assignment.
deposit_signal(st, n) == WakeNexus(NewEpoch(Toggle(st, {n})), n)

\* A nonblocking assignment: async_pseudo_source leads to notify_event, while
\* blocking_update is set.
NonblockUpdate(st, n) == WakeNexus(Toggle(st, {n}), n)

\* new_trigger sets the epoch of a trigger to one that is not in use.
TriggerInit ==
  [high : SUBSET TriggerNets, event : {{}}, done : {{}}, true : {{}},
   nets : [TriggerNets -> {NoPending}], pending : [TriggerIds -> {NoPending}],
   woken : {{}}]

-----------------------------------------------------------------------------
(* Sequences of steps *)

CONSTANT MaxSteps     \* the length of the sequences

Steps(waits) ==
  {[op |-> "cycle", arg |-> ns] : ns \in SUBSET TriggerNets}
    \cup {[op |-> op, arg |-> {n}] : op \in {"deposit", "nonblock"}, n \in TriggerNets}
    \cup {[op |-> "wait", arg |-> proc] : proc \in DOMAIN waits}

\* A process that waits for its event control stops doing so, or starts again.
Apply(st, step, waits, waiting) ==
  CASE step.op = "cycle" -> CycleUpdate(st, step.arg)
    [] step.op = "deposit" -> deposit_signal(st, CHOOSE n \in step.arg : TRUE)
    [] step.op = "nonblock" -> NonblockUpdate(st, CHOOSE n \in step.arg : TRUE)
    [] step.op = "wait" ->
         IF step.arg \in waiting
         THEN x_disable_trigger(st, waits[step.arg], step.arg)
         ELSE x_enable_trigger(st, waits[step.arg], step.arg)

\* A change of the nexuses ns, after which high is high, is an event of t.
RECURSIVE IsEvent(_, _, _)
IsEvent(t, ns, high) ==
  LET args == Triggers[t].args
  IN CASE Triggers[t].kind = "posedge" -> args[1] \in ns /\ args[1] \in high
       [] Triggers[t].kind = "negedge" -> args[1] \in ns /\ args[1] \notin high
       [] Triggers[t].kind = "level" -> Range(args) \cap ns # {}
       [] Triggers[t].kind = "or" -> \E i \in {1, 2} : IsEvent(args[i], ns, high)

\* Trigger t, or one that it is made of, was evaluated in this epoch.
RECURSIVE Evaluated(_, _)
Evaluated(st, t) ==
  \/ t \in st.done
  \/ Triggers[t].kind = "or" /\ \E i \in {1, 2} : Evaluated(st, Triggers[t].args[i])

WakesRight(st, step, next, waits, waiting) ==
  \A proc \in DOMAIN waits :
    LET t == waits[proc]
    IN /\ proc \in waiting /\ IsEvent(t, step.arg, next.high)
            /\ (step.op = "nonblock" => ~Evaluated(st, t))
          => proc \in next.woken
       /\ proc \in next.woken
          => proc \in waiting /\ Range(TriggerOn(t)) \cap step.arg # {}

RECURSIVE AllWakesRight(_, _, _, _)
AllWakesRight(st, waits, waiting, steps) ==
  steps = 0 \/ \A step \in Steps(waits) :
    LET next == Apply(st, step, waits, waiting)
        now  == IF step.op # "wait" THEN waiting
                ELSE (waiting \ {step.arg}) \cup ({step.arg} \ waiting)
    IN /\ step.op # "wait" => WakesRight(st, step, next, waits, waiting)
       /\ AllWakesRight(next, waits, now, steps - 1)

\* A process that waits for an edge or a change is woken by it, although the
\* trigger is shared with other processes, may have been disarmed and armed
\* again, and keeps its result for an epoch.  The exception is a nonblocking
\* assignment, which does not begin an epoch: it wakes nobody through a trigger
\* that the cycle evaluated before and found false.  A process that does not
\* wait, or waits for nexuses that did not change, is never woken.
EdgesSeen ==
  \A waits \in EventControls, init \in TriggerInit :
    LET enable(st, proc) == x_enable_trigger(st, waits[proc], proc)
    IN AllWakesRight(FoldLeft(enable, init, SetToSeq(DOMAIN waits)),
                     waits, DOMAIN waits, MaxSteps)
=============================================================================
