------------------------------- MODULE Driver -------------------------------
(***************************************************************************)
(* The drivers of one signal in rt/model.c: the projected waveform of each *)
(* nexus, the queue of driver updates for the next delta cycle, the event  *)
(* queue, and the "fast driver" short cut for zero-delay assignments.      *)
(*                                                                         *)
(* Processes assign in the process phase of a cycle; the other actions are *)
(* whole update phases.  Each nexus has one source, a driver.              *)
(***************************************************************************)
EXTENDS Integers, FiniteSets, FiniteSetsExt

CONSTANTS
  Nexuses,      \* the nexuses of the signal
  Assigned,     \* the ones the processes of the run assign
  Vals,         \* the values of a nexus; 0 is the one with all bits clear
  Initial,      \* the default value of the signal
  Register,     \* SIG_F_REGISTER
  Starts,       \* the times at which the process phases of the run start
  InitFast,     \* whether NET_F_FAST_DRIVER is still set at the start
  Disconnects,  \* whether a process may assign null
  MaxTime,      \* bound on the simulation time
  MaxDelta,     \* bound on the delta cycles of a time step
  TimeMod,      \* 2^64: times are uint64_t
  NULL

ASSUME DriverAssumption ==
  /\ IsFiniteSet(Nexuses) /\ Assigned \subseteq Nexuses
  /\ {0, Initial} \subseteq Vals /\ NULL \notin Vals
  /\ Register \in BOOLEAN /\ InitFast \in BOOLEAN /\ Disconnects \in BOOLEAN
  /\ MaxTime \in Nat /\ MaxDelta \in Nat /\ Starts \subseteq 0 .. MaxTime
  /\ TimeMod \in Nat /\ TimeMod > 2 * MaxTime + 3

VARIABLES
  now, iteration, next_is_delta,
  driverq,        \* entries <<"driver", n>>, <<"fast", n>> and <<"all">>
  eventq,         \* EVENT_DRIVER entries [at, nexus]; a duplicate is a no-op
  value, when,    \* waveforms.value and waveforms.when
  future,         \* the transactions [when, val] after waveforms.next; the
                  \* list is sorted by when, so its order is that of the keys
  disconnected, was_active, fastqueued,
  fast,           \* NET_F_FAST_DRIVER of the nexus
  active_delta,
  eff,            \* the effective value
  sigfast,        \* NET_F_FAST_DRIVER of the signal
  sigqueued

nexus == <<value, when, future, disconnected, was_active, fastqueued, fast,
           active_delta, eff>>
vars  == <<now, iteration, next_is_delta, driverq, eventq, nexus,
           sigfast, sigqueued>>

TIME_HIGH       == TimeMod \div 2 - 1   \* INT64_MAX
DELTA_CYCLE_MAX == MaxDelta + 2

\* Unary minus on a uint64_t.
Neg(t) == (TimeMod - t) % TimeMod

Init ==
  /\ now \in Starts
  /\ iteration = 0
  /\ next_is_delta = FALSE
  /\ driverq = {}
  /\ eventq = {}
  /\ value = [n \in Nexuses |-> Initial]
  /\ when = [n \in Nexuses |-> TIME_HIGH]
  /\ future = [n \in Nexuses |-> {}]
  /\ disconnected = [n \in Nexuses |-> FALSE]
  /\ was_active = [n \in Nexuses |-> FALSE]
  /\ fastqueued = [n \in Nexuses |-> FALSE]
  /\ fast = [n \in Nexuses |-> InitFast]
  /\ active_delta = [n \in Nexuses |-> DELTA_CYCLE_MAX]
  /\ eff = [n \in Nexuses |-> Initial]
  /\ sigfast = (InitFast /\ Cardinality(Nexuses) > 1)
  /\ sigqueued = FALSE

-----------------------------------------------------------------------------
(* Assignments *)

\* Mutant: the rejection interval is open at its start.
InsertOpenInterval(waves, w, t, reject) ==
  {it \in waves : it.when < t /\ (it.when > t - reject => it.val = w.val)}
    \cup {w}

\* insert_transaction, with the key t the list is searched with.
InsertTransaction(waves, w, t, reject) ==
  {it \in waves : it.when < t /\ (it.when >= t - reject => it.val = w.val)}
    \cup {w}

\* Mutant: any deleted transaction counts as already scheduled.
ScheduledIfLater(waves, t) == \E it \in waves : it.when >= t

\* The event of a deleted transaction at the same time is reused.
AlreadyScheduled(waves, t) == \E it \in waves : it.when = t

\* deltaq_insert_driver
DeltaqInsertDriver(n, after, already) ==
  IF already THEN UNCHANGED <<driverq, next_is_delta, eventq>>
  ELSE IF after = 0
  THEN /\ driverq' = driverq \cup {<<"driver", n>>}
       /\ next_is_delta' = TRUE
       /\ UNCHANGED eventq
  ELSE /\ eventq' = eventq \cup {[at |-> now + after, nexus |-> n]}
       /\ UNCHANGED <<driverq, next_is_delta>>

\* The fast path of sched_driver: the new value goes straight into the
\* current waveform, and an unchanged one is only recorded as activity.
SchedFast(n, v) ==
  LET queue(entry) == /\ driverq' = driverq \cup {entry}
                      /\ next_is_delta' = TRUE
                      /\ fastqueued' = [fastqueued EXCEPT ![n] = TRUE]
                      /\ value' = [value EXCEPT ![n] = v]
                      /\ UNCHANGED <<was_active, active_delta>>
  IN /\ fast[n]
     /\ when' = [when EXCEPT ![n] = now]
     /\ \/ /\ fastqueued[n] \/ (sigfast /\ sigqueued)
           /\ fastqueued' = [fastqueued EXCEPT ![n] = TRUE]
           /\ value' = [value EXCEPT ![n] = v]
           /\ UNCHANGED <<driverq, next_is_delta, sigqueued, was_active,
                          active_delta>>
        \/ /\ ~fastqueued[n] /\ ~(sigfast /\ sigqueued)
           /\ \/ /\ v = value[n]
                 /\ next_is_delta' = TRUE
                 /\ was_active' = [was_active EXCEPT ![n] =
                                     (active_delta[n] = iteration)]
                 /\ active_delta' = [active_delta EXCEPT ![n] = iteration + 1]
                 /\ UNCHANGED <<driverq, fastqueued, value, sigqueued>>
              \/ /\ v # value[n] /\ sigfast
                 /\ queue(<<"all">>)
                 /\ sigqueued' = TRUE
              \/ /\ v # value[n] /\ ~sigfast
                 /\ queue(<<"fast", n>>)
                 /\ UNCHANGED sigqueued
     /\ UNCHANGED <<now, iteration, eventq, future, disconnected, fast, eff,
                    sigfast>>

\* Mutant: the flag of the nexus stays set.
SchedSlowStaysFast(n, v, after, reject) ==
  LET t == now + after
  IN /\ ~(after = 0 /\ fast[n])
     /\ future' = [future EXCEPT ![n] =
                     InsertTransaction(@, [when |-> t, val |-> v], t, reject)]
     /\ DeltaqInsertDriver(n, after, AlreadyScheduled(future[n], t))
     /\ UNCHANGED <<now, iteration, value, when, disconnected, was_active,
                    fastqueued, fast, active_delta, eff, sigfast, sigqueued>>

\* The rest of sched_driver: a queued fast update first becomes an ordinary
\* transaction, and the nexus leaves the fast path for good.
SchedSlow(n, v, after, reject) ==
  LET t     == now + after
      waves == IF fast[n] /\ fastqueued[n]
               THEN {[when |-> now, val |-> value[n]]} ELSE future[n]
  IN /\ ~(after = 0 /\ fast[n])
     /\ fast' = [fast EXCEPT ![n] = FALSE]
     /\ future' = [future EXCEPT ![n] =
                     InsertTransaction(waves, [when |-> t, val |-> v], t,
                                       reject)]
     /\ DeltaqInsertDriver(n, after, AlreadyScheduled(waves, t))
     /\ UNCHANGED <<now, iteration, value, when, disconnected, was_active,
                    fastqueued, active_delta, eff, sigfast, sigqueued>>

\* sched_disconnect: a null transaction has the negated time as its key.
SchedDisconnect(n, after, reject) ==
  LET t == now + after
  IN /\ Disconnects
     /\ fast' = [fast EXCEPT ![n] = FALSE]
     /\ future' = [future EXCEPT ![n] =
                     InsertTransaction(@, [when |-> Neg(t), val |-> 0], t,
                                       reject)]
     /\ DeltaqInsertDriver(n, after, AlreadyScheduled(future[n], t))
     /\ UNCHANGED <<now, iteration, value, when, disconnected, was_active,
                    fastqueued, active_delta, eff, sigfast, sigqueued>>

\* x_sched_waveform and x_disconnect, after check_reject_limit.  A process
\* may assign in any delta cycle but the last one of the bound.
Assignment ==
  \E n \in Assigned, after \in 0 .. MaxTime - now :
    /\ after = 0 => iteration < MaxDelta
    /\ \/ \E v \in Vals : after = 0 /\ SchedFast(n, v)
       \/ \E v \in Vals, reject \in 0 .. after : SchedSlow(n, v, after, reject)
       \/ \E reject \in 0 .. after : SchedDisconnect(n, after, reject)

-----------------------------------------------------------------------------
(* The update phase of model_cycle *)

WNext(n) == CHOOSE w \in future[n] : \A it \in future[n] : w.when <= it.when

\* Mutant: only fast_update_all_drivers looks at fastqueued.
FastRunSignalOnly(n) == fast[n] /\ fastqueued[n] /\ sigqueued

\* fast_update_driver applies the value the fast path stored.
FastRun(n) == fast[n] /\ fastqueued[n]

\* update_driver and fast_update_driver for all the queued drivers, at time
\* t and delta cycle i.  A driver queued twice finds nothing to do the
\* second time, because its transactions have distinct times.
UpdateDrivers(queue, t, i) ==
  LET runs(n)     == <<"driver", n>> \in queue \/ (fastqueued[n] /\ ~fast[n])
      popValue(n) == runs(n) /\ future[n] # {} /\ WNext(n).when = t
      popNull(n)  == runs(n) /\ future[n] # {} /\ WNext(n).when = Neg(t)
                       /\ ~popValue(n)
      pop(n)      == popValue(n) \/ popNull(n)
      nfast       == Cardinality({n \in Nexuses : fastqueued[n]})
  IN /\ value'  = [n \in Nexuses |-> IF pop(n) THEN WNext(n).val ELSE value[n]]
     /\ when'   = [n \in Nexuses |-> IF pop(n) THEN WNext(n).when ELSE when[n]]
     /\ future' = [n \in Nexuses |->
                     IF pop(n) THEN future[n] \ {WNext(n)} ELSE future[n]]
     /\ disconnected' = [n \in Nexuses |->
                           IF pop(n) THEN popNull(n) ELSE disconnected[n]]
     /\ active_delta' = [n \in Nexuses |->
                           IF pop(n) \/ FastRun(n) THEN i ELSE active_delta[n]]
     /\ eff' = [n \in Nexuses |->
                  IF ~(pop(n) \/ FastRun(n)) THEN eff[n]
                  ELSE IF ~disconnected'[n] THEN value'[n]
                  ELSE IF Register THEN eff[n] ELSE Initial]
     /\ fastqueued' = [n \in Nexuses |-> FALSE]
     /\ sigqueued' = FALSE
     /\ sigfast' = (sigfast /\ ~(/\ <<"all">> \in queue
                                 /\ nfast < Cardinality(Nexuses) \div 2))
     /\ UNCHANGED <<was_active, fast>>

EventTimes == {e.at : e \in eventq}

\* The nexuses whose EVENT_DRIVER entries are extracted at time t.
Due(t) == {e.nexus : e \in {x \in eventq : x.at = t}}

\* A delta cycle, asked for here or by some other process of the design.
DeltaCycle ==
  /\ iteration < MaxDelta
  /\ iteration' = iteration + 1
  /\ next_is_delta' = FALSE
  /\ driverq' = {}
  /\ UpdateDrivers(driverq, now, iteration + 1)
  /\ UNCHANGED <<now, eventq>>

\* The next time step: the earliest event, a driver's or some process's.
TimeCycle(t) ==
  /\ ~next_is_delta
  /\ t > now /\ \A e \in EventTimes : t <= e
  /\ now' = t
  /\ iteration' = 0
  /\ driverq' = {}
  /\ eventq' = {e \in eventq : e.at > t}
  /\ UpdateDrivers(driverq \cup {<<"driver", n>> : n \in Due(t)}, t, 0)
  /\ UNCHANGED next_is_delta

Next == Assignment \/ DeltaCycle \/ \E t \in 1 .. MaxTime : TimeCycle(t)

Spec == Init /\ [][Next]_vars

-----------------------------------------------------------------------------
(* Attributes *)

\* X'ACTIVE (nexus_active): the fast path has moved active_delta to the next
\* cycle if the value of the nexus was assigned again.
Active(n) ==
  /\ when[n] = now
  /\ \/ active_delta[n] = iteration
     \/ active_delta[n] = iteration + 1 /\ was_active[n]

-----------------------------------------------------------------------------
(* Properties *)

At(w) == IF w.when <= MaxTime THEN w.when ELSE Neg(w.when)

\* The waveforms, flags and queues of the drivers hold values of their types,
\* times included: those of null transactions are negated uint64_t values.
TypeOK ==
  /\ now \in 0 .. MaxTime /\ iteration \in 0 .. MaxDelta
  /\ next_is_delta \in BOOLEAN /\ sigfast \in BOOLEAN /\ sigqueued \in BOOLEAN
  /\ driverq \subseteq {"driver", "fast"} \X Nexuses \cup {<<"all">>}
  /\ eventq \subseteq [at : 1 .. MaxTime, nexus : Nexuses]
  /\ value \in [Nexuses -> Vals] /\ eff \in [Nexuses -> Vals]
  /\ when \in [Nexuses -> 0 .. TimeMod - 1]
  /\ future \in [Nexuses -> SUBSET [when : 0 .. TimeMod - 1, val : Vals]]
  /\ disconnected \in [Nexuses -> BOOLEAN]
  /\ was_active \in [Nexuses -> BOOLEAN]
  /\ fastqueued \in [Nexuses -> BOOLEAN] /\ fast \in [Nexuses -> BOOLEAN]
  /\ active_delta \in [Nexuses -> 0 .. MaxDelta + 2]

\* Every transaction in a projected waveform has an update queued for its
\* time, although insert_transaction leaves the events of the transactions it
\* deletes in the queue and reuses some of them; and the clock never passes one
\* that has not been applied (the assertion it->when >= m->now).
TransactionsScheduled ==
  /\ TypeOK
  /\ \A n \in Nexuses : \A w \in future[n] :
       /\ At(w) >= now
       /\ IF At(w) = now
          THEN /\ next_is_delta
               /\ <<"driver", n>> \in driverq \/ fastqueued[n]
          ELSE [at |-> At(w), nexus |-> n] \in eventq

\* The assertions of sched_driver and fast_update_driver: a nexus on the fast
\* path has no projected transactions, a queued fast update has a delta cycle
\* coming, and exactly one queue entry will apply it, its own or the signal's.
FastPathAssertions ==
  /\ \A n \in Nexuses :
       /\ fast[n] => future[n] = {}
       /\ fastqueued[n] =>
            /\ next_is_delta
            /\ <<"fast", n>> \in driverq \/ <<"all">> \in driverq
       /\ <<"fast", n>> \in driverq =>
            fastqueued[n] /\ <<"all">> \notin driverq
  /\ sigqueued <=> <<"all">> \in driverq
  /\ sigqueued => sigfast

\* The projected waveform of a nexus, a queued fast update included.
Projected(n) ==
  IF fast[n] /\ fastqueued[n] THEN {[at |-> now, val |-> value[n]]}
  ELSE {[at |-> At(w), val |-> IF w.when > MaxTime THEN NULL ELSE w.val] :
          w \in future[n]}

projMap == [n \in Nexuses |-> Projected(n)]

D == INSTANCE DriverSpec WITH cur <- eff, proj <- projMap

\* A nexus has, in every cycle, the value its projected waveforms promise:
\* whatever sched_driver queued, deleted or reused on the way, and whether its
\* updates were queued alone or with the other nexuses of the signal.
ImplementsDriver == D!Spec

\* sched_driver edits the projected waveform exactly as its arguments ask:
\* the boundaries of the rejection interval included, and whether or not a
\* fast update was queued.  The new transaction is w.
AssignmentExact ==
  [][\A n \in Assigned : future[n]' # future[n] /\ now' = now =>
       \A w \in future[n]' : \A reject \in 0 .. w.when - now :
         SchedSlow(n, w.val, w.when - now, reject) =>
           Projected(n)' = D!Project(Projected(n), w.when, w.val, reject)]_vars

\* A nexus whose transaction matures in a cycle is 'ACTIVE in that cycle
\* (nexus_active), on the fast path, off it, and while it is leaving it.
ActiveWhenMatured ==
  [][<<now, iteration>>' # <<now, iteration>> =>
       \A n \in Nexuses :
         (\E w \in Projected(n) : w.at = now') => Active(n)']_vars

\* An assignment edits the waveform it should and a cycle marks the nexuses it
\* should: what a process reads through 'ACTIVE agrees with what was assigned.
StepsExact == AssignmentExact /\ ActiveWhenMatured
=============================================================================
