-------------------------- MODULE SimCycleEndProofs --------------------------
(***************************************************************************)
(* What is left at the end of a time step, for every program but those     *)
(* that the code does not treat as the property asks, which are excluded   *)
(* by name: the always blocks of SimCycleProofs, postponed processes that  *)
(* wait for 0 ns, and Verilog nonblocking assignments that are delayed or  *)
(* go to a resolved net.                                                   *)
(***************************************************************************)
EXTENDS SimCycleProofs

NoZeroWaitPostponed == ZeroWaits \cap Postponed = {}

PlainNonblocking == Vlog = {} \/ (Resolved = {} /\ NbaDelays \subseteq {0})

\* The end of a time step, for the programs it is right for.
EndInv ==
  /\ phase \in {"postponed", "end_step"} => ~next_is_delta /\ ~can_create_delta
  /\ phase = "end_step" => postponedq = {}
  /\ driving_heap # {} => next_is_delta \/ phase \in {"next_cycle", "drivers"}
  /\ NoLostDelta

OwedInv ==
  /\ Vlog = {} => owed = {} /\ nonblockq = {}
  /\ owed \subseteq pseudoqueued
  /\ pseudoqueued \subseteq nonblockq \cup Deposits(driverq) \cup Deposits(next_driverq)
  /\ DepositEvents = {}

LimitInv ==
  /\ iteration <= StopDelta
  /\ limit => force_stop /\ iteration = StopDelta /\ phase \in {"idle", "stopped"}
  /\ phase = "idle" /\ next_is_delta /\ ~force_stop => iteration < StopDelta

StepInv == CycleInv /\ EndInv /\ OwedInv /\ LimitInv

-----------------------------------------------------------------------------
(* The end of a time step.                                                 *)

\* The postponed region does not ask for a delta cycle, and only with none
\* to do is it left.
LEMMA EndStep ==
  ASSUME NoZeroWaitPostponed, PlainNonblocking, CycleInv, EndInv, OwedInv, Step
  PROVE  EndInv'
<1> USE DEF EndInv, NoLostDelta
<1>1. CASE Passes
  <2>1. CASE Stop \/ StartTriggers \/ EndTriggers \/ EndProcesses \/ BeginCycle
    BY Zenon, <2>1 DEF Stop, StartTriggers, EndTriggers, EndProcesses, BeginCycle, updates, wakeables
  <2>2. CASE StartNonblock \/ EndNonblock
    BY Zenon, <2>2 DEF StartNonblock, EndNonblock, NextDelta, updates, wakeables
  <2>3. CASE StartPostponed
    BY Zenon, <2>3 DEF StartPostponed, NextDelta, updates, wakeables
  <2>4. CASE EndPostponed
    BY Zenon, <2>4 DEF EndPostponed, control, updates, wakeables
  <2>5. CASE EndTimeStep
    <3>1. pending = {} /\ driverq = {} /\ triggerq = {} /\ nonblockq = {}
      BY Zenon, <2>5 DEF EndTimeStep, CycleInv, QueueInv, RegionInv, Late
    <3> QED BY Zenon, <2>5, <3>1 DEF EndTimeStep, updates, nonblock, wakeables
  <2> QED BY Zenon, <1>1, <2>1, <2>2, <2>3, <2>4, <2>5 DEF Passes
<1>2. CASE StartUpdates \/ StartProcesses
  BY Zenon, <1>2 DEF StartUpdates, StartProcesses, updates
<1>3. CASE StartInactive
  BY Zenon, <1>3 DEF StartInactive, NextDelta, updates, wakeables
<1>4. ASSUME NEW t \in next_driverq, RunDriver(t) PROVE EndInv'
  BY Zenon, <1>4 DEF RunDriver
<1>5. ASSUME NEW s \in Sigs, Settle(s) PROVE EndInv'
  BY Zenon, <1>5 DEF Settle
<1>6. ASSUME NEW s \in Sigs, RunNonblock(s) PROVE EndInv'
  <2>1. s \notin Resolved
    BY Zenon, <1>6 DEF RunNonblock, PlainNonblocking, OwedInv
  <2> QED BY Zenon, <1>6, <2>1, EffectiveRegion DEF RunNonblock
<1>7. ASSUME NEW s \in Sigs, Deposit(s) PROVE EndInv'
  <2>1. active # Nobody /\ active \notin Postponed
    BY Zenon, <1>7, SimAssumption DEF Deposit
  <2>2. phase \in {"drivers", "procs", "inactive"}
    BY Zenon, <2>1 DEF CycleInv, RegionInv
  <2>3. /\ next_is_delta => next_is_delta'
        /\ s \in Resolved => next_is_delta'
    BY Zenon, <1>7, NotifyRegion DEF Deposit
  <2>4. driving_heap' = driving_heap \cup ({s} \cap Resolved) /\ phase' = phase
    BY Zenon, <1>7 DEF Deposit
  <2> QED BY Zenon, <2>2, <2>3, <2>4
<1>8. ASSUME NEW t \in triggerq, RunTrigger(t) PROVE EndInv'
  <2>1. next_is_delta => next_is_delta'
    BY Zenon, <1>8, WakeDelta DEF RunTrigger
  <2> QED BY Zenon, <1>8, <2>1 DEF RunTrigger, updates
<1>9. CASE Times
  BY Zenon, <1>9 DEF Times, RunTimeout
<1>10. ASSUME NEW o, Dequeue(o),
              UNCHANGED <<phase, control, next_is_delta, driving_heap>>
       PROVE  EndInv'
  BY Zenon, <1>10 DEF Dequeue, control
<1>11. CASE Runs
  BY Zenon, <1>10, <1>11 DEF Runs, RunProcess, RunWatch, updates
<1>12. CASE Waits
  <2>1. PICK on \in SUBSET Sigs, d \in {0, Never} \cup Delays : Wait(on, d)
    BY Zenon, <1>12 DEF Waits
  <2>2. phase \in {"drivers", "procs", "inactive", "postponed"} /\ phase' = phase
    BY Zenon, <2>1, SimAssumption DEF Wait, CycleInv, RegionInv
  <2>3. phase = "postponed" => d # 0
    BY Zenon, <2>1, SimAssumption DEF Wait, CycleInv, RegionInv, NoZeroWaitPostponed
  <2>4. (next_is_delta => next_is_delta') /\ (d # 0 => next_is_delta' = next_is_delta)
    BY Zenon, <2>1 DEF Wait, deltaq_insert_proc
  <2> QED BY Zenon, <2>1, <2>2, <2>3, <2>4 DEF Wait, updates, control
<1>13. CASE WaitInactive
  <2>1. phase # "postponed" /\ phase # "end_step" /\ phase # "idle"
    BY Zenon, <1>13, SimAssumption DEF WaitInactive, CycleInv, RegionInv
  <2> QED BY Zenon, <1>13, <2>1 DEF WaitInactive, updates
<1>14. CASE Fail \/ UserReturn
  <2>1. phase \in {"drivers", "procs", "inactive", "postponed"}
    BY Zenon, <1>14, SimAssumption DEF Fail, UserReturn, CycleInv, RegionInv
  <2> QED BY <1>14, <2>1 DEF Fail, UserReturn, updates, control, wakeables
<1>15. ASSUME NEW s \in Sigs, NEW d \in {0} \cup Delays, Assign(s, d) PROVE EndInv'
  <2>1. phase \in {"drivers", "procs", "inactive", "postponed"}
    BY Zenon, <1>15, SimAssumption DEF Assign, CycleInv, RegionInv
  <2>2. phase = "postponed" => d # 0
    BY Zenon, <1>15, SimAssumption DEF Assign, CycleInv, RegionInv
  <2> QED BY Zenon, <1>15, <2>1, <2>2 DEF Assign, control
<1>16. ASSUME NEW s \in Sigs, NEW d \in NbaDelays, SchedDeposit(s, d) PROVE EndInv'
  <2>1. phase \in {"drivers", "procs", "inactive", "postponed"}
    BY Zenon, <1>16, SimAssumption DEF SchedDeposit, CycleInv, RegionInv
  <2> QED BY Zenon, <1>16, <2>1 DEF SchedDeposit, updates, control
<1>17. ASSUME NEW k \in {"driver", "deposit"}, NEW s \in Sigs, PutValue(k, s) PROVE EndInv'
  <2>1. phase # "postponed" /\ phase # "end_step" /\ phase # "idle"
    BY Zenon, <1>17, SimAssumption DEF PutValue, InCallback, CycleInv, RegionInv
  <2> QED BY Zenon, <1>17, <2>1 DEF PutValue
<1>18. ASSUME NEW d \in Delays, SetTimeout(d) PROVE EndInv'
  BY Zenon, <1>18 DEF SetTimeout, updates, control, nonblock
<1>19. CASE Schedules
  BY Zenon, <1>15, <1>16, <1>17, <1>18, <1>19 DEF Schedules
<1>20. CASE Frees \/ UNCHANGED vars
  <2>1. UNCHANGED <<phase, updates, control, nonblock, wakeables>>
    BY Zenon, <1>20 DEF Frees, FreeWatch, vars
  <2> QED BY Zenon, <2>1 DEF updates, control, nonblock, wakeables
<1> QED BY Zenon, <1>1, <1>2, <1>3, <1>4, <1>5, <1>6, <1>7, <1>8, <1>9, <1>11, <1>12, <1>13,
           <1>14, <1>19, <1>20 DEF Step, Wakes

\* The delta cycle limit.
LEMMA LimitStep ==
  ASSUME CycleInv, EndInv, LimitInv, Step PROVE LimitInv'
<1> USE DEF LimitInv
<1>0. iteration \in Nat \cup {-1} /\ StopDelta \in Nat \ {0}
  BY Zenon, SimAssumption DEF CycleInv, TypeInv, TypeOK
<1>1. ASSUME UNCHANGED <<phase, iteration, limit>>, force_stop => force_stop',
             phase # "idle"
      PROVE  LimitInv'
  BY Zenon, <1>1
<1>2. CASE Stop \/ BeginCycle
  <2>1. CASE Stop
    BY Zenon, <2>1 DEF Stop, clock, control
  <2>2. CASE BeginCycle
    <3>1. phase = "idle" /\ phase' = "next_cycle" /\ ~force_stop /\ limit' = limit
      BY Zenon, <2>2 DEF BeginCycle, should_stop_now
    <3>2. iteration' = (IF next_is_delta THEN iteration + 1 ELSE 0)
      BY Zenon, <2>2 DEF BeginCycle
    <3> QED BY <1>0, <3>1, <3>2
  <2> QED BY Zenon, <1>2, <2>1, <2>2
<1>3. ASSUME NextDelta, UNCHANGED iteration, phase # "idle" PROVE LimitInv'
  BY <1>0, <1>3 DEF NextDelta
<1>4. ASSUME phase' \notin {"idle", "stopped"}, phase \notin {"idle", "stopped"},
             UNCHANGED <<iteration, limit>>
      PROVE  LimitInv'
  BY Zenon, <1>4
<1>5. CASE Passes /\ ~Stop /\ ~BeginCycle /\ ~EndTimeStep
  BY Zenon, <1>3, <1>4, <1>5 DEF Passes, StartTriggers, EndTriggers, EndProcesses, StartNonblock,
     EndNonblock, StartPostponed, EndPostponed, clock, control
<1>6. CASE EndTimeStep
  BY Zenon, <1>6 DEF EndTimeStep, clock, wakeables, EndInv
<1>7. CASE StartUpdates \/ StartProcesses \/ StartInactive
  BY Zenon, <1>3, <1>4, <1>7 DEF StartUpdates, StartProcesses, StartInactive, clock, control
<1>8. CASE Wakes
  <2>1. phase # "idle"
    BY Zenon, <1>8, SimAssumption DEF Wakes, RunDriver, Settle, RunNonblock, Deposit, RunTrigger,
       CycleInv, RegionInv
  <2> QED BY Zenon, <1>1, <1>8, <2>1 DEF Wakes, RunDriver, Settle, RunNonblock, Deposit,
             RunTrigger, clock, control
<1>9. CASE Times \/ Runs
  BY Zenon, <1>1, <1>9 DEF Times, RunTimeout, Runs, RunProcess, RunWatch, Dequeue, clock, control
<1>10. CASE Waits \/ WaitInactive \/ Fail \/ UserReturn
  <2>1. phase # "idle"
    BY Zenon, <1>10, SimAssumption DEF Waits, Wait, WaitInactive, Fail, UserReturn, CycleInv, RegionInv
  <2> QED BY Zenon, <1>1, <1>10, <2>1 DEF Waits, Wait, WaitInactive, Fail, UserReturn, clock, control
<1>11. CASE Schedules \/ Frees
  <2>1. phase # "idle"
    BY Zenon, <1>11, SimAssumption DEF Schedules, Assign, SchedDeposit, PutValue, SetTimeout, Frees,
       FreeWatch, InCallback, CycleInv, RegionInv
  <2> QED BY Zenon, <1>1, <1>11, <2>1 DEF Schedules, Assign, SchedDeposit, PutValue, SetTimeout,
             Frees, FreeWatch, clock, control
<1>12. CASE UNCHANGED vars
  BY Zenon, <1>12 DEF vars, clock, control, wakeables
<1> QED BY Zenon, <1>2, <1>5, <1>6, <1>7, <1>8, <1>9, <1>10, <1>11, <1>12 DEF Step, Passes

\* A nonblocking assignment is owed only while its deposit source is queued.
LEMMA OwedStep ==
  ASSUME PlainNonblocking, CycleInv, OwedInv, Step PROVE OwedInv'
<1> USE DEF OwedInv
<1>0. ASSUME UNCHANGED <<nonblock, driverq, next_driverq>>, DepositEvents' \subseteq DepositEvents
      PROVE  OwedInv'
  BY Zenon, <1>0 DEF nonblock, Deposits
<1>1. CASE StartUpdates
  <2>1. DepositEvents' = {}
    BY Zenon, <1>1, UpdatesPop DEF DepositEvents
  <2>2. driverq \subseteq next_driverq' /\ next_driverq = {}
    BY Zenon, <1>1, UpdatesPop DEF StartUpdates, CycleInv, RegionInv
  <2> QED BY Zenon, <1>1, <2>1, <2>2 DEF StartUpdates, nonblock, Deposits
<1>2. ASSUME NEW t \in next_driverq, RunDriver(t) PROVE OwedInv'
  <2>1. t.kind = "deposit" => t = Update("deposit", t.obj)
    BY Zenon DEF CycleInv, TypeInv, TypeOK, Task, Update
  <2>2. \A x \in Sigs : t = Update("deposit", x) => t.kind = "deposit" /\ t.obj = x
    BY DEF Update
  <2>3. DepositEvents' = {}
    BY Zenon, <1>2 DEF RunDriver, put_effective, notify_event, wakeup_all, wakeables, DepositEvents
  <2>4. /\ next_driverq' = next_driverq \ {t} /\ UNCHANGED <<driverq, nonblockq>>
        /\ pseudoqueued' = IF t.kind = "deposit" THEN pseudoqueued \ {t.obj}
                           ELSE pseudoqueued
    BY Zenon, <1>2 DEF RunDriver
  <2>5. Deposits(next_driverq) \subseteq Deposits(next_driverq') \cup {x \in Sigs : t = Update("deposit", x)}
    BY Zenon, <2>4 DEF Deposits
  <2>6. Vlog = {} \/ t.obj \notin Resolved
    BY Zenon DEF PlainNonblocking
  <2>7. owed' \subseteq owed /\ owed' \subseteq pseudoqueued'
    BY Zenon, <1>2, <2>4, <2>6 DEF RunDriver
  <2> QED BY Zenon, <2>2, <2>3, <2>4, <2>5, <2>7 DEF Deposits
<1>3. ASSUME NEW s \in Sigs, Settle(s) PROVE OwedInv'
  <2>1. DepositEvents' = {}
    BY Zenon, <1>3 DEF Settle, put_effective, notify_event, wakeup_all, wakeables, DepositEvents
  <2> QED BY Zenon, <1>3, <2>1 DEF Settle, Deposits
<1>4. ASSUME NEW s \in Sigs, RunNonblock(s) PROVE OwedInv'
  <2>1. DepositEvents' = {}
    BY Zenon, <1>4 DEF RunNonblock, put_effective, notify_event, wakeup_all, wakeables, DepositEvents
  <2>2. s \notin Resolved
    BY Zenon, <1>4 DEF RunNonblock, PlainNonblocking
  <2> QED BY Zenon, <1>4, <2>1, <2>2 DEF RunNonblock, Deposits
<1>5. ASSUME NEW s \in Sigs, Deposit(s) PROVE OwedInv'
  <2>1. DepositEvents' \subseteq DepositEvents
    BY Zenon, <1>5 DEF Deposit, notify_event, wakeup_all, DepositEvents
  <2> QED BY Zenon, <1>0, <1>5, <2>1 DEF Deposit
<1>6. ASSUME NEW t \in triggerq, RunTrigger(t) PROVE OwedInv'
  <2>1. DepositEvents' \subseteq DepositEvents
    BY Zenon, <1>6 DEF RunTrigger, wakeup_all, DepositEvents
  <2> QED BY Zenon, <1>0, <1>6, <2>1 DEF RunTrigger, updates
<1>7. ASSUME NEW t \in next_driverq, RunTimeout(t) PROVE OwedInv'
  <2>1. \A x \in Sigs : t # Update("deposit", x)
    BY <1>7 DEF RunTimeout, Update
  <2>2. Deposits(next_driverq') = Deposits(next_driverq)
    BY Zenon, <1>7, <2>1 DEF RunTimeout, Deposits
  <2> QED BY Zenon, <1>7, <2>2 DEF RunTimeout, nonblock, wakeables, DepositEvents, Deposits
<1>8. ASSUME NEW on \in SUBSET Sigs, NEW d, Wait(on, d) PROVE OwedInv'
  <2>1. DepositEvents' \subseteq DepositEvents
    BY <1>8 DEF Wait, deltaq_insert_proc, At, DepositEvents
  <2> QED BY Zenon, <1>0, <1>8, <2>1 DEF Wait, updates
<1>9. ASSUME NEW s \in Sigs, NEW d, Assign(s, d) PROVE OwedInv'
  <2>1. DepositEvents' \subseteq DepositEvents
    BY <1>9 DEF Assign, At, DepositEvents
  <2>2. driverq \subseteq driverq' /\ UNCHANGED <<next_driverq, nonblock>>
    BY Zenon, <1>9 DEF Assign
  <2> QED BY Zenon, <2>1, <2>2 DEF nonblock, Deposits
<1>10. ASSUME NEW s \in Sigs, NEW d \in NbaDelays, SchedDeposit(s, d) PROVE OwedInv'
  <2>1. d = 0 /\ Vlog # {}
    BY Zenon, <1>10 DEF SchedDeposit, PlainNonblocking
  <2>2. DepositEvents' = {}
    BY Zenon, <1>10, <2>1 DEF SchedDeposit, DepositEvents
  <2>3. /\ pseudoqueued' = pseudoqueued \cup {s} /\ owed' = owed \cup {s}
        /\ UNCHANGED <<driverq, next_driverq>>
        /\ nonblockq' = IF s \in pseudoqueued THEN nonblockq ELSE nonblockq \cup {s}
    BY Zenon, <1>10, <2>1 DEF SchedDeposit, updates
  <2> QED BY Zenon, <2>1, <2>2, <2>3 DEF Deposits
<1>11. ASSUME NEW k \in {"driver", "deposit"}, NEW s \in Sigs, PutValue(k, s) PROVE OwedInv'
  <2>1. /\ driverq' = IF k = "deposit" /\ s \in pseudoqueued THEN driverq
                      ELSE driverq \cup {Update(k, s)}
        /\ pseudoqueued' = IF k = "deposit" THEN pseudoqueued \cup {s} ELSE pseudoqueued
        /\ UNCHANGED <<next_driverq, nonblockq, owed, eventq>>
    BY Zenon, <1>11 DEF PutValue
  <2> QED BY Zenon, <2>1 DEF Deposits, DepositEvents
<1>12. ASSUME NEW d \in Delays, SetTimeout(d) PROVE OwedInv'
  <2>1. DepositEvents' \subseteq DepositEvents
    BY <1>12 DEF SetTimeout, At, DepositEvents
  <2> QED BY Zenon, <1>0, <1>12, <2>1 DEF SetTimeout, updates
<1>13. CASE StartProcesses \/ StartInactive \/ Passes \/ Runs \/ WaitInactive \/ Fail
              \/ UserReturn \/ Frees \/ UNCHANGED vars
  <2>1. UNCHANGED <<nonblock, updates, eventq>>
    BY Zenon, <1>13, PassesKeep DEF StartProcesses, StartInactive, Runs, RunProcess, RunWatch,
       WaitInactive, Fail, UserReturn, Frees, FreeWatch, vars, wakeables
  <2> QED BY Zenon, <1>0, <2>1 DEF updates, DepositEvents
<1>14. CASE Wakes
  BY Zenon, <1>2, <1>3, <1>4, <1>5, <1>6, <1>14 DEF Wakes
<1>15. CASE Schedules
  BY Zenon, <1>9, <1>10, <1>11, <1>12, <1>15 DEF Schedules
<1> QED BY Zenon, <1>1, <1>7, <1>8, <1>13, <1>14, <1>15 DEF Step, Times, Waits

\* A time step does all that is queued for it before time advances, including
\* the nonblocking assignments; the postponed region causes no delta cycle,
\* and the delta cycle limit holds.
THEOREM StepsComplete ==
  NoSelfTrigger /\ NoZeroWaitPostponed /\ PlainNonblocking => (Spec => []StepComplete)
<1> SUFFICES ASSUME NoSelfTrigger, NoZeroWaitPostponed, PlainNonblocking
             PROVE  Spec => []StepComplete
  OBVIOUS
<1>1. Init => StepInv
  <2> SUFFICES ASSUME Init PROVE StepInv
    OBVIOUS
  <2>1. EndInv
    BY Zenon DEF Init, EndInv, NoLostDelta
  <2>2. OwedInv
    BY Zenon DEF Init, OwedInv, DepositEvents
  <2>3. LimitInv
    BY SimAssumption DEF Init, LimitInv
  <2> QED BY Zenon, <2>1, <2>2, <2>3, CycleInit DEF StepInv
<1>2. StepInv /\ [Next]_vars => StepInv'
  BY Zenon, NextSteps, CycleNext, EndStep, OwedStep, LimitStep DEF StepInv
<1>3. StepInv => StepComplete
  <2> SUFFICES ASSUME StepInv PROVE StepComplete
    OBVIOUS
  <2>1. phase = "postponed" => owed = {}
    BY Zenon DEF StepInv, EndInv, CycleInv, RegionInv, OwedInv, Deposits
  <2> QED BY Zenon, <2>1 DEF StepInv, EndInv, LimitInv, StepComplete, NonblockApplied,
             NoDeltaFromPostponed, DeltaLimit
<1> QED BY <1>1, <1>2, <1>3, PTL DEF Spec
=============================================================================
