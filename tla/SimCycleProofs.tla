--------------------------- MODULE SimCycleProofs ---------------------------
(***************************************************************************)
(* Safety of the simulation cycle for every set of processes, watches and  *)
(* signals, every sensitivity and every limit.                             *)
(*                                                                         *)
(* The theorems exclude by name one kind of program that the code does not *)
(* treat as the properties ask: an always block whose body has timing      *)
(* controls besides its static sensitivity, which may trigger itself.      *)
(***************************************************************************)
EXTENDS SimCycle, FiniteSetTheorems, TLAPS

NoSelfTrigger == \A p \in Timing : StaticOn[p] = {}

-----------------------------------------------------------------------------
(* The inductive invariant.                                                *)

TypeInv ==
  /\ TypeOK
  /\ waits \in [Procs -> [on : SUBSET Sigs, until : Nat \cup {Never},
                          clear : SUBSET Sigs]]

ProcEvents == {e \in eventq : e.kind = "process"}

\* Objects are queued once.
QueueInv ==
  /\ pending = procq \cup next_procq \cup inactiveq \cup next_inactiveq
                 \cup postponedq
  /\ procq \cap next_procq = {}
  /\ (procq \cup next_procq) \cap (inactiveq \cup next_inactiveq) = {}
  /\ inactiveq \cap next_inactiveq = {}
  /\ postponedq \cap (procq \cup next_procq) = {}

\* A delayed process has one event.
DelayInv ==
  /\ pending \cap delayed = {}
  /\ IsFiniteSet(eventq)
  /\ \A e \in ProcEvents : e.obj \in delayed
  /\ \A p \in delayed : \E e \in ProcEvents : e.obj = p
  /\ \A e, f \in ProcEvents : e.obj = f.obj => e = f

\* The registrations of a process are its static and its dynamic ones, and a
\* suspended process is registered with exactly what it waits on.
Registered(p, s) ==
  /\ s \in StaticOn[p] => p \in sens[s]
  /\ p \in sens[s] => s \in StaticOn[p] \cup waits[p].clear
  /\ s \in StaticOn[p] => waits[p].clear = {}
  /\ p \notin pending /\ p # active => (s \in waits[p].on <=> p \in sens[s])

SensInv == \A p \in Procs, s \in Sigs : Registered(p, s)

\* A process that runs is asleep to nothing, unless it has triggered itself.
ActiveInv ==
  /\ active \in Procs =>
       /\ active \notin delayed /\ waits[active].clear = {}
       /\ active \in pending => StaticOn[active] # {}
  /\ \A e \in ProcEvents : waits[e.obj].until = e.at
  /\ stray = {} /\ ~failed

\* The deposit source of a signal is queued in one place at most.
Deposits(q) == {s \in Sigs : Update("deposit", s) \in q}
DepositEvents == {e \in eventq : e.kind = "deposit"}

DepositInv ==
  /\ \A s \in Sigs :
       Update("deposit", s) \in driverq \cup next_driverq =>
         s \in pseudoqueued \ nonblockq
  /\ \A s \in Sigs : ~(Update("deposit", s) \in driverq
                         /\ Update("deposit", s) \in next_driverq)
  /\ \A e \in DepositEvents :
       /\ e.obj \in pseudoqueued \ nonblockq
       /\ Update("deposit", e.obj) \notin driverq \cup next_driverq
  /\ \A e, f \in DepositEvents : e.obj = f.obj => e = f

\* What is queued in the regions, and what asks for a delta cycle.
Late == {"inactive", "nonblock", "last", "postponed", "end_step", "idle",
         "stopped"}

RegionInv ==
  /\ active # Nobody => phase \in {"drivers", "procs", "inactive", "postponed"}
  /\ phase = "drivers" => active \in {Nobody, Timer}
  /\ phase = "postponed" => active \in Postponed \cup {Nobody}
  /\ next_driverq # {} => phase = "drivers"
  /\ triggerq # {} => phase \in {"drivers", "triggers"}
  /\ next_procq # {} => phase = "procs"
  /\ next_inactiveq # {} => phase = "inactive"
  /\ phase \notin {"idle", "next_cycle", "drivers", "stopped"} => blocking_update
  /\ driverq # {} => next_is_delta \/ phase = "next_cycle"
  /\ procq # {} => next_is_delta \/ phase \in {"next_cycle", "drivers",
                                               "triggers", "start"}
  /\ inactiveq # {} /\ phase \in Late => next_is_delta
  /\ phase \in {"last", "postponed", "end_step"} => nonblockq = {}
  /\ nonblockq # {} /\ phase \in {"idle", "stopped"} => next_is_delta

CycleInv ==
  /\ TypeInv /\ QueueInv /\ DelayInv /\ SensInv /\ ActiveInv /\ WatchSafe
  /\ DepositInv /\ RegionInv

-----------------------------------------------------------------------------
(* Waking processes and watches.                                           *)

\* wakeup_one leaves what is queued alone and queues the rest once.
LEMMA WakeQueue ==
  ASSUME TypeInv, QueueInv, NEW W \in SUBSET Wakeables, NEW by, NEW delta,
         wakeup_all(W, by, delta), UNCHANGED running
  PROVE  QueueInv'
<1> DEFINE new == W \ pending
<1>1. /\ procq' = procq \cup (new \ Postponed)
      /\ postponedq' = postponedq \cup (new \cap Postponed)
      /\ pending' = pending \cup new
  BY Zenon DEF wakeup_all
<1> HIDE DEF new
<1>2. new \cap pending = {}
  BY Zenon DEF new
<1> QED BY Zenon, <1>1, <1>2 DEF QueueInv, running

\* A delayed process that is woken loses its event.
LEMMA WakeDelay ==
  ASSUME DelayInv, NEW W, NEW by, NEW delta, wakeup_all(W, by, delta)
  PROVE  DelayInv'
<1>1. eventq' \subseteq eventq
  BY Zenon DEF wakeup_all
<1>2. IsFiniteSet(eventq')
  BY Zenon, <1>1, FS_Subset DEF DelayInv
<1> QED BY <1>1, <1>2 DEF DelayInv, ProcEvents, wakeup_all

\* A process is woken only by what it waits on.
LEMMA WakeActive ==
  ASSUME TypeInv, DelayInv, SensInv, ActiveInv, NEW s \in Sigs, NEW W \in SUBSET sens[s],
         NEW delta, wakeup_all(W, s, delta), UNCHANGED <<listeners, active, failed>>
  PROVE  SensInv' /\ ActiveInv'
<1>1. SensInv'
  BY Zenon DEF SensInv, Registered, wakeup_all, listeners
<1>2. ActiveInv'
  <2>1. stray' = {}
    BY Zenon DEF TypeInv, TypeOK, SensInv, Registered, ActiveInv, wakeup_all
  <2>2. \A e \in ProcEvents' : waits'[e.obj].until = e.at
    BY Zenon DEF ActiveInv, ProcEvents, wakeup_all, listeners
  <2>3. active' \in Procs =>
          /\ active' \notin delayed' /\ waits'[active'].clear = {}
          /\ active' \in pending' => StaticOn[active'] # {}
    BY Zenon DEF TypeInv, TypeOK, SensInv, Registered, ActiveInv, wakeup_all, listeners
  <2> QED BY Zenon, <2>1, <2>2, <2>3 DEF ActiveInv
<1> QED BY Zenon, <1>1, <1>2

\* Only live watches are registered, so only those are queued.
LEMMA WakeWatch ==
  ASSUME WatchSafe, NEW s \in Sigs, NEW W \in SUBSET sens[s],
         NEW delta, wakeup_all(W, s, delta), UNCHANGED listeners
  PROVE  WatchSafe'
BY Zenon DEF WatchSafe, wakeup_all, listeners
\* notify_event and put_effective wake what is registered with the signal.
LEMMA NotifyInv ==
  ASSUME CycleInv, NEW s \in Sigs, NEW delta, notify_event(s, delta),
         UNCHANGED <<running, listeners, active, failed>>
  PROVE  QueueInv' /\ DelayInv' /\ SensInv' /\ ActiveInv' /\ WatchSafe'
<1>1. PICK fired \in SUBSET (sens[s] \cap Vlog) :
        wakeup_all((sens[s] \ Vlog) \cup fired, s, delta)
  BY Zenon DEF notify_event
<1>2. (sens[s] \ Vlog) \cup fired \in SUBSET sens[s]
  OBVIOUS
<1>3. (sens[s] \ Vlog) \cup fired \in SUBSET Wakeables
  BY Zenon, <1>2 DEF CycleInv, TypeInv, TypeOK
<1> QED BY Zenon, <1>1, <1>2, <1>3, WakeQueue, WakeDelay, WakeActive, WakeWatch DEF CycleInv

LEMMA EffectiveInv ==
  ASSUME CycleInv, NEW s \in Sigs, put_effective(s),
         UNCHANGED <<running, listeners, active, failed>>
  PROVE  QueueInv' /\ DelayInv' /\ SensInv' /\ ActiveInv' /\ WatchSafe'
<1>1. CASE notify_event(s, FALSE)
  BY Zenon, <1>1, NotifyInv
<1>2. CASE UNCHANGED wakeables
  BY Zenon, <1>2 DEF CycleInv, wakeables, running, listeners, QueueInv, DelayInv,
              ProcEvents, SensInv, Registered, ActiveInv, WatchSafe
<1> QED BY Zenon, <1>1, <1>2 DEF put_effective

\* The steps that wake objects.
Wakes ==
  \/ \E t \in next_driverq : RunDriver(t)
  \/ \E s \in Sigs : Settle(s) \/ RunNonblock(s) \/ Deposit(s)
  \/ \E t \in triggerq : RunTrigger(t)

LEMMA WakesInv ==
  ASSUME CycleInv, Wakes
  PROVE  QueueInv' /\ DelayInv' /\ SensInv' /\ ActiveInv' /\ WatchSafe'
<1>0. ASSUME UNCHANGED <<wakeables, running, listeners, active, failed>>
      PROVE  QueueInv' /\ DelayInv' /\ SensInv' /\ ActiveInv' /\ WatchSafe'
  BY Zenon, <1>0 DEF CycleInv, wakeables, running, listeners, QueueInv, DelayInv,
              ProcEvents, SensInv, Registered, ActiveInv, WatchSafe
<1>1. ASSUME NEW t \in next_driverq, RunDriver(t)
      PROVE  QueueInv' /\ DelayInv' /\ SensInv' /\ ActiveInv' /\ WatchSafe'
  <2>1. t.obj \in Sigs
    BY Zenon, <1>1 DEF RunDriver, CycleInv, TypeInv, TypeOK, Task
  <2>2. UNCHANGED <<running, listeners, active, failed>>
    BY Zenon, <1>1 DEF RunDriver
  <2> QED BY Zenon, <1>0, <1>1, <2>1, <2>2, EffectiveInv DEF RunDriver
<1>2. ASSUME NEW s \in Sigs, Settle(s) \/ RunNonblock(s) \/ Deposit(s)
      PROVE  QueueInv' /\ DelayInv' /\ SensInv' /\ ActiveInv' /\ WatchSafe'
  <2>1. UNCHANGED <<running, listeners, active, failed>>
    BY Zenon, <1>2 DEF Settle, RunNonblock, Deposit
  <2>2. CASE Settle(s)
    BY Zenon, <2>1, <2>2, EffectiveInv DEF Settle
  <2>3. CASE RunNonblock(s)
    BY Zenon, <1>0, <2>1, <2>3, EffectiveInv DEF RunNonblock
  <2>4. CASE Deposit(s)
    BY Zenon, <2>1, <2>4, NotifyInv DEF Deposit
  <2> QED BY Zenon, <1>2, <2>2, <2>3, <2>4
<1>3. ASSUME NEW t \in triggerq, RunTrigger(t)
      PROVE  QueueInv' /\ DelayInv' /\ SensInv' /\ ActiveInv' /\ WatchSafe'
  <2>1. UNCHANGED <<running, listeners, active, failed>>
    BY Zenon, <1>3 DEF RunTrigger
  <2>2. t[1] \in Sigs
    BY Zenon DEF CycleInv, TypeInv, TypeOK
  <2>3. CASE wakeup_all({t[2]} \cap sens[t[1]], t[1], FALSE)
    <3>1. {t[2]} \cap sens[t[1]] \in SUBSET sens[t[1]]
      OBVIOUS
    <3>2. {t[2]} \cap sens[t[1]] \in SUBSET Wakeables
      BY Zenon, <2>2 DEF CycleInv, TypeInv, TypeOK
    <3> QED BY Zenon, <2>1, <2>2, <2>3, <3>1, <3>2, WakeQueue, WakeDelay, WakeActive,
               WakeWatch DEF CycleInv
  <2>4. CASE UNCHANGED <<eventq, procq, postponedq, pending, delayed,
                         next_is_delta, stray>>
    BY Zenon, <2>1, <2>4 DEF CycleInv, running, listeners, QueueInv, DelayInv,
                      ProcEvents, SensInv, Registered, ActiveInv, WatchSafe
  <2> QED BY Zenon, <1>3, <2>3, <2>4 DEF RunTrigger
<1> QED BY Zenon, <1>1, <1>2, <1>3 DEF Wakes

-----------------------------------------------------------------------------
(* The queues.                                                             *)

\* The other steps, by what they leave alone.
Passes == Stop \/ BeginCycle \/ StartTriggers \/ EndTriggers \/ EndProcesses
            \/ StartNonblock \/ EndNonblock \/ StartPostponed \/ EndPostponed
            \/ EndTimeStep

Schedules ==
  \/ \E s \in Sigs, d \in {0} \cup Delays : Assign(s, d)
  \/ \E s \in Sigs, d \in NbaDelays \cap ({0} \cup Delays) : SchedDeposit(s, d)
  \/ \E k \in {"driver", "deposit"}, s \in Sigs : PutValue(k, s)
  \/ \E d \in Delays : SetTimeout(d)

Waits == \E on \in SUBSET Sigs, d \in {0, Never} \cup Delays : Wait(on, d)
Runs  == (\E p \in Procs : RunProcess(p)) \/ (\E w \in Watches : RunWatch(w))
Times == \E t \in next_driverq : RunTimeout(t)
Frees == \E w \in Watches : FreeWatch(w)

Step ==
  \/ Passes \/ StartUpdates \/ StartProcesses \/ StartInactive
  \/ Wakes \/ Times \/ Runs \/ Waits \/ WaitInactive \/ Fail \/ UserReturn
  \/ Schedules \/ Frees \/ UNCHANGED vars

LEMMA NextSteps == [Next]_vars => Step
BY Zenon DEF Next, Kernel, Regions, Tasks, Suspends, Effects, Passes, Wakes, Times,
       Runs, Waits, Schedules, Frees, Step

\* What the passes from region to region leave alone.
LEMMA PassesKeep ==
  ASSUME Passes
  PROVE  UNCHANGED <<updates, running, nonblock, eventq, triggerq, procq,
                     postponedq, pending, delayed, stray, listeners, active, failed>>
BY Zenon DEF Passes, Stop, BeginCycle, StartTriggers, EndTriggers, EndProcesses,
       StartNonblock, EndNonblock, StartPostponed, EndPostponed, EndTimeStep,
       NextDelta, wakeables, running

\* The events that StartUpdates pops: their processes are delayed ones.
Due   == IF is_delta THEN {} ELSE {e \in eventq : e.at = now}
Woken == {e.obj : e \in {d \in Due : d.kind = "process"}}
Moved == {Update(e.kind, e.obj) : e \in {d \in Due : d.kind # "process"}}

LEMMA UpdatesPop ==
  ASSUME CycleInv, StartUpdates
  PROVE  /\ Woken \in SUBSET delayed
         /\ eventq' = eventq \ Due
         /\ delayed' = delayed \ Woken
         /\ pending' = pending \cup Woken
         /\ procq' = procq \cup (Woken \ Postponed)
         /\ postponedq' = postponedq \cup (Woken \cap Postponed)
         /\ stray' = stray \cup {p \in Woken : waits[p].until # now}
         /\ failed' = (failed \/ ~(Woken \subseteq delayed)
                              \/ Woken \cap pending # {})
         /\ next_driverq' = driverq \cup Moved
         /\ driverq' = {}
<1>1. Woken \in SUBSET delayed
  BY DEF Woken, Due, CycleInv, DelayInv, ProcEvents
<1> QED BY Zenon, <1>1 DEF StartUpdates, Due, Woken, Moved

\* Whoever suspends with a time or in the inactive region is not queued yet.
LEMMA SuspendFresh ==
  ASSUME NoSelfTrigger, CycleInv, active \in Procs,
         StaticOn[active] = {} \/ active \in Timing
  PROVE  active \notin pending \cup delayed /\ StaticOn[active] = {}
BY Zenon DEF NoSelfTrigger, CycleInv, ActiveInv

LEMMA QueueStep == ASSUME NoSelfTrigger, CycleInv, Step PROVE QueueInv'
<1>0. ASSUME UNCHANGED <<running, procq, postponedq, pending>> PROVE QueueInv'
  BY Zenon, <1>0 DEF CycleInv, QueueInv, running
<1>1. CASE StartUpdates
  <2>1. PICK proc \in SUBSET delayed :
          /\ pending' = pending \cup proc
          /\ procq' = procq \cup (proc \ Postponed)
          /\ postponedq' = postponedq \cup (proc \cap Postponed)
    BY Zenon, <1>1, UpdatesPop
  <2> QED BY Zenon, <1>1, <2>1 DEF StartUpdates, CycleInv, DelayInv, QueueInv, running
<1>2. CASE StartProcesses
  BY Zenon, <1>2 DEF StartProcesses, CycleInv, RegionInv, QueueInv
<1>3. CASE StartInactive
  BY Zenon, <1>3 DEF StartInactive, NextDelta, CycleInv, RegionInv, QueueInv, wakeables
<1>4. CASE Runs
  <2>1. PICK o \in Wakeables : Dequeue(o) /\ pending' = pending \ {o}
                                /\ UNCHANGED <<inactiveq, procq>>
    BY Zenon, <1>4 DEF Runs, RunProcess, RunWatch, Wakeables
  <2> QED BY <2>1, SimAssumption DEF Dequeue, CycleInv, QueueInv, TypeInv, TypeOK
<1>5. CASE Waits
  <2>1. PICK on \in SUBSET Sigs, d \in {0, Never} \cup Delays : Wait(on, d)
    BY Zenon, <1>5 DEF Waits
  <2>2. CASE d = 0
    <3>1. active \notin pending
      BY <2>1, <2>2, SuspendFresh, SimAssumption DEF Wait
    <3> QED BY <2>1, <2>2, <3>1, SimAssumption DEF Wait, deltaq_insert_proc,
               CycleInv, QueueInv, running
  <2>3. CASE d # 0
    BY Zenon, <1>0, <2>1, <2>3 DEF Wait, deltaq_insert_proc
  <2> QED BY Zenon, <2>2, <2>3
<1>6. CASE WaitInactive
  <2>1. active \notin pending
    BY Zenon, <1>6, SuspendFresh, SimAssumption DEF WaitInactive
  <2> QED BY Zenon, <1>6, <2>1 DEF WaitInactive, CycleInv, QueueInv
<1>7. CASE Passes \/ Times \/ Fail \/ UserReturn \/ Schedules \/ Frees \/ UNCHANGED vars
  BY Zenon, <1>7, <1>0, PassesKeep DEF Times, RunTimeout, Fail, UserReturn, Schedules,
     Assign, SchedDeposit, PutValue, SetTimeout, Frees, FreeWatch, vars, wakeables
<1> QED BY Zenon, <1>1, <1>2, <1>3, <1>4, <1>5, <1>6, <1>7, WakesInv DEF Step

\* A process that waits for a time gets one event, and every event that is
\* popped is that of a delayed process.
LEMMA DelayStep == ASSUME NoSelfTrigger, CycleInv, Step PROVE DelayInv'
<1>0. ASSUME pending' \subseteq pending, UNCHANGED <<delayed, eventq>> PROVE DelayInv'
  BY Zenon, <1>0 DEF CycleInv, DelayInv, ProcEvents
<1>1. CASE StartUpdates
  <2>1. IsFiniteSet(eventq')
    BY Zenon, <1>1, UpdatesPop, FS_Subset DEF CycleInv, DelayInv
  <2>2. \A e \in ProcEvents' : e \in ProcEvents /\ e.obj \in delayed'
    BY <1>1, UpdatesPop DEF CycleInv, DelayInv, ProcEvents, Due, Woken
  <2>3. \A p \in delayed' : \E e \in ProcEvents' : e.obj = p
    BY <1>1, UpdatesPop DEF CycleInv, DelayInv, ProcEvents, Due, Woken
  <2> QED BY Zenon, <1>1, <2>1, <2>2, <2>3, UpdatesPop DEF CycleInv, DelayInv
<1>2. CASE StartProcesses \/ StartInactive \/ Passes \/ Times \/ Fail \/ UserReturn
             \/ Frees \/ UNCHANGED vars
  BY Zenon, <1>2, <1>0, PassesKeep DEF StartProcesses, StartInactive, Times, RunTimeout,
     Fail, UserReturn, Frees, FreeWatch, vars, wakeables
<1>3. CASE Runs
  BY Zenon, <1>3, <1>0 DEF Runs, RunProcess, RunWatch
<1>4. CASE Schedules
  <2>1. UNCHANGED <<pending, delayed>>
    BY Zenon, <1>4 DEF Schedules, Assign, SchedDeposit, PutValue, SetTimeout
  <2>2. \/ eventq' = eventq
        \/ \E e : eventq' = eventq \cup {e} /\ e.kind # "process"
    BY <1>4 DEF Schedules, Assign, SchedDeposit, PutValue, SetTimeout, At
  <2> QED BY <2>1, <2>2, FS_AddElement DEF CycleInv, DelayInv, ProcEvents
<1>5. CASE Waits
  <2>1. PICK on \in SUBSET Sigs, d \in {0, Never} \cup Delays : Wait(on, d)
    BY Zenon, <1>5 DEF Waits
  <2>2. CASE d = Never
    BY Zenon, <1>0, <2>1, <2>2 DEF Wait, deltaq_insert_proc
  <2>3. active \in Procs /\ (d # Never => active \notin pending \cup delayed)
    BY Zenon, <2>1, SuspendFresh DEF Wait
  <2>4. CASE d # Never /\ d = 0
    BY <2>1, <2>3, <2>4 DEF Wait, deltaq_insert_proc, CycleInv, DelayInv, ProcEvents
  <2>5. CASE d # Never /\ d # 0
    <3>1. /\ delayed' = delayed \cup {active}
          /\ eventq' = eventq \cup {At(now + d, "process", active)}
          /\ UNCHANGED pending
      BY Zenon, <2>1, <2>5 DEF Wait, deltaq_insert_proc
    <3>2. /\ At(now + d, "process", active).kind = "process"
          /\ At(now + d, "process", active).obj = active
      BY Zenon DEF At
    <3> QED BY <2>3, <2>5, <3>1, <3>2, FS_AddElement DEF CycleInv, DelayInv, ProcEvents
  <2> QED BY Zenon, <2>2, <2>4, <2>5
<1>6. CASE WaitInactive
  <2>1. active \notin pending \cup delayed
    BY Zenon, <1>6, SuspendFresh, SimAssumption DEF WaitInactive
  <2> QED BY <1>6, <2>1 DEF WaitInactive, CycleInv, DelayInv, ProcEvents
<1> QED BY Zenon, <1>1, <1>2, <1>3, <1>4, <1>5, <1>6, WakesInv DEF Step

-----------------------------------------------------------------------------
(* The registrations and the watches.                                      *)

LEMMA SensStep == ASSUME NoSelfTrigger, CycleInv, Step PROVE SensInv'
<1>0. ASSUME UNCHANGED <<sens, waits>>, pending \subseteq pending',
             active' = active \/ active \notin Procs
      PROVE SensInv'
  BY <1>0 DEF CycleInv, SensInv, Registered
<1>1. CASE StartUpdates
  BY Zenon, <1>0, <1>1, UpdatesPop DEF StartUpdates, listeners
<1>2. CASE StartProcesses \/ StartInactive \/ Passes \/ UserReturn \/ Schedules
             \/ UNCHANGED vars
  BY Zenon, <1>0, <1>2, PassesKeep, SimAssumption DEF StartProcesses, StartInactive,
     UserReturn, Schedules, Assign, SchedDeposit, PutValue, SetTimeout, vars,
     wakeables, listeners
<1>3. CASE Times
  BY Zenon, <1>0, <1>3, SimAssumption DEF Times, RunTimeout, wakeables, listeners
<1>4. ASSUME NEW p \in Procs, RunProcess(p) PROVE SensInv'
  <2>1. /\ active' = p /\ pending' = pending \ {p} /\ active = Nobody
        /\ \A s \in Sigs : sens'[s] = IF s \in waits[p].clear THEN sens[s] \ {p}
                                      ELSE sens[s]
        /\ \A q \in Procs : waits'[q] = IF q = p THEN NoWait ELSE waits[q]
    BY Zenon, <1>4 DEF RunProcess, CycleInv, TypeInv
  <2>2. NoWait.clear = {}
    BY Zenon DEF NoWait
  <2>3. ASSUME NEW q \in Procs, NEW s \in Sigs PROVE Registered(q, s)'
    <3>1. Registered(q, s)
      BY Zenon DEF CycleInv, SensInv
    <3>2. CASE q = p
      BY Zenon, <2>1, <2>2, <3>1, <3>2 DEF Registered
    <3>3. CASE q # p
      BY Zenon, <2>1, <3>1, <3>3, SimAssumption DEF Registered
    <3> QED BY Zenon, <3>2, <3>3
  <2> QED BY Zenon, <2>3 DEF SensInv
<1>5. ASSUME NEW w \in Watches, RunWatch(w) PROVE SensInv'
  BY <1>5, SimAssumption DEF RunWatch, CycleInv, SensInv, Registered
<1>6. CASE Waits
  <2>1. PICK on \in SUBSET Sigs, d \in {0, Never} \cup Delays : Wait(on, d)
    BY Zenon, <1>6 DEF Waits
  <2>2. active \in Procs /\ waits[active].clear = {}
    BY Zenon, <2>1 DEF Wait, CycleInv, ActiveInv
  <2>3. on # {} \/ d # Never => StaticOn[active] = {}
    BY Zenon, <2>1 DEF Wait, NoSelfTrigger
  <2>4. pending \subseteq pending'
    BY Zenon, <2>1 DEF Wait, deltaq_insert_proc
  <2> DEFINE wait == [on    |-> IF on = {} /\ d = Never THEN StaticOn[active] ELSE on,
                      until |-> IF d = Never THEN Never ELSE now + d,
                      clear |-> on]
  <2>5. /\ active' = Nobody
        /\ \A s \in Sigs : sens'[s] = IF s \in on THEN sens[s] \cup {active}
                                      ELSE sens[s]
        /\ \A q \in Procs : waits'[q] = IF q = active THEN wait ELSE waits[q]
    BY Zenon, <2>1 DEF Wait, CycleInv, TypeInv
  <2>6. wait.clear = on /\ wait.on = IF on = {} /\ d = Never THEN StaticOn[active] ELSE on
    OBVIOUS
  <2> HIDE DEF wait
  <2>7. ASSUME NEW q \in Procs, NEW s \in Sigs PROVE Registered(q, s)'
    <3>1. Registered(q, s)
      BY Zenon DEF CycleInv, SensInv
    <3>2. CASE q = active
      BY Zenon, <2>2, <2>3, <2>5, <2>6, <3>1, <3>2 DEF Registered
    <3>3. CASE q # active
      BY <2>4, <2>5, <3>1, <3>3, SimAssumption DEF Registered
    <3> QED BY Zenon, <3>2, <3>3
  <2> QED BY Zenon, <2>7 DEF SensInv
<1>7. CASE WaitInactive
  BY Zenon, <1>7 DEF WaitInactive, listeners, CycleInv, SensInv, Registered
<1>8. CASE Fail
  BY <1>8, SimAssumption DEF Fail, wakeables, CycleInv, TypeInv, TypeOK, ActiveInv, SensInv, Registered
<1>9. CASE Frees
  BY <1>9, SimAssumption DEF Frees, FreeWatch, wakeables, CycleInv, SensInv, Registered
<1> QED BY Zenon, <1>1, <1>2, <1>3, <1>4, <1>5, <1>6, <1>7, <1>8, <1>9, WakesInv DEF Step, Runs

\* A running process is in no queue, unless it has triggered itself, and the
\* kernel's assertions hold.
LEMMA ActiveStep == ASSUME NoSelfTrigger, CycleInv, Step PROVE ActiveInv'
<1>0. ASSUME UNCHANGED <<pending, delayed, waits, stray, failed>>,
             active' = active \/ active' \notin Procs,
             ProcEvents' \subseteq ProcEvents
      PROVE  ActiveInv'
  BY Zenon, <1>0 DEF CycleInv, ActiveInv
<1>1. CASE StartUpdates
  <2>1. active \notin Procs
    BY Zenon, <1>1, SimAssumption DEF StartUpdates
  <2>2. \A p \in Woken : waits[p].until = now
    BY Zenon DEF Woken, Due, CycleInv, ActiveInv, ProcEvents
  <2>3. stray' = {} /\ ~failed'
    BY Zenon, <1>1, <2>2, UpdatesPop DEF CycleInv, DelayInv, ActiveInv
  <2>4. ProcEvents' \subseteq ProcEvents
    BY Zenon, <1>1, UpdatesPop DEF ProcEvents
  <2> QED BY Zenon, <1>1, <2>1, <2>3, <2>4 DEF StartUpdates, listeners, CycleInv, ActiveInv
<1>2. CASE StartProcesses \/ StartInactive \/ Passes \/ UserReturn \/ Times \/ Frees
             \/ UNCHANGED vars
  BY Zenon, <1>0, <1>2, PassesKeep, SimAssumption DEF StartProcesses, StartInactive,
     UserReturn, Times, RunTimeout, Frees, FreeWatch, vars, wakeables, listeners,
     ProcEvents
<1>3. CASE Schedules
  <2>1. UNCHANGED <<pending, delayed, waits, stray, failed, active>>
    BY Zenon, <1>3 DEF Schedules, Assign, SchedDeposit, PutValue, SetTimeout, listeners
  <2>2. ProcEvents' \subseteq ProcEvents
    BY <1>3 DEF Schedules, Assign, SchedDeposit, PutValue, SetTimeout, At, ProcEvents
  <2> QED BY Zenon, <1>0, <2>1, <2>2
<1>4. ASSUME NEW p \in Procs, RunProcess(p) PROVE ActiveInv'
  <2>1. /\ active' = p /\ pending' = pending \ {p} /\ p \in pending
        /\ UNCHANGED <<eventq, delayed, stray>> /\ ~failed'
        /\ \A q \in Procs : waits'[q] = IF q = p THEN NoWait ELSE waits[q]
    BY Zenon, <1>4 DEF RunProcess, Dequeue, CycleInv, TypeInv, QueueInv, ActiveInv
  <2>2. p \notin delayed /\ NoWait.clear = {}
    BY Zenon, <2>1 DEF CycleInv, DelayInv, NoWait
  <2>3. \A e \in ProcEvents' : waits'[e.obj].until = e.at
    BY <2>1, <2>2 DEF CycleInv, TypeInv, TypeOK, DelayInv, ActiveInv, ProcEvents
  <2> QED BY Zenon, <2>1, <2>2, <2>3 DEF CycleInv, ActiveInv
<1>5. ASSUME NEW w \in Watches, RunWatch(w) PROVE ActiveInv'
  <2>1. w \in pending /\ watch[w] # "freed"
    BY Zenon, <1>5 DEF RunWatch, Dequeue, CycleInv, QueueInv, WatchSafe
  <2> QED BY Zenon, <1>5, <2>1, SimAssumption DEF RunWatch, CycleInv, ActiveInv, ProcEvents
<1>6. CASE Waits
  <2>1. PICK on \in SUBSET Sigs, d \in {0, Never} \cup Delays : Wait(on, d)
    BY Zenon, <1>6 DEF Waits
  <2>2. /\ active' \notin Procs /\ active \in Procs /\ active \notin delayed
        /\ stray' = stray
        /\ d # Never => active \notin pending
    BY Zenon, <2>1, SuspendFresh, SimAssumption DEF Wait, CycleInv, ActiveInv
  <2>3. ~failed'
    BY Zenon, <2>1, <2>2 DEF Wait, deltaq_insert_proc, CycleInv, ActiveInv
  <2>4. \A e \in ProcEvents : e.obj \in Procs /\ e.obj # active
    BY <2>2 DEF CycleInv, TypeInv, TypeOK, DelayInv, ProcEvents
  <2>5. \A e \in ProcEvents : waits'[e.obj].until = e.at
    BY Zenon, <2>1, <2>4 DEF Wait, CycleInv, TypeInv, ActiveInv
  <2>6. d # Never => waits'[active].until = now + d
    BY Zenon, <2>1, <2>2 DEF Wait, CycleInv, TypeInv
  <2>7. \A e \in ProcEvents' : waits'[e.obj].until = e.at
    BY <2>1, <2>5, <2>6 DEF Wait, deltaq_insert_proc, ProcEvents, At
  <2> QED BY Zenon, <2>2, <2>3, <2>7 DEF CycleInv, ActiveInv
<1>7. CASE WaitInactive
  <2>1. active \notin pending \cup delayed
    BY Zenon, <1>7, SuspendFresh, SimAssumption DEF WaitInactive
  <2> QED BY Zenon, <1>7, <2>1, SimAssumption DEF WaitInactive, listeners, CycleInv, ActiveInv,
             ProcEvents
<1>8. CASE Fail
  <2>1. \A q \in Procs : waits'[q].until = waits[q].until
    BY Zenon, <1>8 DEF Fail, CycleInv, TypeInv
  <2>2. \A e \in ProcEvents : e.obj \in Procs
    BY Zenon DEF CycleInv, TypeInv, TypeOK, ProcEvents
  <2> QED BY Zenon, <1>8, <2>1, <2>2, SimAssumption DEF Fail, wakeables, CycleInv, ActiveInv,
             ProcEvents
<1> QED BY Zenon, <1>1, <1>2, <1>3, <1>4, <1>5, <1>6, <1>7, <1>8, WakesInv DEF Step, Runs

\* A watch leaves its queue before it is freed.
LEMMA WatchStep == ASSUME CycleInv, Step PROVE WatchSafe'
<1>0. ASSUME UNCHANGED <<sens, watch, pending>> PROVE WatchSafe'
  BY Zenon, <1>0 DEF CycleInv, WatchSafe
<1>1. CASE StartUpdates
  <2>1. UNCHANGED <<sens, watch>> /\ \A w \in Watches : w \in pending' <=> w \in pending
    BY Zenon, <1>1, UpdatesPop, SimAssumption DEF StartUpdates, listeners, CycleInv, TypeInv, TypeOK
  <2> QED BY Zenon, <2>1 DEF CycleInv, WatchSafe
<1>2. CASE StartProcesses \/ StartInactive \/ Passes \/ Times \/ Fail \/ UserReturn
             \/ Schedules \/ UNCHANGED vars
  BY Zenon, <1>0, <1>2, PassesKeep DEF StartProcesses, StartInactive, Times, RunTimeout, Fail,
     UserReturn, Schedules, Assign, SchedDeposit, PutValue, SetTimeout, vars,
     wakeables, listeners
<1>3. ASSUME NEW p \in Procs, RunProcess(p) PROVE WatchSafe'
  BY Zenon, <1>3, SimAssumption DEF RunProcess, CycleInv, WatchSafe
<1>4. ASSUME NEW w \in Watches, RunWatch(w) PROVE WatchSafe'
  BY Zenon, <1>4 DEF RunWatch, CycleInv, TypeInv, TypeOK, WatchSafe
<1>5. CASE Waits
  <2>1. PICK on \in SUBSET Sigs, d \in {0, Never} \cup Delays : Wait(on, d)
    BY Zenon, <1>5 DEF Waits
  <2>2. watch' = watch /\ active \in Procs /\ pending' \in {pending, pending \cup {active}}
    BY Zenon, <2>1 DEF Wait, deltaq_insert_proc
  <2>3. \A s \in Sigs : sens'[s] \in {sens[s], sens[s] \cup {active}}
    BY Zenon, <2>1 DEF Wait
  <2> QED BY <2>2, <2>3, SimAssumption DEF CycleInv, WatchSafe
<1>6. CASE WaitInactive
  BY Zenon, <1>6, SimAssumption DEF WaitInactive, listeners, CycleInv, WatchSafe
<1>7. CASE Frees
  BY <1>7 DEF Frees, FreeWatch, wakeables, CycleInv, TypeInv, TypeOK, WatchSafe
<1> QED BY Zenon, <1>1, <1>2, <1>3, <1>4, <1>5, <1>6, <1>7, WakesInv DEF Step, Runs

\* A deposit source is queued only when it is not queued yet.
LEMMA DepositStep == ASSUME CycleInv, Step PROVE DepositInv'
<1>0. ASSUME UNCHANGED <<driverq, next_driverq, pseudoqueued, nonblockq>>,
             DepositEvents' = DepositEvents
      PROVE  DepositInv'
  BY Zenon, <1>0 DEF CycleInv, DepositInv
<1>a. \A e \in DepositEvents : e.obj \in Sigs
  BY Zenon DEF DepositEvents, CycleInv, TypeInv, TypeOK, Task, Update
<1>1. CASE StartUpdates
  <2>1. DepositEvents' = {e \in DepositEvents : e \notin Due}
    BY Zenon, <1>1, UpdatesPop DEF DepositEvents
  <2>2. \A s \in Sigs : Update("deposit", s) \in Moved =>
          \E e \in DepositEvents : e \in Due /\ e.obj = s
    BY Zenon DEF Moved, Due, Update, DepositEvents
  <2>3. UNCHANGED <<pseudoqueued, nonblockq>> /\ next_driverq = {}
    BY Zenon, <1>1 DEF StartUpdates, nonblock, CycleInv, RegionInv
  <2> QED BY <1>1, <1>a, <2>1, <2>2, <2>3, UpdatesPop DEF CycleInv, DepositInv
<1>2. ASSUME NEW t \in next_driverq, RunDriver(t) PROVE DepositInv'
  <2>1. /\ next_driverq' = next_driverq \ {t} /\ UNCHANGED <<driverq, nonblockq>>
        /\ pseudoqueued' = IF t.kind = "deposit" THEN pseudoqueued \ {t.obj}
                           ELSE pseudoqueued
    BY Zenon, <1>2 DEF RunDriver
  <2>2. t.kind = "deposit" => t = Update("deposit", t.obj) /\ t.obj \in Sigs
    BY Zenon DEF CycleInv, TypeInv, TypeOK, Task, Update
  <2>3. DepositEvents' \subseteq DepositEvents
    BY Zenon, <1>2 DEF RunDriver, put_effective, notify_event, wakeup_all, wakeables, DepositEvents
  <2> QED BY Zenon, <2>1, <2>2, <2>3 DEF CycleInv, DepositInv
<1>3. ASSUME NEW s \in Sigs, Settle(s) \/ RunNonblock(s) \/ Deposit(s) PROVE DepositInv'
  <2>1. DepositEvents' \subseteq DepositEvents
    BY Zenon, <1>3 DEF Settle, RunNonblock, Deposit, put_effective, notify_event, wakeup_all,
                wakeables, DepositEvents
  <2>2. /\ UNCHANGED <<driverq, next_driverq>>
        /\ \/ UNCHANGED <<pseudoqueued, nonblockq>>
           \/ /\ s \in nonblockq /\ nonblockq' = nonblockq \ {s}
              /\ pseudoqueued' = pseudoqueued \ {s}
    BY Zenon, <1>3 DEF Settle, RunNonblock, Deposit, nonblock
  <2> QED BY Zenon, <2>1, <2>2 DEF CycleInv, DepositInv
<1>4. ASSUME NEW t \in triggerq, RunTrigger(t) PROVE DepositInv'
  <2>1. DepositEvents' \subseteq DepositEvents
    BY Zenon, <1>4 DEF RunTrigger, wakeup_all, DepositEvents
  <2> QED BY Zenon, <1>4, <2>1 DEF RunTrigger, updates, nonblock, CycleInv, DepositInv
<1>5. CASE Times
  BY Zenon, <1>5 DEF Times, RunTimeout, nonblock, wakeables, CycleInv, DepositInv, DepositEvents
<1>6. CASE Waits
  <2>1. PICK on \in SUBSET Sigs, d \in {0, Never} \cup Delays : Wait(on, d)
    BY Zenon, <1>6 DEF Waits
  <2>2. DepositEvents' = DepositEvents
    BY <2>1 DEF Wait, deltaq_insert_proc, At, DepositEvents
  <2> QED BY Zenon, <1>0, <2>1, <2>2 DEF Wait, updates, nonblock
<1>7. ASSUME NEW s \in Sigs, NEW d \in {0} \cup Delays, Assign(s, d) PROVE DepositInv'
  <2>1. DepositEvents' = DepositEvents
    BY <1>7 DEF Assign, At, DepositEvents
  <2>2. \A x \in Sigs : Update("deposit", x) # Update("driver", s)
    BY Zenon DEF Update
  <2>3. UNCHANGED <<next_driverq, pseudoqueued, nonblockq>>
        /\ driverq' \in {driverq, driverq \cup {Update("driver", s)}}
    BY Zenon, <1>7 DEF Assign, nonblock
  <2> QED BY Zenon, <1>a, <2>1, <2>2, <2>3 DEF CycleInv, DepositInv
<1>8. ASSUME NEW s \in Sigs, NEW d, SchedDeposit(s, d) PROVE DepositInv'
  <2>1. UNCHANGED <<driverq, next_driverq>>
    BY Zenon, <1>8 DEF SchedDeposit, updates
  <2>2. CASE s \in pseudoqueued
    BY Zenon, <1>0, <1>8, <2>1, <2>2 DEF SchedDeposit, DepositEvents
  <2>3. CASE s \notin pseudoqueued
    <3>1. pseudoqueued' = pseudoqueued \cup {s}
      BY Zenon, <1>8 DEF SchedDeposit
    <3>2. \/ nonblockq' = nonblockq \cup {s} /\ DepositEvents' = DepositEvents
          \/ /\ DepositEvents' = DepositEvents \cup {At(now + d, "deposit", s)}
             /\ nonblockq' = nonblockq
      BY <1>8, <2>3 DEF SchedDeposit, DepositEvents, At
    <3>3. nonblockq \subseteq pseudoqueued
      BY Zenon DEF CycleInv, TypeInv, TypeOK
    <3>4. At(now + d, "deposit", s).obj = s
      BY Zenon DEF At
    <3> QED BY Zenon, <2>1, <2>3, <3>1, <3>2, <3>3, <3>4 DEF CycleInv, DepositInv
  <2> QED BY Zenon, <2>2, <2>3
<1>9. ASSUME NEW k \in {"driver", "deposit"}, NEW s \in Sigs, PutValue(k, s)
      PROVE  DepositInv'
  <2>1. DepositEvents' = DepositEvents /\ UNCHANGED <<next_driverq, nonblockq>>
    BY Zenon, <1>9 DEF PutValue, DepositEvents
  <2>2. nonblockq \subseteq pseudoqueued
    BY Zenon DEF CycleInv, TypeInv, TypeOK
  <2>3. \A x \in Sigs : Update("deposit", x) = Update(k, s) => k = "deposit" /\ x = s
    BY Zenon DEF Update
  <2>4. /\ pseudoqueued' = IF k = "deposit" THEN pseudoqueued \cup {s} ELSE pseudoqueued
        /\ driverq' = IF k = "deposit" /\ s \in pseudoqueued THEN driverq
                      ELSE driverq \cup {Update(k, s)}
    BY Zenon, <1>9 DEF PutValue
  <2> QED BY Zenon, <1>a, <2>1, <2>2, <2>3, <2>4 DEF CycleInv, DepositInv
<1>10. ASSUME NEW d \in Delays, SetTimeout(d) PROVE DepositInv'
  <2>1. DepositEvents' = DepositEvents
    BY <1>10 DEF SetTimeout, At, DepositEvents
  <2> QED BY Zenon, <1>0, <1>10, <2>1 DEF SetTimeout, updates, nonblock
<1>11. CASE StartProcesses \/ StartInactive \/ Passes \/ Runs \/ WaitInactive \/ Fail
              \/ UserReturn \/ Frees \/ UNCHANGED vars
  BY Zenon, <1>0, <1>11, PassesKeep DEF StartProcesses, StartInactive, Runs, RunProcess, RunWatch,
     WaitInactive, Fail, UserReturn, Frees, FreeWatch, vars, wakeables, updates,
     nonblock, DepositEvents
<1>12. CASE Wakes
  BY Zenon, <1>2, <1>3, <1>4, <1>12 DEF Wakes
<1>13. CASE Schedules
  BY Zenon, <1>7, <1>8, <1>9, <1>10, <1>13 DEF Schedules
<1> QED BY Zenon, <1>1, <1>5, <1>6, <1>11, <1>12, <1>13 DEF Step

-----------------------------------------------------------------------------
(* The regions.                                                            *)

\* An object that is woken after the triggers have run asks for a delta cycle.
LEMMA WakeDelta ==
  ASSUME NEW W, NEW by, NEW delta, wakeup_all(W, by, delta)
  PROVE  /\ next_is_delta => next_is_delta'
         /\ delta => next_is_delta'
         /\ blocking_update /\ procq' # procq => next_is_delta'
<1>1. procq' = procq \cup ((W \ pending) \ Postponed)
  BY Zenon DEF wakeup_all
<1>2. next_is_delta' = (next_is_delta \/ delta
                         \/ (blocking_update /\ (W \ pending) \ Postponed # {}))
  BY Zenon DEF wakeup_all
<1> QED BY Zenon, <1>1, <1>2

LEMMA NotifyRegion ==
  ASSUME NEW s \in Sigs, NEW delta, notify_event(s, delta)
  PROVE  /\ next_is_delta => next_is_delta'
         /\ delta => next_is_delta'
         /\ blocking_update /\ procq' # procq => next_is_delta'
         /\ blocking_update => UNCHANGED triggerq
BY Zenon, WakeDelta DEF notify_event

LEMMA EffectiveRegion ==
  ASSUME NEW s \in Sigs, put_effective(s)
  PROVE  /\ next_is_delta => next_is_delta'
         /\ blocking_update /\ procq' # procq => next_is_delta'
         /\ blocking_update => UNCHANGED triggerq
<1>1. CASE notify_event(s, FALSE)
  BY Zenon, <1>1, NotifyRegion
<1>2. CASE UNCHANGED wakeables
  BY Zenon, <1>2 DEF wakeables
<1> QED BY Zenon, <1>1, <1>2 DEF put_effective

\* Every region leaves its queue empty or a delta cycle to come.
LEMMA RegionStep == ASSUME CycleInv, Step PROVE RegionInv'
<1> USE DEF RegionInv, Late
<1>1. CASE Stop \/ BeginCycle \/ StartTriggers \/ EndTriggers \/ EndProcesses
  <2>1. CASE Stop
    BY Zenon, <2>1 DEF Stop, updates, running, nonblock, wakeables, control, CycleInv
  <2>2. CASE BeginCycle
    BY Zenon, <2>2 DEF BeginCycle, updates, running, nonblock, CycleInv
  <2>3. CASE StartTriggers
    BY Zenon, <2>3 DEF StartTriggers, updates, running, nonblock, wakeables, CycleInv
  <2>4. CASE EndTriggers
    BY Zenon, <2>4 DEF EndTriggers, updates, running, nonblock, wakeables, control, CycleInv
  <2>5. CASE EndProcesses
    BY Zenon, <2>5 DEF EndProcesses, updates, running, nonblock, wakeables, control, CycleInv
  <2> QED BY Zenon, <1>1, <2>1, <2>2, <2>3, <2>4, <2>5
<1>2. CASE StartNonblock \/ EndNonblock \/ StartPostponed \/ EndPostponed \/ EndTimeStep
  BY Zenon, <1>2 DEF StartNonblock, EndNonblock, StartPostponed, EndPostponed, EndTimeStep,
     NextDelta, updates, running, nonblock, wakeables, control, CycleInv
<1>3. CASE StartUpdates
  BY Zenon, <1>3 DEF StartUpdates, running, nonblock, control, CycleInv
<1>4. CASE StartProcesses
  BY Zenon, <1>4 DEF StartProcesses, updates, nonblock, control, CycleInv
<1>5. CASE StartInactive
  BY Zenon, <1>5 DEF StartInactive, NextDelta, updates, nonblock, wakeables, control, CycleInv
<1>6. ASSUME NEW t \in next_driverq, RunDriver(t) PROVE RegionInv'
  BY Zenon, <1>6 DEF RunDriver, put_effective, notify_event, wakeup_all, running, control,
     wakeables, CycleInv
<1>7. ASSUME NEW s \in Sigs, Settle(s) PROVE RegionInv'
  BY Zenon, <1>7, EffectiveRegion DEF Settle, running, control, CycleInv
<1>8. ASSUME NEW s \in Sigs, RunNonblock(s) PROVE RegionInv'
  BY Zenon, <1>8, EffectiveRegion DEF RunNonblock, running, control, wakeables, CycleInv
<1>9. ASSUME NEW s \in Sigs, Deposit(s) PROVE RegionInv'
  BY Zenon, <1>9, NotifyRegion, SimAssumption DEF Deposit, running, nonblock, control, CycleInv
<1>10. ASSUME NEW t \in triggerq, RunTrigger(t) PROVE RegionInv'
  <2>1. next_is_delta => next_is_delta'
    BY Zenon, <1>10, WakeDelta DEF RunTrigger
  <2> QED BY Zenon, <1>10, <2>1 DEF RunTrigger, running, nonblock, updates, control, CycleInv
<1>11. CASE Times
  BY <1>11 DEF Times, RunTimeout, running, nonblock, wakeables, control, CycleInv
<1>12. ASSUME NEW p \in Procs, RunProcess(p) PROVE RegionInv'
  BY Zenon, <1>12, SimAssumption DEF RunProcess, Dequeue, updates, nonblock, control, CycleInv,
     TypeInv, TypeOK
<1>13. ASSUME NEW w \in Watches, RunWatch(w) PROVE RegionInv'
  BY <1>13, SimAssumption DEF RunWatch, Dequeue, updates, nonblock, control, CycleInv,
     TypeInv, TypeOK
<1>14. CASE Waits
  BY <1>14, SimAssumption DEF Waits, Wait, deltaq_insert_proc, updates, running, nonblock,
     control, CycleInv
<1>15. CASE WaitInactive
  BY Zenon, <1>15, SimAssumption DEF WaitInactive, updates, nonblock, control, CycleInv
<1>16. CASE Fail \/ UserReturn
  BY Zenon, <1>16 DEF Fail, UserReturn, updates, running, nonblock, wakeables, control, CycleInv
<1>17. CASE Schedules
  BY <1>17, SimAssumption DEF Schedules, Assign, SchedDeposit, PutValue, SetTimeout,
     updates, running, nonblock, control, CycleInv
<1>18. CASE Frees \/ UNCHANGED vars
  BY Zenon, <1>18 DEF Frees, FreeWatch, vars, updates, running, nonblock, wakeables, control,
     CycleInv
<1> QED BY Zenon, <1>1, <1>2, <1>3, <1>4, <1>5, <1>6, <1>7, <1>8, <1>9, <1>10, <1>11, <1>12,
           <1>13, <1>14, <1>15, <1>16, <1>17, <1>18 DEF Step, Passes, Wakes, Runs

-----------------------------------------------------------------------------
(* Types.                                                                  *)

\* Waking keeps the types of what it changes.
LEMMA WakeTypes ==
  ASSUME TypeInv, NEW W \in SUBSET Wakeables, NEW by, NEW delta, wakeup_all(W, by, delta)
  PROVE  /\ eventq' \subseteq eventq /\ delayed' \subseteq Procs
         /\ procq' \subseteq Wakeables /\ postponedq' \subseteq Postponed
         /\ pending' \subseteq Wakeables /\ stray' \subseteq Procs
         /\ next_is_delta' \in BOOLEAN
BY Zenon DEF TypeInv, TypeOK, wakeup_all

WakeTyped ==
  /\ eventq' \subseteq eventq /\ delayed' \subseteq Procs
  /\ procq' \subseteq Wakeables /\ postponedq' \subseteq Postponed
  /\ pending' \subseteq Wakeables /\ stray' \subseteq Procs
  /\ next_is_delta' \in BOOLEAN
  /\ triggerq' \subseteq Sigs \X Vlog

LEMMA NotifyTypes ==
  ASSUME TypeInv, NEW s \in Sigs, NEW delta, notify_event(s, delta)
  PROVE  WakeTyped
<1>1. PICK fired \in SUBSET (sens[s] \cap Vlog) :
        wakeup_all((sens[s] \ Vlog) \cup fired, s, delta)
  BY Zenon DEF notify_event
<1>2. (sens[s] \ Vlog) \cup fired \in SUBSET Wakeables
  BY Zenon DEF TypeInv, TypeOK
<1>3. triggerq' \subseteq Sigs \X Vlog
  BY DEF TypeInv, TypeOK, notify_event
<1> QED BY Zenon, <1>1, <1>2, <1>3, WakeTypes DEF WakeTyped

LEMMA EffectiveTypes ==
  ASSUME TypeInv, NEW s \in Sigs, put_effective(s) PROVE WakeTyped
<1>1. CASE notify_event(s, FALSE)
  BY Zenon, <1>1, NotifyTypes
<1>2. CASE UNCHANGED wakeables
  BY Zenon, <1>2 DEF wakeables, TypeInv, TypeOK, WakeTyped
<1> QED BY Zenon, <1>1, <1>2 DEF put_effective

LEMMA TypeStep == ASSUME CycleInv, Step PROVE TypeInv'
<1>0. TypeInv
  BY Zenon DEF CycleInv
<1>1. CASE Stop \/ StartTriggers \/ EndTriggers \/ EndProcesses \/ EndPostponed \/ EndTimeStep
  BY Zenon, <1>0, <1>1 DEF Stop, StartTriggers, EndTriggers, EndProcesses, EndPostponed, EndTimeStep,
     clock, control, updates, running, nonblock, wakeables, listeners, TypeInv, TypeOK
<1>2. CASE BeginCycle
  <2>1. now \in Nat /\ iteration \in Nat \cup {-1} /\ \A e \in eventq : e.at \in now .. MaxTime
    BY <1>0 DEF TypeInv, TypeOK
  <2>2. now' \in 0 .. MaxTime /\ \A e \in eventq : e.at \in now' .. MaxTime
    BY <1>0, <1>2, <2>1 DEF BeginCycle, TypeInv, TypeOK
  <2>a. iteration' = iteration + 1 \/ iteration' = 0
    BY Zenon, <1>2 DEF BeginCycle
  <2>3. iteration' \in Nat \cup {-1}
    BY <2>1, <2>a
  <2> QED BY Zenon, <1>0, <1>2, <2>2, <2>3 DEF BeginCycle, updates, running, nonblock, listeners,
             TypeInv, TypeOK
<1>3. CASE StartNonblock \/ EndNonblock \/ StartPostponed
  BY Zenon, <1>0, <1>3 DEF StartNonblock, EndNonblock, StartPostponed, NextDelta, clock, control,
     updates, nonblock, wakeables, listeners, TypeInv, TypeOK
<1>4. CASE StartUpdates
  <2>1. Moved \subseteq Task
    BY Zenon, <1>0 DEF Moved, Due, TypeInv, TypeOK
  <2>2. Woken \subseteq Procs
    BY Zenon, <1>0, <1>4, UpdatesPop DEF TypeInv, TypeOK
  <2>3. failed' \in BOOLEAN
    BY Zenon, <1>4, UpdatesPop
  <2> QED BY Zenon, <1>0, <1>4, <2>1, <2>2, <2>3, UpdatesPop DEF StartUpdates, clock, control,
             running, nonblock, listeners, TypeInv, TypeOK, Wakeables
<1>5. CASE StartProcesses
  BY Zenon, <1>0, <1>5 DEF StartProcesses, clock, control, updates, nonblock, listeners, TypeInv, TypeOK
<1>6. CASE StartInactive
  BY Zenon, <1>0, <1>6 DEF StartInactive, NextDelta, clock, control, updates, nonblock, wakeables,
     listeners, TypeInv, TypeOK
<1>7. ASSUME NEW t \in next_driverq, RunDriver(t) PROVE TypeInv'
  <2>1. t.obj \in Sigs /\ (t.kind = "deposit" => t = Update("deposit", t.obj))
    BY Zenon, <1>0, <1>7 DEF RunDriver, TypeInv, TypeOK, Task, Update
  <2>2. WakeTyped
    BY Zenon, <1>0, <1>7, EffectiveTypes DEF RunDriver, WakeTyped, TypeInv, TypeOK, Task, wakeables
  <2>3. nonblockq \subseteq pseudoqueued'
    BY <1>0, <1>7, <2>1 DEF RunDriver, CycleInv, DepositInv, TypeInv, TypeOK, Task
  <2> QED BY Zenon, <1>0, <1>7, <2>2, <2>3 DEF RunDriver, WakeTyped, clock, control, running,
             listeners, TypeInv, TypeOK
<1>8. ASSUME NEW s \in Sigs, Settle(s) PROVE TypeInv'
  BY Zenon, <1>0, <1>8, EffectiveTypes DEF Settle, WakeTyped, clock, control, running, listeners,
     TypeInv, TypeOK
<1>9. ASSUME NEW s \in Sigs, RunNonblock(s) PROVE TypeInv'
  <2>1. WakeTyped
    BY Zenon, <1>0, <1>9, EffectiveTypes DEF RunNonblock, WakeTyped, TypeInv, TypeOK, wakeables
  <2> QED BY Zenon, <1>0, <1>9, <2>1 DEF RunNonblock, WakeTyped, clock, control, running,
             listeners, TypeInv, TypeOK
<1>10. ASSUME NEW s \in Sigs, Deposit(s) PROVE TypeInv'
  <2>1. WakeTyped
    BY Zenon, <1>0, <1>10, NotifyTypes DEF Deposit
  <2> QED BY Zenon, <1>0, <1>10, <2>1 DEF Deposit, WakeTyped, clock, control, running, nonblock,
             listeners, TypeInv, TypeOK
<1>11. ASSUME NEW t \in triggerq, RunTrigger(t) PROVE TypeInv'
  <2>1. WakeTyped
    <3>1. {t[2]} \cap sens[t[1]] \in SUBSET Wakeables
      BY Zenon, <1>0 DEF TypeInv, TypeOK
    <3> QED BY Zenon, <1>0, <1>11, <3>1, WakeTypes DEF RunTrigger, WakeTyped, TypeInv, TypeOK
  <2> QED BY Zenon, <1>0, <1>11, <2>1 DEF RunTrigger, WakeTyped, clock, control, updates, running,
             nonblock, listeners, TypeInv, TypeOK
<1>12. CASE Times
  BY Zenon, <1>0, <1>12 DEF Times, RunTimeout, clock, control, running, nonblock, wakeables,
     listeners, TypeInv, TypeOK
<1>13. ASSUME NEW p \in Procs, RunProcess(p) PROVE TypeInv'
  <2>1. NoWait \in [on : SUBSET Sigs, until : Nat \cup {Never}, clear : SUBSET Sigs]
    BY Zenon DEF NoWait
  <2>2. /\ next_procq' \subseteq next_procq /\ next_inactiveq' \subseteq next_inactiveq
        /\ postponedq' \subseteq postponedq
    BY Zenon, <1>13 DEF RunProcess, Dequeue
  <2>3. waits' \in [Procs -> [on : SUBSET Sigs, until : Nat \cup {Never}, clear : SUBSET Sigs]]
    BY Zenon, <1>0, <1>13, <2>1 DEF RunProcess, TypeInv
  <2>4. \A q \in Procs : waits'[q].on \cup waits'[q].clear \subseteq Sigs
    BY Zenon, <2>3
  <2>5. sens' \in [Sigs -> SUBSET Wakeables]
    BY Zenon, <1>0, <1>13 DEF RunProcess, TypeInv, TypeOK
  <2> QED BY Zenon, <1>0, <1>13, <2>2, <2>3, <2>4, <2>5 DEF RunProcess, clock, control, updates,
             nonblock, TypeInv, TypeOK, Wakeables
<1>14. ASSUME NEW w \in Watches, RunWatch(w) PROVE TypeInv'
  <2>1. /\ next_procq' \subseteq next_procq /\ next_inactiveq' \subseteq next_inactiveq
        /\ postponedq' \subseteq postponedq
    BY Zenon, <1>14 DEF RunWatch, Dequeue
  <2> QED BY Zenon, <1>0, <1>14, <2>1 DEF RunWatch, clock, control, updates,
             nonblock, TypeInv, TypeOK, Wakeables
<1>15. ASSUME NEW on \in SUBSET Sigs, NEW d \in {0, Never} \cup Delays, Wait(on, d)
       PROVE  TypeInv'
  <2>1. active \in Procs /\ (d # Never => d \in Nat /\ now + d \in now .. MaxTime)
    BY <1>0, <1>15, SimAssumption DEF Wait, Delays, TypeInv, TypeOK
  <2>2. waits' \in [Procs -> [on : SUBSET Sigs, until : Nat \cup {Never}, clear : SUBSET Sigs]]
    <3>1. StaticOn[active] \subseteq Sigs /\ now \in Nat
      BY <1>0, <2>1, SimAssumption DEF TypeInv, TypeOK
    <3>2. [on    |-> IF on = {} /\ d = Never THEN StaticOn[active] ELSE on,
           until |-> IF d = Never THEN Never ELSE now + d,
           clear |-> on] \in [on : SUBSET Sigs, until : Nat \cup {Never}, clear : SUBSET Sigs]
      BY <2>1, <3>1
    <3> QED BY Zenon, <1>0, <1>15, <2>1, <3>2 DEF Wait, TypeInv
  <2>3. \A q \in Procs : waits'[q].on \cup waits'[q].clear \subseteq Sigs
    BY Zenon, <2>2
  <2>4. /\ procq' \cup pending' \subseteq Wakeables /\ delayed' \subseteq Procs
        /\ next_is_delta' \in BOOLEAN /\ failed' \in BOOLEAN
    BY Zenon, <1>0, <1>15, <2>1 DEF Wait, deltaq_insert_proc, TypeInv, TypeOK, Wakeables
  <2>5. eventq' \in {eventq, eventq \cup {At(now + d, "process", active)}}
        /\ (eventq' # eventq => d # Never)
    BY Zenon, <1>15 DEF Wait, deltaq_insert_proc
  <2>6. \A e \in eventq' : /\ e.at \in now .. MaxTime
                           /\ IF e.kind = "process" THEN e.obj \in Procs
                              ELSE Update(e.kind, e.obj) \in Task
    BY <1>0, <2>1, <2>5 DEF At, TypeInv, TypeOK
  <2>7. sens' \in [Sigs -> SUBSET Wakeables]
    BY Zenon, <1>0, <1>15, <2>1 DEF Wait, TypeInv, TypeOK, Wakeables
  <2> QED BY Zenon, <1>0, <1>15, <2>2, <2>3, <2>4, <2>6, <2>7 DEF Wait, clock, control, updates,
             running, nonblock, TypeInv, TypeOK
<1>16. CASE WaitInactive
  BY <1>0, <1>16, SimAssumption DEF WaitInactive, clock, control, updates, nonblock,
     listeners, TypeInv, TypeOK, Wakeables
<1>17. CASE Fail
  <2>1. waits' \in [Procs -> [on : SUBSET Sigs, until : Nat \cup {Never}, clear : SUBSET Sigs]]
    <3>1. /\ waits' = [waits EXCEPT ![active].on = StaticOn[active]]
          /\ active \in Procs
      BY Zenon, <1>17 DEF Fail
    <3>2. waits \in [Procs -> [on : SUBSET Sigs, until : Nat \cup {Never}, clear : SUBSET Sigs]]
      BY Zenon, <1>0 DEF TypeInv
    <3> QED BY <3>1, <3>2, SimAssumption
  <2>2. \A q \in Procs : waits'[q].on \cup waits'[q].clear \subseteq Sigs
    BY Zenon, <2>1
  <2> QED BY Zenon, <1>0, <1>17, <2>1, <2>2 DEF Fail, clock, control, updates, running, nonblock,
             wakeables, TypeInv, TypeOK
<1>18. CASE UserReturn \/ Frees \/ UNCHANGED vars
  BY <1>0, <1>18 DEF UserReturn, Frees, FreeWatch, vars, clock, control, updates, running,
     nonblock, wakeables, listeners, TypeInv, TypeOK
<1>19. \A d \in Delays : now + d \in now .. MaxTime
  BY <1>0, SimAssumption DEF Delays, TypeInv, TypeOK
<1>20. ASSUME NEW s \in Sigs, NEW d \in {0} \cup Delays, Assign(s, d) PROVE TypeInv'
  <2>1. Update("driver", s) \in Task
    BY Zenon DEF Update, Task
  <2>2. \A e \in eventq' : /\ e.at \in now .. MaxTime
                           /\ IF e.kind = "process" THEN e.obj \in Procs
                              ELSE Update(e.kind, e.obj) \in Task
    BY <1>0, <1>19, <1>20, <2>1 DEF Assign, At, TypeInv, TypeOK
  <2> QED BY Zenon, <1>0, <1>20, <2>1, <2>2 DEF Assign, clock, control, running, nonblock,
             listeners, TypeInv, TypeOK
<1>21. ASSUME NEW s \in Sigs, NEW d \in {0} \cup Delays, SchedDeposit(s, d) PROVE TypeInv'
  <2>1. Update("deposit", s) \in Task
    BY Zenon DEF Update, Task
  <2>2. \A e \in eventq' : /\ e.at \in now .. MaxTime
                           /\ IF e.kind = "process" THEN e.obj \in Procs
                              ELSE Update(e.kind, e.obj) \in Task
    <3>1. \/ eventq' = eventq
          \/ d \in Delays /\ eventq' = eventq \cup {At(now + d, "deposit", s)}
      BY Zenon, <1>21 DEF SchedDeposit
    <3> QED BY <1>0, <1>19, <2>1, <3>1 DEF At, TypeInv, TypeOK
  <2> QED BY Zenon, <1>0, <1>21, <2>2 DEF SchedDeposit, clock, control, updates, running,
             listeners, TypeInv, TypeOK
<1>22. ASSUME NEW k \in {"driver", "deposit"}, NEW s \in Sigs, PutValue(k, s) PROVE TypeInv'
  <2>1. Update(k, s) \in Task
    BY Zenon DEF Update, Task
  <2> QED BY Zenon, <1>0, <1>22, <2>1 DEF PutValue, clock, control, running, listeners, TypeInv, TypeOK
<1>23. ASSUME NEW d \in Delays, SetTimeout(d) PROVE TypeInv'
  <2>1. Update("timeout", Timer) \in Task
    BY Zenon DEF Update, Task
  <2>2. \A e \in eventq' : /\ e.at \in now .. MaxTime
                           /\ IF e.kind = "process" THEN e.obj \in Procs
                              ELSE Update(e.kind, e.obj) \in Task
    BY <1>0, <1>19, <1>23, <2>1 DEF SetTimeout, At, TypeInv, TypeOK
  <2> QED BY Zenon, <1>0, <1>23, <2>2 DEF SetTimeout, clock, control, updates, running, nonblock,
             listeners, TypeInv, TypeOK
<1>24. CASE Schedules
  BY Zenon, <1>20, <1>21, <1>22, <1>23, <1>24 DEF Schedules
<1> QED BY Zenon, <1>1, <1>2, <1>3, <1>4, <1>5, <1>6, <1>7, <1>8, <1>9, <1>10, <1>11, <1>12, <1>13,
           <1>14, <1>15, <1>16, <1>17, <1>18, <1>24 DEF Step, Passes, Wakes, Runs, Waits

-----------------------------------------------------------------------------
(* The theorems.                                                           *)

\* After model_reset.
LEMMA CycleInit == ASSUME Init PROVE CycleInv
<1> USE DEF Init
<1>1. TypeInv
  <2>1. NoWait \in [on : SUBSET Sigs, until : Nat \cup {Never}, clear : SUBSET Sigs]
    BY Zenon DEF NoWait
  <2>2. waits \in [Procs -> [on : SUBSET Sigs, until : Nat \cup {Never}, clear : SUBSET Sigs]]
    BY Zenon, <2>1
  <2>3. \A p \in Procs : waits[p].on \cup waits[p].clear \subseteq Sigs
    BY Zenon, <2>2
  <2>4. sens \in [Sigs -> SUBSET Wakeables]
    BY Zenon DEF Wakeables
  <2>5. 0 \in 0 .. MaxTime /\ -1 \in Nat \cup {-1}
    BY SimAssumption
  <2> QED BY Zenon, <2>2, <2>3, <2>4, <2>5 DEF TypeInv, TypeOK, Wakeables
<1>2. QueueInv
  BY Zenon DEF QueueInv
<1>3. DelayInv
  BY Zenon, FS_EmptySet DEF DelayInv, ProcEvents
<1>4. SensInv
  BY Zenon, SimAssumption DEF SensInv, Registered, NoWait
<1>5. ActiveInv
  BY Zenon, SimAssumption DEF ActiveInv, ProcEvents
<1>6. WatchSafe
  BY Zenon DEF WatchSafe
<1>7. DepositInv
  BY Zenon DEF DepositInv, DepositEvents
<1>8. RegionInv
  BY Zenon DEF RegionInv, Late
<1> QED BY Zenon, <1>1, <1>2, <1>3, <1>4, <1>5, <1>6, <1>7, <1>8 DEF CycleInv

LEMMA CycleNext == ASSUME NoSelfTrigger, CycleInv, [Next]_vars PROVE CycleInv'
BY Zenon, NextSteps, TypeStep, QueueStep, DelayStep, SensStep, ActiveStep, WatchStep, DepositStep,
   RegionStep DEF CycleInv

\* The inductive invariant of the simulation cycle.
THEOREM CycleInvariant == NoSelfTrigger => (Spec => []CycleInv)
<1> SUFFICES ASSUME NoSelfTrigger PROVE Spec => []CycleInv
  OBVIOUS
<1>1. Init => CycleInv
  BY Zenon, CycleInit
<1>2. CycleInv /\ [Next]_vars => CycleInv'
  BY Zenon, CycleNext
<1> QED BY <1>1, <1>2, PTL DEF Spec

\* The flags pending and delayed agree with the queues and eventq_heap, no
\* process is queued twice, and the assertions in set_pending,
\* deltaq_insert_proc, async_run_process and async_watch_callback hold.
THEOREM ObjectsQueuedOnce == NoSelfTrigger => (Spec => []QueuedOnce)
<1> SUFFICES ASSUME NoSelfTrigger PROVE Spec => []QueuedOnce
  OBVIOUS
<1>1. CycleInv => QueuedOnce
  <2> SUFFICES ASSUME CycleInv PROVE QueuedOnce
    OBVIOUS
  <2>1. delayed = {e.obj : e \in ProcEvents}
    BY DEF CycleInv, DelayInv
  <2>2. Cardinality(ProcEvents) = Cardinality(delayed)
    <3> DEFINE f == [e \in ProcEvents |-> e.obj]
    <3>1. f \in Bijection(ProcEvents, delayed)
      BY Zenon DEF CycleInv, DelayInv, Bijection, Injection, Surjection, IsInjective
    <3>2. IsFiniteSet(ProcEvents)
      BY Zenon, FS_Subset DEF CycleInv, DelayInv, ProcEvents
    <3> QED BY Zenon, <3>1, <3>2, FS_Bijection DEF ExistsBijection
  <2> QED BY Zenon, <2>1, <2>2 DEF CycleInv, TypeInv, QueueInv, DelayInv, ActiveInv, QueuedOnce,
             ProcEvents
<1> QED BY <1>1, CycleInvariant, PTL

\* watch_free: no callback runs on a freed watch, none is left on a list.
THEOREM WatchesSafe == NoSelfTrigger => (Spec => []WatchSafe)
<1> SUFFICES ASSUME NoSelfTrigger PROVE Spec => []WatchSafe
  OBVIOUS
<1>1. CycleInv => WatchSafe
  BY Zenon DEF CycleInv
<1> QED BY <1>1, CycleInvariant, PTL

\* A wait statement is kept, in VHDL and in Verilog: a suspended process is
\* registered with all it waits on and is resumed by nothing else.
THEOREM WaitsAreKept == NoSelfTrigger => (Spec => []WaitsKept)
<1> SUFFICES ASSUME NoSelfTrigger PROVE Spec => []WaitsKept
  OBVIOUS
<1>1. CycleInv => WaitsKept
  BY Zenon DEF CycleInv, TypeInv, TypeOK, SensInv, Registered, ActiveInv, WaitsKept,
         ResumesForAReason, SensitivityKept
<1> QED BY <1>1, CycleInvariant, PTL

\* model_cycle enters the nonblocking region with the active and inactive
\* ones empty, and the postponed region with nothing else to do.
THEOREM RegionsInOrder == NoSelfTrigger => (Spec => RegionOrder)
<1> SUFFICES ASSUME NoSelfTrigger PROVE Spec => RegionOrder
  OBVIOUS
<1> DEFINE Order ==
     /\ phase # "nonblock" /\ phase' = "nonblock" =>
           procq \cup next_procq \cup inactiveq \cup next_inactiveq = {}
     /\ phase # "postponed" /\ phase' = "postponed" =>
           /\ pending \subseteq postponedq
           /\ driverq = {} /\ nonblockq = {}
<1>1. CycleInv /\ [Next]_vars => [Order]_vars
  <2> SUFFICES ASSUME CycleInv, Step PROVE Order
    BY Zenon, NextSteps
  <2>1. CASE phase' = "nonblock" /\ phase # "nonblock"
    <3>1. phase = "inactive" /\ next_inactiveq = {} /\ ~next_is_delta
      BY Zenon, <2>1 DEF Step, Passes, Stop, BeginCycle, StartTriggers, EndTriggers,
         EndProcesses, StartNonblock, EndNonblock, StartPostponed, EndPostponed,
         EndTimeStep, NextDelta, StartUpdates, StartProcesses, StartInactive, Wakes,
         RunDriver, Settle, RunNonblock, Deposit, RunTrigger, Times, RunTimeout, Runs,
         RunProcess, RunWatch, Waits, Wait, WaitInactive, Fail, UserReturn, Schedules,
         Assign, SchedDeposit, PutValue, SetTimeout, Frees, FreeWatch, vars
    <3> QED BY Zenon, <2>1, <3>1 DEF CycleInv, RegionInv, Late
  <2>2. CASE phase' = "postponed" /\ phase # "postponed"
    <3>1. phase = "last" /\ ~next_is_delta
      BY Zenon, <2>2 DEF Step, Passes, Stop, BeginCycle, StartTriggers, EndTriggers,
         EndProcesses, StartNonblock, EndNonblock, StartPostponed, EndPostponed,
         EndTimeStep, NextDelta, StartUpdates, StartProcesses, StartInactive, Wakes,
         RunDriver, Settle, RunNonblock, Deposit, RunTrigger, Times, RunTimeout, Runs,
         RunProcess, RunWatch, Waits, Wait, WaitInactive, Fail, UserReturn, Schedules,
         Assign, SchedDeposit, PutValue, SetTimeout, Frees, FreeWatch, vars
    <3> QED BY Zenon, <2>2, <3>1 DEF CycleInv, RegionInv, QueueInv, Late
  <2> QED BY Zenon, <2>1, <2>2
<1> QED BY <1>1, CycleInvariant, PTL DEF Spec, RegionOrder
=============================================================================
