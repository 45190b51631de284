------------------------------ MODULE SimCycle ------------------------------
(***************************************************************************)
(* The simulation kernel of rt/model.c: model_run, the regions of          *)
(* model_cycle with their queues, and the operations that processes and    *)
(* foreign callbacks perform on them.  A signal value is abstracted to     *)
(* whether an update is an event and a queue to the set of its tasks:      *)
(* --shuffle-procs makes the order of procq arbitrary anyway.              *)
(***************************************************************************)
EXTENDS Integers, FiniteSets

CONSTANTS
  Procs, Watches, Sigs,
  Postponed,   \* the processes and watches of the postponed region
  Vlog,        \* the Verilog processes
  Timing,      \* the Verilog processes with timing controls in their body
  StaticOn,    \* the sensitivity a process registers once, in its reset block
  WatchOn,     \* the signal of a watch
  Resolved,    \* signals that feed a net with more than one source
  ZeroWaits,   \* the processes that execute "wait for 0 ns"
  Callbacks,   \* the phases with a foreign callback registered
  NbaDelays,   \* the delays of nonblocking assignments
  StopDelta,   \* --stop-delta
  StopTime,    \* --stop-time
  MaxTime,     \* bound on the simulation time
  Timer,       \* the timeout callback
  Nobody, Never

ASSUME SimAssumption ==
  /\ Procs \cap Watches = {}
  /\ {Nobody, Timer} \cap (Procs \cup Watches \cup Sigs) = {} /\ Nobody # Timer
  /\ Postponed \subseteq Procs \cup Watches
  /\ Vlog \subseteq Procs \ Postponed /\ Timing \subseteq Vlog
  /\ StaticOn \in [Procs -> SUBSET Sigs]
  /\ WatchOn \in [Watches -> Sigs]
  /\ ZeroWaits \subseteq Procs
  /\ Callbacks \subseteq {"next_cycle", "start", "end", "last", "end_step"}
  /\ Resolved \subseteq Sigs /\ NbaDelays \subseteq Nat
  /\ StopDelta \in Nat \ {0} /\ {StopTime, MaxTime} \subseteq Nat
  /\ Never \notin Nat

VARIABLES
  phase,            \* the region of model_cycle; "idle" between two cycles
  now, iteration, next_is_delta,
  is_delta,         \* the local is_delta_cycle
  blocking_update, can_create_delta, force_stop,
  limit,            \* reached_iteration_limit has been called
  eventq,           \* eventq_heap: entries [at, kind, obj]
  driverq, next_driverq,  \* tasks [kind, obj]
  driving_heap,     \* signals with a deferred driving value update
  triggerq,         \* <<s, p>>: the trigger through which s wakes p
  procq, next_procq, inactiveq, next_inactiveq, nonblockq, postponedq,
  pseudoqueued,     \* signals whose deposit source is queued somewhere
  pending, delayed, \* the flags of rt_wakeable_t
  sens,             \* nexus->pending, or the pending list of its trigger
  watch,            \* "live", "zombie" or "freed"
  active,           \* the process, watch or timeout callback being run
  waits,            \* what a suspended process waits for: the signals, the
                    \* time and the registrations it clears when it resumes
  stray,            \* processes resumed by what they were not waiting for
  owed,             \* signals with a zero delay nonblocking update to come
  failed            \* an assertion of the code has failed

clock     == <<now, iteration, is_delta>>
control   == <<blocking_update, can_create_delta, force_stop, limit>>
updates   == <<driverq, next_driverq, driving_heap>>
running   == <<next_procq, inactiveq, next_inactiveq>>
nonblock  == <<nonblockq, pseudoqueued, owed>>
wakeables == <<eventq, triggerq, procq, postponedq, pending, delayed,
               next_is_delta, stray>>
listeners == <<sens, watch, waits>>
vars == <<phase, clock, control, updates, running, nonblock, wakeables,
          listeners, active, failed>>

Wakeables == Procs \cup Watches
Task      == [kind : {"driver", "deposit"}, obj : Sigs]
               \cup [kind : {"timeout"}, obj : {Timer}]
Update(k, s) == [kind |-> k, obj |-> s]
At(t, k, o)  == [at |-> t, kind |-> k, obj |-> o]
NoWait    == [on |-> {}, until |-> Never, clear |-> {}]

(* After model_reset: reset_process has queued every process, postponed    *)
(* ones included, on procq and registered its static sensitivity.          *)
Init ==
  /\ phase = "idle"
  /\ now = 0 /\ iteration = -1 /\ next_is_delta = TRUE /\ is_delta = FALSE
  /\ blocking_update = FALSE /\ can_create_delta = TRUE
  /\ force_stop = FALSE /\ limit = FALSE
  /\ eventq = {} /\ driverq = {} /\ next_driverq = {} /\ driving_heap = {}
  /\ triggerq = {}
  /\ procq = Procs /\ next_procq = {} /\ postponedq = {}
  /\ inactiveq = {} /\ next_inactiveq = {} /\ nonblockq = {}
  /\ pseudoqueued = {} /\ owed = {}
  /\ pending = Procs /\ delayed = {}
  /\ sens = [s \in Sigs |-> {p \in Procs : s \in StaticOn[p]}
                              \cup {w \in Watches : WatchOn[w] = s}]
  /\ watch = [w \in Watches |-> "live"]
  /\ waits = [p \in Procs |-> NoWait]
  /\ active = Nobody /\ stray = {} /\ failed = FALSE

-----------------------------------------------------------------------------
(* Mutant: a delayed process that is woken keeps its entry in eventq_heap. *)
WakeKeepsEvent(W, by, delta) ==
  LET new == W \ pending IN
  /\ delayed' = delayed \ new
  /\ procq' = procq \cup (new \ Postponed)
  /\ postponedq' = postponedq \cup (new \cap Postponed)
  /\ next_is_delta' = (next_is_delta \/ delta
                         \/ (blocking_update /\ new \ Postponed # {}))
  /\ pending' = pending \cup new
  /\ UNCHANGED <<eventq, stray>>

(* wakeup_one and procq_do on the objects W, woken by an event on the      *)
(* signal by: pending ones are left alone, a delayed process loses its     *)
(* event.  The caller may need a delta cycle of its own.                   *)
wakeup_all(W, by, delta) ==
  LET new == W \ pending IN
  /\ eventq' = {e \in eventq : e.kind = "process" => e.obj \notin new}
  /\ delayed' = delayed \ new
  /\ procq' = procq \cup (new \ Postponed)
  /\ postponedq' = postponedq \cup (new \cap Postponed)
  /\ next_is_delta' = (next_is_delta \/ delta
                         \/ (blocking_update /\ new \ Postponed # {}))
  /\ pending' = pending \cup new
  /\ stray' = stray \cup {p \in new \cap Procs : /\ active # p
                                                 /\ by \notin waits[p].on}

(* notify_event: before the processes run a trigger is queued on triggerq, *)
(* afterwards it is evaluated at once; some of the triggers fire.          *)
notify_event(s, delta) ==
  \E fired \in SUBSET (sens[s] \cap Vlog) :
     /\ blocking_update \/ fired = {}
     /\ wakeup_all((sens[s] \ Vlog) \cup fired, s, delta)
     /\ triggerq' = IF blocking_update THEN triggerq
                    ELSE triggerq \cup {<<s, p>> : p \in sens[s] \cap Vlog}

(* put_effective: the new value may or may not differ from the old one.    *)
put_effective(s) ==
  \/ notify_event(s, FALSE)
  \/ UNCHANGED wakeables

-----------------------------------------------------------------------------
(* model_run, and the parts of model_cycle up to the driver updates.       *)

should_stop_now ==
  \/ force_stop
  \/ ~next_is_delta /\ \A e \in eventq : e.at > StopTime

Stop ==
  /\ phase = "idle" /\ should_stop_now
  /\ phase' = "stopped"
  /\ UNCHANGED <<clock, control, updates, running, nonblock, wakeables,
                 listeners, active, failed>>

BeginCycle ==
  /\ phase = "idle" /\ ~should_stop_now
  /\ phase' = "next_cycle"
  /\ is_delta' = next_is_delta
  /\ IF next_is_delta
     THEN iteration' = iteration + 1 /\ now' = now
     ELSE /\ now' \in {e.at : e \in eventq}
          /\ \A e \in eventq : now' <= e.at
          /\ iteration' = 0
  /\ next_is_delta' = FALSE
  /\ blocking_update' = FALSE
  /\ UNCHANGED <<can_create_delta, force_stop, limit, updates, running,
                 nonblock, eventq, triggerq, procq, postponedq, pending,
                 delayed, stray, listeners, active, failed>>

(* The events due are popped, processes to procq or postponedq and driver  *)
(* updates to driverq, which is then swapped and run.                      *)
StartUpdates ==
  /\ phase = "next_cycle" /\ active = Nobody
  /\ phase' = "drivers"
  /\ LET due  == IF is_delta THEN {} ELSE {e \in eventq : e.at = now}
         proc == {e.obj : e \in {d \in due : d.kind = "process"}}
         upd  == {Update(e.kind, e.obj) :
                    e \in {d \in due : d.kind # "process"}}
     IN /\ eventq' = eventq \ due
        /\ delayed' = delayed \ proc
        /\ pending' = pending \cup proc
        /\ procq' = procq \cup (proc \ Postponed)
        /\ postponedq' = postponedq \cup (proc \cap Postponed)
        /\ stray' = stray \cup {p \in proc : waits[p].until # now}
        /\ failed' = (failed \/ ~(proc \subseteq delayed)
                             \/ proc \cap pending # {})
        /\ next_driverq' = driverq \cup upd
        /\ driverq' = {}
  /\ UNCHANGED <<clock, control, driving_heap, running, nonblock, triggerq,
                 next_is_delta, listeners, active>>

(* async_update_driver, async_fast_driver and async_pseudo_source: an      *)
(* update of a net with several sources is deferred to driving_heap.       *)
RunDriver(t) ==
  /\ phase = "drivers" /\ active = Nobody
  /\ t \in next_driverq /\ t.kind # "timeout"
  /\ next_driverq' = next_driverq \ {t}
  /\ IF t.obj \in Resolved
     THEN /\ driving_heap' = driving_heap \cup {t.obj}
          /\ UNCHANGED <<wakeables, owed>>
     ELSE /\ put_effective(t.obj)
          /\ owed' = IF t.kind = "deposit" THEN owed \ {t.obj} ELSE owed
          /\ UNCHANGED driving_heap
  /\ pseudoqueued' = IF t.kind = "deposit" THEN pseudoqueued \ {t.obj}
                     ELSE pseudoqueued
  /\ UNCHANGED <<phase, clock, control, driverq, running, nonblockq,
                 listeners, active, failed>>

(* async_timeout_callback starts; UserReturn ends it.                      *)
RunTimeout(t) ==
  /\ phase = "drivers" /\ active = Nobody
  /\ t \in next_driverq /\ t.kind = "timeout"
  /\ next_driverq' = next_driverq \ {t}
  /\ active' = Timer
  /\ UNCHANGED <<phase, clock, control, driverq, driving_heap, running,
                 nonblock, wakeables, listeners, failed>>

(* The loops over driving_heap and effective_heap.                         *)
Settle(s) ==
  /\ phase = "drivers" /\ active = Nobody /\ next_driverq = {}
  /\ s \in driving_heap
  /\ driving_heap' = driving_heap \ {s}
  /\ put_effective(s)
  /\ owed' = IF s \in pseudoqueued THEN owed ELSE owed \ {s}
  /\ UNCHANGED <<phase, clock, control, driverq, next_driverq, running,
                 nonblockq, pseudoqueued, listeners, active, failed>>

(* Mutant: the deferred driving value updates are not all done.            *)
StartTriggersEarly ==
  /\ phase = "drivers" /\ active = Nobody /\ next_driverq = {}
  /\ phase' = "triggers"
  /\ blocking_update' = TRUE
  /\ UNCHANGED <<clock, can_create_delta, force_stop, limit, updates, running,
                 nonblock, wakeables, listeners, active, failed>>

StartTriggers ==
  /\ phase = "drivers" /\ active = Nobody
  /\ next_driverq = {} /\ driving_heap = {}
  /\ phase' = "triggers"
  /\ blocking_update' = TRUE
  /\ UNCHANGED <<clock, can_create_delta, force_stop, limit, updates, running,
                 nonblock, wakeables, listeners, active, failed>>

(* async_run_trigger: if the filter passes the process is woken, and       *)
(* blocking_update makes that a delta cycle too.                           *)
RunTrigger(t) ==
  /\ phase = "triggers" /\ t \in triggerq
  /\ triggerq' = triggerq \ {t}
  /\ \/ wakeup_all({t[2]} \cap sens[t[1]], t[1], FALSE)
     \/ UNCHANGED <<eventq, procq, postponedq, pending, delayed,
                    next_is_delta, stray>>
  /\ UNCHANGED <<phase, clock, control, updates, running, nonblock,
                 listeners, active, failed>>

EndTriggers ==
  /\ phase = "triggers" /\ triggerq = {}
  /\ phase' = "start"
  /\ UNCHANGED <<clock, control, updates, running, nonblock, wakeables,
                 listeners, active, failed>>

-----------------------------------------------------------------------------
(* The process regions.                                                    *)

StartProcesses ==
  /\ phase = "start"
  /\ phase' = "procs"
  /\ next_procq' = procq /\ procq' = {}
  /\ UNCHANGED <<clock, control, updates, inactiveq, next_inactiveq, nonblock,
                 eventq, triggerq, postponedq, pending, delayed,
                 next_is_delta, stray, listeners, active, failed>>

EndProcesses ==
  /\ phase = "procs" /\ active = Nobody /\ next_procq = {}
  /\ phase' = "end"
  /\ UNCHANGED <<clock, control, updates, running, nonblock, wakeables,
                 listeners, active, failed>>

(* The rest of model_cycle once a region ends with a delta cycle to do.    *)
NextDelta ==
  /\ phase' = "idle"
  /\ IF iteration = StopDelta
     THEN limit' = TRUE /\ force_stop' = TRUE
     ELSE UNCHANGED <<limit, force_stop>>
  /\ UNCHANGED <<blocking_update, can_create_delta, next_inactiveq, inactiveq>>

StartInactive ==
  /\ phase = "end"
  /\ \/ next_is_delta /\ NextDelta
     \/ /\ ~next_is_delta
        /\ phase' = "inactive"
        /\ next_inactiveq' = inactiveq /\ inactiveq' = {}
        /\ UNCHANGED control
  /\ UNCHANGED <<clock, updates, next_procq, nonblock, wakeables, listeners,
                 active, failed>>

(* Mutant: nonblocking updates do not wait for the delta cycles to end.    *)
StartNonblockEager ==
  /\ phase = "inactive" /\ active = Nobody /\ next_inactiveq = {}
  /\ phase' = "nonblock"
  /\ UNCHANGED <<clock, control, updates, running, nonblock, wakeables,
                 listeners, active, failed>>

(* Mutant: the nonblocking region is left out.                             *)
StartNonblockSkips ==
  /\ phase = "inactive" /\ active = Nobody /\ next_inactiveq = {}
  /\ \/ next_is_delta /\ NextDelta
     \/ /\ ~next_is_delta
        /\ phase' = "last"
        /\ UNCHANGED <<control, inactiveq, next_inactiveq>>
  /\ UNCHANGED <<clock, updates, next_procq, nonblock, wakeables, listeners,
                 active, failed>>

StartNonblock ==
  /\ phase = "inactive" /\ active = Nobody /\ next_inactiveq = {}
  /\ \/ next_is_delta /\ NextDelta
     \/ /\ ~next_is_delta
        /\ phase' = "nonblock"
        /\ UNCHANGED <<control, inactiveq, next_inactiveq>>
  /\ UNCHANGED <<clock, updates, next_procq, nonblock, wakeables, listeners,
                 active, failed>>

(* async_pseudo_source from nonblockq: nothing drains driving_heap here.   *)
RunNonblock(s) ==
  /\ phase = "nonblock" /\ s \in nonblockq
  /\ nonblockq' = nonblockq \ {s}
  /\ pseudoqueued' = pseudoqueued \ {s}
  /\ IF s \in Resolved
     THEN /\ driving_heap' = driving_heap \cup {s}
          /\ UNCHANGED <<wakeables, owed>>
     ELSE /\ put_effective(s)
          /\ owed' = owed \ {s}
          /\ UNCHANGED driving_heap
  /\ UNCHANGED <<phase, clock, control, driverq, next_driverq, running,
                 listeners, active, failed>>

EndNonblock ==
  /\ phase = "nonblock" /\ nonblockq = {}
  /\ \/ next_is_delta /\ NextDelta
     \/ /\ ~next_is_delta
        /\ phase' = "last"
        /\ UNCHANGED <<control, inactiveq, next_inactiveq>>
  /\ UNCHANGED <<clock, updates, next_procq, nonblock, wakeables, listeners,
                 active, failed>>

(* Mutant: next_is_delta is not tested again after the callbacks.          *)
StartPostponedEager ==
  /\ phase = "last"
  /\ phase' = "postponed"
  /\ can_create_delta' = FALSE
  /\ UNCHANGED <<clock, blocking_update, force_stop, limit, updates, running,
                 nonblock, wakeables, listeners, active, failed>>

StartPostponed ==
  /\ phase = "last"
  /\ \/ next_is_delta /\ NextDelta
     \/ /\ ~next_is_delta
        /\ phase' = "postponed"
        /\ can_create_delta' = FALSE
        /\ UNCHANGED <<blocking_update, force_stop, limit, inactiveq,
                       next_inactiveq>>
  /\ UNCHANGED <<clock, updates, next_procq, nonblock, wakeables, listeners,
                 active, failed>>

EndPostponed ==
  /\ phase = "postponed" /\ active = Nobody /\ postponedq = {}
  /\ phase' = "end_step"
  /\ UNCHANGED <<clock, control, updates, running, nonblock, wakeables,
                 listeners, active, failed>>

EndTimeStep ==
  /\ phase = "end_step"
  /\ phase' = "idle"
  /\ can_create_delta' = TRUE
  /\ UNCHANGED <<clock, blocking_update, force_stop, limit, updates, running,
                 nonblock, wakeables, listeners, active, failed>>

-----------------------------------------------------------------------------
(* deferq_run on the queue of the current region.                          *)

Dequeue(o) ==
  \/ /\ phase = "procs" /\ o \in next_procq
     /\ next_procq' = next_procq \ {o}
     /\ UNCHANGED <<next_inactiveq, postponedq>>
  \/ /\ phase = "inactive" /\ o \in next_inactiveq
     /\ next_inactiveq' = next_inactiveq \ {o}
     /\ UNCHANGED <<next_procq, postponedq>>
  \/ /\ phase = "postponed" /\ o \in postponedq
     /\ postponedq' = postponedq \ {o}
     /\ UNCHANGED <<next_procq, next_inactiveq>>

(* Mutant: a dynamic wait is not cleared when the process resumes.         *)
RunProcessKeepsWait(p) ==
  /\ active = Nobody
  /\ Dequeue(p)
  /\ pending' = pending \ {p}
  /\ active' = p
  /\ waits' = [waits EXCEPT ![p] = NoWait]
  /\ UNCHANGED <<phase, clock, control, updates, inactiveq, nonblock, eventq,
                 triggerq, procq, delayed, next_is_delta, stray, sens, watch,
                 failed>>

(* Mutant: static registrations are cleared along with the dynamic ones.   *)
RunProcessClearsAll(p) ==
  /\ active = Nobody
  /\ Dequeue(p)
  /\ pending' = pending \ {p}
  /\ active' = p
  /\ sens' = [s \in Sigs |-> sens[s] \ {p}]
  /\ waits' = [waits EXCEPT ![p] = NoWait]
  /\ UNCHANGED <<phase, clock, control, updates, inactiveq, nonblock, eventq,
                 triggerq, procq, delayed, next_is_delta, stray, watch,
                 failed>>

(* async_run_process: the resumed code first clears its dynamic waits.     *)
RunProcess(p) ==
  /\ active = Nobody
  /\ Dequeue(p)
  /\ failed' = (failed \/ p \notin pending)
  /\ pending' = pending \ {p}
  /\ active' = p
  /\ sens' = [s \in Sigs |-> IF s \in waits[p].clear THEN sens[s] \ {p}
                             ELSE sens[s]]
  /\ waits' = [waits EXCEPT ![p] = NoWait]
  /\ UNCHANGED <<phase, clock, control, updates, inactiveq, nonblock, eventq,
                 triggerq, procq, delayed, next_is_delta, stray, watch>>

(* async_watch_callback: a zombie is freed, a live one is called.          *)
RunWatch(w) ==
  /\ active = Nobody
  /\ Dequeue(w)
  /\ failed' = (failed \/ w \notin pending \/ watch[w] = "freed")
  /\ pending' = pending \ {w}
  /\ IF watch[w] = "zombie"
     THEN watch' = [watch EXCEPT ![w] = "freed"] /\ active' = Nobody
     ELSE watch' = watch /\ active' = w
  /\ UNCHANGED <<phase, clock, control, updates, inactiveq, nonblock, eventq,
                 triggerq, procq, delayed, next_is_delta, stray, sens, waits>>

-----------------------------------------------------------------------------
(* What a running process may do.                                          *)

(* x_sched_waveform, and x_force with d = 0; check_postponed is fatal for  *)
(* a zero delay in a postponed process.                                    *)
Assign(s, d) ==
  /\ active \in Procs \ Vlog
  /\ d = 0 => active \notin Postponed
  /\ IF d = 0
     THEN /\ driverq' = driverq \cup {Update("driver", s)}
          /\ next_is_delta' = TRUE
          /\ UNCHANGED eventq
     ELSE /\ eventq' = eventq \cup {At(now + d, "driver", s)}
          /\ UNCHANGED <<driverq, next_is_delta>>
  /\ UNCHANGED <<phase, clock, control, next_driverq, driving_heap, running,
                 nonblock, triggerq, procq, postponedq, pending, delayed,
                 stray, listeners, active, failed>>

(* deposit_signal with a new value: a blocking Verilog assignment.  The    *)
(* nets that s feeds are updated in a delta cycle.                         *)
Deposit(s) ==
  /\ active \in Vlog
  /\ notify_event(s, s \in Resolved)
  /\ driving_heap' = driving_heap \cup ({s} \cap Resolved)
  /\ UNCHANGED <<phase, clock, control, driverq, next_driverq, running,
                 nonblock, listeners, active, failed>>

(* sched_deposit for a nonblocking assignment: if the deposit source is    *)
(* queued already only its value changes.                                  *)
SchedDeposit(s, d) ==
  /\ active \in Vlog
  /\ IF s \in pseudoqueued THEN UNCHANGED <<nonblockq, eventq>>
     ELSE IF d = 0 THEN nonblockq' = nonblockq \cup {s} /\ UNCHANGED eventq
     ELSE eventq' = eventq \cup {At(now + d, "deposit", s)}
            /\ UNCHANGED nonblockq
  /\ pseudoqueued' = pseudoqueued \cup {s}
  /\ owed' = IF d = 0 THEN owed \cup {s} ELSE owed
  /\ UNCHANGED <<phase, clock, control, updates, running, triggerq, procq,
                 postponedq, pending, delayed, next_is_delta, stray,
                 listeners, active, failed>>

(* deltaq_insert_proc for the active process.                              *)
deltaq_insert_proc(d) ==
  IF d = Never
  THEN UNCHANGED <<eventq, procq, pending, delayed, next_is_delta, failed>>
  ELSE IF d = 0
  THEN /\ failed' = (failed \/ active \in pending \cup delayed)
       /\ pending' = pending \cup {active}
       /\ procq' = procq \cup {active}
       /\ next_is_delta' = TRUE
       /\ UNCHANGED <<eventq, delayed>>
  ELSE /\ failed' = (failed \/ active \in delayed)
       /\ delayed' = delayed \cup {active}
       /\ eventq' = eventq \cup {At(now + d, "process", active)}
       /\ UNCHANGED <<procq, pending, next_is_delta>>

(* A wait with the sensitivity on and the timeout d.  A static wait makes  *)
(* no calls; a Verilog timing control is either an event or a delay.       *)
Wait(on, d) ==
  /\ active \in Procs
  /\ \/ StaticOn[active] = {} /\ active \notin Vlog
     \/ active \in Timing /\ (on = {} <=> d # Never)
     \/ on = {} /\ d = Never
  /\ d = 0 => active \in ZeroWaits
  /\ deltaq_insert_proc(d)
  /\ sens' = [s \in Sigs |-> IF s \in on THEN sens[s] \cup {active}
                             ELSE sens[s]]
  /\ waits' = [waits EXCEPT ![active] =
                 [on    |-> IF on = {} /\ d = Never THEN StaticOn[active]
                            ELSE on,
                  until |-> IF d = Never THEN Never ELSE now + d,
                  clear |-> on]]
  /\ active' = Nobody
  /\ UNCHANGED <<phase, clock, control, updates, running, nonblock, triggerq,
                 postponedq, stray, watch>>

(* Mutant: "#0" in the inactive region adds to the queue that is being run. *)
WaitInactiveSameQueue ==
  /\ active \in Timing
  /\ failed' = (failed \/ active \in pending \cup delayed)
  /\ pending' = pending \cup {active}
  /\ IF phase = "inactive"
     THEN /\ next_inactiveq' = next_inactiveq \cup {active}
          /\ UNCHANGED inactiveq
     ELSE /\ inactiveq' = inactiveq \cup {active}
          /\ UNCHANGED next_inactiveq
  /\ next_is_delta' = TRUE
  /\ active' = Nobody
  /\ UNCHANGED <<phase, clock, control, updates, next_procq, nonblock, eventq,
                 triggerq, procq, postponedq, delayed, stray, listeners>>

(* "#0": x_sched_inactive.                                                 *)
WaitInactive ==
  /\ active \in Timing
  /\ failed' = (failed \/ active \in pending \cup delayed)
  /\ pending' = pending \cup {active}
  /\ inactiveq' = inactiveq \cup {active}
  /\ next_is_delta' = TRUE
  /\ active' = Nobody
  /\ UNCHANGED <<phase, clock, control, updates, next_procq, next_inactiveq,
                 nonblock, eventq, triggerq, procq, postponedq, delayed,
                 stray, listeners>>

(* The process raised an error or called finish or stop.                   *)
Fail ==
  /\ active \in Procs
  /\ force_stop' = TRUE
  /\ active' = Nobody
  /\ waits' = [waits EXCEPT ![active].on = StaticOn[active]]
  /\ UNCHANGED <<phase, clock, blocking_update, can_create_delta, limit,
                 updates, running, nonblock, wakeables, sens, watch, failed>>

-----------------------------------------------------------------------------
(* What a foreign callback may do: a phase callback, a value change        *)
(* callback or a timeout.                                                  *)

InCallback ==
  \/ active \in {Timer} \cup (Watches \ Postponed)
  \/ phase \in Callbacks

(* vhpi_put_value with a force, a release or a deposit; it returns an      *)
(* error when no delta cycle can be created.                               *)
PutValue(k, s) ==
  /\ InCallback /\ can_create_delta
  /\ IF k = "deposit" /\ s \in pseudoqueued
     THEN UNCHANGED <<driverq, next_is_delta>>
     ELSE driverq' = driverq \cup {Update(k, s)} /\ next_is_delta' = TRUE
  /\ pseudoqueued' = IF k = "deposit" THEN pseudoqueued \cup {s}
                     ELSE pseudoqueued
  /\ UNCHANGED <<phase, clock, control, next_driverq, driving_heap, running,
                 nonblockq, owed, eventq, triggerq, procq, postponedq,
                 pending, delayed, stray, listeners, active, failed>>

(* model_set_timeout_cb for a time in the future.                          *)
SetTimeout(d) ==
  /\ InCallback
  /\ eventq' = eventq \cup {At(now + d, "timeout", Timer)}
  /\ UNCHANGED <<phase, clock, control, updates, running, nonblock, triggerq,
                 procq, postponedq, pending, delayed, next_is_delta, stray,
                 listeners, active, failed>>

(* Mutant: a watch is freed although its callback is queued.               *)
FreeWatchQueued(w) ==
  /\ InCallback
  /\ watch[w] = "live"
  /\ sens' = [s \in Sigs |-> sens[s] \ {w}]
  /\ watch' = [watch EXCEPT ![w] = "freed"]
  /\ UNCHANGED <<phase, clock, control, updates, running, nonblock,
                 wakeables, waits, active, failed>>

(* watch_free: a queued watch becomes a zombie.                            *)
FreeWatch(w) ==
  /\ InCallback
  /\ watch[w] = "live"
  /\ sens' = [s \in Sigs |-> sens[s] \ {w}]
  /\ watch' = [watch EXCEPT ![w] = IF w \in pending THEN "zombie"
                                   ELSE "freed"]
  /\ UNCHANGED <<phase, clock, control, updates, running, nonblock,
                 wakeables, waits, active, failed>>

UserReturn ==
  /\ active \in Watches \cup {Timer}
  /\ active' = Nobody
  /\ UNCHANGED <<phase, clock, control, updates, running, nonblock,
                 wakeables, listeners, failed>>

-----------------------------------------------------------------------------
Delays == 1 .. MaxTime - now

Regions ==
  \/ Stop \/ BeginCycle \/ StartUpdates \/ StartTriggers \/ EndTriggers
  \/ StartProcesses \/ EndProcesses \/ StartInactive \/ StartNonblock
  \/ EndNonblock \/ StartPostponed \/ EndPostponed \/ EndTimeStep

Tasks ==
  \/ \E t \in next_driverq : RunDriver(t) \/ RunTimeout(t)
  \/ \E s \in Sigs : Settle(s) \/ RunNonblock(s)
  \/ \E t \in triggerq : RunTrigger(t)
  \/ \E p \in Procs : RunProcess(p)
  \/ \E w \in Watches : RunWatch(w)

Suspends ==
  \/ \E on \in SUBSET Sigs, d \in {0, Never} \cup Delays : Wait(on, d)
  \/ WaitInactive \/ Fail \/ UserReturn

Effects ==
  \/ \E s \in Sigs, d \in {0} \cup Delays : Assign(s, d)
  \/ \E s \in Sigs : Deposit(s)
  \/ \E s \in Sigs, d \in NbaDelays \cap ({0} \cup Delays) : SchedDeposit(s, d)
  \/ \E k \in {"driver", "deposit"}, s \in Sigs : PutValue(k, s)
  \/ \E d \in Delays : SetTimeout(d)
  \/ \E w \in Watches : FreeWatch(w)

Kernel == Regions \/ Tasks \/ Suspends

Next == Kernel \/ Effects \/ (phase = "stopped" /\ UNCHANGED vars)

Spec == Init /\ [][Next]_vars

(* The kernel is one thread that never pauses, and its processes and       *)
(* callbacks are taken to suspend after finitely many effects.             *)
FairSpec == Spec /\ WF_vars(Kernel)

-----------------------------------------------------------------------------
(* The variables hold what the struct rt_model fields can hold, each queue *)
(* only the kind of task its region runs.                                  *)
TypeOK ==
  /\ phase \in {"idle", "next_cycle", "drivers", "triggers", "start", "procs",
                "end", "inactive", "nonblock", "last", "postponed",
                "end_step", "stopped"}
  /\ now \in 0 .. MaxTime /\ iteration \in Nat \cup {-1}
  /\ {next_is_delta, is_delta, blocking_update, can_create_delta, force_stop,
      limit, failed} \subseteq BOOLEAN
  /\ \A e \in eventq :
        /\ e.at \in now .. MaxTime
        /\ IF e.kind = "process" THEN e.obj \in Procs
           ELSE Update(e.kind, e.obj) \in Task
  /\ driverq \subseteq Task /\ next_driverq \subseteq Task
  /\ driving_heap \subseteq Resolved
  /\ triggerq \subseteq Sigs \X Vlog
  /\ inactiveq \cup next_inactiveq \subseteq Timing
  /\ procq \cup next_procq \cup pending \subseteq Wakeables
  /\ postponedq \subseteq Postponed
  /\ nonblockq \subseteq pseudoqueued /\ pseudoqueued \subseteq Sigs
  /\ owed \subseteq Sigs
  /\ delayed \subseteq Procs /\ stray \subseteq Procs
  /\ sens \in [Sigs -> SUBSET Wakeables]
  /\ watch \in [Watches -> {"live", "zombie", "freed"}]
  /\ active \in Wakeables \cup {Timer, Nobody}
  /\ \A p \in Procs : waits[p].on \cup waits[p].clear \subseteq Sigs

(* pending and delayed tell the truth: a pending object is in exactly one  *)
(* of the queues, a delayed process has exactly one event, nothing is      *)
(* both, and so no process is resumed twice for one wait; the assertions   *)
(* in set_pending, deltaq_insert_proc, async_run_process,                  *)
(* async_watch_callback and at the extraction of events hold.              *)
QueuedOnce ==
  /\ TypeOK /\ ~failed
  /\ pending = procq \cup next_procq \cup inactiveq \cup next_inactiveq
                 \cup postponedq
  /\ procq \cap next_procq = {}
  /\ (procq \cup next_procq) \cap (inactiveq \cup next_inactiveq) = {}
  /\ inactiveq \cap next_inactiveq = {}
  /\ postponedq \cap (procq \cup next_procq) = {}
  /\ pending \cap delayed = {}
  /\ LET ev == {e \in eventq : e.kind = "process"} IN
     /\ delayed = {e.obj : e \in ev}
     /\ Cardinality(ev) = Cardinality(delayed)

(* No work is left behind: between two cycles, whatever is queued for this *)
(* time step has a delta cycle coming, so time does not advance past it.   *)
NoLostDelta ==
  phase = "idle" /\ ~next_is_delta =>
     /\ driverq = {} /\ driving_heap = {} /\ triggerq = {}
     /\ pending = {} /\ nonblockq = {}

(* A nonblocking assignment with no delay takes effect in its time step.   *)
NonblockApplied == phase = "postponed" => owed = {}

(* A suspended process is resumed by an event on a signal it waits on or   *)
(* at the time it waits until, and by nothing else.                        *)
ResumesForAReason == stray = {}

(* A suspended process is registered with every signal that it waits on,   *)
(* however often its wait has been set up and cleared.                     *)
SensitivityKept ==
  \A p \in Procs \ (pending \cup {active}) :
     \A s \in waits[p].on : p \in sens[s]

(* A wait statement is kept: its process sleeps until one of its reasons   *)
(* to go on, and is not asleep to any of them.                             *)
WaitsKept == ResumesForAReason /\ SensitivityKept

(* watch_free: a freed watch is in no queue and on no pending list, and a  *)
(* zombie is on none, so no callback runs on freed memory.                 *)
WatchSafe ==
  \A w \in Watches :
     /\ watch[w] = "freed" => w \notin pending
     /\ watch[w] # "live" => \A s \in Sigs : w \notin sens[s]
     /\ watch[w] = "zombie" => w \in pending

(* The Verilog regions are entered in order: nonblocking updates start     *)
(* only when no process of the active and inactive regions is left, and    *)
(* the postponed region only when nothing else is.                         *)
RegionOrder ==
  [][/\ phase # "nonblock" /\ phase' = "nonblock" =>
           procq \cup next_procq \cup inactiveq \cup next_inactiveq = {}
     /\ phase # "postponed" /\ phase' = "postponed" =>
           /\ pending \subseteq postponedq
           /\ driverq = {} /\ nonblockq = {}]_vars

(* Neither a postponed process (check_postponed) nor a callback at the end *)
(* of the time step (model_can_create_delta) causes a delta cycle.         *)
NoDeltaFromPostponed == phase = "end_step" => ~next_is_delta

(* The delta cycle limit holds: a time step has no more cycles than that,  *)
(* and the message comes when it is used up with a delta cycle to do.      *)
DeltaLimit == iteration <= StopDelta /\ (limit => iteration = StopDelta)

(* A time step does all that belongs to it and no more, and it ends.       *)
StepComplete ==
  NoLostDelta /\ NonblockApplied /\ NoDeltaFromPostponed /\ DeltaLimit

(* What is queued runs, unless the simulation is stopped: the delta limit  *)
(* bounds a time step and every region is reached in it.                   *)
PendingRuns ==
  \A o \in Wakeables : o \in pending ~> (o \notin pending \/ force_stop)
=============================================================================
