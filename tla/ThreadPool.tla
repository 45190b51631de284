------------------------------ MODULE ThreadPool ------------------------------
(***************************************************************************)
(* The worker threads of thread.c: work queues (workq_do, workq_start,     *)
(* workq_drain), background tasks (async_do, async_barrier) and the end of *)
(* the program (join_worker_threads).                                      *)
(*                                                                         *)
(* The main thread, 0, collects tasks in a work queue, moves them to the   *)
(* global queue, wakes or creates workers, and takes part in the work      *)
(* until all tasks of the queue are counted as completed.  A thread takes  *)
(* a share of the global queue into its own deque, runs it from the bottom *)
(* and steals from the top of the others' deques when it has nothing left. *)
(* A worker that finds no work sleeps on a condition variable.             *)
(*                                                                         *)
(* The deque is the abstract one that WorkDeque.tla checks: pop_bot and    *)
(* pop_top are atomic, and pop_top may also fail when it races.  Steps of  *)
(* the main thread's callers are chosen freely.                            *)
(***************************************************************************)
EXTENDS Integers, Sequences, FiniteSets, SequencesExt

CONSTANTS
    MaxWorkers,     \* max_workers, the main thread included; with one CPU
                    \* async_do is a function call and no queue is parallel
    Workqs,         \* the work queues
    Parallel,       \* those that workq_not_thread_safe was not called for
    MaxTasks,       \* bound: tasks in a run of the program
    MinTake,        \* MIN_TAKE, the least share of the global queue
    Spins           \* idle rounds of a worker before it sleeps

ASSUME PoolAssumption ==
    /\ MaxWorkers \in Nat \ {0, 1} /\ MaxTasks \in Nat
    /\ MinTake \in Nat \ {0} /\ Spins \in Nat
    /\ Parallel \subseteq Workqs

Workers == 1 .. MaxWorkers - 1
Threads == 0 .. MaxWorkers - 1
Tasks == 1 .. MaxTasks
Async == "async"

VARIABLES
    kind,           \* kind[i]: the queue of task i, or Async; its length counts
    ran, done,      \* history: how often a task was started and finished
    state, epoch,   \* wq->state, wq->epoch
    entries, wptr,  \* the main thread's entryq: tasks and write pointer
    comp,           \* comp[q][t]: the completion counter of thread t
    globalq,        \* the global queue
    deque,          \* deque[t]: the bottom is the end
    async_pending,
    running_threads,
    asleep,         \* threads in platform_cond_wait
    wakelock,       \* holder of the mutex, or -1
    should_stop,
    pc, task, spins,\* of each thread; task 0: none
    arg, serial,    \* what the main thread works on, tasks it runs itself
    scan, pending,  \* workq_outstanding
    join_list

vars == <<kind, ran, done, state, epoch, entries, wptr, comp, globalq, deque,
          async_pending, running_threads, asleep, wakelock, should_stop, pc,
          task, spins, arg, serial, scan, pending, join_list>>

queues == <<state, epoch, entries, wptr>>
main == <<arg, serial, scan, pending, join_list>>
sleep == <<asleep, wakelock, should_stop>>

Counter == [count : 0 .. MaxTasks, epoch : 0 .. MaxTasks + 1]

TypeOK ==
    /\ kind \in Seq(Workqs \cup {Async}) /\ Len(kind) <= MaxTasks
    /\ ran \in [Tasks -> 0 .. 2] /\ done \in [Tasks -> BOOLEAN]
    /\ state \in [Workqs -> {"IDLE", "START"}]
    /\ epoch \in [Workqs -> 1 .. MaxTasks + 1]
    /\ entries \in [Workqs -> Seq(Tasks)]
    /\ wptr \in [Workqs -> Counter]
    /\ comp \in [Workqs -> [Threads -> Counter]]
    /\ globalq \in Seq(Tasks) /\ deque \in [Threads -> Seq(Tasks)]
    /\ async_pending \in 0 .. MaxTasks
    /\ running_threads \in 1 .. MaxWorkers
    /\ asleep \subseteq Workers /\ wakelock \in Threads \cup {-1}
    /\ should_stop \in BOOLEAN
    /\ task \in [Threads -> Tasks \cup {0}]
    /\ spins \in [Workers -> 0 .. Spins]
    /\ pending \in Int
    /\ join_list \subseteq Workers

Init ==
    /\ kind = <<>>
    /\ ran = [i \in Tasks |-> 0] /\ done = [i \in Tasks |-> FALSE]
    /\ state = [q \in Workqs |-> "IDLE"]
    /\ epoch = [q \in Workqs |-> 1]
    /\ entries = [q \in Workqs |-> <<>>]
    /\ wptr = [q \in Workqs |-> [count |-> 0, epoch |-> 0]]
    /\ comp = [q \in Workqs |-> [t \in Threads |-> [count |-> 0, epoch |-> 0]]]
    /\ globalq = <<>> /\ deque = [t \in Threads |-> <<>>]
    /\ async_pending = 0
    /\ running_threads = 1
    /\ asleep = {} /\ wakelock = -1 /\ should_stop = FALSE
    /\ pc = [t \in Threads |-> IF t = 0 THEN "idle" ELSE "new"]
    /\ task = [t \in Threads |-> 0]
    /\ spins = [t \in Workers |-> 0]
    /\ arg = Async /\ serial = <<>>
    /\ scan = 0 /\ pending = 0
    /\ join_list = {}

Goto(t, l) == pc' = [pc EXCEPT ![t] = l]
NewTask(k) ==
    /\ Len(kind) < MaxTasks
    /\ kind' = Append(kind, k)

\* entryq_ptr_t: a count is valid for one epoch.
CountAt(c, e) == IF c.epoch = e THEN c.count ELSE 0
Bump(c, e) == [count |-> CountAt(c, e) + 1, epoch |-> e]

-----------------------------------------------------------------------------
(* Running tasks *)

\* execute_task: the task's function ...
StartTask(t, i, ret) ==
    /\ task' = [task EXCEPT ![t] = i]
    /\ ran' = [ran EXCEPT ![i] = @ + 1]
    /\ Goto(t, ret)

\* ... and the completion counter of the thread that ran it.
FinishTask(t) ==
    LET i == task[t]
        q == kind[i]
    IN  /\ done' = [done EXCEPT ![i] = TRUE]
        /\ task' = [task EXCEPT ![t] = 0]
        /\ \/ /\ q # Async
              /\ comp' = [comp EXCEPT ![q][t] = Bump(@, epoch[q])]
              /\ UNCHANGED async_pending
           \/ /\ q = Async
              /\ async_pending' = async_pending - 1
              /\ UNCHANGED comp

\* Tasks from the own deque, a stolen one, those workq_start runs in place.
EndTask(t) ==
    /\ pc[t] \in {"run_local", "run_stolen", "run_serial"}
    /\ FinishTask(t)
    /\ \/ pc[t] = "run_local" /\ Goto(t, "local") /\ UNCHANGED spins
       \/ /\ pc[t] = "run_stolen" /\ t # 0
          /\ Goto(t, "loop") /\ spins' = [spins EXCEPT ![t] = 0]
       \/ pc[t] = "run_stolen" /\ t = 0 /\ Goto(t, "steal") /\ UNCHANGED spins
       \/ pc[t] = "run_serial" /\ Goto(t, "serial") /\ UNCHANGED spins
    /\ UNCHANGED <<kind, ran, queues, globalq, deque, running_threads, sleep,
                   main>>

-----------------------------------------------------------------------------
(* globalq_poll *)

\* globalq_unlocked_empty.  What to do when there is nothing: a worker and
\* workq_parallel_drain steal, async_barrier looks at its counter again.
PollEmpty(t) ==
    /\ pc[t] = "poll" /\ globalq = <<>>
    /\ Goto(t, IF t = 0 /\ arg = Async THEN "barrier" ELSE "steal")
    /\ UNCHANGED <<kind, ran, done, queues, comp, globalq, deque, async_pending,
                   running_threads, sleep, task, spins, main>>

PollLock(t) ==
    /\ pc[t] = "poll" /\ globalq # <<>>
    /\ Goto(t, "take")
    /\ UNCHANGED <<kind, ran, done, queues, comp, globalq, deque, async_pending,
                   running_threads, sleep, task, spins, main>>

\* The share of the thread.  gq->wptr counts the tasks put since the queue was
\* last empty, so the share lies between the two bounds.
Shares(n) == {k \in 1 .. n : \/ k = n \/ k >= MinTake}

\* globalq_take under the lock: the queue may be empty by now.
globalq_take(t) ==
    /\ pc[t] = "take"
    /\ \/ /\ globalq = <<>>
          /\ Goto(t, IF t = 0 /\ arg = Async THEN "barrier" ELSE "steal")
          /\ UNCHANGED <<globalq, deque>>
       \/ /\ \E k \in Shares(Len(globalq)) :
                /\ deque' = [deque EXCEPT ![t] = @ \o SubSeq(globalq, 1, k)]
                /\ globalq' = SubSeq(globalq, k + 1, Len(globalq))
          /\ Goto(t, "local")
    /\ UNCHANGED <<kind, ran, done, queues, comp, async_pending, running_threads,
                   sleep, task, spins, main>>

\* The loop over pop_bot.
PopBot(t) ==
    /\ pc[t] = "local" /\ deque[t] # <<>>
    /\ StartTask(t, Last(deque[t]), "run_local")
    /\ deque' = [deque EXCEPT ![t] = Front(@)]
    /\ UNCHANGED <<kind, done, queues, comp, globalq, async_pending,
                   running_threads, sleep, spins, main>>

\* Did work: a worker checks should_stop, the main thread polls again.
LocalEmpty(t) ==
    /\ pc[t] = "local" /\ deque[t] = <<>>
    /\ \/ t # 0 /\ Goto(t, "loop") /\ spins' = [spins EXCEPT ![t] = 0]
       \/ /\ t = 0 /\ Goto(t, IF arg = Async THEN "barrier" ELSE "poll")
          /\ UNCHANGED spins
    /\ UNCHANGED <<kind, ran, done, queues, comp, globalq, deque, async_pending,
                   running_threads, sleep, task, main>>

\* steal_task: pop_top of some other thread's deque.
Steal(t) ==
    /\ pc[t] = "steal"
    /\ \E v \in Threads \ {t} :
          /\ deque[v] # <<>>
          /\ StartTask(t, Head(deque[v]), "run_stolen")
          /\ deque' = [deque EXCEPT ![v] = Tail(@)]
    /\ UNCHANGED <<kind, done, queues, comp, globalq, async_pending,
                   running_threads, sleep, spins, main>>

\* No victim, or the race for its task was lost.
StealFails(t) ==
    /\ pc[t] = "steal"
    /\ \/ t = 0 /\ Goto(t, "await") /\ UNCHANGED spins
       \/ /\ t # 0 /\ spins[t] < Spins
          /\ spins' = [spins EXCEPT ![t] = @ + 1]
          /\ Goto(t, "loop")
       \/ t # 0 /\ spins[t] = Spins /\ Goto(t, "sleepy") /\ UNCHANGED spins
    /\ UNCHANGED <<kind, ran, done, queues, comp, globalq, deque, async_pending,
                   running_threads, sleep, task, main>>

-----------------------------------------------------------------------------
(* worker_thread *)

\* With wakelock held, look at should_stop ...
CheckStop(t) ==
    /\ pc[t] = "sleepy" /\ wakelock = -1
    /\ \/ /\ should_stop
          /\ Goto(t, "loop") /\ UNCHANGED wakelock
       \/ /\ ~should_stop
          /\ wakelock' = t /\ Goto(t, "wait")
    /\ UNCHANGED <<kind, ran, done, queues, comp, globalq, deque, async_pending,
                   running_threads, asleep, should_stop, task, spins, main>>

\* ... and wait, which releases it.
CondWait(t) ==
    /\ pc[t] = "wait" /\ wakelock = t
    /\ wakelock' = -1
    /\ asleep' = asleep \cup {t}
    /\ Goto(t, "asleep")
    /\ UNCHANGED <<kind, ran, done, queues, comp, globalq, deque, async_pending,
                   running_threads, should_stop, task, spins, main>>

Wake(t) ==
    /\ pc[t] = "asleep" /\ t \notin asleep /\ wakelock = -1
    /\ Goto(t, "loop")
    /\ UNCHANGED <<kind, ran, done, queues, comp, globalq, deque, async_pending,
                   running_threads, sleep, task, spins, main>>

\* Leaving the loop, thread_wrapper takes the thread off the list.
LoopOrExit(t) ==
    /\ pc[t] = "loop"
    /\ \/ /\ ~should_stop
          /\ Goto(t, "poll") /\ UNCHANGED running_threads
       \/ /\ should_stop
          /\ Goto(t, "exited") /\ running_threads' = running_threads - 1
    /\ UNCHANGED <<kind, ran, done, queues, comp, globalq, deque, async_pending,
                   sleep, task, spins, main>>

-----------------------------------------------------------------------------
(* create_workers *)

SmallerOf(m, n) == IF m < n THEN m ELSE n

\* Called with the number of threads needed in `scan`.
CreateWorker ==
    /\ pc[0] = "create" /\ running_threads < SmallerOf(MaxWorkers, scan)
    /\ pc' = [pc EXCEPT ![running_threads] = "loop"]
    /\ running_threads' = running_threads + 1
    /\ UNCHANGED <<kind, ran, done, queues, comp, globalq, deque, async_pending,
                   sleep, task, spins, main>>

\* The broadcast, without wakelock.
WakeWorkers ==
    /\ pc[0] = "create" /\ running_threads >= SmallerOf(MaxWorkers, scan)
    /\ asleep' = {}
    /\ Goto(0, IF arg = Async THEN "put_async" ELSE "idle")
    /\ scan' = 0
    /\ UNCHANGED <<kind, ran, done, queues, comp, globalq, deque, async_pending,
                   running_threads, wakelock, should_stop, task, spins, arg,
                   serial, pending, join_list>>

-----------------------------------------------------------------------------
(* Work queues *)

workq_do(q) ==
    /\ pc[0] = "idle" /\ state[q] = "IDLE"
    /\ NewTask(q)
    /\ LET n == CountAt(wptr[q], epoch[q])
       IN  entries' = [entries EXCEPT ![q] =
                         Append(SubSeq(@, 1, n), Len(kind) + 1)]
    /\ wptr' = [wptr EXCEPT ![q] = Bump(@, epoch[q])]
    /\ UNCHANGED <<ran, done, state, epoch, comp, globalq, deque, async_pending,
                   running_threads, sleep, pc, task, spins, main>>

\* One task, or a queue that is not thread safe, is run in place.
workq_start(q) ==
    LET n == CountAt(wptr[q], epoch[q])
    IN  /\ pc[0] = "idle" /\ state[q] = "IDLE"
        /\ state' = [state EXCEPT ![q] = "START"]
        /\ \/ /\ n = 0
              /\ UNCHANGED <<epoch, globalq, pc, arg, serial, scan>>
           \/ /\ n > 0 /\ (n = 1 \/ q \notin Parallel)
              /\ epoch' = [epoch EXCEPT ![q] = @ + 1]
              /\ serial' = entries[q]
              /\ Goto(0, "serial")
              /\ UNCHANGED <<globalq, arg, scan>>
           \/ /\ n > 1 /\ q \in Parallel
              /\ epoch' = [epoch EXCEPT ![q] = @ + 1]
              /\ globalq' = globalq \o entries[q]
              /\ arg' = q /\ scan' = n
              /\ Goto(0, "create")
              /\ UNCHANGED serial
        /\ UNCHANGED <<kind, ran, done, entries, wptr, comp, deque,
                       async_pending, running_threads, sleep, task, spins,
                       pending, join_list>>

RunSerial ==
    /\ pc[0] = "serial"
    /\ \/ /\ serial # <<>>
          /\ StartTask(0, Head(serial), "run_serial")
          /\ serial' = Tail(serial)
       \/ /\ serial = <<>>
          /\ Goto(0, "idle")
          /\ UNCHANGED <<ran, task, serial>>
    /\ UNCHANGED <<kind, done, queues, comp, globalq, deque, async_pending,
                   running_threads, sleep, spins, arg, scan, pending, join_list>>

workq_drain(q) ==
    /\ pc[0] = "idle" /\ state[q] = "START"
    /\ \/ /\ q \in Parallel
          /\ arg' = q /\ Goto(0, "outstanding") /\ scan' = 0 /\ pending' = 0
          /\ UNCHANGED state
       \/ /\ q \notin Parallel
          /\ state' = [state EXCEPT ![q] = "IDLE"]
          /\ UNCHANGED <<pc, arg, scan, pending>>
    /\ UNCHANGED <<kind, ran, done, epoch, entries, wptr, comp, globalq, deque,
                   async_pending, running_threads, sleep, task, spins, serial,
                   join_list>>

\* workq_outstanding: the counters of the threads, one after the other.
Outstanding ==
    LET queued == IF scan = 0 THEN CountAt(wptr[arg], epoch[arg] - 1) ELSE 0
    IN  /\ pc[0] \in {"outstanding", "await"} /\ scan \in Threads
        /\ pending' = pending + queued - CountAt(comp[arg][scan], epoch[arg])
        /\ scan' = scan + 1
        /\ UNCHANGED <<kind, ran, done, queues, comp, globalq, deque,
                       async_pending, running_threads, sleep, pc, task, spins,
                       arg, serial, join_list>>

\* Mutant: the main thread helps, but does not wait for the others.
DrainNoWait ==
    /\ pc[0] \in {"outstanding", "await"} /\ scan = MaxWorkers
    /\ scan' = 0 /\ pending' = 0
    /\ \/ /\ pending > 0
          /\ pc[0] = "outstanding" /\ Goto(0, "poll")
          /\ UNCHANGED <<state, arg>>
       \/ /\ pending <= 0 \/ pc[0] = "await"
          /\ state' = [state EXCEPT ![arg] = "IDLE"]
          /\ Goto(0, "idle") /\ arg' = Async
    /\ UNCHANGED <<kind, ran, done, epoch, entries, wptr, comp, globalq, deque,
                   async_pending, running_threads, sleep, task, spins, serial,
                   join_list>>

\* workq_parallel_drain: help, then wait until nothing is outstanding.
Drain ==
    /\ pc[0] \in {"outstanding", "await"} /\ scan = MaxWorkers
    /\ scan' = 0 /\ pending' = 0
    /\ \/ /\ pending > 0
          /\ Goto(0, IF pc[0] = "outstanding" THEN "poll" ELSE "await")
          /\ UNCHANGED <<state, arg>>
       \/ /\ pending <= 0
          /\ state' = [state EXCEPT ![arg] = "IDLE"]
          /\ Goto(0, "idle") /\ arg' = Async
    /\ UNCHANGED <<kind, ran, done, epoch, entries, wptr, comp, globalq, deque,
                   async_pending, running_threads, sleep, task, spins, serial,
                   join_list>>

-----------------------------------------------------------------------------
(* Background tasks *)

\* async_do: the workers are created and woken before the task is queued.
async_do ==
    /\ pc[0] = "idle"
    /\ NewTask(Async)
    /\ async_pending' = async_pending + 1
    /\ arg' = Async /\ scan' = async_pending' + 1
    /\ Goto(0, "create")
    /\ UNCHANGED <<ran, done, queues, comp, globalq, deque, running_threads,
                   sleep, task, spins, serial, pending, join_list>>

PutAsync ==
    /\ pc[0] = "put_async"
    /\ globalq' = Append(globalq, Len(kind))
    /\ Goto(0, "idle")
    /\ UNCHANGED <<kind, ran, done, queues, comp, deque, async_pending,
                   running_threads, sleep, task, spins, main>>

\* Mutant: the barrier is passed when the queue is empty.
async_barrierByQueue ==
    /\ pc[0] \in {"idle", "barrier"} /\ (pc[0] = "idle" => async_pending > 0)
    /\ arg' = Async
    /\ Goto(0, IF globalq # <<>> THEN "poll" ELSE "idle")
    /\ UNCHANGED <<kind, ran, done, queues, comp, globalq, deque, async_pending,
                   running_threads, sleep, task, spins, serial, scan, pending,
                   join_list>>

\* Mutant: the main thread only waits.
async_barrierWaits ==
    /\ pc[0] \in {"idle", "barrier"} /\ (pc[0] = "idle" => async_pending > 0)
    /\ arg' = Async
    /\ Goto(0, IF async_pending > 0 THEN "barrier" ELSE "idle")
    /\ UNCHANGED <<kind, ran, done, queues, comp, globalq, deque, async_pending,
                   running_threads, sleep, task, spins, serial, scan, pending,
                   join_list>>

async_barrier ==
    /\ pc[0] \in {"idle", "barrier"} /\ (pc[0] = "idle" => async_pending > 0)
    /\ arg' = Async
    /\ Goto(0, IF async_pending > 0 THEN "poll" ELSE "idle")
    /\ UNCHANGED <<kind, ran, done, queues, comp, globalq, deque, async_pending,
                   running_threads, sleep, task, spins, serial, scan, pending,
                   join_list>>

-----------------------------------------------------------------------------
(* join_worker_threads *)

ListThreads ==
    /\ pc[0] = "idle" /\ \A q \in Workqs : state[q] = "IDLE"
    /\ join_list' = {t \in Workers : pc[t] \notin {"new", "exited"}}
    /\ Goto(0, "stop")
    /\ UNCHANGED <<kind, ran, done, queues, comp, globalq, deque, async_pending,
                   running_threads, sleep, task, spins, arg, serial, scan,
                   pending>>

\* "Lock the wake mutex here to avoid races with workers sleeping"
StopWorkers ==
    /\ pc[0] = "stop" /\ wakelock = -1
    /\ should_stop' = TRUE
    /\ asleep' = {}
    /\ Goto(0, "join")
    /\ UNCHANGED <<kind, ran, done, queues, comp, globalq, deque, async_pending,
                   running_threads, wakelock, task, spins, main>>

JoinThreads ==
    /\ pc[0] = "join" /\ \A t \in join_list : pc[t] = "exited"
    /\ Goto(0, "joined")
    /\ UNCHANGED <<kind, ran, done, queues, comp, globalq, deque, async_pending,
                   running_threads, sleep, task, spins, main>>

Finished == pc[0] = "joined" /\ UNCHANGED vars

-----------------------------------------------------------------------------
Run(t) ==
    \/ EndTask(t) \/ PollEmpty(t) \/ PollLock(t) \/ globalq_take(t)
    \/ PopBot(t) \/ LocalEmpty(t) \/ Steal(t) \/ StealFails(t)

Worker(t) == Run(t) \/ CheckStop(t) \/ CondWait(t) \/ Wake(t) \/ LoopOrExit(t)

\* A call of the main thread in progress, and the calls it may make.
MainStep ==
    \/ Run(0) \/ CreateWorker \/ WakeWorkers \/ RunSerial \/ Outstanding
    \/ Drain \/ PutAsync \/ StopWorkers \/ JoinThreads
    \/ (pc[0] = "barrier" /\ async_barrier)

MainCall ==
    \/ \E q \in Workqs : workq_do(q) \/ workq_start(q) \/ workq_drain(q)
    \/ async_do \/ ListThreads
    \/ (pc[0] = "idle" /\ async_barrier)

Next ==
    \/ MainStep \/ MainCall
    \/ \E t \in Workers : Worker(t)
    \/ Finished

Spec == Init /\ [][Next]_vars

\* The operating system runs every thread; which calls the main thread makes
\* is up to the program.
FairSpec ==
    Spec /\ WF_vars(MainStep) /\ \A t \in Workers : WF_vars(Worker(t))

-----------------------------------------------------------------------------
(* Properties *)

\* Tasks given to workq_do since the last workq_start.
Waiting(q) == IF wptr[q].epoch = epoch[q] THEN Range(entries[q]) ELSE {}

\* No task is run twice, and workq_drain returns only when every task of the
\* queue has finished, although the completion counters of the threads are read
\* one after the other while they change.
DrainComplete ==
    /\ \A i \in Tasks : ran[i] <= 1
    /\ \A q \in Workqs : \A i \in 1 .. Len(kind) :
          (kind[i] = q /\ state[q] = "IDLE" /\ i \notin Waiting(q)) => done[i]

\* assert(pending >= 0) in workq_outstanding.
OutstandingAssertion == scan = MaxWorkers => pending >= 0

\* assert(running_threads == 1) in join_worker_threads.
JoinAssertion == pc[0] = "joined" => running_threads = 1

\* The counters that threads keep without a lock never mislead the main thread:
\* not about the tasks that are done, nor about the threads that have ended.
PoolInv == TypeOK /\ DrainComplete /\ OutstandingAssertion /\ JoinAssertion

\* When async_barrier returns every background task has finished, those that
\* other threads took from the queue before included.
BarrierComplete ==
    [][(pc[0] = "barrier" /\ pc'[0] = "idle") =>
          \A i \in 1 .. Len(kind) : kind[i] = Async => done[i]]_vars

\* workq_drain and async_barrier return: a task that is queued is run by a
\* worker or by the caller, also if the broadcast came before the task.
CallsReturn == pc[0] \notin {"idle", "joined"} ~> pc[0] \in {"idle", "joined"}
=============================================================================
