-------------------------------- MODULE Mspace --------------------------------
(***************************************************************************)
(* The garbage-collected heap (rt/mspace.c) and the suspension of all      *)
(* other threads that it relies on (stop_world and start_world, thread.c,  *)
(* with POSIX signals).                                                    *)
(*                                                                         *)
(* The heap is an array of lines, an object a run of lines whose first one *)
(* has its bit set in headmask.  A collection stops the world, marks what  *)
(* the registers, stacks, mptrs and TLABs of the program may point at      *)
(* (any word that looks like a pointer is one), makes a free list of the   *)
(* rest and starts the world.  The program is threads that allocate, link  *)
(* objects, keep pointers to their inside or just past their end, and are  *)
(* interrupted anywhere.                                                   *)
(*                                                                         *)
(* An address is the number of a word of the heap; a line has LineWords    *)
(* words, of which the program uses the first one for a pointer.  A mask   *)
(* is the set of its bits; MasksCorrect (BitMask.tla) says that the        *)
(* operations of mask.c compute what is written here.                      *)
(***************************************************************************)
EXTENDS BitMask, Functions, FiniteSets, Sequences

CONSTANTS
    Threads, Main,
    Allocators,     \* threads that use the heap
    LineWords,      \* LINE_SIZE
    MaxLines,       \* m->maxlines; one more line is the overrun margin
    Sizes,          \* sizes of objects, in words
    Junk,           \* words on the stacks that look like pointers
    TlabUsers,      \* those that use a TLAB too
    TlabWords,      \* words in a TLAB
    MaxAllocs       \* bound: objects asked for

ASSUME MspaceAssumption ==
    /\ Main \in Threads /\ Allocators \subseteq Threads
    /\ TlabUsers \subseteq Allocators
    /\ {LineWords, MaxLines} \subseteq Nat \ {0} /\ Sizes \subseteq Nat \ {0}
    /\ Junk \subseteq 0 .. (MaxLines + 1) * LineWords - 1
    /\ {TlabWords, MaxAllocs} \subseteq Nat

Null == -1
Lines == 0 .. MaxLines - 1
Addresses == 0 .. (MaxLines + 1) * LineWords - 1
LineOf(p) == p \div LineWords

VARIABLES
    \* stop_world and start_world
    thread,         \* of each thread: "none", "new" (in threads[], my_thread not
                    \* yet set), "live" or "gone"
    limit,          \* threads with a stack_limit
    stop_lock,      \* its holder, or "none"
    suspend, resume,\* threads with SIGSUSPEND, SIGRESUME pending
    handler,        \* of each thread: "no", "posted", "waiting" (in sigsuspend)
    stop_sem,
    \* the heap
    lock,           \* the holder of m->lock, or "none"
    headmask, free_list,
    mem,            \* the pointer in each line
    mptr,           \* the one mptr: <<>> when it is not in use, or <<pointer>>
    live_tlabs,     \* threads that have a TLAB
    tlab,           \* the pointers in it
    \* the threads
    pc, size, retry, signalled,
    reg, stk,       \* a pointer in a register and one on the stack
    cpu, markmask,  \* gc_state_t: registers at the time of suspension, marked lines
    allocs,
    objects         \* history: what mspace_alloc has returned, [base, size]

world == <<thread, limit, stop_lock, suspend, resume, handler, stop_sem>>
heap == <<headmask, free_list, objects>>
data == <<mem, mptr, live_tlabs, tlab, reg, stk>>
calls == <<size, retry, allocs>>
gc == <<cpu, markmask>>
vars == <<world, lock, heap, data, calls, pc, signalled, gc>>

Init ==
    /\ thread = [t \in Threads |-> IF t = Main THEN "live" ELSE "none"]
    /\ limit = {Main}
    /\ stop_lock = "none" /\ suspend = {} /\ resume = {}
    /\ handler = [t \in Threads |-> "no"] /\ stop_sem = 0
    /\ lock = "none"
    /\ headmask = Lines
    /\ free_list = <<[line |-> 0, lines |-> MaxLines]>>
    /\ mem = [l \in Lines |-> Null]
    /\ mptr = <<>> /\ live_tlabs = {} /\ tlab = [t \in Threads |-> <<>>]
    /\ pc = [t \in Threads |-> "run"]
    /\ size = [t \in Threads |-> 0] /\ retry = [t \in Threads |-> 0]
    /\ signalled = 0
    /\ reg = [t \in Threads |-> Null] /\ stk = [t \in Threads |-> Null]
    /\ cpu = [t \in Threads |-> Null] /\ markmask = {}
    /\ allocs = 0 /\ objects = {}

Registered == {t \in Threads : thread[t] \in {"new", "live"}}
Others(t) == Registered \ {t}
Running(t) == thread[t] = "live" /\ handler[t] = "no"
At(t, l) == Running(t) /\ pc[t] = l
Goto(t, l) == pc' = [pc EXCEPT ![t] = l]

TypeOK ==
    /\ thread \in [Threads -> {"none", "new", "live", "gone"}]
    /\ limit \subseteq Threads /\ {stop_lock, lock} \subseteq Threads \cup {"none"}
    /\ suspend \cup resume \subseteq Registered
    /\ handler \in [Threads -> {"no", "posted", "waiting"}]
    /\ stop_sem \in 0 .. Cardinality(Threads)
    /\ headmask \subseteq Lines /\ markmask \subseteq Lines
    /\ mem \in [Lines -> Addresses \cup {Null}]
    /\ {reg, stk, cpu} \subseteq [Threads -> Addresses \cup {Null}]
    /\ signalled \in 0 .. Cardinality(Threads) - 1
    /\ allocs \in 0 .. MaxAllocs

-----------------------------------------------------------------------------
(* Threads come and go, with stop_lock held. *)

\* thread_create, create_workers: thread_new and thread_start.
thread_create(t) ==
    /\ At(Main, "run") /\ thread[t] = "none" /\ stop_lock = "none"
    /\ thread' = [thread EXCEPT ![t] = "new"]
    /\ UNCHANGED <<limit, stop_lock, suspend, resume, handler, stop_sem, lock, heap,
                   data, calls, pc, signalled, gc>>

\* thread_wrapper sets my_thread, and the thread's function sets the limit of
\* its stack.
BeginThread(t) ==
    /\ thread[t] = "new" /\ handler[t] = "no"
    /\ thread' = [thread EXCEPT ![t] = "live"]
    /\ UNCHANGED <<limit, stop_lock, suspend, resume, handler, stop_sem, lock, heap,
                   data, calls, pc, signalled, gc>>

mspace_stack_limit(t) ==
    /\ At(t, "run") /\ t \notin limit
    /\ limit' = limit \cup {t}
    /\ UNCHANGED <<thread, stop_lock, suspend, resume, handler, stop_sem, lock, heap,
                   data, calls, pc, signalled, gc>>

\* thread_wrapper, when the function has returned.
EndThread(t) ==
    /\ At(t, "run") /\ t \in limit \ {Main} /\ stop_lock = "none"
    /\ t \notin live_tlabs
    /\ thread' = [thread EXCEPT ![t] = "gone"]
    /\ reg' = [reg EXCEPT ![t] = Null] /\ stk' = [stk EXCEPT ![t] = Null]
    /\ UNCHANGED <<limit, stop_lock, suspend, resume, handler, stop_sem, lock, heap,
                   mem, mptr, live_tlabs, tlab, calls, pc, signalled, gc>>

-----------------------------------------------------------------------------
(* suspend_handler, in a thread that was sent SIGSUSPEND *)

\* mspace_suspend_cb keeps the registers, unless my_thread is not yet set.
SuspendThread(t) ==
    /\ t \in suspend /\ handler[t] = "no"
    /\ suspend' = suspend \ {t}
    /\ cpu' = IF thread[t] = "live" THEN [cpu EXCEPT ![t] = reg[t]] ELSE cpu
    /\ stop_sem' = stop_sem + 1
    /\ handler' = [handler EXCEPT ![t] = "posted"]
    /\ UNCHANGED <<thread, limit, stop_lock, resume, lock, heap, data, calls, pc,
                   signalled, markmask>>

SigSuspend(t) ==
    /\ handler[t] = "posted"
    /\ handler' = [handler EXCEPT ![t] = "waiting"]
    /\ UNCHANGED <<thread, limit, stop_lock, suspend, resume, stop_sem, lock, heap,
                   data, calls, pc, signalled, gc>>

\* SIGRESUME is blocked but in sigsuspend, so one sent earlier is still pending.
ResumeThread(t) ==
    /\ handler[t] = "waiting" /\ t \in resume
    /\ resume' = resume \ {t}
    /\ stop_sem' = stop_sem + 1
    /\ handler' = [handler EXCEPT ![t] = "no"]
    /\ UNCHANGED <<thread, limit, stop_lock, suspend, lock, heap, data, calls, pc,
                   signalled, gc>>

-----------------------------------------------------------------------------
(* mspace_alloc *)

\* Mutant of NumLines: no room past the end.
NumLinesTight(n) == (n + LineWords - 1) \div LineWords

\* Room for a pointer to one element past the end.
NumLines(n) == (n + LineWords) \div LineWords

mspace_alloc(t, n) ==
    /\ At(t, "run") /\ t \in limit \cap Allocators /\ allocs < MaxAllocs
    /\ allocs' = allocs + 1
    /\ size' = [size EXCEPT ![t] = n]
    /\ retry' = [retry EXCEPT ![t] = 1]
    /\ Goto(t, "try")
    /\ UNCHANGED <<world, lock, heap, data, signalled, gc>>

\* The end of mspace_alloc, and of its local variables.
Leave(t) ==
    /\ Goto(t, "run")
    /\ size' = [size EXCEPT ![t] = 0] /\ retry' = [retry EXCEPT ![t] = 0]

\* mspace_try_alloc: first fit.
Fits(n) == {i \in DOMAIN free_list : free_list[i].lines >= n}

TakeLines(i, n) ==
    IF free_list[i].lines = n
    THEN SubSeq(free_list, 1, i - 1) \o SubSeq(free_list, i + 1, Len(free_list))
    ELSE [free_list EXCEPT ![i] = [line |-> @.line + n, lines |-> @.lines - n]]

mspace_try_alloc(t) ==
    LET n == NumLines(size[t])
    IN  /\ At(t, "try") /\ lock = "none"
        /\ IF Fits(n) = {}
           THEN Goto(t, "gc") /\ UNCHANGED <<heap, reg, size, retry>>
           ELSE LET i == Min(Fits(n))
                    line == free_list[i].line
                IN  /\ headmask' = headmask \ (line + 1 .. line + n - 1)
                    /\ free_list' = TakeLines(i, n)
                    /\ objects' = objects \cup {[base |-> line, size |-> size[t]]}
                    /\ reg' = [reg EXCEPT ![t] = line * LineWords]
                    /\ Leave(t)
        /\ UNCHANGED <<world, lock, mem, mptr, live_tlabs, tlab, stk, allocs,
                       signalled, gc>>

-----------------------------------------------------------------------------
(* mspace_gc *)

GcLock(t) ==
    /\ At(t, "gc") /\ lock = "none"
    /\ lock' = t
    /\ Goto(t, "stop")
    /\ UNCHANGED <<world, heap, data, calls, signalled, gc>>

\* One round of waiting for a post.
sem_timedwait ==
    IF stop_sem > 0
    THEN signalled' = signalled - 1 /\ stop_sem' = stop_sem - 1
    ELSE UNCHANGED <<signalled, stop_sem>>

\* stop_world: signal the other threads, wait until each has posted, then
\* capture_registers.
stop_world(t) ==
    /\ At(t, "stop") /\ stop_lock = "none"
    /\ stop_lock' = t
    /\ suspend' = Others(t) /\ signalled' = Cardinality(Others(t))
    /\ Goto(t, "stopping")
    /\ UNCHANGED <<thread, limit, resume, handler, stop_sem, lock, heap, data, calls,
                   gc>>

\* Mutant of WaitSuspended: marks without waiting for the posts.
WaitSuspendedNot(t) ==
    /\ At(t, "stopping")
    /\ cpu' = [cpu EXCEPT ![t] = reg[t]]
    /\ Goto(t, "mark")
    /\ UNCHANGED <<world, signalled, lock, heap, data, calls, markmask>>

WaitSuspended(t) ==
    /\ At(t, "stopping")
    /\ \/ /\ signalled > 0 /\ sem_timedwait
          /\ UNCHANGED <<pc, cpu>>
       \/ /\ signalled = 0
          /\ cpu' = [cpu EXCEPT ![t] = reg[t]]
          /\ Goto(t, "mark")
          /\ UNCHANGED <<signalled, stop_sem>>
    /\ UNCHANGED <<thread, limit, stop_lock, suspend, resume, handler, lock, heap,
                   data, calls, markmask>>

\* mspace_mark_root: the lines of the object that a word points into, if it does.
mspace_mark_root(p) ==
    IF p \in Addresses
    THEN LET head == Max({h \in headmask : h <= LineOf(p)})
         IN  {l \in Lines : head <= l /\ headmask \cap (head + 1 .. l) = {}}
    ELSE {}

\* The registers kept at suspension, the stacks, the mptr and the TLABs.
Roots ==
    UNION {{cpu[t], stk[t]} \cup Junk : t \in limit \cap Registered}
    \cup Range(mptr) \cup UNION {Range(tlab[t]) : t \in live_tlabs}

MarkAll(ps) == UNION {mspace_mark_root(p) : p \in ps}

MarkRoots(t) ==
    /\ At(t, "mark")
    /\ markmask' = MarkAll(Roots)
    /\ Goto(t, "scan")
    /\ UNCHANGED <<world, lock, heap, data, calls, signalled, cpu>>

\* The work list: the words of marked objects are roots too, until nothing is
\* added.
MarkWords(t) ==
    LET more == MarkAll({mem[l] : l \in markmask})
    IN  /\ At(t, "scan")
        /\ IF more \subseteq markmask
           THEN Goto(t, "sweep") /\ UNCHANGED markmask
           ELSE markmask' = markmask \cup more /\ UNCHANGED pc
        /\ UNCHANGED <<world, lock, heap, data, calls, signalled, cpu>>

\* The free list is made again from the lines that are not marked, which become
\* heads.
FreeRuns ==
    LET From[l \in 0 .. MaxLines] ==
            IF l = MaxLines THEN <<>>
            ELSE LET clear == Min({MaxLines} \cup {h \in markmask : h >= l}) - l
                 IN  IF clear = 0 THEN From[l + 1]
                     ELSE <<[line |-> l, lines |-> clear]>> \o From[l + clear]
    IN  From[0]

Sweep(t) ==
    /\ At(t, "sweep")
    /\ free_list' = FreeRuns
    /\ headmask' = headmask \cup (Lines \ markmask)
    /\ objects' = {o \in objects : o.base \in markmask}
    /\ markmask' = {}
    /\ Goto(t, "start")
    /\ UNCHANGED <<world, lock, data, calls, signalled, cpu>>

\* Mutant of start_world: SIGRESUME is not blocked, and lost on a thread that is
\* not yet in sigsuspend.
start_worldLost(t) ==
    /\ At(t, "start")
    /\ resume' = {u \in Others(t) : handler[u] = "waiting"}
    /\ signalled' = Cardinality(Others(t))
    /\ Goto(t, "starting")
    /\ UNCHANGED <<thread, limit, stop_lock, suspend, handler, stop_sem, lock, heap,
                   data, calls, gc>>

start_world(t) ==
    /\ At(t, "start")
    /\ resume' = Others(t) /\ signalled' = Cardinality(Others(t))
    /\ Goto(t, "starting")
    /\ UNCHANGED <<thread, limit, stop_lock, suspend, handler, stop_sem, lock, heap,
                   data, calls, gc>>

\* Both locks are free when all threads have left sigsuspend.  mspace_alloc tries
\* again once; with no room then it collects a second time and calls the handler
\* for lack of memory.
WaitResumed(t) ==
    /\ At(t, "starting")
    /\ \/ /\ signalled > 0 /\ sem_timedwait
          /\ UNCHANGED <<stop_lock, lock, pc, size, retry, cpu>>
       \/ /\ signalled = 0
          /\ stop_lock' = "none" /\ lock' = "none"
          /\ cpu' = [u \in Threads |-> Null]
          /\ IF retry[t] = 0 THEN Leave(t)
             ELSE /\ retry' = [retry EXCEPT ![t] = @ - 1]
                  /\ Goto(t, "try")
                  /\ UNCHANGED size
          /\ UNCHANGED <<signalled, stop_sem>>
    /\ UNCHANGED <<thread, limit, suspend, resume, handler, heap, data, allocs,
                   markmask>>

-----------------------------------------------------------------------------
(* What a program does with its pointers *)

ObjectAt(p) ==
    CHOOSE o \in objects : LineOf(p) \in o.base .. o.base + NumLines(o.size) - 1
Mutates(t) == At(t, "run") /\ t \in limit \cap Allocators

\* Keep the new object, linked to the old one.
Link(t) ==
    /\ Mutates(t) /\ reg[t] # Null
    /\ mem' = [mem EXCEPT ![ObjectAt(reg[t]).base] = stk[t]]
    /\ stk' = [stk EXCEPT ![t] = reg[t]]
    /\ reg' = [reg EXCEPT ![t] = Null]
    /\ UNCHANGED <<world, lock, heap, mptr, live_tlabs, tlab, calls, pc, signalled, gc>>

\* Go on to one past the end of an object; follow a link.
Advance(t) ==
    /\ Mutates(t) /\ stk[t] # Null
    /\ LET o == ObjectAt(stk[t])
       IN  stk' \in {[stk EXCEPT ![t] = o.base * LineWords + o.size],
                     [stk EXCEPT ![t] = mem[o.base]]}
    /\ UNCHANGED <<world, lock, heap, mem, mptr, live_tlabs, tlab, reg, calls, pc, signalled,
                   gc>>

\* mptr_new, mptr_get, mptr_free
mptr_new(t) ==
    /\ Mutates(t) /\ mptr = <<>> /\ lock = "none"
    /\ mptr' = <<Null>>
    /\ UNCHANGED <<world, lock, heap, mem, live_tlabs, tlab, reg, stk, calls, pc, signalled, gc>>

MoveToMptr(t) ==
    /\ Mutates(t) /\ mptr = <<Null>> /\ stk[t] # Null
    /\ mptr' = <<stk[t]>>
    /\ stk' = [stk EXCEPT ![t] = Null]
    /\ UNCHANGED <<world, lock, heap, mem, live_tlabs, tlab, reg, calls, pc, signalled, gc>>

mptr_free(t) ==
    /\ Mutates(t) /\ mptr # <<>> /\ lock = "none"
    /\ stk' = [stk EXCEPT ![t] = mptr[1]]
    /\ mptr' = <<>>
    /\ UNCHANGED <<world, lock, heap, mem, live_tlabs, tlab, reg, calls, pc, signalled, gc>>

\* tlab_acquire, tlab_alloc of a word for a pointer, tlab_reset and tlab_release
tlab_acquire(t) ==
    /\ Mutates(t) /\ t \in TlabUsers \ live_tlabs /\ lock = "none"
    /\ live_tlabs' = live_tlabs \cup {t} /\ tlab' = [tlab EXCEPT ![t] = <<>>]
    /\ UNCHANGED <<world, lock, heap, mem, mptr, reg, stk, calls, pc, signalled, gc>>

tlab_alloc(t) ==
    /\ Mutates(t) /\ t \in live_tlabs /\ Len(tlab[t]) < TlabWords
    /\ stk[t] # Null
    /\ tlab' = [tlab EXCEPT ![t] = Append(@, stk[t])]
    /\ stk' = [stk EXCEPT ![t] = Null]
    /\ UNCHANGED <<world, lock, heap, mem, mptr, live_tlabs, reg, calls, pc, signalled, gc>>

tlab_release(t) ==
    /\ Mutates(t) /\ t \in live_tlabs /\ lock = "none"
    /\ stk' = [stk EXCEPT ![t] = IF tlab[t] = <<>> THEN @ ELSE tlab[t][1]]
    /\ live_tlabs' = live_tlabs \ {t} /\ tlab' = [tlab EXCEPT ![t] = <<>>]
    /\ UNCHANGED <<world, lock, heap, mem, mptr, reg, calls, pc, signalled, gc>>

-----------------------------------------------------------------------------
Finished ==
    /\ \A t \in Threads : thread[t] # "gone" => t = Main
    /\ pc[Main] = "run" /\ allocs = MaxAllocs
    /\ UNCHANGED vars

\* What a thread does without being asked to.
Step(t) ==
    \/ BeginThread(t) \/ SuspendThread(t) \/ SigSuspend(t) \/ ResumeThread(t)
    \/ mspace_try_alloc(t) \/ GcLock(t) \/ stop_world(t) \/ WaitSuspended(t)
    \/ MarkRoots(t) \/ MarkWords(t) \/ Sweep(t) \/ start_world(t) \/ WaitResumed(t)

Mutate(t) ==
    \/ Link(t) \/ Advance(t) \/ mptr_new(t) \/ MoveToMptr(t) \/ mptr_free(t)
    \/ tlab_acquire(t) \/ tlab_alloc(t) \/ tlab_release(t)

Next ==
    \/ \E t \in Threads :
          \/ Step(t) \/ Mutate(t)
          \/ thread_create(t) \/ mspace_stack_limit(t) \/ EndThread(t)
          \/ \E n \in Sizes : mspace_alloc(t, n)
    \/ Finished

Spec == Init /\ [][Next]_vars

\* Threads are scheduled and signals delivered.
FairSpec == Spec /\ \A t \in Threads : WF_vars(Step(t))

-----------------------------------------------------------------------------
(* Properties *)

\* Between stop_world and start_world every other thread is in its handler, and
\* what the collector knows of its registers is true.  A thread that has not yet
\* set my_thread has nothing in them.
HandlersEntered ==
    \A t \in Threads : pc[t] \in {"mark", "scan", "sweep", "start"} =>
        \A u \in Others(t) : handler[u] # "no" /\ cpu[u] = reg[u]

\* stop_sem is back at zero when stop_world begins, when it returns and when
\* start_world returns: no post is left over for the next collection (the four
\* assertions of sem_trywait).
SemaphoreBalanced ==
    (stop_lock = "none"
     \/ \E t \in Threads : pc[t] \in {"mark", "scan", "sweep", "start"} \/ (pc[t] \in {"stopping",
                                      "starting"} /\ signalled = 0))
    => stop_sem = 0 /\ suspend = {} /\ resume = {}

\* The world is stopped while it is said to be, collection after collection.
WorldStopped == TypeOK /\ HandlersEntered /\ SemaphoreBalanced

\* Every object that the program can get at, from a register, the stack, the
\* mptr, a TLAB or another object, through a pointer to its inside or one past
\* its end, was not freed and still has its extent: no thread is given it again.
\* What a new object holds, before the program has written it, does not count.
Kept == Range(mptr) \cup UNION {{stk[t]} \cup Range(tlab[t]) : t \in Threads}

LiveKept ==
    LET free == UNION {f.line .. f.line + f.lines - 1 : f \in Range(free_list)}
        intact(p) == \E o \in objects :
            LET lines == o.base .. o.base + NumLines(o.size) - 1
            IN  /\ LineOf(p) \in lines /\ lines \cap free = {}
                /\ headmask \cap lines = {o.base}
        Reach[n \in 0 .. MaxLines] ==
            IF n = 0 THEN Kept \ {Null}
            ELSE LET ps == Reach[n - 1]
                 IN  ps \cup ({mem[ObjectAt(p).base] : p \in {q \in ps : intact(q)}}
                              \ {Null})
    IN  \A p \in Reach[MaxLines] \cup (Range(reg) \ {Null}) : intact(p)

\* The free list is in order, its runs are not empty, lie apart, are made of heads
\* and share no line with an object, whatever was allocated and collected.
FreeListExact ==
    LET lines(f) == f.line .. f.line + f.lines - 1
        taken == UNION {o.base .. o.base + NumLines(o.size) - 1 : o \in objects}
        free == UNION {lines(f) : f \in Range(free_list)}
    IN  /\ \A i \in DOMAIN free_list :
              /\ free_list[i].lines > 0 /\ lines(free_list[i]) \subseteq headmask
              /\ i > 1 => free_list[i - 1].line + free_list[i - 1].lines
                          <= free_list[i].line
        /\ free \cap taken = {} /\ free \subseteq Lines

\* No line is free and in use at once, and none that is needed is free.
HeapSound == LiveKept /\ FreeListExact

\* A call of mspace_alloc returns, with memory or without, whoever else collects,
\* starts or ends meanwhile: every thread that is suspended is resumed.
AllocReturns == \A t \in Threads : pc[t] # "run" ~> pc[t] = "run"
=============================================================================
