------------------------------ MODULE JitCompile ------------------------------
(***************************************************************************)
(* Lazy compilation in the JIT (jit-core.c, jit-irgen.c, jit-pack.c).      *)
(*                                                                         *)
(* jit_lazy_compile gives a name a handle and a placeholder function;      *)
(* jit_fill_irbuf generates its intermediate code the first time it is     *)
(* needed, in the thread that gets there first, while the others wait.     *)
(* Generating code for a function may need the variable offsets (linktab)  *)
(* of another: irgen_op_var_upref takes them as soon as they are published *)
(* and irgen_op_link_var when the other function is complete; both compile *)
(* the other function if nobody has.  Hot functions are given to a         *)
(* background task that generates machine code; jit_free waits for it.     *)
(*                                                                         *)
(* A call is a frame of the thread's stack: lookup, jit_get_func,          *)
(* jit_fill_irbuf and what that calls.  The name index is the atomic map   *)
(* of CHash.tla, the background tasks are those of ThreadPool.tla.         *)
(***************************************************************************)
EXTENDS Naturals, Sequences, FiniteSets

CONSTANTS
    Threads,
    Funcs,          \* names of functions
    Roots,          \* those that the program asks for
    Calls,          \* Calls[f]: functions whose handles f needs
    Uprefs,         \* functions whose offsets it takes as soon as possible
    Links,          \* functions it needs complete
    Packed,         \* functions found in the pack (jit_pack_fill)
    Missing,        \* functions without a body in the library
    ListSize,       \* FUNC_LIST_SZ
    MaxCalls        \* bound: calls made by a thread

Handles(f) == {<<"name", g>> : g \in Calls[f]}
Needs(f) == Handles(f) \cup {<<"upref", g>> : g \in Uprefs[f]}
                       \cup {<<"link", g>> : g \in Links[f]}

\* f cannot be reached from itself through a step of R.
Reach(R, f) ==
    LET next(S) == S \cup UNION {R[g] : g \in S}
        Iter[n \in 0 .. Cardinality(Funcs)] ==
            IF n = 0 THEN R[f] ELSE next(Iter[n - 1])
    IN  Iter[Cardinality(Funcs)]

\* Packages are analysed before the units that use them: no chain of references
\* leads from a linked unit back to the unit that links it.  Early references
\* may be circular.  A packed function is referenced early by packed ones only.
ASSUME JitAssumption ==
    /\ {Calls, Uprefs, Links} \subseteq [Funcs -> SUBSET Funcs]
    /\ \A f \in Funcs : \A g \in Links[f] :
          f # g /\ f \notin Reach([h \in Funcs |-> Uprefs[h] \cup Links[h]], g)
    /\ \A f \in Funcs \ Packed : Uprefs[f] \cap Packed = {}
    /\ ListSize \in Nat \ {0} /\ Roots \cup Packed \cup Missing \subseteq Funcs

VARIABLES
    state,          \* f->state, "none" before there is a jit_func_t
    linktab, ir,    \* f->linktab, f->irbuf: "none", "partial" or "full"
    handle, next_handle,
    length, items,  \* j->funcs: its length, the functions stored
    index,          \* names in j->index
    lock,           \* j->lock is held
    stack, calls,   \* of each thread, the innermost frame first
    hot, tasks,     \* functions given to jit_tier_up, tasks not finished
    cgen,           \* the task a worker runs: <<>> or <<f, pc>>
    shutdown, freed,
    exiting,        \* fatal_exit was called
    starts          \* history: how often a function was compiled

vars == <<state, linktab, ir, handle, next_handle, length, items, index, lock,
          stack, calls, hot, tasks, cgen, shutdown, freed, exiting, starts>>

code == <<state, linktab, ir, starts>>
names == <<handle, next_handle, length, items, index>>
tiers == <<hot, tasks, cgen, shutdown, freed>>

Phases == {"none", "partial", "full"}

TypeOK ==
    /\ state \in [Funcs -> {"none", "PLACEHOLDER", "COMPILING", "READY", "ERROR"}]
    /\ linktab \in [Funcs -> Phases] /\ ir \in [Funcs -> Phases]
    /\ handle \in [Funcs -> 0 .. Cardinality(Funcs)]
    /\ next_handle \in 0 .. Cardinality(Funcs)
    /\ length \in Nat /\ items \subseteq Funcs /\ index \subseteq Funcs
    /\ lock \in BOOLEAN
    /\ calls \in [Threads -> 0 .. MaxCalls]
    /\ hot \subseteq Funcs /\ tasks \subseteq Funcs
    /\ {shutdown, freed, exiting} \subseteq BOOLEAN
    /\ starts \in [Funcs -> Nat]

Init ==
    /\ state = [f \in Funcs |-> "none"]
    /\ linktab = [f \in Funcs |-> "none"] /\ ir = [f \in Funcs |-> "none"]
    /\ handle = [f \in Funcs |-> 0] /\ next_handle = 0
    /\ length = ListSize /\ items = {} /\ index = {}
    /\ lock = FALSE
    /\ stack = [t \in Threads |-> <<>>] /\ calls = [t \in Threads |-> 0]
    /\ hot = {} /\ tasks = {} /\ cgen = <<>>
    /\ shutdown = FALSE /\ freed = FALSE /\ exiting = FALSE
    /\ starts = [f \in Funcs |-> 0]

-----------------------------------------------------------------------------
(* Frames *)

Frame(mode, f) == [mode |-> mode, func |-> f, pc |-> "lookup", needs |-> {}]
Top(t) == stack[t][1]
At(t, l) == stack[t] # <<>> /\ Top(t).pc = l
F(t) == Top(t).func
Goto(t, l) == stack' = [stack EXCEPT ![t][1].pc = l]

\* jit_compile, jit_interp: the program needs the code of a function.
jit_compile(t, f) ==
    /\ stack[t] = <<>> /\ calls[t] < MaxCalls /\ ~shutdown
    /\ calls' = [calls EXCEPT ![t] = @ + 1]
    /\ stack' = [stack EXCEPT ![t] = <<Frame("call", f)>>]
    /\ UNCHANGED <<code, names, lock, tiers, exiting>>

Return(t) ==
    /\ At(t, "done")
    /\ stack' = [stack EXCEPT ![t] = Tail(@)]
    /\ UNCHANGED <<code, names, lock, calls, tiers, exiting>>

-----------------------------------------------------------------------------
(* jit_lazy_compile *)

\* Generating a call needs no more of a function than its handle.
Named(t) == IF Top(t).mode = "name" THEN "done" ELSE "get"

\* Without the lock first.
LookupName(t) ==
    /\ At(t, "lookup")
    /\ Goto(t, IF F(t) \in index THEN Named(t) ELSE "lock")
    /\ UNCHANGED <<code, names, lock, calls, tiers, exiting>>

\* jit_lazy_compile_locked: look again, then make a placeholder.  jit_install
\* makes room in the list ...
AddFunction(t) ==
    LET f == F(t)
    IN  /\ At(t, "lock") /\ ~lock
        /\ \/ /\ f \in index
              /\ Goto(t, Named(t))
              /\ UNCHANGED <<state, handle, next_handle, length, lock>>
           \/ /\ f \notin index
              /\ lock' = TRUE
              /\ state' = [state EXCEPT ![f] = "PLACEHOLDER"]
              /\ handle' = [handle EXCEPT ![f] = next_handle]
              /\ next_handle' = next_handle + 1
              /\ length' = IF next_handle < length THEN length
                          ELSE CHOOSE n \in {next_handle + 1, 2 * length} :
                                  n >= next_handle + 1 /\ n >= 2 * length
              /\ Goto(t, "item")
        /\ UNCHANGED <<linktab, ir, starts, items, index, calls, tiers, exiting>>

\* Mutant of StoreItem: the name is told first.
StoreItemLate(t) ==
    /\ At(t, "item")
    /\ IF F(t) \in index
       THEN items' = items \cup {F(t)} /\ Goto(t, "index") /\ UNCHANGED index
       ELSE index' = index \cup {F(t)} /\ UNCHANGED <<items, stack>>
    /\ UNCHANGED <<code, handle, next_handle, length, lock, calls, tiers,
                   exiting>>

\* ... stores the function ...
StoreItem(t) ==
    /\ At(t, "item")
    /\ items' = items \cup {F(t)}
    /\ Goto(t, "index")
    /\ UNCHANGED <<code, handle, next_handle, length, index, lock, calls, tiers,
                   exiting>>

\* ... and only then tells its name.
StoreName(t) ==
    /\ At(t, "index")
    /\ index' = index \cup {F(t)}
    /\ lock' = FALSE
    /\ Goto(t, Named(t))
    /\ UNCHANGED <<code, handle, next_handle, length, items, calls, tiers,
                   exiting>>

\* jit_get_func; an early reference is content with a published linktab.
jit_get_func(t) ==
    /\ At(t, "get")
    /\ Goto(t, IF Top(t).mode = "upref" /\ linktab[F(t)] # "none"
               THEN "done" ELSE "fill")
    /\ UNCHANGED <<code, names, lock, calls, tiers, exiting>>

-----------------------------------------------------------------------------
(* jit_fill_irbuf *)

LoadState(t) ==
    /\ At(t, "fill")
    /\ Goto(t, CASE state[F(t)] = "READY" -> "done"
                 [] state[F(t)] = "PLACEHOLDER" -> "claim"
                 [] state[F(t)] = "COMPILING" -> "wait"
                 [] state[F(t)] = "ERROR" -> "missing")
    /\ UNCHANGED <<code, names, lock, calls, tiers, exiting>>

\* The winner of the compare-and-swap compiles.
Claim(t) ==
    LET f == F(t)
    IN  /\ At(t, "claim")
        /\ \/ /\ state[f] = "PLACEHOLDER"
              /\ state' = [state EXCEPT ![f] = "COMPILING"]
              /\ starts' = [starts EXCEPT ![f] = @ + 1]
              /\ Goto(t, IF f \in Packed THEN "unpack" ELSE "mir")
           \/ /\ state[f] # "PLACEHOLDER"
              /\ Goto(t, "wait")
              /\ UNCHANGED <<state, starts>>
        /\ UNCHANGED <<linktab, ir, names, lock, calls, tiers, exiting>>

\* The others look at the state every 100 microseconds.
WaitReady(t) ==
    /\ At(t, "wait")
    /\ IF state[F(t)] = "READY" THEN Goto(t, "done") ELSE UNCHANGED stack
    /\ UNCHANGED <<code, names, lock, calls, tiers, exiting>>

\* mir_get_unit, or unit_registry_get under the lock.
GetUnit(t) ==
    LET f == F(t)
    IN  /\ At(t, "mir") /\ ~lock
        /\ \/ /\ f \in Missing
              /\ state' = [state EXCEPT ![f] = "ERROR"]
              /\ Goto(t, "missing")
           \/ /\ f \notin Missing
              /\ Goto(t, "locals")
              /\ UNCHANGED state
        /\ UNCHANGED <<linktab, ir, starts, names, lock, calls, tiers, exiting>>

\* jit_missing_unit: a fatal error, and jit_abort of a thread that is compiling
\* ends the program.
jit_missing_unit(t) ==
    /\ At(t, "missing")
    /\ exiting' = TRUE
    /\ UNCHANGED <<code, names, lock, stack, calls, tiers>>

\* Mutant of irgen_locals: the table is published before it is filled.
irgen_localsEarly(t) ==
    LET f == F(t)
    IN  /\ At(t, "locals")
        /\ linktab' = [linktab EXCEPT ![f] = IF @ = "none" THEN "partial" ELSE "full"]
        /\ ir' = [ir EXCEPT ![f] = "partial"]
        /\ IF linktab[f] = "none" THEN UNCHANGED stack
           ELSE stack' = [stack EXCEPT ![t][1].pc = "blocks",
                                       ![t][1].needs = Needs(f)]
        /\ UNCHANGED <<state, starts, names, lock, calls, tiers, exiting>>

\* Mutant of irgen_locals: the table is not published before the end.
irgen_localsUnpublished(t) ==
    LET f == F(t)
    IN  /\ At(t, "locals")
        /\ ir' = [ir EXCEPT ![f] = "partial"]
        /\ stack' = [stack EXCEPT ![t][1].pc = "blocks", ![t][1].needs = Needs(f)]
        /\ UNCHANGED <<linktab, state, starts, names, lock, calls, tiers, exiting>>

\* irgen_locals: "Publish the variable offset table early to handle circular
\* references".  Code is generated from here on.
irgen_locals(t) ==
    LET f == F(t)
    IN  /\ At(t, "locals")
        /\ linktab' = [linktab EXCEPT ![f] = "full"]
        /\ ir' = [ir EXCEPT ![f] = "partial"]
        /\ stack' = [stack EXCEPT ![t][1].pc = "blocks", ![t][1].needs = Needs(f)]
        /\ UNCHANGED <<state, starts, names, lock, calls, tiers, exiting>>

\* irgen_get_handle, irgen_op_var_upref, irgen_op_link_var, and the handles that
\* unpack_value resolves.
Reference(t) ==
    /\ At(t, "blocks")
    /\ \E n \in Top(t).needs :
          stack' = [stack EXCEPT ![t] =
              <<Frame(n[1], n[2])>> \o [@ EXCEPT ![1].needs = @ \ {n}]]
    /\ UNCHANGED <<code, names, lock, calls, tiers, exiting>>

\* The ends of jit_irgen and of jit_pack_fill.
StoreReady(t) ==
    LET f == F(t)
    IN  /\ At(t, "blocks") /\ Top(t).needs = {}
        /\ ir' = [ir EXCEPT ![f] = "full"]
        /\ state' = [state EXCEPT ![f] = "READY"]
        /\ Goto(t, "done")
        /\ UNCHANGED <<linktab, starts, names, lock, calls, tiers, exiting>>

\* jit_pack_fill: the buffers are allocated, then the offsets are read into the
\* table that others can already see, then the code.
UnpackAlloc(t) ==
    LET f == F(t)
    IN  /\ At(t, "unpack")
        /\ linktab' = [linktab EXCEPT ![f] = "partial"]
        /\ ir' = [ir EXCEPT ![f] = "partial"]
        /\ Goto(t, "table")
        /\ UNCHANGED <<state, starts, names, lock, calls, tiers, exiting>>

UnpackTable(t) ==
    LET f == F(t)
    IN  /\ At(t, "table")
        /\ linktab' = [linktab EXCEPT ![f] = "full"]
        /\ stack' = [stack EXCEPT ![t][1].pc = "blocks", ![t][1].needs = Handles(f)]
        /\ UNCHANGED <<state, ir, starts, names, lock, calls, tiers, exiting>>

-----------------------------------------------------------------------------
(* Machine code in the background, and the end of the JIT *)

\* jit_tier_up: once for a function, when its code has run often enough.
jit_tier_up(t) ==
    /\ At(t, "done") /\ Len(stack[t]) = 1 /\ F(t) \notin hot
    /\ hot' = hot \cup {F(t)}
    /\ tasks' = tasks \cup {F(t)}
    /\ UNCHANGED <<code, names, lock, stack, calls, cgen, shutdown, freed,
                   exiting>>

\* jit_async_cgen: a worker looks at shutdown, then generates code.
CgenCheck ==
    /\ cgen = <<>>
    /\ \E f \in tasks :
          IF shutdown THEN tasks' = tasks \ {f} /\ UNCHANGED cgen
                      ELSE cgen' = <<f>> /\ UNCHANGED tasks
    /\ UNCHANGED <<code, names, lock, stack, calls, hot, shutdown, freed, exiting>>

CgenDone ==
    /\ cgen # <<>>
    /\ tasks' = tasks \ {cgen[1]}
    /\ cgen' = <<>>
    /\ UNCHANGED <<code, names, lock, stack, calls, hot, shutdown, freed, exiting>>

\* jit_free, when the program runs no more code.
SetShutdown ==
    /\ \A t \in Threads : stack[t] = <<>>
    /\ ~shutdown
    /\ shutdown' = TRUE
    /\ UNCHANGED <<code, names, lock, stack, calls, hot, tasks, cgen, freed,
                   exiting>>

\* After async_barrier the functions are freed.
FreeFunctions ==
    /\ shutdown /\ ~freed /\ tasks = {}
    /\ freed' = TRUE
    /\ UNCHANGED <<code, names, lock, stack, calls, hot, tasks, cgen, shutdown,
                   exiting>>

Finished == (freed \/ exiting) /\ UNCHANGED vars

-----------------------------------------------------------------------------
Step(t) ==
    /\ ~exiting
    /\ \/ LookupName(t) \/ AddFunction(t) \/ StoreItem(t) \/ StoreName(t)
       \/ jit_get_func(t) \/ LoadState(t) \/ Claim(t) \/ WaitReady(t)
       \/ GetUnit(t) \/ jit_missing_unit(t) \/ irgen_locals(t) \/ Reference(t) \/ StoreReady(t)
       \/ UnpackAlloc(t) \/ UnpackTable(t) \/ Return(t)

Background == ~exiting /\ (CgenCheck \/ CgenDone)

Next ==
    \/ \E t \in Threads : Step(t)
    \/ /\ ~exiting
       /\ \/ \E t \in Threads, f \in Roots : jit_compile(t, f)
          \/ \E t \in Threads : jit_tier_up(t)
          \/ SetShutdown \/ FreeFunctions
    \/ Background
    \/ Finished

Spec == Init /\ [][Next]_vars

\* Threads and workers are scheduled.
FairSpec ==
    /\ Spec
    /\ \A t \in Threads : WF_vars(Step(t))
    /\ WF_vars(Background)

-----------------------------------------------------------------------------
(* Properties *)

\* A handle is given to a name once, and whoever learns it, with or without the
\* lock, finds the function in the list (the assertions of jit_get_func), also
\* while the list is replaced by a longer one; no background task is left with
\* a function when jit_free frees them.
HandlesValid ==
    /\ \A f \in Funcs, g \in Funcs :
          (f \in index /\ g \in index /\ handle[f] = handle[g]) => f = g
    /\ \A t \in Threads :
          At(t, "get") => handle[F(t)] < length /\ F(t) \in items
    /\ freed => cgen = <<>> /\ tasks = {}

\* A function is compiled by one thread (assert(f->irbuf == NULL)), and whoever
\* needs its code goes on with all of it.
CompiledOnce ==
    /\ \A f \in Funcs : starts[f] <= 1
    /\ \A t \in Threads :
          (At(t, "done") /\ Top(t).mode \in {"call", "link"}) => ir[F(t)] = "full"

\* The offsets an early reference takes are there and complete (assert(tab) in
\* irgen_op_var_upref), although the function may still be compiling.
OffsetsComplete ==
    \A t \in Threads :
        (At(t, "done") /\ Top(t).mode = "upref") => linktab[F(t)] = "full"

\* What a thread goes on with, code or offsets, was made once and is complete.
CodeComplete == TypeOK /\ CompiledOnce /\ OffsetsComplete

\* Every compilation ends, in one thread or several, however the functions refer
\* to each other early: a thread waits only for a function that had not yet
\* published its offsets when the thread had published all of its own.
CompileReturns ==
    \A t \in Threads : stack[t] # <<>> ~> (stack[t] = <<>> \/ exiting)
=============================================================================
