------------------------------ MODULE WorkDeque ------------------------------
(***************************************************************************)
(* The work stealing deque of thread.c: its owner fills it from the global *)
(* queue with push_bot and empties it with pop_bot, the other threads      *)
(* steal with pop_top.  Every atomic access of the code is one step.       *)
(***************************************************************************)
EXTENDS Integers, FiniteSets

CONSTANTS
  Thieves,
  Size,      \* THREADQ_SIZE
  Rounds,    \* bound on the number of batches
  TagMod,    \* 2^32 in the code
  Torn       \* a slot that push_bot is copying to

ASSUME DequeAssumption ==
  /\ Size \in Nat \ {0} /\ Rounds \in Nat /\ TagMod \in Nat \ {0}
  /\ Torn \notin Nat \X Nat

VARIABLES
  deque, bot, top, tag,
  round, batch,      \* the batch being pushed and its length
  pc,                \* of the owner
  new_bot, task, old_age,          \* its locals in pop_bot
  tpc, t_age, t_task,              \* the thieves and their locals in pop_top
  pushed,            \* the tasks published so far
  taken              \* how often each task was returned to a caller

shared == <<deque, bot, top, tag>>
owner  == <<round, batch, pc, new_bot, task, old_age>>
thief  == <<tpc, t_age, t_task>>
vars   == <<shared, owner, thief, pushed, taken>>

Slots == 0 .. Size - 1
Tasks == (1 .. Rounds) \X Slots
Age   == [top |-> top, tag |-> tag]

Init ==
  /\ deque = [i \in Slots |-> Torn]
  /\ bot = 0 /\ top = 0 /\ tag = 0
  /\ round = 0 /\ batch = 0 /\ pc = "empty"
  /\ new_bot = 0 /\ task = Torn /\ old_age = Age
  /\ tpc = [w \in Thieves |-> "idle"]
  /\ t_age = [w \in Thieves |-> Age]
  /\ t_task = [w \in Thieves |-> Torn]
  /\ pushed = {} /\ taken = [k \in Tasks |-> 0]

Return(k) == taken' = [taken EXCEPT ![k] = @ + 1]

-----------------------------------------------------------------------------
(* globalq_take takes at most THREADQ_SIZE tasks and calls push_bot, whose *)
(* assertion that they fit is part of TypeOK.  The slots are undefined     *)
(* while memcpy runs.                                                      *)
PushCopy(n) ==
  /\ pc = "empty" /\ round < Rounds
  /\ round' = round + 1 /\ batch' = n
  /\ deque' = [i \in Slots |-> IF i \in bot .. bot + n - 1 THEN Torn
                               ELSE deque[i]]
  /\ pc' = "copy"
  /\ UNCHANGED <<bot, top, tag, new_bot, task, old_age, thief, pushed, taken>>

PushCopied ==
  /\ pc = "copy"
  /\ deque' = [i \in Slots |-> IF i \in bot .. bot + batch - 1
                               THEN <<round, i - bot>> ELSE deque[i]]
  /\ pc' = "publish"
  /\ UNCHANGED <<bot, top, tag, round, batch, new_bot, task, old_age, thief,
                 pushed, taken>>

PushPublish ==
  /\ pc = "publish"
  /\ bot' = bot + batch
  /\ pushed' = pushed \cup ({round} \X (0 .. batch - 1))
  /\ pc' = "pop"
  /\ UNCHANGED <<deque, top, tag, round, batch, new_bot, task, old_age, thief,
                 taken>>

(* pop_bot: globalq_poll calls it until it returns false.                  *)
PopStore ==
  /\ pc = "pop"
  /\ IF bot = 0
     THEN pc' = "empty" /\ UNCHANGED <<bot, new_bot, task>>
     ELSE /\ new_bot' = bot - 1
          /\ bot' = bot - 1
          /\ task' = deque[bot - 1]
          /\ pc' = "load"
  /\ UNCHANGED <<deque, top, tag, round, batch, old_age, thief, pushed,
                 taken>>

(* Mutant: the last task is taken without a race with the thieves.         *)
PopLoadNoRace ==
  /\ pc = "load"
  /\ old_age' = Age
  /\ IF new_bot >= top
     THEN Return(task) /\ pc' = "pop"
     ELSE UNCHANGED taken /\ pc' = "clear"
  /\ UNCHANGED <<shared, round, batch, new_bot, task, thief, pushed>>

PopLoad ==
  /\ pc = "load"
  /\ old_age' = Age
  /\ IF new_bot > top
     THEN Return(task) /\ pc' = "pop"
     ELSE UNCHANGED taken /\ pc' = "clear"
  /\ UNCHANGED <<shared, round, batch, new_bot, task, thief, pushed>>

PopClear ==
  /\ pc = "clear"
  /\ bot' = 0
  /\ pc' = IF new_bot = old_age.top THEN "cas" ELSE "reset"
  /\ UNCHANGED <<deque, top, tag, round, batch, new_bot, task, old_age, thief,
                 pushed, taken>>

NewTag == (old_age.tag + 1) % TagMod

PopCas ==
  /\ pc = "cas"
  /\ IF Age = old_age
     THEN top' = 0 /\ tag' = NewTag /\ Return(task) /\ pc' = "pop"
     ELSE pc' = "reset" /\ UNCHANGED <<top, tag, taken>>
  /\ UNCHANGED <<deque, bot, round, batch, new_bot, task, old_age, thief,
                 pushed>>

(* Mutant: the tag is not changed when the deque is found empty.           *)
PopResetSameTag ==
  /\ pc = "reset"
  /\ top' = 0 /\ tag' = old_age.tag
  /\ pc' = "empty"
  /\ UNCHANGED <<deque, bot, round, batch, new_bot, task, old_age, thief,
                 pushed, taken>>

PopReset ==
  /\ pc = "reset"
  /\ top' = 0 /\ tag' = NewTag
  /\ pc' = "empty"
  /\ UNCHANGED <<deque, bot, round, batch, new_bot, task, old_age, thief,
                 pushed, taken>>

-----------------------------------------------------------------------------
(* pop_top.                                                                *)
StealAge(w) ==
  /\ tpc[w] = "idle"
  /\ t_age' = [t_age EXCEPT ![w] = Age]
  /\ tpc' = [tpc EXCEPT ![w] = "bot"]
  /\ UNCHANGED <<shared, owner, t_task, pushed, taken>>

StealBot(w) ==
  /\ tpc[w] = "bot"
  /\ tpc' = [tpc EXCEPT ![w] = IF bot <= t_age[w].top THEN "idle" ELSE "read"]
  /\ UNCHANGED <<shared, owner, t_age, t_task, pushed, taken>>

StealRead(w) ==
  /\ tpc[w] = "read"
  /\ t_task' = [t_task EXCEPT ![w] = deque[t_age[w].top]]
  /\ tpc' = [tpc EXCEPT ![w] = "cas"]
  /\ UNCHANGED <<shared, owner, t_age, pushed, taken>>

StealCas(w) ==
  /\ tpc[w] = "cas"
  /\ tpc' = [tpc EXCEPT ![w] = "idle"]
  /\ IF Age = t_age[w]
     THEN top' = top + 1 /\ Return(t_task[w])
     ELSE UNCHANGED <<top, taken>>
  /\ UNCHANGED <<deque, bot, tag, owner, t_age, t_task, pushed>>

-----------------------------------------------------------------------------
Next ==
  \/ \E n \in 1 .. Size : PushCopy(n)
  \/ PushCopied \/ PushPublish
  \/ PopStore \/ PopLoad \/ PopClear \/ PopCas \/ PopReset
  \/ \E w \in Thieves :
       StealAge(w) \/ StealBot(w) \/ StealRead(w) \/ StealCas(w)

Spec == Init /\ [][Next]_vars

-----------------------------------------------------------------------------
(* The indices stay within the array and the locals hold what was loaded.  *)
TypeOK ==
  /\ deque \in [Slots -> Tasks \cup {Torn}]
  /\ bot \in 0 .. Size /\ top \in 0 .. Size /\ tag \in 0 .. TagMod - 1
  /\ new_bot \in Slots
  /\ task \in Tasks \cup {Torn}
  /\ \A w \in Thieves : tpc[w] = "read" => t_age[w].top \in Slots
  /\ taken \in [Tasks -> Nat]

(* No task is run twice: not by the owner and a thief that race for the    *)
(* last one, nor by a thief that read the age before the deque was emptied *)
(* and filled again.                                                       *)
AtMostOnce == \A k \in Tasks : taken[k] <= 1

(* When pop_bot has returned false every task of the batches pushed so far *)
(* has been returned to its owner or to a thief.                           *)
NothingLost ==
  pc = "empty" => \A k \in pushed : taken[k] = 1

(* What is pushed is run exactly once, by the owner or by a thief.         *)
ExactlyOnce == TypeOK /\ AtMostOnce /\ NothingLost

(* A thief that will win its compare-and-swap has read a whole task, not   *)
(* one that push_bot was writing, as the comment in pop_top claims.        *)
NoTornTask ==
  \A w \in Thieves : tpc[w] = "cas" /\ t_age[w] = Age => t_task[w] # Torn
=============================================================================
