--------------------------- MODULE WorkDequeProofs ---------------------------
(***************************************************************************)
(* Safety of the work stealing deque for every number of thieves, every    *)
(* THREADQ_SIZE and every number of batches that is smaller than the       *)
(* number of tags: the 32-bit tag is assumed not to wrap around.           *)
(*                                                                         *)
(* The tag counts the batches that are finished, so it identifies the      *)
(* batch: a thief whose age is still the current one read its task after   *)
(* the current batch was published.  DequeInv says this, and which tasks   *)
(* of the current batch have been returned: the ones below top, by         *)
(* thieves, and the ones from Limit on, by the owner.                      *)
(***************************************************************************)
EXTENDS WorkDeque, TLAPS

\* The tasks of the batch are visible to thieves.
Published == tag + 1 = round /\ pc \in {"pop", "load", "clear", "cas", "reset"}

\* The owner has returned the tasks of the batch from here on.
Limit == IF pc = "pop" THEN bot ELSE new_bot + 1

Ages == [top : 0 .. Size, tag : 0 .. TagMod - 1]

TypeInv ==
  /\ TypeOK
  /\ pc \in {"empty", "copy", "publish", "pop", "load", "clear", "cas", "reset"}
  /\ round \in 0 .. Rounds /\ batch \in 0 .. Size /\ old_age \in Ages
  /\ tpc \in [Thieves -> {"idle", "bot", "read", "cas"}]
  /\ t_age \in [Thieves -> Ages]
  /\ t_task \in [Thieves -> Tasks \cup {Torn}]
  /\ pushed \subseteq Tasks

\* How far the owner is with its batch.
OwnerInv ==
  /\ pc = "empty" => bot = 0 /\ top = 0 /\ tag = round
  /\ pc \in {"copy", "publish"} =>
       bot = 0 /\ top = 0 /\ tag + 1 = round /\ batch > 0
  /\ pc = "pop" => \/ bot = 0 /\ top = 0 /\ tag = round
                   \/ bot \in 1 .. batch /\ top <= bot /\ tag + 1 = round
  /\ pc \in {"load", "clear", "cas", "reset"} =>
       tag + 1 = round /\ new_bot < batch /\ top <= new_bot + 1
  /\ pc \in {"load", "clear"} => bot = new_bot
  /\ pc \in {"cas", "reset"} => bot = 0
  /\ pc \in {"clear", "cas", "reset"} =>
       old_age.tag = tag /\ old_age.top \in new_bot .. top
  /\ pc = "cas" => old_age.top = new_bot
  /\ pc = "reset" => top = new_bot + 1
  /\ pc \in {"load", "clear", "cas"} => task = <<round, new_bot>>
  /\ pc = "publish" \/ Published =>
       \A i \in 0 .. batch - 1 : deque[i] = <<round, i>>

\* How often a task has been returned.
TaskOK(r, i) ==
  LET n == taken[<<r, i>>]
  IN  /\ n \in {0, 1}
      /\ r > round => n = 0
      /\ r = round /\ pc \in {"copy", "publish"} => n = 0
      /\ r = round /\ i < batch /\ Published =>
           n = IF i < top \/ i >= Limit THEN 1 ELSE 0
      /\ <<r, i>> \in pushed =>
           /\ r <= round
           /\ r = round => i < batch /\ pc \notin {"copy", "publish"}
           /\ r <= tag => n = 1

TaskInv == \A r \in 1 .. Rounds, i \in Slots : TaskOK(r, i)

\* The compare-and-swap of the thief is going to succeed.
Current(w) == t_age[w].top = top /\ t_age[w].tag = tag

\* What a thief knows then.
ThiefInv ==
  \A w \in Thieves : tpc[w] # "idle" =>
    /\ t_age[w].tag <= tag
    /\ t_age[w].tag = tag => t_age[w].top <= top
    /\ tpc[w] \in {"read", "cas"} /\ Current(w) => Published /\ top < Limit
    /\ tpc[w] = "cas" /\ Current(w) => t_task[w] = <<round, top>>

DequeInv == TypeInv /\ OwnerInv /\ TaskInv /\ ThiefInv

\* An age is what it consists of.
LEMMA AgeIsCurrent ==
  ASSUME TypeInv, NEW w \in Thieves PROVE (Age = t_age[w]) <=> Current(w)
BY DEF TypeInv, TypeOK, Ages, Age, Current

\* The tag of a new batch: no wrap around.
LEMMA NewTagIsRound ==
  ASSUME Rounds < TagMod, TypeInv, OwnerInv, pc \in {"cas", "reset"}
  PROVE  NewTag = round
<1>1. old_age.tag + 1 = round /\ round \in Nat /\ round < TagMod /\ TagMod \in Nat
  BY DequeAssumption DEF TypeInv, OwnerInv
<1>2. \A a, m \in Nat : a < m => a % m = a
  OBVIOUS
<1> QED BY Zenon, <1>1, <1>2 DEF NewTag

\* A returned task is counted once more, the others are not.
LEMMA ReturnCounts ==
  ASSUME TypeInv, NEW a \in 1 .. Rounds, NEW b \in Slots, Return(<<a, b>>)
  PROVE  /\ taken' \in [Tasks -> Nat]
         /\ \A r \in 1 .. Rounds, i \in Slots :
              taken'[<<r, i>>] = IF r = a /\ i = b THEN taken[<<r, i>>] + 1
                                 ELSE taken[<<r, i>>]
BY DEF TypeInv, TypeOK, Return, Tasks

\* A batch is copied to the bottom of an empty deque, where no thief looks.
LEMMA PushCopyInv ==
  ASSUME Rounds < TagMod, DequeInv, NEW n \in 1 .. Size, PushCopy(n)
  PROVE  DequeInv'
<1> USE DequeAssumption DEF DequeInv, PushCopy, thief
<1>1. TypeInv'
  BY DEF TypeInv, TypeOK, Ages, Tasks, Slots
<1>2. OwnerInv'
  BY DEF TypeInv, TypeOK, OwnerInv, Published
<1>3. TaskInv'
  <2> SUFFICES ASSUME NEW r \in 1 .. Rounds, NEW i \in Slots PROVE TaskOK(r, i)'
    BY Zenon DEF TaskInv
  <2>1. TaskOK(r, i)
    BY Zenon DEF TaskInv
  <2> QED BY <2>1 DEF TaskOK, TypeInv, TypeOK, OwnerInv, Published, Limit, Slots
<1>4. ThiefInv'
  BY Zenon DEF TypeInv, TypeOK, OwnerInv, ThiefInv, Published, Current, Ages, Limit
<1> QED BY Zenon, <1>1, <1>2, <1>3, <1>4

\* The copy is complete before it is published.
LEMMA PushCopiedInv ==
  ASSUME Rounds < TagMod, DequeInv, PushCopied
  PROVE  DequeInv'
<1> USE DequeAssumption DEF DequeInv, PushCopied, thief
<1>1. TypeInv'
  <2>1. round \in 1 .. Rounds /\ bot = 0
    BY DEF TypeInv, OwnerInv, TypeOK
  <2>2. deque' \in [Slots -> Tasks \cup {Torn}]
    BY <2>1 DEF TypeInv, TypeOK, Tasks
  <2> QED BY Zenon, <2>2 DEF TypeInv, TypeOK
<1>2. OwnerInv'
  BY DEF TypeInv, TypeOK, OwnerInv, Published, Slots
<1>3. TaskInv'
  <2> SUFFICES ASSUME NEW r \in 1 .. Rounds, NEW i \in Slots PROVE TaskOK(r, i)'
    BY Zenon DEF TaskInv
  <2>1. TaskOK(r, i)
    BY Zenon DEF TaskInv
  <2> QED BY Zenon, <2>1 DEF TaskOK, TypeInv, TypeOK, OwnerInv, Published, Limit, Slots
<1>4. ThiefInv'
  BY Zenon DEF TypeInv, TypeOK, OwnerInv, ThiefInv, Published, Current, Ages, Limit
<1> QED BY Zenon, <1>1, <1>2, <1>3, <1>4

\* From here on thieves may take the tasks of the batch, none of which was taken.
LEMMA PushPublishInv ==
  ASSUME Rounds < TagMod, DequeInv, PushPublish
  PROVE  DequeInv'
<1> USE DequeAssumption DEF DequeInv, PushPublish, thief
<1>1. TypeInv'
  BY SMTT(30) DEF TypeInv, TypeOK, OwnerInv, Ages, Tasks, Slots
<1>2. OwnerInv'
  BY DEF TypeInv, TypeOK, OwnerInv, Published, Slots
<1>3. TaskInv'
  <2> SUFFICES ASSUME NEW r \in 1 .. Rounds, NEW i \in Slots PROVE TaskOK(r, i)'
    BY Zenon DEF TaskInv
  <2>1. TaskOK(r, i)
    BY Zenon DEF TaskInv
  <2>2. <<r, i>> \in pushed' <=> <<r, i>> \in pushed \/ (r = round /\ i \in 0 .. batch - 1)
    BY Zenon DEF Slots
  <2> QED BY <2>1, <2>2 DEF TaskOK, TypeInv, TypeOK, OwnerInv, Published, Limit, Slots
<1>4. ThiefInv'
  BY Zenon DEF TypeInv, TypeOK, OwnerInv, ThiefInv, Published, Current, Ages, Limit
<1> QED BY Zenon, <1>1, <1>2, <1>3, <1>4

\* The owner claims the last task; a thief may still have its eye on it.
LEMMA PopStoreInv ==
  ASSUME Rounds < TagMod, DequeInv, PopStore
  PROVE  DequeInv'
<1> USE DequeAssumption DEF DequeInv, PopStore, thief
<1>0. bot > 0 => deque[bot - 1] = <<round, bot - 1>> /\ <<round, bot - 1>> \in Tasks
  BY DEF TypeInv, TypeOK, OwnerInv, Published, Tasks, Slots
<1>1. TypeInv'
  <2>1. CASE bot = 0
    BY Zenon, <2>1 DEF TypeInv, TypeOK
  <2>2. CASE bot # 0
    <3>1. bot - 1 \in Slots /\ bot - 1 \in 0 .. Size /\ bot > 0
      BY <2>2 DEF TypeInv, TypeOK, Slots
    <3> QED BY Zenon, <2>2, <3>1, <1>0 DEF TypeInv, TypeOK
  <2> QED BY Zenon, <2>1, <2>2
<1>2. OwnerInv'
  <2>1. CASE bot = 0
    BY <2>1 DEF TypeInv, TypeOK, OwnerInv, Published
  <2>2. CASE bot # 0
    BY <2>2, <1>0 DEF TypeInv, TypeOK, OwnerInv, Published
  <2> QED BY Zenon, <2>1, <2>2
<1>3. TaskInv'
  <2> SUFFICES ASSUME NEW r \in 1 .. Rounds, NEW i \in Slots PROVE TaskOK(r, i)'
    BY Zenon DEF TaskInv
  <2>1. TaskOK(r, i)
    BY Zenon DEF TaskInv
  <2> QED BY <2>1 DEF TaskOK, TypeInv, TypeOK, OwnerInv, Published, Limit, Slots
<1>4. ThiefInv'
  BY DEF TypeInv, TypeOK, OwnerInv, ThiefInv, Published, Current, Ages, Limit
<1> QED BY Zenon, <1>1, <1>2, <1>3, <1>4

\* With another task below it the claimed one is safe from thieves.
LEMMA PopLoadInv ==
  ASSUME Rounds < TagMod, DequeInv, PopLoad
  PROVE  DequeInv'
<1> USE DequeAssumption DEF DequeInv, PopLoad, shared, thief
<1>0. task = <<round, new_bot>> /\ round \in 1 .. Rounds /\ new_bot \in Slots
  BY DEF TypeInv, TypeOK, OwnerInv
<1>a. CASE new_bot > top
  <2>0. /\ taken' \in [Tasks -> Nat]
        /\ \A r \in 1 .. Rounds, i \in Slots :
             taken'[<<r, i>>] = IF r = round /\ i = new_bot THEN taken[<<r, i>>] + 1
                                ELSE taken[<<r, i>>]
    BY Zenon, <1>a, <1>0, ReturnCounts
  <2>1. TypeInv'
    BY Zenon, <1>a, <2>0 DEF TypeInv, TypeOK, Age, Ages
  <2>2. OwnerInv'
    BY <1>a DEF TypeInv, TypeOK, OwnerInv, Published, Slots
  <2>3. TaskInv'
    <3> SUFFICES ASSUME NEW r \in 1 .. Rounds, NEW i \in Slots PROVE TaskOK(r, i)'
      BY Zenon DEF TaskInv
    <3>1. TaskOK(r, i)
      BY Zenon DEF TaskInv
    <3> QED BY <1>a, <2>0, <3>1 DEF TaskOK, TypeInv, TypeOK, OwnerInv, Published, Limit, Slots
  <2>4. ThiefInv'
    BY Zenon, <1>a DEF TypeInv, TypeOK, OwnerInv, ThiefInv, Published, Current, Ages, Limit, Slots
  <2> QED BY Zenon, <2>1, <2>2, <2>3, <2>4
<1>b. CASE ~(new_bot > top)
  <2>1. TypeInv'
    BY Zenon, <1>b DEF TypeInv, TypeOK, Age, Ages
  <2>2. OwnerInv'
    BY <1>b DEF TypeInv, TypeOK, OwnerInv, Published, Slots, Age
  <2>3. TaskInv'
    <3> SUFFICES ASSUME NEW r \in 1 .. Rounds, NEW i \in Slots PROVE TaskOK(r, i)'
      BY Zenon DEF TaskInv
    <3>1. TaskOK(r, i)
      BY Zenon DEF TaskInv
    <3> QED BY Zenon, <1>b, <3>1 DEF TaskOK, Published, Limit
  <2>4. ThiefInv'
    BY Zenon, <1>b DEF ThiefInv, Published, Current, Limit
  <2> QED BY Zenon, <2>1, <2>2, <2>3, <2>4
<1> QED BY Zenon, <1>a, <1>b

\* The last task is raced for, or a thief has it already.
LEMMA PopClearInv ==
  ASSUME Rounds < TagMod, DequeInv, PopClear
  PROVE  DequeInv'
<1> USE DequeAssumption DEF DequeInv, PopClear, thief
<1>1. TypeInv'
  BY DEF TypeInv, TypeOK
<1>2. OwnerInv'
  BY DEF TypeInv, TypeOK, OwnerInv, Published, Slots, Ages
<1>3. TaskInv'
  BY DEF TaskInv, TaskOK, Published, Limit
<1>4. ThiefInv'
  BY Zenon DEF ThiefInv, Published, Current, Limit
<1> QED BY Zenon, <1>1, <1>2, <1>3, <1>4

\* The owner wins the last task and starts a new tag, or a thief has won it.
LEMMA PopCasInv ==
  ASSUME Rounds < TagMod, DequeInv, PopCas
  PROVE  DequeInv'
<1> USE DequeAssumption DEF DequeInv, PopCas, thief
<1>0. /\ task = <<round, new_bot>> /\ round \in 1 .. Rounds /\ new_bot \in Slots
      /\ NewTag = round /\ tag + 1 = round
      /\ (Age = old_age) <=> top = new_bot
  BY NewTagIsRound DEF TypeInv, TypeOK, OwnerInv, Age, Ages
<1>a. CASE Age = old_age
  <2>0. /\ taken' \in [Tasks -> Nat]
        /\ \A r \in 1 .. Rounds, i \in Slots :
             taken'[<<r, i>>] = IF r = round /\ i = new_bot THEN taken[<<r, i>>] + 1
                                ELSE taken[<<r, i>>]
    BY Zenon, <1>a, <1>0, ReturnCounts
  <2>1. TypeInv'
    BY <1>a, <1>0, <2>0 DEF TypeInv, TypeOK
  <2>2. OwnerInv'
    BY Zenon, <1>a, <1>0 DEF TypeInv, TypeOK, OwnerInv, Published, Slots
  <2>3. TaskInv'
    <3> SUFFICES ASSUME NEW r \in 1 .. Rounds, NEW i \in Slots PROVE TaskOK(r, i)'
      BY Zenon DEF TaskInv
    <3>1. TaskOK(r, i)
      BY Zenon DEF TaskInv
    <3> QED BY <1>a, <1>0, <2>0, <3>1 DEF TaskOK, TypeInv, TypeOK, OwnerInv, Published, Limit, Slots
  <2>4. ThiefInv'
    BY <1>a, <1>0 DEF TypeInv, TypeOK, ThiefInv, Published, Current, Ages, Limit
  <2> QED BY Zenon, <2>1, <2>2, <2>3, <2>4
<1>b. CASE Age # old_age
  <2>1. TypeInv'
    BY Zenon, <1>b DEF TypeInv, TypeOK
  <2>2. OwnerInv'
    BY <1>b, <1>0 DEF TypeInv, TypeOK, OwnerInv, Published, Slots
  <2>3. TaskInv'
    <3> SUFFICES ASSUME NEW r \in 1 .. Rounds, NEW i \in Slots PROVE TaskOK(r, i)'
      BY Zenon DEF TaskInv
    <3>1. TaskOK(r, i)
      BY Zenon DEF TaskInv
    <3> QED BY Zenon, <1>b, <3>1 DEF TaskOK, Published, Limit
  <2>4. ThiefInv'
    BY Zenon, <1>b DEF ThiefInv, Published, Current, Limit
  <2> QED BY Zenon, <2>1, <2>2, <2>3, <2>4
<1> QED BY Zenon, <1>a, <1>b

\* The deque is empty, and the ages that thieves hold are out of date.
LEMMA PopResetInv ==
  ASSUME Rounds < TagMod, DequeInv, PopReset
  PROVE  DequeInv'
<1> USE DequeAssumption DEF DequeInv, PopReset, thief
<1>0. NewTag = round /\ tag + 1 = round /\ round \in 1 .. Rounds
  BY NewTagIsRound DEF TypeInv, TypeOK, OwnerInv
<1>1. TypeInv'
  BY <1>0 DEF TypeInv, TypeOK
<1>2. OwnerInv'
  BY Zenon, <1>0 DEF TypeInv, TypeOK, OwnerInv, Published, Slots
<1>3. TaskInv'
  <2> SUFFICES ASSUME NEW r \in 1 .. Rounds, NEW i \in Slots PROVE TaskOK(r, i)'
    BY Zenon DEF TaskInv
  <2>1. TaskOK(r, i)
    BY Zenon DEF TaskInv
  <2> QED BY <2>1, <1>0 DEF TaskOK, TypeInv, TypeOK, OwnerInv, Published, Limit, Slots
<1>4. ThiefInv'
  BY <1>0 DEF TypeInv, TypeOK, ThiefInv, Published, Current, Ages, Limit
<1> QED BY Zenon, <1>1, <1>2, <1>3, <1>4

\* A thief loads the age.
LEMMA StealAgeInv ==
  ASSUME Rounds < TagMod, DequeInv, NEW w \in Thieves, StealAge(w)
  PROVE  DequeInv'
<1> USE DequeAssumption DEF DequeInv, StealAge, shared, owner
<1>1. TypeInv'
  BY Zenon DEF TypeInv, TypeOK, OwnerInv, ThiefInv, Age, Ages, Slots
<1>2. OwnerInv'
  BY Zenon DEF OwnerInv, Published
<1>3. TaskInv'
  BY DEF TaskInv, TaskOK, Published, Limit
<1>4. ThiefInv'
  BY DEF TypeInv, TypeOK, OwnerInv, ThiefInv, Age, Ages, Tasks, Slots, Published, Limit, Current
<1> QED BY Zenon, <1>1, <1>2, <1>3, <1>4

\* A thief finds a task above the top of its age.
LEMMA StealBotInv ==
  ASSUME Rounds < TagMod, DequeInv, NEW w \in Thieves, StealBot(w)
  PROVE  DequeInv'
<1> USE DequeAssumption DEF DequeInv, StealBot, shared, owner
<1>1. TypeInv'
  BY DEF TypeInv, TypeOK, OwnerInv, ThiefInv, Age, Ages, Slots
<1>2. OwnerInv'
  BY Zenon DEF OwnerInv, Published
<1>3. TaskInv'
  BY DEF TaskInv, TaskOK, Published, Limit
<1>4. ThiefInv'
  BY DEF TypeInv, TypeOK, OwnerInv, ThiefInv, Age, Ages, Tasks, Slots, Published, Limit, Current
<1> QED BY Zenon, <1>1, <1>2, <1>3, <1>4

\* A thief reads the task, which is whole if its age is the current one.
LEMMA StealReadInv ==
  ASSUME Rounds < TagMod, DequeInv, NEW w \in Thieves, StealRead(w)
  PROVE  DequeInv'
<1> USE DequeAssumption DEF DequeInv, StealRead, shared, owner
<1>1. TypeInv'
  BY Zenon DEF TypeInv, TypeOK, OwnerInv, ThiefInv, Age, Ages, Slots
<1>2. OwnerInv'
  BY Zenon DEF OwnerInv, Published
<1>3. TaskInv'
  BY DEF TaskInv, TaskOK, Published, Limit
<1>4. ThiefInv'
  BY DEF TypeInv, TypeOK, OwnerInv, ThiefInv, Age, Ages, Tasks, Slots, Published, Limit, Current
<1> QED BY Zenon, <1>1, <1>2, <1>3, <1>4

\* A thief takes the task at the top if nothing changed since it loaded the age.
LEMMA StealCasInv ==
  ASSUME Rounds < TagMod, DequeInv, NEW w \in Thieves, StealCas(w)
  PROVE  DequeInv'
<1> USE DequeAssumption DEF DequeInv, StealCas, owner
<1>a. CASE Age = t_age[w]
  <2>0. /\ t_task[w] = <<round, top>> /\ round \in 1 .. Rounds /\ top \in Slots
        /\ Published /\ top < Limit
    BY <1>a, AgeIsCurrent DEF TypeInv, TypeOK, OwnerInv, ThiefInv, Published, Limit, Slots
  <2>9. /\ taken' \in [Tasks -> Nat]
        /\ \A r \in 1 .. Rounds, i \in Slots :
             taken'[<<r, i>>] = IF r = round /\ i = top THEN taken[<<r, i>>] + 1
                                ELSE taken[<<r, i>>]
    <3>1. Return(<<round, top>>)
      BY Zenon, <1>a, <2>0
    <3> QED BY Zenon, <2>0, <3>1, ReturnCounts
  <2>1. TypeInv'
    BY <1>a, <2>0, <2>9 DEF TypeInv, TypeOK, Slots
  <2>2. OwnerInv'
    BY <1>a, <2>0 DEF TypeInv, TypeOK, OwnerInv, Published, Limit, Slots
  <2>3. TaskInv'
    <3> SUFFICES ASSUME NEW r \in 1 .. Rounds, NEW i \in Slots PROVE TaskOK(r, i)'
      BY Zenon DEF TaskInv
    <3>1. TaskOK(r, i)
      BY Zenon DEF TaskInv
    <3> QED BY <1>a, <2>0, <2>9, <3>1 DEF TaskOK, TypeInv, TypeOK, OwnerInv, Published, Limit, Slots
  <2>4. ThiefInv'
    BY <1>a, <2>0 DEF TypeInv, TypeOK, ThiefInv, Published, Current, Ages, Limit
  <2> QED BY Zenon, <2>1, <2>2, <2>3, <2>4
<1>b. CASE Age # t_age[w]
  <2>1. TypeInv'
    BY Zenon, <1>b DEF TypeInv, TypeOK
  <2>2. OwnerInv'
    BY Zenon, <1>b DEF OwnerInv, Published
  <2>3. TaskInv'
    <3> SUFFICES ASSUME NEW r \in 1 .. Rounds, NEW i \in Slots PROVE TaskOK(r, i)'
      BY Zenon DEF TaskInv
    <3>1. TaskOK(r, i)
      BY Zenon DEF TaskInv
    <3> QED BY Zenon, <1>b, <3>1 DEF TaskOK, Published, Limit
  <2>4. ThiefInv'
    BY Zenon, <1>b DEF TypeInv, ThiefInv, Published, Current, Limit
  <2> QED BY Zenon, <2>1, <2>2, <2>3, <2>4
<1> QED BY Zenon, <1>a, <1>b

\* The empty deque.
LEMMA InitInv == Rounds < TagMod /\ Init => DequeInv
<1> SUFFICES ASSUME Rounds < TagMod, Init PROVE DequeInv
  OBVIOUS
<1> USE DequeAssumption DEF Init
<1>1. TypeInv
  BY DEF TypeInv, TypeOK, Age, Ages, Slots
<1>2. OwnerInv
  BY Zenon DEF OwnerInv, Published
<1>3. TaskInv
  BY Zenon DEF TaskInv, TaskOK, Published, Tasks
<1>4. ThiefInv
  BY Zenon DEF ThiefInv
<1> QED BY Zenon, <1>1, <1>2, <1>3, <1>4 DEF DequeInv

\* Every step keeps the invariant.
LEMMA NextInv ==
  ASSUME Rounds < TagMod, DequeInv, [Next]_vars PROVE DequeInv'
<1>1. CASE UNCHANGED vars
  BY <1>1 DEF vars, shared, owner, thief, DequeInv, TypeInv, TypeOK, OwnerInv,
              TaskInv, TaskOK, ThiefInv, Published, Limit, Current
<1>2. CASE Next
  BY Zenon, <1>2, PushCopyInv, PushCopiedInv, PushPublishInv, PopStoreInv, PopLoadInv,
     PopClearInv, PopCasInv, PopResetInv, StealAgeInv, StealBotInv,
     StealReadInv, StealCasInv DEF Next
<1> QED BY Zenon, <1>1, <1>2

\* DequeInv is an invariant of the deque as long as the tag does not wrap.
THEOREM DequeInvariant == Rounds < TagMod => (Spec => []DequeInv)
<1> SUFFICES ASSUME Rounds < TagMod PROVE Spec => []DequeInv
  OBVIOUS
<1>1. Init => DequeInv
  BY Zenon, InitInv
<1>2. DequeInv /\ [Next]_vars => DequeInv'
  BY Zenon, NextInv
<1> QED BY <1>1, <1>2, PTL DEF Spec

\* Every task that push_bot publishes is returned exactly once, by pop_bot to
\* the owner or by pop_top to one thief, and no index leaves the array.
THEOREM TasksExactlyOnce == Rounds < TagMod => (Spec => []ExactlyOnce)
<1> SUFFICES ASSUME Rounds < TagMod PROVE Spec => []ExactlyOnce
  OBVIOUS
<1>1. DequeInv => ExactlyOnce
  <2> SUFFICES ASSUME DequeInv PROVE ExactlyOnce
    OBVIOUS
  <2>1. AtMostOnce
    BY DEF DequeInv, TaskInv, TaskOK, AtMostOnce, Tasks
  <2>2. NothingLost
    BY DEF DequeInv, TypeInv, OwnerInv, TaskInv, TaskOK, NothingLost, Tasks
  <2> QED BY Zenon, <2>1, <2>2 DEF DequeInv, TypeInv, ExactlyOnce
<1> QED BY <1>1, DequeInvariant, PTL

\* pop_top returns no task that push_bot is still copying: a thief that reads
\* a slot too early fails its compare-and-swap.
THEOREM StolenTasksWhole == Rounds < TagMod => (Spec => []NoTornTask)
<1> SUFFICES ASSUME Rounds < TagMod PROVE Spec => []NoTornTask
  OBVIOUS
<1>1. DequeInv => NoTornTask
  <2> SUFFICES ASSUME DequeInv, NEW w \in Thieves, tpc[w] = "cas", t_age[w] = Age
               PROVE  t_task[w] # Torn
    BY Zenon DEF NoTornTask
  <2>1. t_task[w] = <<round, top>>
    BY Zenon, AgeIsCurrent DEF DequeInv, ThiefInv
  <2>2. round \in Nat /\ top \in Nat
    BY DEF DequeInv, TypeInv, TypeOK
  <2> QED BY <2>1, <2>2, DequeAssumption
<1> QED BY <1>1, DequeInvariant, PTL
=============================================================================
