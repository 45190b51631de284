-------------------------------- MODULE CHash --------------------------------
(***************************************************************************)
(* The concurrent hash table chash_t of hash.c.                            *)
(*                                                                         *)
(* An open-addressing table of slots, each with a tagged key and a value.  *)
(* A put claims a slot by a compare-and-swap to BUSY, writes the value and *)
(* publishes the key as INUSE; a get takes no lock.  When the table is     *)
(* more than half full the thread that swaps `resizing` to a table of      *)
(* twice the size copies the slots one by one, marking each MOVED in the   *)
(* old table, and publishes the new table in `tab`.  A thread that meets a *)
(* MOVED slot waits for that.  Old tables are never freed (async_free).    *)
(*                                                                         *)
(* A load of a slot and the compare-and-swap that follows it are one step: *)
(* a swap that fails only makes the caller start again.  In the copying    *)
(* loop, which works between the two, they are separate.                   *)
(***************************************************************************)
EXTENDS Naturals, FiniteSets, FiniteSetsExt

CONSTANTS
    Threads,
    Keys, Values,
    HashOf,         \* mix_bits_64 of each key
    Used,           \* the keys of the calls considered
    Preloaded,      \* keys put before the threads start
    InitialValue,   \* their value
    InitialSize,    \* chash_new(InitialSize), a power of two
    Asserts,        \* assert() is compiled in (no NDEBUG)
    Serialised,     \* callers do not overwrite a key while others put
    MaxCalls,       \* bound: calls made by a thread
    NULL

ASSUME CHashAssumption ==
    /\ HashOf \in [Keys -> Nat]
    /\ Preloaded \cup Used \subseteq Keys /\ InitialValue \in Values
    /\ InitialSize \in Nat \ {0}
    /\ NULL \notin Keys \cup Values

VARIABLES
    slots,          \* slots[n][i]: slot i of the n-th table allocated
    tab, resizing,  \* the current table, the table being filled
    members,        \* number of keys counted
    pc, calls,      \* where a thread is, calls it made
    call,           \* the call it is in: NULL or [key, value]
    result,         \* NULL, or [value] once the call has taken effect
    cur, pos,       \* the table loaded from h->tab, the slot probed or copied
    from_slot,      \* the tagged key the copying loop loaded
    aborted,        \* an assertion failed
    last,           \* history: the value last put for each key
    held            \* history: the values the key of a call had since the call

vars == <<slots, tab, resizing, members, pc, calls, call, result, cur, pos,
          from_slot, aborted, last, held>>

history == <<last, held>>

Tables == 1 .. 2
Size(n) == InitialSize * 2^(n - 1)
FreeSlot == [marker |-> "FREE", key |-> NULL, value |-> NULL]

\* hash_slot and the next slot of a linear probe
hash_slot(size, key) == HashOf[key] % size
NextSlot(n, i) == (i + 1) % Size(n)

TypeOK ==
    /\ \A n \in Tables : \A i \in 0 .. Size(n) - 1 :
          slots[n][i] \in [marker : {"FREE", "BUSY", "INUSE", "MOVED"},
                           key : Keys \cup {NULL}, value : Values \cup {NULL}]
    /\ tab \in Tables /\ resizing \in Tables
    /\ members \in 0 .. Cardinality(Keys)
    /\ pc \in [Threads -> {"idle", "start", "check", "probe", "fill", "count",
                           "write", "restore", "read", "copy", "insert", "mark",
                           "publish", "wait", "return"}]
    /\ calls \in [Threads -> 0 .. MaxCalls]
    /\ call \in [Threads -> {NULL} \cup
                           [key : Keys, value : Values \cup {NULL}]]
    /\ result \in [Threads -> {NULL} \cup [value : Values \cup {NULL}]]
    /\ cur \in [Threads -> Tables]
    /\ pos \in [Threads -> 0 .. Size(2)]
    /\ aborted \in BOOLEAN
    /\ last \in [Keys -> Values \cup {NULL}]
    /\ held \in [Threads -> SUBSET (Values \cup {NULL})]

-----------------------------------------------------------------------------
(* Probing *)

\* The slots of table t from the hash of key on, in probe order: the first one
\* that is free or holds the key.
Probe(t, n, key) ==
    LET at(d) == (hash_slot(Size(n), key) + d) % Size(n)
        stop(d) == t[at(d)].marker = "FREE" \/ t[at(d)].key = key
        D == {d \in 0 .. Size(n) - 1 : stop(d)}
    IN  at(CHOOSE d \in D : \A e \in D : d <= e)

\* The first free slot, as chash_copy_table looks for it.
ProbeFree(t, n, key) ==
    LET at(d) == (hash_slot(Size(n), key) + d) % Size(n)
        D == {d \in 0 .. Size(n) - 1 : t[at(d)].marker = "FREE"}
    IN  at(CHOOSE d \in D : \A e \in D : d <= e)

Add(t, n, key, value) ==
    [t EXCEPT ![ProbeFree(t, n, key)] =
        [marker |-> "INUSE", key |-> key, value |-> value]]

\* A table that holds the keys put before the threads start.
Loaded(t, n) ==
    FoldSet(LAMBDA k, acc : Add(acc, n, k, InitialValue), t, Preloaded)

Init ==
    /\ slots = [n \in Tables |->
                  LET empty == [i \in 0 .. Size(n) - 1 |-> FreeSlot]
                  IN  IF n = 1 THEN Loaded(empty, 1) ELSE empty]
    /\ tab = 1 /\ resizing = 1
    /\ members = Cardinality(Preloaded)
    /\ pc = [t \in Threads |-> "idle"]
    /\ calls = [t \in Threads |-> 0]
    /\ call = [t \in Threads |-> NULL]
    /\ result = [t \in Threads |-> NULL]
    /\ cur = [t \in Threads |-> 1]
    /\ pos = [t \in Threads |-> 0]
    /\ from_slot = [t \in Threads |-> FreeSlot]
    /\ aborted = FALSE
    /\ last = [k \in Keys |-> IF k \in Preloaded THEN InitialValue ELSE NULL]
    /\ held = [t \in Threads |-> {}]

-----------------------------------------------------------------------------
(* Calls *)

Goto(t, l) == pc' = [pc EXCEPT ![t] = l]
Table == <<slots, tab, resizing, members>>
Local == <<cur, pos, from_slot>>
Slot(t) == slots[cur[t]][pos[t]]

IsPut(t) == call[t] # NULL /\ call[t].value # NULL
Putting == {t \in Threads : IsPut(t)}
Overwrites(k) == last[k] # NULL \/ \E t \in Putting : call[t].key = k

\* Callers under a lock of their own put a key again only while nobody puts.
CallersAgree(t, k, v) ==
    (Serialised /\ v # NULL) =>
        /\ Overwrites(k) => Putting = {}
        /\ \A u \in Putting : last[call[u].key] = NULL

Call(t, k, v) ==
    /\ pc[t] = "idle" /\ calls[t] < MaxCalls
    /\ CallersAgree(t, k, v)
    /\ calls' = [calls EXCEPT ![t] = @ + 1]
    /\ call' = [call EXCEPT ![t] = [key |-> k, value |-> v]]
    /\ held' = [held EXCEPT ![t] = {last[k]}]
    /\ Goto(t, "start")
    /\ UNCHANGED <<Table, result, Local, aborted, last>>

Return(t) ==
    /\ pc[t] = "return"
    /\ call' = [call EXCEPT ![t] = NULL]
    /\ result' = [result EXCEPT ![t] = NULL]
    /\ held' = [held EXCEPT ![t] = {}]
    /\ Goto(t, "idle")
    /\ UNCHANGED <<Table, calls, Local, aborted, last>>

\* The step at which a call takes effect.
Effect(t, v) == result' = [result EXCEPT ![t] = [value |-> v]]

PutEffect(t) ==
    LET k == call[t].key
        v == call[t].value
    IN  /\ Effect(t, v)
        /\ last' = [last EXCEPT ![k] = v]
        /\ held' = [u \in Threads |-> IF call[u] # NULL /\ call[u].key = k
                                      THEN held[u] \cup {v} ELSE held[u]]

-----------------------------------------------------------------------------
(* chash_put and chash_get: one attempt is one call of chash_try_put or
   chash_try_get; a failed attempt starts again from the load of h->tab. *)

LoadTable(t) ==
    /\ pc[t] = "start"
    /\ cur' = [cur EXCEPT ![t] = tab]
    /\ pos' = [pos EXCEPT ![t] = hash_slot(Size(tab), call[t].key)]
    /\ Goto(t, IF IsPut(t) THEN "check" ELSE "probe")
    /\ UNCHANGED <<Table, calls, call, result, from_slot, aborted, history>>

\* Mutant: the table grows only when every slot is taken.
TooFullLate(n) == members >= Size(n)

TooFull(n) == members > Size(n) \div 2

\* chash_grow_table: the winner of the race for h->resizing copies the table,
\* the others wait for it.
CheckLoad(t) ==
    /\ pc[t] = "check"
    /\ \/ /\ ~TooFull(cur[t])
          /\ Goto(t, "probe")
          /\ UNCHANGED <<resizing, pos>>
       \/ /\ TooFull(cur[t]) /\ resizing = cur[t]
          /\ resizing' = cur[t] + 1
          /\ pos' = [pos EXCEPT ![t] = 0]
          /\ Goto(t, "copy")
       \/ /\ TooFull(cur[t]) /\ resizing # cur[t]
          /\ Goto(t, "wait")
          /\ UNCHANGED <<resizing, pos>>
    /\ UNCHANGED <<slots, tab, members, calls, call, result, cur, from_slot,
                   aborted, history>>

SetSlot(n, i, s) == slots' = [slots EXCEPT ![n][i] = s]

\* The cases that chash_try_put and chash_try_get share.
ProbeOn(t) ==
    /\ pc[t] = "probe"
    /\ \/ /\ Slot(t).marker = "BUSY"
          /\ Goto(t, "start")
          /\ UNCHANGED pos
       \/ /\ Slot(t).marker = "INUSE" /\ Slot(t).key # call[t].key
          /\ pos' = [pos EXCEPT ![t] = NextSlot(cur[t], @)]
          /\ UNCHANGED pc
       \/ /\ Slot(t).marker = "MOVED"
          /\ Goto(t, "wait")
          /\ UNCHANGED pos
    /\ UNCHANGED <<Table, calls, call, result, cur, from_slot, aborted,
                   history>>

\* A put of a new key claims the free slot ...
ClaimFree(t) ==
    /\ pc[t] = "probe" /\ IsPut(t) /\ Slot(t).marker = "FREE"
    /\ SetSlot(cur[t], pos[t], [Slot(t) EXCEPT !.marker = "BUSY"])
    /\ Goto(t, "fill")
    /\ UNCHANGED <<tab, resizing, members, calls, call, result, Local,
                   aborted, history>>

\* ... writes the value, publishes the key ...
FillSlot(t) ==
    /\ pc[t] = "fill"
    /\ SetSlot(cur[t], pos[t], [marker |-> "INUSE", key |-> call[t].key,
                                value |-> call[t].value])
    /\ PutEffect(t)
    /\ Goto(t, "count")
    /\ UNCHANGED <<tab, resizing, members, calls, call, Local, aborted>>

\* ... and counts it.
CountMember(t) ==
    /\ pc[t] = "count"
    /\ members' = members + 1
    /\ Goto(t, "return")
    /\ UNCHANGED <<slots, tab, resizing, calls, call, result, Local,
                   aborted, history>>

\* A put of a key that is there makes the slot BUSY, keeping the key ...
ClaimKey(t) ==
    /\ pc[t] = "probe" /\ IsPut(t)
    /\ Slot(t).marker = "INUSE" /\ Slot(t).key = call[t].key
    /\ SetSlot(cur[t], pos[t], [Slot(t) EXCEPT !.marker = "BUSY"])
    /\ Goto(t, "write")
    /\ UNCHANGED <<tab, resizing, members, calls, call, result, Local,
                   aborted, history>>

\* ... writes the value, which a get that saw INUSE may now read ...
WriteValue(t) ==
    /\ pc[t] = "write"
    /\ SetSlot(cur[t], pos[t], [Slot(t) EXCEPT !.value = call[t].value])
    /\ PutEffect(t)
    /\ Goto(t, "restore")
    /\ UNCHANGED <<tab, resizing, members, calls, call, Local, aborted>>

\* ... and restores the tagged key.
RestoreKey(t) ==
    /\ pc[t] = "restore"
    /\ SetSlot(cur[t], pos[t], [Slot(t) EXCEPT !.marker = "INUSE"])
    /\ Goto(t, "return")
    /\ UNCHANGED <<tab, resizing, members, calls, call, result, Local,
                   aborted, history>>

GetMissing(t) ==
    /\ pc[t] = "probe" /\ ~IsPut(t) /\ Slot(t).marker = "FREE"
    /\ Effect(t, NULL)
    /\ Goto(t, "return")
    /\ UNCHANGED <<Table, calls, call, Local, aborted, history>>

GetFound(t) ==
    /\ pc[t] = "probe" /\ ~IsPut(t)
    /\ Slot(t).marker = "INUSE" /\ Slot(t).key = call[t].key
    /\ Goto(t, "read")
    /\ UNCHANGED <<Table, calls, call, result, Local,
                   aborted, history>>

\* The value is read after the key.
ReadValue(t) ==
    /\ pc[t] = "read"
    /\ Effect(t, Slot(t).value)
    /\ Goto(t, "return")
    /\ UNCHANGED <<Table, calls, call, Local, aborted, history>>

chash_wait_for_resize(t) ==
    /\ pc[t] = "wait" /\ tab = resizing
    /\ Goto(t, "start")
    /\ UNCHANGED <<Table, calls, call, result, Local,
                   aborted, history>>

-----------------------------------------------------------------------------
(* chash_copy_table *)

\* Mutant: a BUSY slot is not waited for.
CopyLoadBusy(t) ==
    /\ pc[t] = "copy"
    /\ from_slot' = [from_slot EXCEPT ![t] = Slot(t)]
    /\ Goto(t, IF Slot(t).marker = "INUSE" THEN "insert" ELSE "mark")
    /\ UNCHANGED <<Table, calls, call, result, cur, pos, aborted, history>>

\* Load the next tagged key, spinning while it is BUSY.
CopyLoad(t) ==
    /\ pc[t] = "copy" /\ Slot(t).marker # "BUSY"
    /\ from_slot' = [from_slot EXCEPT ![t] = Slot(t)]
    /\ Goto(t, IF Slot(t).marker = "INUSE" THEN "insert" ELSE "mark")
    /\ UNCHANGED <<Table, calls, call, result, cur, pos, aborted, history>>

\* Put the key and the value the slot has now into the new table, which no
\* other thread writes.  assert(exist != tagged_key) on the way.
CopyInsert(t) ==
    LET n == cur[t] + 1
        key == from_slot[t].key
    IN  /\ pc[t] = "insert"
        /\ IF Asserts /\ slots[n][Probe(slots[n], n, key)].marker # "FREE"
           THEN aborted' = TRUE /\ UNCHANGED slots
           ELSE /\ slots' = [slots EXCEPT ![n] = Add(@, n, key, Slot(t).value)]
                /\ UNCHANGED aborted
        /\ Goto(t, "mark")
        /\ UNCHANGED <<tab, resizing, members, calls, call, result, Local,
                       history>>

\* Swap the tagged key for MOVED if it is still the one loaded.
CopyMark(t) ==
    LET same == /\ Slot(t).marker = from_slot[t].marker
                /\ Slot(t).key = from_slot[t].key
        end == pos[t] + 1 = Size(cur[t])
    IN  /\ pc[t] = "mark"
        /\ \/ /\ same
              /\ SetSlot(cur[t], pos[t], [Slot(t) EXCEPT !.marker = "MOVED"])
              /\ pos' = [pos EXCEPT ![t] = @ + 1]
              /\ Goto(t, IF end THEN "publish" ELSE "copy")
              /\ UNCHANGED aborted
           \/ /\ ~same
              /\ aborted' = (Asserts /\ from_slot[t].marker # "FREE")
              /\ Goto(t, "copy")
              /\ UNCHANGED <<slots, pos>>
        /\ UNCHANGED <<tab, resizing, members, calls, call, result, cur,
                       from_slot, history>>

\* Mutant: the new table is not published.
PublishTableFails(t) ==
    /\ pc[t] = "publish"
    /\ Goto(t, "start")
    /\ UNCHANGED <<Table, calls, call, result, Local, aborted, history>>

PublishTable(t) ==
    /\ pc[t] = "publish"
    /\ tab' = cur[t] + 1
    /\ Goto(t, "start")
    /\ UNCHANGED <<slots, resizing, members, calls, call, result, Local,
                   aborted, history>>

-----------------------------------------------------------------------------
Step(t) ==
    /\ ~aborted
    /\ \/ LoadTable(t) \/ CheckLoad(t) \/ ProbeOn(t)
       \/ ClaimFree(t) \/ FillSlot(t) \/ CountMember(t)
       \/ ClaimKey(t) \/ WriteValue(t) \/ RestoreKey(t)
       \/ GetMissing(t) \/ GetFound(t) \/ ReadValue(t)
       \/ chash_wait_for_resize(t)
       \/ CopyLoad(t) \/ CopyInsert(t) \/ CopyMark(t) \/ PublishTable(t)
       \/ Return(t)

Next ==
    \/ \E t \in Threads : Step(t)
    \/ /\ ~aborted
       /\ \E t \in Threads, k \in Used :
             \E v \in {NULL} \cup (Values \ {InitialValue}) : Call(t, k, v)

Spec == Init /\ [][Next]_vars

\* Every thread runs.
FairSpec == Spec /\ \A t \in Threads : WF_vars(Step(t))

-----------------------------------------------------------------------------
(* Properties *)

\* chash is an atomic map: a get started after a put returned finds the value,
\* before, during and after a resize, and the copying loses nothing.
Abstract == INSTANCE AtomicMap WITH map <- last
ImplementsMap == Abstract!Spec

\* However many threads pass the check for a half-full table before one of them
\* counts its key, each adds at most one key too many.  In a table of more than
\* 2 * (number of threads) slots a free slot is always left, and the unbounded
\* probing loops of chash_try_put and chash_try_get stop.
RoomLeft ==
    /\ TypeOK
    /\ \A n \in Tables :
          Cardinality({i \in 0 .. Size(n) - 1 : slots[n][i].marker # "FREE"
                                                /\ slots[n][i].key # NULL})
              <= Size(n) \div 2 + Cardinality(Threads)

\* Every call returns, whoever of the threads copies the table.
CallsReturn == \A t \in Threads : call[t] # NULL ~> call[t] = NULL

\* "Must CAS to busy here to avoid lost update due to concurrent move"
\* (hash.c:673): once nobody is changing the table, every key has the value
\* last put for it.
NoLostUpdate ==
    (Putting = {} /\ tab = resizing /\ ~aborted) =>
        \A k \in Keys : slots[tab][Probe(slots[tab], tab, k)].value = last[k]
=============================================================================
