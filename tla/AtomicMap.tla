------------------------------ MODULE AtomicMap ------------------------------
(***************************************************************************)
(* What the concurrent hash table of hash.c promises: every chash_put and  *)
(* every chash_get takes effect in one step between its call and return.   *)
(***************************************************************************)
CONSTANTS Threads, Keys, Values, NULL

VARIABLES
    map,    \* the value of each key, NULL if there is none
    call,   \* the call a thread is in: NULL, or [key, value] (NULL: a get)
    held,   \* the values its key has had since the call
    result  \* NULL, or [value] once the call has taken effect

vars == <<map, call, held, result>>

Init ==
    /\ map \in [Keys -> Values \cup {NULL}]
    /\ call = [t \in Threads |-> NULL]
    /\ held = [t \in Threads |-> {}]
    /\ result = [t \in Threads |-> NULL]

Invoke(t, k, v) ==
    /\ call[t] = NULL
    /\ call' = [call EXCEPT ![t] = [key |-> k, value |-> v]]
    /\ held' = [held EXCEPT ![t] = {map[k]}]
    /\ UNCHANGED <<map, result>>

PutEffect(t) ==
    /\ call[t] # NULL /\ call[t].value # NULL /\ result[t] = NULL
    /\ map' = [map EXCEPT ![call[t].key] = call[t].value]
    /\ held' = [u \in Threads |->
                  IF call[u] # NULL /\ call[u].key = call[t].key
                  THEN held[u] \cup {call[t].value} ELSE held[u]]
    /\ result' = [result EXCEPT ![t] = [value |-> call[t].value]]
    /\ UNCHANGED call

\* A get returns a value its key had at some moment of the call.
GetEffect(t) ==
    /\ call[t] # NULL /\ call[t].value = NULL /\ result[t] = NULL
    /\ result' \in {[result EXCEPT ![t] = [value |-> v]] : v \in held[t]}
    /\ UNCHANGED <<map, call, held>>

Return(t) ==
    /\ result[t] # NULL
    /\ call' = [call EXCEPT ![t] = NULL]
    /\ held' = [held EXCEPT ![t] = {}]
    /\ result' = [result EXCEPT ![t] = NULL]
    /\ UNCHANGED map

Next ==
    \E t \in Threads :
        \/ \E k \in Keys, v \in Values \cup {NULL} : Invoke(t, k, v)
        \/ PutEffect(t) \/ GetEffect(t) \/ Return(t)

Spec == Init /\ [][Next]_vars
=============================================================================
