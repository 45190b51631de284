----------------------------- MODULE HashTable ------------------------------
(***************************************************************************)
(* The sequential hash tables (hash.c): linear probing in a table that is  *)
(* doubled when more than half of it is in use, deletion by clearing the   *)
(* value and keeping the key.  hash_t has pointers as keys, shash_t        *)
(* strings, ghash_t any objects whose hash it stores, and ihash_t integers *)
(* with a cache of the last key that was looked up.                        *)
(*                                                                         *)
(* Keys are 1 .. k and 0 is NULL, as a key and as a value; slot i of the   *)
(* code is element i + 1 here.                                             *)
(***************************************************************************)
EXTENDS Integers, SequencesExt

CONSTANTS
  KeyHash,     \* the hash of each key: a sequence of natural numbers
  TableSize,  \* the size a table is created with
  MaxOps      \* the number of operations on a table

ASSUME TableAssumption == TableSize \in Nat \ {0} /\ MaxOps \in Nat

TableKeys   == DOMAIN KeyHash
TableValues == {1, 2}
Zeros(n)    == [i \in 1 .. n |-> 0]

\* hash_new, shash_new, ihash_new and ghash_new.  The cache is uninitialised,
\* and not looked at before the first put.
NewTable(size) ==
  [keys |-> Zeros(size), values |-> Zeros(size), hashes |-> Zeros(size),
   members |-> 0, cachekey |-> 0, cacheval |-> 0, failed |-> FALSE]

\* The first slot from the one of key on where the loop of a kind of table
\* stops: a free one, or one with this key.  0 if it would go round for ever.
FindSlot(kind, t, key) ==
  LET size    == Len(t.keys)
      nth(i)  == ((KeyHash[key] + i) % size) + 1
      same(s) == t.keys[s] = key /\ (kind = "ghash" => t.hashes[s] = KeyHash[key])
      stops   == {i \in 0 .. size - 1 : t.keys[nth(i)] = 0 \/ same(nth(i))}
  IN IF stops = {} THEN 0 ELSE nth(Min(stops))

\* The loop that stores a value, in the slot of the key or in a free one.
Store(kind, t, key, value) ==
  LET s == FindSlot(kind, t, key)
  IN CASE s = 0 -> [t EXCEPT !.failed = TRUE]
       [] s # 0 /\ t.keys[s] = key -> [t EXCEPT !.values[s] = value]
       [] s # 0 /\ t.keys[s] = 0 ->
            [t EXCEPT !.keys[s] = key, !.values[s] = value, !.members = @ + 1,
                      !.hashes[s] = KeyHash[key]]

\* The entries move to a table twice as large.  hash_t and ghash_t leave the
\* deleted ones behind, and assert that no other has the same key.
Rebuild(kind, t) ==
  LET drops(i) == t.values[i] = 0 /\ kind \in {"hash", "ghash"}
      move(new, i) ==
        LET s == FindSlot(kind, new, t.keys[i])
            stored == Store(kind, new, t.keys[i], t.values[i])
        IN CASE t.keys[i] = 0 \/ drops(i) -> new
             [] ~(t.keys[i] = 0 \/ drops(i)) ->
                  [stored EXCEPT !.failed = @ \/ (kind \in {"hash", "ghash"}
                                                   /\ new.keys[s] = t.keys[i])]
  IN FoldLeft(move, [NewTable(2 * Len(t.keys)) EXCEPT !.failed = t.failed],
              [i \in DOMAIN t.keys |-> i])

\* ihash_put leaves the new value in the cache.
CachePut(kind, t, key, value) ==
  IF kind = "ihash" THEN [t EXCEPT !.cachekey = key, !.cacheval = value] ELSE t

\* hash_put, shash_put, ihash_put and ghash_put.
TablePut(kind, t, key, value) ==
  LET room == IF t.members > Len(t.keys) \div 2 THEN Rebuild(kind, t) ELSE t
  IN CachePut(kind, Store(kind, room, key, value), key, value)

\* hash_get, shash_get and ghash_get.
Lookup(kind, t, key) ==
  LET s == FindSlot(kind, t, key) IN IF s = 0 THEN 0 ELSE t.values[s]

CacheHit(t, key) == t.members > 0 /\ key = t.cachekey

TableGet(kind, t, key) ==
  IF kind = "ihash" /\ CacheHit(t, key) THEN t.cacheval ELSE Lookup(kind, t, key)

\* ihash_get keeps the result of a search, also that there is none.
ihash_get(t, key) ==
  IF CacheHit(t, key) THEN t
  ELSE [t EXCEPT !.cachekey = key, !.cacheval = Lookup("ihash", t, key)]

\* Mutant: the slot becomes free.
TableDeleteFrees(kind, t, key) ==
  LET s == FindSlot(kind, t, key)
  IN IF s = 0 THEN [t EXCEPT !.failed = TRUE]
     ELSE [t EXCEPT !.keys[s] = 0, !.values[s] = 0, !.hashes[s] = 0]

\* hash_delete, shash_delete and ghash_delete; there is no ihash_delete.
TableDelete(kind, t, key) ==
  LET s == FindSlot(kind, t, key)
  IN CASE s = 0 -> [t EXCEPT !.failed = TRUE]
       [] s # 0 /\ t.keys[s] # key -> t
       [] s # 0 /\ t.keys[s] = key ->
            [t EXCEPT !.values[s] = 0,
                      !.hashes[s] = IF kind = "ghash" THEN 0 ELSE @]

\* hash_iter and shash_iter.
TableIter(t) ==
  LET live(i) == t.keys[i] # 0 /\ t.values[i] # 0
  IN SelectSeq([i \in DOMAIN t.keys |-> i], live)

-----------------------------------------------------------------------------
(* The tables that MaxOps operations lead to, each with the map that it    *)
(* should be.                                                              *)

After(kind, x) ==
  {[t |-> TablePut(kind, x.t, k, v), map |-> [x.map EXCEPT ![k] = v]] :
     k \in TableKeys, v \in TableValues}
  \cup {[t |-> IF kind = "ihash" THEN ihash_get(x.t, k)
               ELSE TableDelete(kind, x.t, k),
         map |-> IF kind = "ihash" THEN x.map ELSE [x.map EXCEPT ![k] = 0]] :
     k \in TableKeys}

RECURSIVE Reached(_, _)
Reached(kind, n) ==
  IF n = 0 THEN {[t |-> NewTable(TableSize), map |-> [k \in TableKeys |-> 0]]}
  ELSE LET prev == Reached(kind, n - 1) IN prev \cup UNION {After(kind, x) : x \in prev}

\* Every table answers as a map does, after any sequence of operations: a
\* deleted key does not hide the ones behind it, a key that is deleted and put
\* again is found once, a table that is doubled loses nothing, the cache of
\* ihash_t is never stale, no assertion fails, and every search ends.
TablesExact ==
  \A kind \in {"hash", "shash", "ghash", "ihash"} : \A x \in Reached(kind, MaxOps) :
    /\ ~x.t.failed
    /\ \A k \in TableKeys : /\ FindSlot(kind, x.t, k) # 0
                            /\ TableGet(kind, x.t, k) = x.map[k]
    /\ kind # "ihash" =>
         LET slots == TableIter(x.t)
             keys  == [i \in DOMAIN slots |-> x.t.keys[slots[i]]]
         IN IsInjective(keys) /\ Range(keys) = {k \in TableKeys : x.map[k] # 0}
=============================================================================
