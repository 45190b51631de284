------------------------------- MODULE MCCHash -------------------------------
(* Instances of CHash for TLC. *)
EXTENDS CHash, HashTable, TLC

CONSTANTS t1, t2, a, b, c, d, x, y, z, old, new

\* a, b and c form a run of occupied slots that x and y hash into, a and x
\* part in the larger table, d wraps around the end of the smaller one.
MCHashOf == a :> 6 @@ b :> 14 @@ c :> 7 @@ d :> 3 @@ x :> 14 @@ y :> 3 @@ z :> 5

\* For HashTable: keys that collide in the small and part in the large table.
MCKeyHash == <<0, 4, 7, 8>>

\* hash_t, shash_t, ghash_t and ihash_t are maps after any operations.  The
\* formula has no variables: one state is enough to look at it in.
TablesRight == (\A t \in Threads : calls[t] = 0) => TablesExact
=============================================================================
