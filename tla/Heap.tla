-------------------------------- MODULE Heap --------------------------------
(***************************************************************************)
(* The binary heap of rt/heap.c, which holds the event queue and the two   *)
(* queues of nexus updates.  A heap is the sequence of its nodes; every    *)
(* operation runs under the lock of the heap.                              *)
(***************************************************************************)
EXTENDS Integers, SequencesExt

CONSTANTS
  MaxHeap,    \* bound on the size of the heaps that HeapCorrect looks at
  MaxKey      \* bound on their keys

ASSUME HeapAssumption == MaxHeap \in Nat \ {0} /\ MaxKey \in Nat

UINT64_MAX == MaxKey + 1

exchange(h, i, j) == [h EXCEPT ![i] = h[j], ![j] = h[i]]

RECURSIVE min_heapify(_, _)
min_heapify(h, i) ==
  LET l        == 2 * i
      r        == 2 * i + 1
      left     == IF l <= Len(h) /\ h[l].key < h[i].key THEN l ELSE i
      smallest == IF r <= Len(h) /\ h[r].key < h[left].key THEN r ELSE left
  IN IF smallest = i THEN h
     ELSE min_heapify(exchange(h, i, smallest), smallest)

RECURSIVE SiftUp(_, _)
SiftUp(h, i) ==
  IF i > 1 /\ h[i \div 2].key > h[i].key
  THEN SiftUp(exchange(h, i, i \div 2), i \div 2)
  ELSE h

heap_decrease_key(h, i, key) == SiftUp([h EXCEPT ![i].key = key], i)

heap_insert(h, key, user) ==
  heap_decrease_key(Append(h, [key |-> UINT64_MAX, user |-> user]),
                    Len(h) + 1, key)

heap_min(h) == h[1].user

\* What heap_extract_min leaves; it returns heap_min(h).
heap_extract_min(h) ==
  IF Len(h) = 1 THEN <<>>
  ELSE min_heapify(Front([h EXCEPT ![1] = Last(h)]), 1)

\* Mutant: the node that fills the gap only moves down.
heap_deleteDown(h, match) ==
  IF match = {} THEN h
  ELSE LET i == Min(match)
       IN IF i = Len(h) THEN Front(h)
          ELSE min_heapify(Front([h EXCEPT ![i] = Last(h)]), i)

\* The first of the nodes that match is deleted.  The last node fills the gap:
\* it may have to move up as well as down, as it comes from another subtree.
heap_delete(h, match) ==
  IF match = {} THEN h
  ELSE LET i     == Min(match)
           moved == Front([h EXCEPT ![i] = Last(h)])
       IN IF i = Len(h) THEN Front(h)
          ELSE min_heapify(heap_decrease_key(moved, i, moved[i].key), i)

-----------------------------------------------------------------------------
IsHeap(h) == \A i \in 2 .. Len(h) : h[i \div 2].key <= h[i].key

\* The heaps with n nodes, whose users are distinct.
Heaps(n) ==
  {h \in {[i \in 1 .. n |-> [key |-> k[i], user |-> i]] :
            k \in [1 .. n -> 0 .. MaxKey]} : IsHeap(h)}

\* From every heap, heap_insert, heap_extract_min and heap_delete reach a heap
\* with exactly the nodes they should leave, wherever in the tree the node they
\* move comes from, and what is extracted has the least key: the clock advances
\* to the earliest event and nexuses are updated in the order of their ranks.
HeapCorrect ==
  \A n \in 0 .. MaxHeap : \A h \in Heaps(n) :
    LET is(g, nodes) == /\ IsHeap(g) /\ Range(g) = nodes
                        /\ Len(g) = Cardinality(nodes)
    IN /\ \A k \in 0 .. MaxKey :
            is(heap_insert(h, k, n + 1),
               Range(h) \cup {[key |-> k, user |-> n + 1]})
       /\ n > 0 =>
            /\ is(heap_extract_min(h), Range(h) \ {h[heap_min(h)]})
            /\ \A i \in 1 .. n : h[heap_min(h)].key <= h[i].key
       /\ \A i \in 1 .. n : is(heap_delete(h, {i}), Range(h) \ {h[i]})
=============================================================================
