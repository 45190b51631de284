---------------------------- MODULE SignalIndex ----------------------------
(***************************************************************************)
(* The nexuses of a signal in rt/model.c: a signal starts with one nexus,  *)
(* which is split wherever a part of the signal is driven, read or mapped  *)
(* on its own, and an index over the offsets of the nexuses is rebuilt     *)
(* when a split does not fit its granularity.                              *)
(*                                                                         *)
(* A nexus is named by its offset.  A signal sig is the set sig.cuts of    *)
(* the offsets of its nexuses and sig.index: no index, or its granularity  *)
(* "how", its size and its entries.                                        *)
(***************************************************************************)
EXTENDS Integers, SequencesExt

CONSTANTS
  Width,              \* the width of the signal
  NEXUS_INDEX_MIN     \* 8 in the code; smaller so that short signals have one

ASSUME IndexAssumption == Width \in Nat \ {0, 1} /\ NEXUS_INDEX_MIN \in Nat \ {0, 1}

NoIndex == [how |-> 0, count |-> 0, nexus |-> <<>>]
HasIndex(sig) == sig.index.count > 0

\* The nexus after o and the width of o.
Chain(sig, o) == Min({c \in sig.cuts \cup {Width} : c > o})
WidthOf(sig, o) == Chain(sig, o) - o

\* A granularity how >= 0 is a power of two, 2^how, and how < 0 is -how.
Grain(how) == IF how >= 0 THEN 2 ^ how ELSE -how
map_index(how, offset)   == offset \div Grain(how)
unmap_index(how, key)    == key * Grain(how)
index_valid(how, offset) == offset % Grain(how) = 0

\* __builtin_ctz, and the greatest common divisor of a set of offsets.
ctz(n) == Max({k \in 0 .. n : n % 2 ^ k = 0})
gcd(S) == Max({g \in 1 .. Width : \A o \in S : o % g = 0})

\* The number of entries that are allocated.
IndexSize(how, shift) ==
  IF how < 0 THEN (Width - how - 1) \div (-how) ELSE Width \div 2 ^ shift + 1

\* build_index, for the offsets of all the nexuses.
build_index(cuts) ==
  LET shift == Min({ctz(o) : o \in cuts \ {0}})
      g     == gcd(cuts \ {0})
      how   == IF g > 1 /\ g > 2 ^ shift THEN -g ELSE shift
  IN [how |-> how, count |-> IndexSize(how, shift),
      nexus |-> [k \in {map_index(how, o) : o \in cuts} |->
                   CHOOSE o \in cuts : map_index(how, o) = k]]

\* Mutant: an offset that does not fit is entered all the same.
update_indexKeeps(sig, o) ==
  [sig.index EXCEPT !.nexus = (map_index(sig.index.how, o) :> o) @@ @]

update_index(sig, o) ==
  IF index_valid(sig.index.how, o)
  THEN [sig.index EXCEPT !.nexus = (map_index(sig.index.how, o) :> o) @@ @]
  ELSE build_index(sig.cuts)

\* clone_nexus, with the part of it that is about this signal.
clone_nexus(sig, o, offset) ==
  LET s1 == [sig EXCEPT !.cuts = @ \cup {o + offset}]
  IN [s1 EXCEPT !.index =
        IF ~HasIndex(sig) /\ Cardinality(s1.cuts) >= NEXUS_INDEX_MIN
        THEN build_index(s1.cuts)
        ELSE IF HasIndex(sig) THEN update_index(s1, o + offset)
        ELSE @]

\* lookup_index: the nexus to start from, the offset from there, and the
\* signal, which loses an index that is too coarse for the offset.
lookup_index(sig, offset) ==
  LET how  == sig.index.how
      key  == map_index(how, offset)
      keys == {k \in DOMAIN sig.index.nexus : k <= key}
  IN IF ~HasIndex(sig) THEN [sig |-> sig, it |-> 0, offset |-> offset]
     ELSE IF ~index_valid(how, offset)
     THEN [sig |-> [sig EXCEPT !.index = NoIndex], it |-> 0, offset |-> offset]
     ELSE IF keys = {} THEN [sig |-> sig, it |-> 0, offset |-> offset]
     ELSE [sig |-> sig, it |-> sig.index.nexus[Max(keys)],
           offset |-> unmap_index(how, key - Max(keys))]

\* The loop of split_nexus_slow; it returns the signal and the first nexus.
RECURSIVE Split(_, _, _, _, _)
Split(sig, it, offset, count, result) ==
  IF count <= 0 THEN [sig |-> sig, result |-> result]
  ELSE IF offset >= WidthOf(sig, it)
  THEN Split(sig, Chain(sig, it), offset - WidthOf(sig, it), count, result)
  ELSE IF offset > 0
  THEN LET s1 == clone_nexus(sig, it, offset)
       IN Split(s1, Chain(s1, it), 0, count, result)
  ELSE LET s1 == IF WidthOf(sig, it) > count THEN clone_nexus(sig, it, count)
                 ELSE sig
       IN Split(s1, Chain(s1, it), 0, count - WidthOf(s1, it),
                IF result = Width THEN it ELSE result)

split_nexus(sig, offset, count) ==
  IF offset = 0 /\ count \in {WidthOf(sig, 0), Width}
  THEN [sig |-> sig, result |-> 0]
  ELSE LET l == lookup_index(sig, offset)
       IN Split(l.sig, l.it, l.offset, count, Width)

-----------------------------------------------------------------------------
(* Properties *)

\* A signal with enough nexuses has an index, with exactly those nexuses and
\* all of them inside the array.
IndexExact(sig) ==
  /\ HasIndex(sig) <=> Cardinality(sig.cuts) >= NEXUS_INDEX_MIN
  /\ HasIndex(sig) =>
    /\ \A o \in sig.cuts :
         /\ index_valid(sig.index.how, o)
         /\ map_index(sig.index.how, o) < sig.index.count
    /\ sig.index.nexus = [k \in {map_index(sig.index.how, o) : o \in sig.cuts} |->
                            unmap_index(sig.index.how, k)]

\* The signals with any nexuses and an index built when there were fewer.
Signals ==
  LET cutsets == {C \cup {0} : C \in SUBSET (1 .. Width - 1)}
      older(C) == {D \in SUBSET C : 0 \in D /\ Cardinality(D) >= NEXUS_INDEX_MIN}
      entries(C, how) == [k \in {map_index(how, o) : o \in C} |->
                            unmap_index(how, k)]
      indexes(C) == {[build_index(D) EXCEPT !.nexus = entries(C, build_index(D).how)] :
                       D \in {D \in older(C) :
                                \A o \in C : index_valid(build_index(D).how, o)}}
  IN UNION {{[cuts |-> C, index |-> i] : i \in indexes(C)} : C \in cutsets}
     \cup {[cuts |-> C, index |-> NoIndex] :
             C \in {C \in cutsets : Cardinality(C) < NEXUS_INDEX_MIN}}

\* Asking for any part of any signal returns the nexus at its offset, adds at
\* most the two cuts at the ends of the part, so that the nexuses from there on
\* make it up exactly, and leaves an index that finds every nexus: whatever the
\* splits before it, with an index kept, rebuilt or dropped on the way.
SplitsExact ==
  \A sig \in Signals : \A offset \in 0 .. Width - 1 : \A count \in 1 .. Width - offset :
    LET r == split_nexus(sig, offset, count)
    IN /\ r.result = offset
       /\ r.sig.cuts = IF offset = 0 /\ count = Width THEN sig.cuts
                       ELSE sig.cuts \cup ({offset, offset + count} \ {Width})
       /\ IndexExact(r.sig)
=============================================================================
