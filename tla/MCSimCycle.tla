----------------------------- MODULE MCSimCycle -----------------------------
(* Two processes and a postponed one, a watch and two signals.             *)
EXTENDS SimCycle, Heap, NexusNet, SignalIndex, Trigger

CONSTANTS main, always, post, watch1, sigA, sigB

NoStatic     == [x \in Procs |-> {}]
StaticAlways == [x \in Procs |-> IF x = always THEN {sigA} ELSE {}]
WatchS       == [x \in Watches |-> sigA]

-----------------------------------------------------------------------------
(* Designs for NexusNet.  Nexus 1 is a signal; the others are ports of its *)
(* block or, where a port is connected to a port, of a block inside.  Left *)
(* out are an in port, and the conversion of an in port, whose actual has  *)
(* an effective value of its own, and a converted inout port whose actual  *)
(* has another source: there the code departs from the rules (README).     *)
Port(from, to)     == [from |-> {from}, to |-> to, conv |-> FALSE]
ConvPort(from, to) == [from |-> from, to |-> to, conv |-> TRUE]

Wired ==
  [mode |-> <<"signal", "out", "out">>, drivers |-> <<1, 2, 1>>,
   assoc |-> <<Port(2, 1), Port(3, 1)>>, nullable |-> {1}, forceable |-> 1 .. 3]
Bus ==
  [mode |-> <<"signal", "inout", "inout", "inout">>, drivers |-> <<0, 1, 1, 1>>,
   assoc |-> <<Port(2, 1), Port(3, 1), Port(4, 2)>>,
   nullable |-> {}, forceable |-> 1 .. 4]
FanOut ==
  [mode |-> <<"signal", "in", "in", "in">>, drivers |-> <<2, 0, 0, 0>>,
   assoc |-> <<Port(1, 2), ConvPort({2}, 3), ConvPort({1}, 4)>>,
   nullable |-> {}, forceable |-> 1 .. 4]
Composite ==
  [mode |-> <<"signal", "out", "out", "in">>, drivers |-> <<0, 1, 2, 0>>,
   assoc |-> <<ConvPort({2, 3}, 1), Port(1, 4)>>,
   nullable |-> {}, forceable |-> 1 .. 4]
Mixed ==
  [mode |-> <<"signal", "inout", "in", "in">>, drivers |-> <<1, 1, 0, 0>>,
   assoc |-> <<Port(1, 3), Port(2, 1), Port(1, 4)>>,
   nullable |-> {}, forceable |-> 1 .. 4]
Nested ==
  [mode |-> <<"signal", "out", "inout">>, drivers |-> <<1, 0, 1>>,
   assoc |-> <<Port(2, 1), Port(3, 2)>>, nullable |-> {}, forceable |-> 1 .. 3]
Converted ==   \* test/regress/conv13.vhd
  [mode |-> <<"signal", "inout">>, drivers |-> <<0, 2>>,
   assoc |-> <<ConvPort({2}, 1)>>, nullable |-> {}, forceable |-> {2}]

MCDesigns == {Wired, Bus, FanOut, Composite, Mixed, Nested, Converted}

-----------------------------------------------------------------------------
(* Event controls for Trigger: shared triggers, also as a part of others. *)
Leafs(kind, nets) == [kind |-> kind, args |-> nets]

MCTriggers ==
  <<Leafs("posedge", <<"a">>), Leafs("negedge", <<"b">>),
    Leafs("level", <<"a", "b">>), Leafs("or", <<1, 2>>), Leafs("negedge", <<"a">>),
    Leafs("level", <<"b">>), Leafs("or", <<5, 6>>), Leafs("or", <<4, 7>>)>>

MCEventControls == {<<1, 4>>, <<4, 4>>, <<3, 8>>, <<7, 4>>}

-----------------------------------------------------------------------------
(* What the kernel computes with, against its references.  These formulas  *)
(* have no variables, so that one state is enough to look at them in.      *)

(* heap.c: insertion, extraction and deletion keep the heap in order and   *)
(* every other event in it.                                                *)
HeapRight == Init => HeapCorrect

(* update_driving, update_effective, force_signal, release_signal: every   *)
(* order of updates comes to the values and events of the LRM.             *)
NetworkRight == Init => NetworkSettles

(* split_nexus: the index of a signal finds every nexus after any split.   *)
SplitsRight == Init => SplitsExact

(* run_trigger: shared triggers with cached results miss no edge, but for  *)
(* the exception that EdgesSeen states.                                    *)
EdgesRight == Init => EdgesSeen
=============================================================================
