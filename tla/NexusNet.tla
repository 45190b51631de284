------------------------------ MODULE NexusNet ------------------------------
(***************************************************************************)
(* How values travel through ports in the update phase of a cycle          *)
(* (rt/model.c): driving values up the hierarchy in the order of the ranks *)
(* of the nexuses, effective values back down, with one flag,              *)
(* NET_F_PENDING, for being in either heap.                                *)
(*                                                                         *)
(* A design has nexuses 1 .. k with their modes and number of drivers, and *)
(* port associations in the order they are elaborated: the nexuses "from"  *)
(* are connected to "to", through a conversion function or not.  The       *)
(* source of "to" is an output of each of "from".  Resolution is wired or. *)
(***************************************************************************)
EXTENDS Integers, SequencesExt

CONSTANTS
  Designs,    \* the designs that are looked at
  NULL        \* the value of a disconnected driver

Nodes(d)     == DOMAIN d.mode
Drivers(d)   == UNION {{n} \X (1 .. d.drivers[n]) : n \in Nodes(d)}
PortsOf(d, n) == {a \in DOMAIN d.assoc : d.assoc[a].to = n}

\* nexus_initial; the default value of every signal is 0.
nexus_initial == 0

\* An arbitrary conversion function, and the one the other way.
Conv(vals)  == IF 0 \in vals THEN 1 ELSE 0
ConvBack(v) == 1 - v

-----------------------------------------------------------------------------
(* Elaboration *)

\* x_map_signal: NET_F_EFFECTIVE crosses the association in both directions.
\* x_convert_out and x_convert_in leave it alone.
x_map_signal(eff, a) ==
  LET ends == a.from \cup {a.to}
  IN IF ~a.conv /\ ends \cap eff # {} THEN eff \cup ends ELSE eff

\* The nexuses with NET_F_EFFECTIVE: ports of mode inout have it from the start.
Separate(d) ==
  FoldLeft(x_map_signal, {n \in Nodes(d) : d.mode[n] = "inout"}, d.assoc)

RECURSIVE nexus_rank(_, _)
nexus_rank(d, n) ==
  LET inputs == UNION {d.assoc[a].from : a \in PortsOf(d, n)}
  IN Max({0} \cup {nexus_rank(d, i) + 1 : i \in inputs})

\* n->outputs: mapped ports are pushed in front, converted ones added behind.
Outputs(d, n) ==
  LET of(conv) == SetToSortSeq({a \in DOMAIN d.assoc :
                    n \in d.assoc[a].from /\ d.assoc[a].conv = conv}, <)
  IN Reverse(of(FALSE)) \o of(TRUE)

\* The design with what elaboration and model_reset compute of it.
Elaborate(d) ==
  [mode |-> d.mode, drivers |-> d.drivers, assoc |-> d.assoc,
   nullable |-> d.nullable, forceable |-> d.forceable,
   separate |-> Separate(d),
   rank |-> [n \in Nodes(d) |-> nexus_rank(d, n)],
   outputs |-> [n \in Nodes(d) |-> Outputs(d, n)]]

Nets == {Elaborate(d) : d \in Designs}

\* n->n_sources, with the pseudo source a force leaves behind.
n_sources(d, s, n) ==
  d.drivers[n] + Cardinality(PortsOf(d, n)) + IF n \in s.pseudo THEN 1 ELSE 0

-----------------------------------------------------------------------------
(* Values.  The state s of the update phase: the values of the drivers,    *)
(* the forcing sources, the driving and effective values, the results of   *)
(* the conversions and those called in this cycle, the heaps, and the      *)
(* nexuses with an event.                                                  *)

\* put_effective, with notify_event if the value changes.
PutEffective(s, n, v) ==
  IF s.effective[n] = v THEN s
  ELSE [s EXCEPT !.effective[n] = v, !.event = @ \cup {n}]

put_driving(d, s, n, v) ==
  IF n \in d.separate
  THEN [s EXCEPT !.driving[n] = v,
                 !.failed = @ \/ n \in s.pending,   \* the assertion
                 !.pending = @ \cup {n}, !.eheap = @ \cup {n}]
  ELSE PutEffective(s, n, v)

\* What an output sees of n: source_value and x_driving_value.
Seen(d, s, n) == IF n \in d.separate THEN s.driving[n] ELSE s.effective[n]

\* convert_driving.  The function of an in port reads the effective values of
\* its actual; that of an out port is called once in a cycle.
convert_driving(d, s, a) ==
  LET p == d.assoc[a]
      m == d.mode[p.to]
      once == \A n \in p.from : d.mode[n] = "out"
  IN IF ~p.conv \/ (once /\ a \in s.called) THEN s
     ELSE [s EXCEPT !.called = IF once THEN @ \cup {a} ELSE @,
                    !.result[a] = Conv({IF m = "in" THEN s.effective[n]
                                        ELSE Seen(d, s, n) : n \in p.from})]

\* source_value for the driver i of n and for a port.
DriverValue(s, n, i) == s.drv[<<n, i>>]
PortValue(d, s, a) ==
  LET p == d.assoc[a]
  IN IF p.conv THEN s.result[a] ELSE Seen(d, s, CHOOSE n \in p.from : TRUE)

\* calculate_driving_value.  A source that is forcing decides; null sources
\* are left out; call_resolution resolves the others.
calculate_driving_value(d, s, n) ==
  LET s1   == FoldSet(LAMBDA a, t : convert_driving(d, t, a), s, PortsOf(d, n))
      vals == ({DriverValue(s1, n, i) : i \in 1 .. d.drivers[n]}
                 \cup {PortValue(d, s1, a) : a \in PortsOf(d, n)}) \ {NULL}
  IN IF s.force[n] # NULL THEN put_driving(d, s, n, s.force[n])
     ELSE IF vals = {} THEN put_driving(d, s, n, nexus_initial)
     ELSE put_driving(d, s1, n, Max(vals))

\* calculate_effective_value, convert_effective included.
calculate_effective_value(d, s, n) ==
  LET outs == d.outputs[n]
      p    == d.assoc[Head(outs)]
  IN IF d.mode[n] = "inout" /\ outs # <<>>
     THEN PutEffective(s, n, IF p.conv THEN ConvBack(s.effective[p.to])
                              ELSE s.effective[p.to])
     ELSE IF n \in d.separate THEN PutEffective(s, n, s.driving[n])
     ELSE s

-----------------------------------------------------------------------------
(* Updates *)

defer_driving_update(s, n) ==
  IF n \in s.pending THEN s
  ELSE [s EXCEPT !.dheap = @ \cup {n}, !.pending = @ \cup {n}]

\* Mutant: a nexus with several sources is updated for each of them.
AllSourcesReadyAlways(d, s, n, safe) == TRUE

\* Whether all the sources of n have their values.
AllSourcesReady(d, s, n, safe) == n_sources(d, s, n) = 1 \/ safe

\* update_driving: outputs are updated if the nexus had an event or its
\* effective value is yet to come, at once or, after a conversion, deferred.
RECURSIVE update_driving(_, _, _, _)
update_driving(d, s, n, safe) ==
  LET s1 == calculate_driving_value(d, [s EXCEPT !.pending = @ \ {n}], n)
      output(t, a) == IF d.assoc[a].conv
                      THEN defer_driving_update(t, d.assoc[a].to)
                      ELSE update_driving(d, t, d.assoc[a].to, FALSE)
  IN IF ~AllSourcesReady(d, s, n, safe) THEN defer_driving_update(s, n)
     ELSE IF n \in d.separate \cup s1.event
     THEN FoldLeft(output, s1, d.outputs[n])
     ELSE s1

enqueue_effective(s, n) ==
  [s EXCEPT !.pending = @ \cup {n}, !.eheap = @ \cup {n}]

update_effective(d, s, n) ==
  LET inputs == UNION {d.assoc[a].from : a \in PortsOf(d, n)}
  IN FoldSet(LAMBDA i, t : enqueue_effective(t, i),
             calculate_effective_value(d, [s EXCEPT !.pending = @ \ {n}], n),
             {i \in inputs : d.mode[i] = "inout"})

\* heap_extract_min on the keys of the heap; ord breaks ties.
ExtractMin(heap, key, ord) ==
  CHOOSE n \in heap : \A m \in heap \ {n} :
    key[n] < key[m] \/ (key[n] = key[m] /\ ord[n] < ord[m])

\* The loops over driving_heap and effective_heap in model_cycle.
RECURSIVE RunDriving(_, _, _)
RunDriving(d, s, ord) ==
  LET n == ExtractMin(s.dheap, d.rank, ord)
  IN IF s.dheap = {} THEN s
     ELSE RunDriving(d, update_driving(d, [s EXCEPT !.dheap = @ \ {n}], n, TRUE),
                     ord)

RECURSIVE RunEffective(_, _, _)
RunEffective(d, s, ord) ==
  LET n == ExtractMin(s.eheap, [i \in s.eheap |-> -d.rank[i]], ord)
  IN IF s.eheap = {} THEN s
     ELSE RunEffective(d, update_effective(d, [s EXCEPT !.eheap = @ \ {n}], n),
                       ord)

\* What a process or a foreign callback does before the cycle.
force_signal(s, n, v) == [s EXCEPT !.pseudo = @ \cup {n}, !.force[n] = v]

release_signal(s, n) == [s EXCEPT !.pseudo = @ \cup {n}, !.force[n] = NULL]

\* One task of driverq: update_driver installs the value of a driver, and
\* async_pseudo_source only updates the nexus.
RunTask(d, s, task) ==
  update_driving(d, IF task.driver = 0 THEN s
                    ELSE [s EXCEPT !.drv[<<task.n, task.driver>>] = task.val],
                 task.n, FALSE)

\* The update phase of model_cycle, with the tasks of driverq in their order.
UpdatePhase(d, s, tasks, ord) ==
  LET s0 == [s EXCEPT !.called = {}, !.event = {}]
      s1 == FoldLeft(LAMBDA t, task : RunTask(d, t, task), s0, tasks)
  IN RunEffective(d, RunDriving(d, s1, ord), ord)

\* model_reset: nexuses in the order of their ranks, then effective values.
RECURSIVE ResetDriving(_, _, _, _)
ResetDriving(d, s, left, ord) ==
  LET n == ExtractMin(left, d.rank, ord)
  IN IF left = {} THEN s
     ELSE ResetDriving(d, calculate_driving_value(d, s, n), left \ {n}, ord)

RECURSIVE ResetEffective(_, _, _)
ResetEffective(d, s, ord) ==
  LET n == ExtractMin(s.eheap, [i \in s.eheap |-> -d.rank[i]], ord)
  IN IF s.eheap = {} THEN s
     ELSE ResetEffective(d, calculate_effective_value(d,
            [s EXCEPT !.eheap = @ \ {n}, !.pending = @ \ {n}], n), ord)

model_reset(d, ord) ==
  LET zero == [n \in Nodes(d) |-> nexus_initial]
      s0   == [drv |-> [x \in Drivers(d) |-> nexus_initial],
               pseudo |-> {}, force |-> [n \in Nodes(d) |-> NULL],
               driving |-> zero, effective |-> zero,
               result |-> [a \in DOMAIN d.assoc |-> 0],
               called |-> {}, dheap |-> {}, eheap |-> {}, pending |-> {},
               event |-> {}, failed |-> FALSE]
  IN ResetEffective(d, ResetDriving(d, s0, Nodes(d), ord), ord)

-----------------------------------------------------------------------------
(* What the values should be: the rules of LRM 08 sections 14.7.3.2 and    *)
(* 14.7.7.3 that the comments of the code quote.                           *)

Actual(d, n) == {a \in DOMAIN d.assoc : n \in d.assoc[a].from}

RECURSIVE Driving(_, _, _), Effective(_, _, _)

\* The driving value of a nexus that is not a port of mode in.
Driving(d, s, n) ==
  LET port(a) == IF d.assoc[a].conv
                 THEN Conv({Driving(d, s, i) : i \in d.assoc[a].from})
                 ELSE Driving(d, s, CHOOSE i \in d.assoc[a].from : TRUE)
      vals == ({s.drv[<<n, i>>] : i \in 1 .. d.drivers[n]}
                 \cup {port(a) : a \in PortsOf(d, n)}) \ {NULL}
  IN IF s.force[n] # NULL THEN s.force[n]
     ELSE IF vals = {} THEN nexus_initial ELSE Max(vals)

\* A port of mode in or inout has the effective value of its actual.
Effective(d, s, n) ==
  IF d.mode[n] = "in" /\ s.force[n] = NULL /\ PortsOf(d, n) # {}
  THEN LET p == d.assoc[CHOOSE a \in PortsOf(d, n) : TRUE]
           v == {Effective(d, s, i) : i \in p.from}
       IN IF p.conv THEN Conv(v) ELSE CHOOSE x \in v : TRUE
  ELSE IF d.mode[n] = "inout" /\ Actual(d, n) # {}
  THEN LET p == d.assoc[CHOOSE a \in Actual(d, n) : TRUE]
           v == Effective(d, s, p.to)
       IN IF p.conv THEN ConvBack(v) ELSE v
  ELSE Driving(d, s, n)

\* The state in which all values are what they should be.
SettledState(d, drv, pseudo, force) ==
  LET s == [model_reset(d, [n \in Nodes(d) |-> n]) EXCEPT
              !.drv = drv, !.pseudo = pseudo, !.force = force]
  IN [s EXCEPT !.driving = [n \in Nodes(d) |-> Driving(d, s, n)],
               !.effective = [n \in Nodes(d) |-> Effective(d, s, n)]]

\* Nothing is pending and all values are those of the state t.
Settled(d, s, t) ==
  /\ s.pending = {}
  /\ s.effective = t.effective
  /\ \A n \in d.separate : d.mode[n] # "in" => s.driving[n] = t.driving[n]

-----------------------------------------------------------------------------
(* Properties *)

Orders(d)   == SetToSeqs(Nodes(d))
Values(d)   == {v \in [Drivers(d) -> {0, 1, NULL}] :
                  \A x \in Drivers(d) : v[x] = NULL => x[1] \in d.nullable}
Unforced(d) == [n \in Nodes(d) |-> NULL]

ForceTask(n) == [n |-> n, driver |-> 0, val |-> NULL]

\* The tasks for transactions on the drivers in active, in the order ord.
Transactions(active, new, ord) ==
  LET before(x, y) == ord[x[1]] < ord[y[1]] \/ (x[1] = y[1] /\ x[2] < y[2])
  IN [i \in 1 .. Cardinality(active) |->
        LET x == SetToSortSeq(active, before)[i]
        IN [n |-> x[1], driver |-> x[2], val |-> new[x]]]

\* After model_reset, and after a cycle with transactions on any drivers, every
\* nexus has the driving and the effective value of the LRM, whatever order the
\* drivers and the nexuses of equal rank are updated in, and no nexus is left
\* pending: an update that is dropped because the nexus is pending was not
\* needed.
TransactionsSettle ==
  \A d \in Nets : \A ord \in Orders(d) :
    /\ LET s == model_reset(d, ord)
       IN Settled(d, s, SettledState(d, s.drv, {}, Unforced(d)))
    /\ \A old \in Values(d), new \in Values(d) :
         LET s == SettledState(d, old, {}, Unforced(d))
             t == SettledState(d, new, {}, Unforced(d))
         IN \A idle \in SUBSET {x \in Drivers(d) : new[x] = old[x]} :
              Settled(d, UpdatePhase(d, s,
                Transactions(Drivers(d) \ idle, new, ord), ord), t)

\* A nexus that is forced or released settles at once, in the same cycle as a
\* transaction on a driver before or after it: a release restores what the
\* drivers say by then, on the nexus and on every port connected to it.
ForcesSettle ==
  \A d \in Nets : \A n \in d.forceable, old \in Values(d), x \in Drivers(d),
       pseudo \in {{}, d.forceable}, was \in {0, 1, NULL}, becomes \in {0, 1, NULL} :
    (was = NULL \/ n \in pseudo) =>
      LET forced(v) == [Unforced(d) EXCEPT ![n] = v]
          new == [old EXCEPT ![x] = IF @ = 0 THEN 1 ELSE 0]
          s   == SettledState(d, old, pseudo, forced(was))
          s1  == IF becomes = NULL THEN release_signal(s, n)
                 ELSE force_signal(s, n, becomes)
          ord == [i \in Nodes(d) |-> i]
          run(tasks) == UpdatePhase(d, s1, tasks, ord)
          transaction == Transactions({x}, new, ord)
          t   == SettledState(d, old, {n}, forced(becomes))
          t1  == SettledState(d, new, {n}, forced(becomes))
      IN /\ Settled(d, run(<<ForceTask(n)>>), t)
         /\ Settled(d, run(<<ForceTask(n)>> \o transaction), t1)
         /\ Settled(d, run(transaction \o <<ForceTask(n)>>), t1)

\* A cycle has an event on a nexus exactly if it changes its value: no process
\* is woken by a value that the nexus has only until its other sources are
\* updated, and the assertion in put_driving holds.
EventsExact ==
  \A d \in Nets : \A ord \in Orders(d), old \in Values(d), new \in Values(d) :
    LET s  == SettledState(d, old, {}, Unforced(d))
        s1 == UpdatePhase(d, s, Transactions(Drivers(d), new, ord), ord)
    IN /\ s1.event = {n \in Nodes(d) : s1.effective[n] # s.effective[n]}
       /\ ~s1.failed

\* The update of the nexuses of a port map, whose order is that of a heap keyed
\* by rank, comes to the values and the events of the LRM.
NetworkSettles == TransactionsSettle /\ ForcesSettle /\ EventsExact
=============================================================================
