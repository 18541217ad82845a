------------------------------ MODULE Placement -------------------------------
(***************************************************************************)
(* Where LinkedList of trace2ll.py puts its nodes.  A node wants to be a   *)
(* given offset away from the one before it; how far from that it is gives *)
(* its stress.  Locations must be distinct: a node whose place is taken    *)
(* goes to the nearest that balances the deviations so far, and when the   *)
(* list has drifted too far, a new cluster is begun elsewhere.             *)
(*                                                                         *)
(* A list is kept in three records:                                        *)
(*   t (the nodes in order)   offset, prev, next: functions of the node    *)
(*   m (what moves change)    location, stress, global_stress, and at, the *)
(*                            dictionary nodes_by_location                 *)
(*   c (placement only)       min_location, max_location, fallback_nodes,  *)
(*                            cluster_placement_delta, permanent_...       *)
(***************************************************************************)
EXTENDS LogStrides

CONSTANTS
  EXTRA_RANGE,     \* 1024: how far from its ideal location a node may be put
  CLUSTER_LIMIT,   \* 1 << 12: the drift that begins a new cluster
  EDGE_GAP         \* 1024: how far from the others a new cluster begins

ASSUME PlacementAssumption ==
  EXTRA_RANGE \in Nat /\ CLUSTER_LIMIT \in Nat /\ EDGE_GAP \in Nat \ {0}

LogDeviance(offset) ==
  IF offset = 0 THEN 0 ELSE Larger(Log2(Abs(offset)) - 1, 0)

\* The penalty for being deviance away: linear while small, then quadratic.
Penalty(deviance, offset) ==
  LET small == Pow2[LogDeviance(offset)]
      ratio == (32 * deviance) \div small
  IN  IF deviance <= small THEN (1024 * deviance) \div small ELSE ratio * ratio

TargetLocation(t, m, n) == m.location[t.prev[n]] + t.offset[n]

StressOf(t, m, n) ==
  IF n = 0 THEN 0
  ELSE Penalty(Abs(m.location[n] - TargetLocation(t, m, n)), t.offset[n])

\* update(): node n's stress, and the sum that is kept of them; the first node
\* has none and leaves the sum alone.
update(t, m, n) ==
  [location |-> m.location,
   at |-> m.at,
   stress |-> [m.stress EXCEPT ![n] = StressOf(t, m, n)],
   global_stress |-> IF n = 0 THEN m.global_stress
                     ELSE m.global_stress + StressOf(t, m, n) - m.stress[n]]

\* Mutant: does not recalculate the node behind the one that moved.
set_location_self_only(t, m, n, loc, vacated) ==
  LET moved == [location |-> [m.location EXCEPT ![n] = loc],
                at |-> [l \in (DOMAIN m.at \ vacated) \cup {loc} |-> IF l = loc THEN n ELSE m.at[l]],
                stress |-> m.stress,
                global_stress |-> m.global_stress]
  IN  update(t, moved, n)

\* set_location(): node n moves to loc; vacated is the location it leaves, or
\* nothing when it has none or another node is there already.
set_location(t, m, n, loc, vacated) ==
  LET moved == [location |-> [m.location EXCEPT ![n] = loc],
                at |-> [l \in (DOMAIN m.at \ vacated) \cup {loc} |-> IF l = loc THEN n ELSE m.at[l]],
                stress |-> m.stress,
                global_stress |-> m.global_stress]
  IN  update(t, update(t, moved, n), t.next[n])

swap_locations(t, m, n, o) ==
  set_location(t, set_location(t, m, n, m.location[o], {m.location[n]}),
               o, m.location[n], {})

\* The optimizer's move: to a free location, or in exchange with who is there.
move_or_swap(t, m, n, loc) ==
  IF loc \in DOMAIN m.at
  THEN swap_locations(t, m, n, m.at[loc])
  ELSE set_location(t, m, n, loc, {m.location[n]})

--------------------------------------------------------------------------------
(* A new node at the end of the list. *)

\* The ring with one more node, of the given offset, between the last and the first.
Linked(t, n, offset) ==
  [offset |-> [k \in 0 .. n |-> IF k = n THEN offset ELSE t.offset[k]],
   prev   |-> [k \in 0 .. n |-> IF k = n THEN n - 1 ELSE IF k = 0 THEN n ELSE t.prev[k]],
   next   |-> [k \in 0 .. n |-> IF k = n THEN 0 ELSE IF k = n - 1 THEN n ELSE t.next[k]]]

\* Displacements from the ideal location that are tried, first these ...
NearDisplacements(c, offset) ==
  LET reach == 2 * Pow2[LogDeviance(offset)]
  IN  Smaller(-reach, -c.cluster_placement_delta) .. Larger(reach, c.cluster_placement_delta)

FreeDisplacements(m, ideal, displacements) ==
  {d \in displacements : ideal + d \notin DOMAIN m.at}

\* ... in the order that brings the drift of the cluster closest to zero.
Balancing(c, free) ==
  LET Drift(d) == Abs(d + c.cluster_placement_delta)
  IN  CHOOSE d \in free : \A e \in free : Drift(d) < Drift(e) \/ (Drift(d) = Drift(e) /\ d <= e)

\* The displacements the node is put at: one, or none when all is taken.
Displacement(m, c, ideal, offset) ==
  LET near == FreeDisplacements(m, ideal, NearDisplacements(c, offset))
      far == FreeDisplacements(m, ideal, -EXTRA_RANGE .. EXTRA_RANGE)
  IN  IF near # {} THEN {Balancing(c, near)}
      ELSE IF far # {} THEN {Balancing(c, far)} ELSE {}

CloserToMin(c, ideal) == ideal - c.min_location < c.max_location - ideal

\* Mutant: begins a cluster at the edge itself.
ClusterStart_no_gap(c, ideal) ==
  LET traced == ideal - c.permanent_placement_delta
  IN  IF traced \notin c.min_location .. c.max_location THEN traced
      ELSE IF CloserToMin(c, ideal) THEN c.min_location
      ELSE c.max_location

\* Where a new cluster begins: at the location of the trace itself when nothing
\* is there, else beyond the closer edge of the list.
ClusterStart(c, ideal) ==
  LET traced == ideal - c.permanent_placement_delta
  IN  IF traced \notin c.min_location .. c.max_location THEN traced
      ELSE IF CloserToMin(c, ideal) THEN c.min_location - EDGE_GAP
      ELSE c.max_location + EDGE_GAP

\* No place was found, or the one that was found is too far from the trace.
GivesUpCluster(c, found) ==
  \A d \in found : Abs(c.cluster_placement_delta + d) > CLUSTER_LIMIT

InitLocation(m, c, ideal, offset) ==
  LET found == Displacement(m, c, ideal, offset)
  IN  IF GivesUpCluster(c, found) THEN ClusterStart(c, ideal)
      ELSE ideal + CHOOSE d \in found : TRUE

\* Mutant: a new cluster leaves the permanent deviation as it was.
placed_same_permanent(m, c, ideal, offset) ==
  LET loc == InitLocation(m, c, ideal, offset)
      gives_up == GivesUpCluster(c, Displacement(m, c, ideal, offset))
  IN  [min_location |-> Smaller(c.min_location, loc),
       max_location |-> Larger(c.max_location, loc),
       fallback_nodes |-> c.fallback_nodes + IF gives_up THEN 1 ELSE 0,
       cluster_placement_delta |-> IF gives_up THEN 0 ELSE c.cluster_placement_delta + loc - ideal,
       permanent_placement_delta |-> IF gives_up THEN c.permanent_placement_delta
                                     ELSE c.permanent_placement_delta + loc - ideal]

\* What the list remembers of its extent and its deviations from the trace.
placed(m, c, ideal, offset) ==
  LET loc == InitLocation(m, c, ideal, offset)
      gives_up == GivesUpCluster(c, Displacement(m, c, ideal, offset))
  IN  [min_location |-> Smaller(c.min_location, loc),
       max_location |-> Larger(c.max_location, loc),
       fallback_nodes |-> c.fallback_nodes + IF gives_up THEN 1 ELSE 0,
       cluster_placement_delta |-> IF gives_up THEN 0 ELSE c.cluster_placement_delta + loc - ideal,
       permanent_placement_delta |-> c.permanent_placement_delta + loc - ideal]

\* A list with its special first node, which is at zero, before and after itself.
FirstNode ==
  LET single == [n \in {0} |-> 0]
  IN  [t |-> [offset |-> single, prev |-> single, next |-> single],
       m |-> [location |-> single, at |-> single, stress |-> single, global_stress |-> 0],
       c |-> [min_location |-> 0, max_location |-> 0, fallback_nodes |-> 0,
              cluster_placement_delta |-> 0, permanent_placement_delta |-> 0]]

LastOf(list) == CHOOSE n \in DOMAIN list.m.location : n + 1 \notin DOMAIN list.m.location

IdealLocation(list, offset) == list.m.location[LastOf(list)] + offset

NewLocation(list, offset) == InitLocation(list.m, list.c, IdealLocation(list, offset), offset)

\* A node of the given offset added to the list: linked, placed and given its stress.
WithNode(list, offset) ==
  LET n == LastOf(list) + 1
      links == Linked(list.t, n, offset)
      Unplaced(f) == [k \in 0 .. n |-> IF k = n THEN 0 ELSE f[k]]
  IN  [t |-> links,
       m |-> set_location(links,
               [location |-> Unplaced(list.m.location), at |-> list.m.at,
                stress |-> Unplaced(list.m.stress), global_stress |-> list.m.global_stress],
               n, NewLocation(list, offset), {}),
       c |-> placed(list.m, list.c, IdealLocation(list, offset), offset)]

--------------------------------------------------------------------------------
(* Between the steps of a run a list is flattened, to be passed between processes: its *)
(* links are locations then, not nodes.                                                *)

flatten(links, moved) ==
  [links EXCEPT !.prev = [n \in DOMAIN @ |-> moved.location[@[n]]],
                !.next = [n \in DOMAIN @ |-> moved.location[@[n]]]]

unflatten(links, moved) ==
  [links EXCEPT !.prev = [n \in DOMAIN @ |-> moved.at[@[n]]],
                !.next = [n \in DOMAIN @ |-> moved.at[@[n]]]]
================================================================================
