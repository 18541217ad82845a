------------------------------ MODULE ListMaking ------------------------------
(***************************************************************************)
(* Trace.make_list of trace2ll.py: a list is laid out for the strides that *)
(* culling has left (Placement); when it takes too much room, or does not  *)
(* follow the trace, some more strides are culled (TraceCulling) and it is *)
(* laid out anew, until it is good.                                        *)
(***************************************************************************)
EXTENDS TraceCulling, Placement

VARIABLES t, m, c   \* the list, see Placement

list == [t |-> t, m |-> m, c |-> c]

making_vars == <<cull_vars, t, m, c>>

Nodes == DOMAIN m.location
LastNode == Cardinality(Nodes) - 1

\* Where the nodes would be with no stress at all.
IdealLocations ==
  [n \in Nodes |-> m.location[0] + SumFunctionOnSet(t.offset, 1 .. n)]

ideal_footprint ==
  LET ideal == IdealLocations
      places == {ideal[n] : n \in Nodes}
  IN  Max(places) + 1 - Min(places)

achieved_footprint == c.max_location + 1 - c.min_location

\* footprint_ratio > 1.3
TooSpread == 10 * achieved_footprint > 13 * ideal_footprint

\* n * n times the covariance of two functions of the n nodes.
Covariance(f, g) ==
  Cardinality(Nodes) * SumFunction([n \in Nodes |-> f[n] * g[n]]) - SumFunction(f) * SumFunction(g)

\* Pearson's correlation < 0.75; when one of the two does not vary it is not a
\* number, which is not less.
BadlyCorrelated ==
  LET achieved == m.location
      ideal == IdealLocations
      cov == Covariance(achieved, ideal)
      variances == Covariance(achieved, achieved) * Covariance(ideal, ideal)
  IN  variances > 0 /\ (cov < 0 \/ 16 * cov * cov < 9 * variances)

\* prune_bad_lists is FALSE with -s, --strict_pruning.
IsGood == ~ parameters.prune_bad_lists \/ (~ TooSpread /\ ~ BadlyCorrelated)

\* How many nodes to prune: a tenth, or more of a list far too spread.
Pruned ==
  LET n == Len(log_strides)
      tenth == Rounded(n, 1, 10)
      spread == Rounded(n, Larger(achieved_footprint - 4 * ideal_footprint, 0), achieved_footprint)
  IN  IF TooSpread THEN Larger(tenth, spread) ELSE tenth

MakeInit == Init /\ t = FirstNode.t /\ m = FirstNode.m /\ c = FirstNode.c

Cull == (CullByParameters \/ CullNext) /\ UNCHANGED <<t, m, c>>

NewList ==
  /\ phase = "culled"
  /\ t' = FirstNode.t /\ m' = FirstNode.m /\ c' = FirstNode.c
  /\ phase' = "listing"
  /\ UNCHANGED <<original, parameters, log_strides, culled_strides, stride_delta, round>>

\* The next stride's node; that the location it is given is free is asserted.
AddNode ==
  /\ phase = "listing" /\ LastNode + 1 \in DOMAIN log_strides
  /\ LET offset == log_strides[LastNode + 1].linear_value
         longer == WithNode(list, offset)
     IN  IF NewLocation(list, offset) \in DOMAIN m.at
         THEN phase' = "assertion" /\ UNCHANGED <<t, m, c>>
         ELSE t' = longer.t /\ m' = longer.m /\ c' = longer.c /\ phase' = phase
  /\ UNCHANGED <<original, parameters, log_strides, culled_strides, stride_delta, round>>

Accept ==
  /\ phase = "listing" /\ LastNode = Len(log_strides) /\ IsGood
  /\ phase' = "made"
  /\ t' = flatten(t, m)
  /\ UNCHANGED <<original, parameters, log_strides, culled_strides, stride_delta, round, m, c>>

Prune ==
  /\ phase = "listing" /\ LastNode = Len(log_strides) /\ ~ IsGood
  /\ BeginCull(Pruned)
  /\ UNCHANGED <<t, m, c>>

Make == Cull \/ NewList \/ AddNode \/ Accept \/ Prune

--------------------------------------------------------------------------------
(* Properties *)

\* While nodes are added, each is that of the stride it was added for, with the offset
\* the stride has now, after any pruning; the extent of the list is exact; and the
\* permanent deviation is how far the last node is from where the trace itself would
\* be: a cluster that begins at "ideal - permanent" is in step with the trace again.
FollowsTrace ==
  phase = "listing" =>
    /\ \A n \in 1 .. LastNode : t.offset[n] = log_strides[n].linear_value
    /\ c.min_location = Min({m.location[n] : n \in Nodes})
    /\ c.max_location = Max({m.location[n] : n \in Nodes})
    /\ m.location[LastNode] = SumFunction(t.offset) + c.permanent_placement_delta
================================================================================
