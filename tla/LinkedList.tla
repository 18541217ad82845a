------------------------------ MODULE LinkedList ------------------------------
(***************************************************************************)
(* What trace2ll.py does with a trace, from beginning to end (autorun): it *)
(* is culled and a list made of it (ListMaking); the nodes of the list are *)
(* moved about to lower the stress (optimize), shifted to begin at zero,   *)
(* and the result is checked (audit).  The stress of a node, their sum and *)
(* the dictionary of locations are never recomputed on the way; each move  *)
(* is made and taken back on the list itself to see what it would give.    *)
(***************************************************************************)
EXTENDS ListMaking

CONSTANTS
  INITIAL_THRESHOLD, \* 1 << 24: how much worse a move may make things, at first
  MAX_ITERATIONS,    \* 500
  MARGINAL_CUTOFF,   \* 24: so many marginal passes in a row end the search
  HISTORY            \* 32: passes before progress can be called marginal

ASSUME LinkedListAssumption ==
  /\ INITIAL_THRESHOLD \in Nat
  /\ MAX_ITERATIONS \in Nat \ {0} /\ MARGINAL_CUTOFF \in Nat \ {0} /\ HISTORY \in Nat \ {0}

VARIABLES
  pass,         \* optimize()'s state from one pass to the next
  search,       \* what it knows of the node it is moving
  before        \* history: m before the search for that node's move

trace_vars == <<original, parameters, log_strides, culled_strides, stride_delta, round>>
vars == <<making_vars, pass, search, before>>

NoSearch == [node |-> 0, move |-> 0, direction |-> 1, best_stress |-> 0,
             best_move |-> 0, old_location |-> 0]

ListInit ==
  /\ MakeInit
  /\ pass = [iteration |-> 0, threshold |-> INITIAL_THRESHOLD, marginal |-> 0,
             never_marginal |-> TRUE, aggressive |-> FALSE, active |-> 0]
  /\ search = NoSearch
  /\ before = m

MakeList == Make /\ UNCHANGED <<pass, search, before>>

--------------------------------------------------------------------------------
(* optimize() *)

BeginOptimize ==
  /\ phase = "made"
  /\ t' = unflatten(t, m)
  /\ phase' = "pass"
  /\ UNCHANGED <<trace_vars, m, c, pass, search, before>>

\* An aggressive pass does not mind what a move does to the node behind.
IsAggressive ==
  /\ pass.marginal < MARGINAL_CUTOFF \div 2
  /\ MAX_ITERATIONS - pass.iteration > MARGINAL_CUTOFF \div 2
  /\ pass.iteration % 4 = 0 \/ pass.never_marginal

BeginPass ==
  /\ phase = "pass" /\ pass.iteration < MAX_ITERATIONS
  /\ pass' = [pass EXCEPT !.aggressive = IsAggressive, !.active = Cardinality(Nodes)]
  /\ search' = NoSearch
  /\ phase' = "node"
  /\ UNCHANGED <<trace_vars, t, m, c, before>>

\* What a move is judged by.
Judged(moved, n) ==
  moved.global_stress - IF pass.aggressive THEN moved.stress[t.next[n]] ELSE 0

LOW_STRESS == 2 ^ 8

Skip ==
  /\ phase = "node" /\ search.node \in Nodes
  /\ m.stress[search.node] <= LOW_STRESS
  /\ pass' = [pass EXCEPT !.active = @ - 1]
  /\ search' = [search EXCEPT !.node = @ + 1]
  /\ UNCHANGED <<trace_vars, t, m, c, before, phase>>

Consider ==
  /\ phase = "node" /\ search.node \in Nodes
  /\ m.stress[search.node] > LOW_STRESS
  /\ LET n == search.node
         ideal_move == TargetLocation(t, m, n) - m.location[n]
     IN  search' = [search EXCEPT !.move = Abs(ideal_move),
                                  !.direction = IF ideal_move > 0 THEN 1 ELSE -1,
                                  !.best_stress = Judged(m, n) + pass.threshold,
                                  !.best_move = 0]
  /\ before' = m
  /\ phase' = "try"
  /\ UNCHANGED <<trace_vars, t, m, c, pass>>

Try ==
  /\ phase = "try" /\ search.move > 0
  /\ LET n == search.node
     IN  /\ m' = move_or_swap(t, m, n, m.location[n] + search.move * search.direction)
         /\ search' = [search EXCEPT !.old_location = m.location[n]]
  /\ phase' = "take back"
  /\ UNCHANGED <<trace_vars, t, c, pass, before>>

\* Mutant: leaves the node where it was tried when its old place is taken.
TakeBack_no_swap ==
  /\ phase = "take back"
  /\ m' = IF search.old_location \in DOMAIN m.at THEN m
          ELSE set_location(t, m, search.node, search.old_location, {m.location[search.node]})
  /\ search' = [search EXCEPT
       !.move = @ \div 2,
       !.best_stress = Smaller(@, Judged(m, search.node)),
       !.best_move = IF Judged(m, search.node) < search.best_stress THEN search.move ELSE @]
  /\ phase' = "try"
  /\ UNCHANGED <<trace_vars, t, c, pass, before>>

\* Mutant: the move is remembered when it is too bad.
TakeBack_any ==
  /\ phase = "take back"
  /\ m' = move_or_swap(t, m, search.node, search.old_location)
  /\ search' = [search EXCEPT !.move = @ \div 2, !.best_move = search.move]
  /\ phase' = "try"
  /\ UNCHANGED <<trace_vars, t, c, pass, before>>

\* The node goes back, in exchange with whoever it was exchanged with, and half
\* the move is tried next.
TakeBack ==
  /\ phase = "take back"
  /\ m' = move_or_swap(t, m, search.node, search.old_location)
  /\ search' = [search EXCEPT
       !.move = @ \div 2,
       !.best_stress = Smaller(@, Judged(m, search.node)),
       !.best_move = IF Judged(m, search.node) < search.best_stress THEN search.move ELSE @]
  /\ phase' = "try"
  /\ UNCHANGED <<trace_vars, t, c, pass, before>>

MoveNode ==
  /\ phase = "try" /\ search.move = 0
  /\ LET n == search.node
     IN  m' = IF search.best_move = 0 THEN m
              ELSE move_or_swap(t, m, n, m.location[n] + search.best_move * search.direction)
  /\ search' = [NoSearch EXCEPT !.node = search.node + 1]
  /\ phase' = "node"
  /\ UNCHANGED <<trace_vars, t, c, pass, before>>

\* Progress is marginal when the mean of some longer history is close to that of
\* the last passes: floating-point means, left open here once there are enough.
MayBeMarginal == IF pass.iteration + 1 >= HISTORY THEN BOOLEAN ELSE {FALSE}

Stops(marginal) ==
  \/ marginal /\ pass.marginal + 1 = MARGINAL_CUTOFF
  \/ m.global_stress = 0 \/ pass.active = 0
  \/ pass.iteration + 1 = MAX_ITERATIONS

EndPass ==
  /\ phase = "node" /\ search.node \notin Nodes
  /\ \E marginal \in MayBeMarginal :
       /\ pass' = [pass EXCEPT !.iteration = @ + 1,
                               !.threshold = (@ * 98) \div 100,
                               !.marginal = IF marginal THEN @ + 1 ELSE 0,
                               !.never_marginal = @ /\ ~ marginal]
       /\ phase' = IF Stops(marginal) THEN "cleanup" ELSE "pass"
  /\ search' = NoSearch
  /\ UNCHANGED <<trace_vars, t, m, c, before>>

--------------------------------------------------------------------------------
(* After the search. *)

WellMapped(moved) == \A n \in Nodes : moved.location[n] \in DOMAIN moved.at /\ moved.at[moved.location[n]] = n

Lowest == Min(DOMAIN m.at)

\* The list moved to begin at zero, with a dictionary of its own.
Shifted ==
  LET location == [n \in Nodes |-> m.location[n] - Lowest]
  IN  [m EXCEPT !.location = location,
                !.at = [l \in {location[n] : n \in Nodes} |-> CHOOSE n \in Nodes : location[n] = l]]

Restressed(moved) == \A n \in Nodes : StressOf(t, moved, n) = moved.stress[n]

Cleanup ==
  /\ phase = "cleanup"
  /\ IF WellMapped(m) /\ Restressed(Shifted)
     THEN /\ m' = Shifted
          /\ t' = flatten(t, Shifted)
          /\ phase' = "optimized"
     ELSE phase' = "abort" /\ UNCHANGED <<t, m>>
  /\ UNCHANGED <<trace_vars, c, pass, search, before>>

\* The list in memory, as the proxy will walk it: what is written at l.
Expanded(links, l) == m.location[links.next[m.at[l]]]

\* One hop per stride, every one by the expanded list, must visit all nodes and
\* find every stress; a set of visited locations is looked into, never filled.
Passes(links) ==
  LET hop[k \in 0 .. LastNode] == IF k = 0 THEN m.at[m.location[0]] ELSE links.next[hop[k - 1]]
  IN  /\ Lowest = 0
      /\ \A k \in 0 .. LastNode :
           /\ Expanded(links, m.location[hop[k]]) = m.location[links.next[hop[k]]]
           /\ k > 0 => /\ m.location[hop[k]] # m.location[0]
                       /\ StressOf(links, m, hop[k]) = m.stress[hop[k]]
      /\ m.location[links.next[hop[LastNode]]] = m.location[0]
      /\ m.global_stress = SumFunction([k \in 0 .. LastNode |-> m.stress[hop[k]]])

Audit ==
  /\ phase = "optimized"
  /\ IF Passes(unflatten(t, m))
     THEN /\ t' = flatten(unflatten(t, m), m)
          /\ phase' = "done"
     ELSE phase' = "abort" /\ t' = t
  /\ UNCHANGED <<trace_vars, m, c, pass, search, before>>

Terminated == phase \in {"done", "abort", "assertion", "IndexError"} /\ UNCHANGED vars

Next ==
  \/ MakeList
  \/ BeginOptimize \/ BeginPass \/ Skip \/ Consider \/ Try \/ TakeBack \/ MoveNode \/ EndPass
  \/ Cleanup \/ Audit
  \/ Terminated

Spec == ListInit /\ [][Next]_vars

--------------------------------------------------------------------------------
(* Properties *)

flattened == phase \in {"made", "optimized", "done"}

TypeOK ==
  /\ \A i \in DOMAIN log_strides :
       /\ log_strides[i].magnitude \in Nat /\ log_strides[i].linear_value \in Int
       /\ log_strides[i].linear_fractional_err \in -7 .. 0
  /\ Nodes = 0 .. LastNode /\ {DOMAIN t.offset, DOMAIN t.prev, DOMAIN t.next, DOMAIN m.stress} = {Nodes}
  /\ pass.iteration \in 0 .. MAX_ITERATIONS /\ pass.threshold \in 0 .. INITIAL_THRESHOLD
  /\ pass.marginal \in 0 .. MARGINAL_CUTOFF /\ pass.active \in 0 .. Cardinality(Nodes)
  /\ search.move \in Nat /\ search.best_move \in Nat

MapInverse ==
  /\ \A n \in Nodes : m.location[n] \in DOMAIN m.at /\ m.at[m.location[n]] = n
  /\ \A l \in DOMAIN m.at : m.at[l] \in Nodes /\ m.location[m.at[l]] = l

StressExact ==
  /\ ~ flattened => \A n \in Nodes : m.stress[n] = StressOf(t, m, n)
  /\ m.global_stress = SumFunction(m.stress)

LinksInOrder ==
  LET Link(n) == IF flattened THEN m.location[n] ELSE n
  IN  \A n \in Nodes : /\ t.next[n] = Link((n + 1) % (LastNode + 1))
                       /\ t.prev[n] = Link(IF n = 0 THEN LastNode ELSE n - 1)

\* After every addition, trial, exchange, flattening and shift: no two nodes share a
\* location and nodes_by_location is exactly the inverse of the locations, which the
\* tests for a free location and unflatten rely on; the stress kept of each node is
\* that of where it and the node before it are, and the global stress is their sum,
\* although both are only ever adjusted; each node is linked behind the one added
\* before it, be its links nodes or locations.
ListSound == phase # "abort" => TypeOK /\ MapInverse /\ StressExact /\ LinksInOrder

\* A tried move leaves nothing behind: not in the locations, the dictionary, the
\* stresses of the nodes it touched or their sum.
TrialLeavesNoTrace == phase = "try" => m = before

\* A node moves only if the move is, by the measure of the pass, less than the
\* threshold worse than standing still.
AcceptsWithinThreshold ==
  [][phase = "try" /\ m' # m /\ search'.node # search.node =>
       Judged(m', search.node) < Judged(before, search.node) + pass.threshold]_vars

\* No assertion fails, of the culling (a kept stride never takes the trace further from
\* the original, each size loses what it must) or that a new node's location is free;
\* and neither the cleanup nor the audit ends the program.
NeverAborts == phase \notin {"assertion", "abort"}
================================================================================
