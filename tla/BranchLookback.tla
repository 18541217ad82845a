---------------------------- MODULE BranchLookback ----------------------------
(***************************************************************************)
(* What the correlations of the branch profiler stand for: a shift         *)
(* register of the last HISTORY_LEN directions, false at first, and for    *)
(* every branch how much more often than not it went the way the register  *)
(* holds at each distance.  (The register is the code that                 *)
(* branchconfigs-correlation.cpp keeps as a comment.)                      *)
(***************************************************************************)
EXTENDS Integers

CONSTANTS Branches, HISTORY_LEN

Distances == 0 .. HISTORY_LEN - 1

VARIABLES past, correlated

\* One more agreement or one more disagreement at each distance.
Agreement(known, register, taken) ==
  [d \in Distances |-> known[d] + IF register[d] = taken THEN 1 ELSE -1]

Unknown == [d \in Distances |-> 0]

Init ==
  /\ past = [d \in Distances |-> FALSE]
  /\ correlated = [b \in {} |-> Unknown]

Branch(b, taken) ==
  /\ correlated' = [x \in DOMAIN correlated \cup {b} |->
       IF x # b THEN correlated[x]
       ELSE Agreement(IF b \in DOMAIN correlated THEN correlated[b] ELSE Unknown, past, taken)]
  /\ past' = [d \in Distances |-> IF d = 0 THEN taken ELSE past[d - 1]]

Next == \E b \in Branches, taken \in BOOLEAN : Branch(b, taken)

Spec == Init /\ [][Next]_<<past, correlated>>
================================================================================
