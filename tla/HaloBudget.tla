------------------------------ MODULE HaloBudget ------------------------------
(***************************************************************************)
(* What the HALO profiler promises of the accesses it generates, whatever  *)
(* the reuse distances and the deltas it draws: in every phase of          *)
(* PHASE_LEN accesses it outputs PHASE_LEN / 5 of them, and draws them     *)
(* without replacement from the accesses profiled in that phase: no        *)
(* macroblock is generated more often than it was accessed.  A failed      *)
(* assertion may end the program while it draws.                           *)
(* HaloLocality implements this specification.                             *)
(***************************************************************************)
EXTENDS Integers, Sequences

CONSTANTS MACROBLOCK_SIZE, PHASE_LEN, Traces

VARIABLES
  trace, num_elems,   \* the input and how much of it has been read
  left,               \* macroblock -> accesses of the phase not yet generated
  drawn,              \* how many accesses have been generated in this phase
  mode                \* "count", "draw" or "end"

vars == <<trace, num_elems, left, drawn, mode>>

Init ==
  /\ trace \in Traces
  /\ num_elems = 0
  /\ left = [mb \in {} |-> 0]
  /\ drawn = 0
  /\ mode = "count"

\* An access of the trace adds to the budget of its macroblock.
Count ==
  LET mb == trace[num_elems + 1] \div MACROBLOCK_SIZE
  IN  /\ mode = "count"
      /\ num_elems < Len(trace)
      /\ num_elems' = num_elems + 1
      /\ left' = [b \in DOMAIN left \cup {mb} |->
                    (IF b \in DOMAIN left THEN left[b] ELSE 0) + (IF b = mb THEN 1 ELSE 0)]
      /\ mode' = IF num_elems' % PHASE_LEN = 0 THEN "draw" ELSE "count"
      /\ UNCHANGED <<trace, drawn>>

\* An access is generated for a macroblock that has some left.
Draw ==
  /\ mode = "draw"
  /\ drawn < PHASE_LEN \div 5
  /\ \E mb \in DOMAIN left :
       /\ left[mb] > 0
       /\ left' = [left EXCEPT ![mb] = @ - 1]
  /\ drawn' = drawn + 1
  /\ UNCHANGED <<trace, num_elems, mode>>

\* The share of the phase has been generated; the next phase starts afresh.
Clear ==
  /\ mode = "draw"
  /\ drawn = PHASE_LEN \div 5
  /\ left' = [mb \in {} |-> 0]
  /\ drawn' = 0
  /\ mode' = "count"
  /\ UNCHANGED <<trace, num_elems>>

\* The trace has been read, or an assertion has failed.
End ==
  /\ \/ mode = "count" /\ num_elems = Len(trace)
     \/ mode = "draw"
  /\ mode' = "end"
  /\ UNCHANGED <<trace, num_elems, left, drawn>>

Terminated == mode = "end" /\ UNCHANGED vars

Next == Count \/ Draw \/ Clear \/ End \/ Terminated

Spec == Init /\ [][Next]_vars

--------------------------------------------------------------------------------
(* Properties *)

\* The budgets cover a fifth of a phase exactly as it is drawn: none is overdrawn, no more
\* is drawn than is due, and while draws are due some macroblock has accesses left (what
\* the generator relies on to find one).
EnoughLeft ==
  /\ \A mb \in DOMAIN left : left[mb] \in Nat
  /\ drawn \in 0 .. PHASE_LEN \div 5
  /\ mode = "draw" /\ drawn < PHASE_LEN \div 5 => \E mb \in DOMAIN left : left[mb] > 0
================================================================================
