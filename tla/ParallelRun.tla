------------------------------ MODULE ParallelRun ------------------------------
(***************************************************************************)
(* What parallelize_func_calls of trace2ll.py promises its callers: it     *)
(* returns once it has the result of every call, or, if a call has failed, *)
(* ends the program with an error.  ParallelCalls implements it.           *)
(***************************************************************************)
EXTENDS Naturals

CONSTANT N          \* the number of calls

VARIABLES
  results,          \* the calls whose result has been collected
  broken,           \* the calls that failed
  outcome           \* "running", "returned" or "error"

vars == <<results, broken, outcome>>

Calls == 1 .. N

Init ==
  /\ results = {}
  /\ broken = {}
  /\ outcome = "running"

\* The result of one more call is collected.
Collect(w) ==
  /\ outcome = "running"
  /\ w \notin results \cup broken
  /\ results' = results \cup {w}
  /\ UNCHANGED <<broken, outcome>>

\* A call fails; it has no result, now or later.
Break(w) ==
  /\ w \notin results \cup broken
  /\ broken' = broken \cup {w}
  /\ UNCHANGED <<results, outcome>>

Return ==
  /\ outcome = "running"
  /\ results = Calls
  /\ outcome' = "returned"
  /\ UNCHANGED <<results, broken>>

GiveUp ==
  /\ outcome = "running"
  /\ broken # {}
  /\ outcome' = "error"
  /\ UNCHANGED <<results, broken>>

Next == (\E w \in Calls : Collect(w) \/ Break(w)) \/ Return \/ GiveUp

Spec == Init /\ [][Next]_vars
================================================================================
