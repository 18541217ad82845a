------------------------------- MODULE Profilers -------------------------------
(***************************************************************************)
(* The branch profilers with a program under them.  A program of one       *)
(* thread is run under two tools, which see the same blocks and branches:  *)
(* the one that writes intervals (BranchIntervals) and the one that keeps  *)
(* correlations (BranchCorrelation).  A program of several threads is run  *)
(* under the tool that claims to handle them (BranchThreads).              *)
(***************************************************************************)
EXTENDS Integers, Sequences, FiniteSets, FiniteSetsExt

CONSTANTS
  Branches,          \* addresses of conditional branches
  Threads,
  interval_ins, BR_HISTORY_LEN,
  BLOCK_LEN,         \* bound: instructions of a basic block
  MAX_INSTRUCTIONS,  \* bound: instructions executed by a program of one thread
  MAX_EXECUTED       \* bound: branches executed by each of several threads

ASSUME ProfilersAssumption ==
  /\ IsFiniteSet(Threads) /\ IsFiniteSet(Branches)
  /\ interval_ins \in Nat \ {0} /\ BR_HISTORY_LEN \in Nat \ {0} /\ BLOCK_LEN \in Nat \ {0}
  /\ MAX_INSTRUCTIONS \in Nat /\ MAX_EXECUTED \in Nat

VARIABLES
  program,   \* "single" or "threaded"
  \* of BranchIntervals
  icount, tmp_icount, thread_curr_ins, cond_br, ack_cond_br, tk_branch, ack_tk_branch,
  BrInfo, Interval_BrInfo, emitted, block, step,
  \* of BranchCorrelation
  CorrelationInfo, BrHistory, BrHistoryNewest, counts, executed_branches,
  \* of BranchThreads
  BranchStructs, nodes, torn, GlobalCondCount, at, branch, node, struct, loaded, executed,
  overlapped

Intervals == INSTANCE BranchIntervals

Correlation == INSTANCE BranchCorrelation WITH
  BrInfo <- CorrelationInfo, executed <- executed_branches, MAX_EXECUTED <- MAX_INSTRUCTIONS

Local == INSTANCE BranchThreads

interval_vars ==
  <<icount, tmp_icount, thread_curr_ins, cond_br, ack_cond_br, tk_branch, ack_tk_branch,
    BrInfo, Interval_BrInfo, emitted, block, step>>

correlation_vars == <<CorrelationInfo, BrHistory, BrHistoryNewest, counts, executed_branches>>

thread_vars ==
  <<BranchStructs, nodes, torn, GlobalCondCount, at, branch, node, struct, loaded, executed,
    overlapped>>

vars == <<program, interval_vars, correlation_vars, thread_vars>>

Init ==
  /\ program \in {"single", "threaded"}
  /\ Intervals!Init /\ Correlation!Init /\ Local!Init

\* A block or an instruction, which the tool for correlations does not look at.
Instruction ==
  /\ program = "single"
  /\ Intervals!EnterBlock \/ Intervals!docount \/ Intervals!do_ins_count \/ Intervals!Fini
  /\ UNCHANGED <<program, correlation_vars, thread_vars>>

\* A branch, as each of the two tools sees it.
ConditionalBranch(ip, isTaken) ==
  /\ program = "single"
  /\ Intervals!ConditionalBranch(ip, isTaken)
  /\ Correlation!ConditionalBranch(ip, isTaken)
  /\ UNCHANGED <<program, thread_vars>>

OtherBranch(ip) ==
  /\ program = "single"
  /\ Intervals!OtherBranch
  /\ Correlation!OtherBranch(ip)
  /\ UNCHANGED <<program, thread_vars>>

ThreadStep(th) ==
  /\ program = "threaded"
  /\ Local!Record(th)
  /\ UNCHANGED <<program, interval_vars, correlation_vars>>

Ended == IF program = "single" THEN step = "over" ELSE Local!Over
Terminated == Ended /\ UNCHANGED vars

Next ==
  \/ Instruction
  \/ \E ip \in Branches :
       OtherBranch(ip) \/ \E isTaken \in BOOLEAN : ConditionalBranch(ip, isTaken)
  \/ \E th \in Threads : ThreadStep(th)
  \/ Terminated

Spec == Init /\ [][Next]_vars

--------------------------------------------------------------------------------
(* Properties *)

\* A branch's counts are those of its own executions, whatever other branches run between
\* them, and the totals printed are the sums of the local statistics printed below them;
\* the tool that writes intervals, with a dictionary of its own, has come to the same.
BranchCountsExact ==
  /\ Correlation!LocalStatsExact
  /\ Correlation!TotalsAreSums
  /\ DOMAIN BrInfo = DOMAIN CorrelationInfo
  /\ \A ip \in DOMAIN BrInfo :
       /\ BrInfo[ip].total_count = CorrelationInfo[ip].total_count
       /\ BrInfo[ip].transition_count = CorrelationInfo[ip].transition_count
  /\ cond_br = counts.cond /\ tk_branch = counts.taken

\* The ring of directions gives every branch the correlations that a register shifted at
\* every conditional branch would, from before it is filled and after it wraps around.
RingIsRegister == Correlation!RingIsRegister

\* What is written for the intervals, with what the open one has, is the total, and every
\* branch is in one of the buckets of its interval, although some counts are cleared and
\* others are differences; and an interval is off by less than a block at each end.
IntervalsAddUp ==
  Intervals!CountsAddUp /\ Intervals!BucketsComplete /\ Intervals!NearlyFull

\* With several threads counts are lost, but none ever goes beyond the executions there
\* were, nothing is left half done that the final report would crash on, and nothing is
\* lost unless threads were in the tool at the same time.
RacesOnlyLose == Local!NeverOvercounts /\ Local!NoneIsNull /\ Local!ExactOneByOne
================================================================================
