--------------------------- MODULE BranchIntervals ----------------------------
(***************************************************************************)
(* The pin tool st-branchconfigs-mj-v5.cpp, in a program of one thread.    *)
(* Beside totals over the whole run it writes, every interval_ins          *)
(* instructions, what was counted since the interval before: some counts   *)
(* are cleared, of others the value at the last interval is kept and       *)
(* subtracted, and branches have a second dictionary, emptied each time.   *)
(* An instruction is counted (do_ins_count) before the branch it is        *)
(* (RecordBranchOrCall); a basic block is counted (docount) at any of its  *)
(* instructions that PIN chooses.                                          *)
(***************************************************************************)
EXTENDS Integers, Sequences, FiniteSets, FiniteSetsExt

CONSTANTS
  Branches,          \* addresses of conditional branches
  interval_ins,      \* 100000000
  BLOCK_LEN,         \* bound: instructions of a basic block
  MAX_INSTRUCTIONS   \* bound: instructions executed

VARIABLES
  icount, tmp_icount, thread_curr_ins,
  cond_br, ack_cond_br, tk_branch, ack_tk_branch,
  BrInfo, Interval_BrInfo,
  emitted,    \* what was written for each interval so far
  block,      \* of the basic block that is executed: its length, how much of it is
              \* executed, and whether it is counted yet
  step        \* what PIN calls next for an instruction: "count", then "branch" or
              \* nothing, or the run is over

vars == <<icount, tmp_icount, thread_curr_ins, cond_br, ack_cond_br, tk_branch, ack_tk_branch,
          BrInfo, Interval_BrInfo, emitted, block, step>>

counters == <<icount, tmp_icount, cond_br, ack_cond_br, tk_branch, ack_tk_branch,
              BrInfo, Interval_BrInfo, emitted>>

NoBlock == [len |-> 0, done |-> 0, counted |-> TRUE]

Init ==
  /\ icount = 0 /\ tmp_icount = 0 /\ thread_curr_ins = 0
  /\ cond_br = 0 /\ ack_cond_br = 0 /\ tk_branch = 0 /\ ack_tk_branch = 0
  /\ BrInfo = << >> /\ Interval_BrInfo = << >>
  /\ emitted = << >>
  /\ block = NoBlock
  /\ step = "count"

InBlock == block.done < block.len

EnterBlock ==
  /\ step = "count" /\ ~ InBlock
  /\ \E len \in 1 .. Min({BLOCK_LEN, MAX_INSTRUCTIONS - thread_curr_ins}) :
       block' = [len |-> len, done |-> 0, counted |-> FALSE]
  /\ UNCHANGED <<counters, thread_curr_ins, step>>

\* Before any one of the block's instructions.
docount ==
  /\ step = "count" /\ InBlock /\ ~ block.counted
  /\ icount' = icount + block.len
  /\ tmp_icount' = tmp_icount + block.len
  /\ block' = [block EXCEPT !.counted = TRUE]
  /\ UNCHANGED <<thread_curr_ins, cond_br, ack_cond_br, tk_branch, ack_tk_branch, BrInfo,
                 Interval_BrInfo, emitted, step>>

\* The bucket, of ten, that a branch's rate of transitions falls in.
BucketOf(b) == ((b.transition_count * 100) \div b.total_count) \div 10

Totals(info) == [ip \in DOMAIN info |-> info[ip].total_count]

TransitionBuckets(info) ==
  [i \in 0 .. 9 |-> SumFunctionOnSet(Totals(info), {ip \in DOMAIN info : BucketOf(info[ip]) = i})]

\* What is written for an interval.
Interval ==
  [ins |-> tmp_icount, cond |-> cond_br - ack_cond_br, taken |-> tk_branch - ack_tk_branch,
   buckets |-> TransitionBuckets(Interval_BrInfo)]

\* Mutant: taken branches are not acknowledged.
EmitInterval_no_ack ==
  /\ emitted' = Append(emitted, Interval)
  /\ tmp_icount' = 0
  /\ ack_cond_br' = cond_br /\ ack_tk_branch' = ack_tk_branch
  /\ Interval_BrInfo' = << >>

EmitInterval ==
  /\ emitted' = Append(emitted, Interval)
  /\ tmp_icount' = 0
  /\ ack_cond_br' = cond_br /\ ack_tk_branch' = tk_branch
  /\ Interval_BrInfo' = << >>

\* The next instruction of the block, and, when it is a branch, the last.
do_ins_count ==
  /\ step = "count" /\ InBlock
  /\ block.done + 1 = block.len => block.counted
  /\ thread_curr_ins' = thread_curr_ins + 1
  /\ IF thread_curr_ins' % interval_ins = 0 THEN EmitInterval
     ELSE UNCHANGED <<emitted, tmp_icount, ack_cond_br, ack_tk_branch, Interval_BrInfo>>
  /\ block' = [block EXCEPT !.done = @ + 1]
  /\ step' \in IF block'.done = block.len THEN {"count", "branch"} ELSE {"count"}
  /\ UNCHANGED <<icount, cond_br, tk_branch, BrInfo>>

Abs(x) == IF x < 0 THEN -x ELSE x
Number(taken) == IF taken THEN 1 ELSE 0

\* A dictionary of branches after one more execution of ip.
Recorded(info, ip, isTaken) ==
  [x \in DOMAIN info \cup {ip} |->
     IF x # ip THEN info[x]
     ELSE IF ip \in DOMAIN info
     THEN [last_dir |-> isTaken, total_count |-> info[ip].total_count + 1,
           transition_count |-> info[ip].transition_count + Number(info[ip].last_dir # isTaken)]
     ELSE [last_dir |-> isTaken, total_count |-> 1, transition_count |-> 0]]

\* RecordBranchOrCall(), of a branch that may fall through ...
ConditionalBranch(ip, isTaken) ==
  /\ step = "branch"
  /\ BrInfo' = Recorded(BrInfo, ip, isTaken)
  /\ Interval_BrInfo' = Recorded(Interval_BrInfo, ip, isTaken)
  /\ cond_br' = cond_br + 1
  /\ tk_branch' = tk_branch + Number(isTaken)
  /\ step' = "count"
  /\ UNCHANGED <<icount, tmp_icount, thread_curr_ins, ack_cond_br, ack_tk_branch, emitted, block>>

\* ... and of one that never does.
OtherBranch ==
  /\ step = "branch"
  /\ tk_branch' = tk_branch + 1
  /\ step' = "count"
  /\ UNCHANGED <<icount, tmp_icount, thread_curr_ins, cond_br, ack_cond_br, ack_tk_branch,
                 BrInfo, Interval_BrInfo, emitted, block>>

\* The program is over: emit_stats() prints the totals.
Fini ==
  /\ step = "count" /\ ~ InBlock
  /\ step' = "over"
  /\ UNCHANGED <<counters, thread_curr_ins, block>>

Next ==
  \/ EnterBlock \/ docount \/ do_ins_count \/ Fini
  \/ \E ip \in Branches, isTaken \in BOOLEAN : ConditionalBranch(ip, isTaken)
  \/ OtherBranch

--------------------------------------------------------------------------------
(* Properties *)

\* What was written for the intervals, with what the open one has, is the total:
\* nothing falls between two intervals or into both, although some counts are
\* cleared and others are differences.
CountsAddUp ==
  /\ icount = tmp_icount + SumFunction([k \in DOMAIN emitted |-> emitted[k].ins])
  /\ cond_br = (cond_br - ack_cond_br) + SumFunction([k \in DOMAIN emitted |-> emitted[k].cond])
  /\ tk_branch = (tk_branch - ack_tk_branch) + SumFunction([k \in DOMAIN emitted |-> emitted[k].taken])

\* In every interval each conditional branch is in one of the transition buckets:
\* no branch has a rate of 100 percent, which the code would drop as invalid.
BucketsComplete ==
  /\ \A k \in DOMAIN emitted : SumFunction(emitted[k].buckets) = emitted[k].cond
  /\ SumFunction(TransitionBuckets(BrInfo)) = cond_br
  /\ SumFunction(TransitionBuckets(Interval_BrInfo)) = cond_br - ack_cond_br

\* An interval's instructions are those executed in it, but for the basic blocks
\* that its two ends fall in: a block is counted as a whole, in one interval.
NearlyFull ==
  \A k \in DOMAIN emitted :
    Abs(emitted[k].ins - interval_ins) <= 2 * (BLOCK_LEN - 1)
================================================================================
