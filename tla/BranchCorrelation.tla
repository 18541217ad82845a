-------------------------- MODULE BranchCorrelation ---------------------------
(***************************************************************************)
(* The pin tool branchconfigs-correlation.cpp (of which                    *)
(* branchconfigs-local.cpp is the part without correlations), in a program *)
(* of one thread: it is called before every branch of the program, keeps   *)
(* local statistics of each conditional branch, and the directions of the  *)
(* last ones in a ring.                                                    *)
(***************************************************************************)
EXTENDS Integers, Sequences, FiniteSets, Functions

CONSTANTS
  Branches,        \* the addresses of branch instructions
  BR_HISTORY_LEN,  \* 512, and at least 1
  MAX_EXECUTED     \* bound: branches the program executes

VARIABLES
  BrInfo,             \* BranchStruct of each conditional branch met
  BrHistory, BrHistoryNewest,
  counts,             \* GlobalCondCount, GlobalUncondCount, GlobalTkCount, GlobalTransCount
  executed            \* history: the branches executed

vars == <<BrInfo, BrHistory, BrHistoryNewest, counts, executed>>

Slots == 0 .. BR_HISTORY_LEN - 1
Number(taken) == IF taken THEN 1 ELSE 0

\* The slot of the direction i + 1 conditional branches ago.
Lookback(newest, i) == (BR_HISTORY_LEN + newest - i) % BR_HISTORY_LEN

Agrees(i, isTaken) == IF BrHistory[Lookback(BrHistoryNewest, i)] = isTaken THEN 1 ELSE -1

\* init_vars()
Init ==
  /\ BrInfo = << >>
  /\ BrHistory = [s \in Slots |-> FALSE]
  /\ BrHistoryNewest = 0
  /\ counts = [cond |-> 0, uncond |-> 0, taken |-> 0, trans |-> 0]
  /\ executed = << >>

\* A branch met for the first time, counted once.
BranchStruct(isTaken) ==
  [last_taken |-> isTaken, transition_count |-> 0, total_count |-> 1,
   taken_count |-> Number(isTaken),
   correlations |-> [i \in Slots |-> Agrees(i, isTaken)]]

\* incr_count(), set_transibility() and update_correlations()
Updated(b, isTaken) ==
  [last_taken |-> isTaken,
   transition_count |-> b.transition_count + Number(b.last_taken # isTaken),
   total_count |-> b.total_count + 1,
   taken_count |-> b.taken_count + Number(isTaken),
   correlations |-> [i \in Slots |-> b.correlations[i] + Agrees(i, isTaken)]]

\* record_branch_transitions()
Recorded(ip, isTaken) ==
  [x \in DOMAIN BrInfo \cup {ip} |->
     IF x # ip THEN BrInfo[x]
     ELSE IF ip \in DOMAIN BrInfo THEN Updated(BrInfo[ip], isTaken)
     ELSE BranchStruct(isTaken)]

Transits(ip, isTaken) == ip \in DOMAIN BrInfo /\ BrInfo[ip].last_taken # isTaken

\* Mutant: the newest slot is never wrapped around.
Remember_no_wrap(isTaken) ==
  /\ BrHistoryNewest' = BrHistoryNewest + 1
  /\ BrHistory' = [s \in Slots \cup {BrHistoryNewest'} |->
       IF s = BrHistoryNewest' THEN isTaken ELSE BrHistory[s]]

\* update_global_branch_history()
Remember(isTaken) ==
  /\ BrHistoryNewest' = (BrHistoryNewest + 1) % BR_HISTORY_LEN
  /\ BrHistory' = [BrHistory EXCEPT ![BrHistoryNewest'] = isTaken]

\* Mutant: transitions of all branches together, whichever branch went last.
ConditionalBranch_global(ip, isTaken) ==
  /\ Len(executed) < MAX_EXECUTED
  /\ BrInfo' = Recorded(ip, isTaken)
  /\ Remember(isTaken)
  /\ counts' = [counts EXCEPT !.cond = @ + 1, !.taken = @ + Number(isTaken),
                              !.trans = @ + Number(BrHistory[BrHistoryNewest] # isTaken)]
  /\ executed' = Append(executed, [ip |-> ip, taken |-> isTaken, cond |-> TRUE])

ConditionalBranch(ip, isTaken) ==
  /\ Len(executed) < MAX_EXECUTED
  /\ BrInfo' = Recorded(ip, isTaken)
  /\ Remember(isTaken)
  /\ counts' = [counts EXCEPT !.cond = @ + 1, !.taken = @ + Number(isTaken),
                              !.trans = @ + Number(Transits(ip, isTaken))]
  /\ executed' = Append(executed, [ip |-> ip, taken |-> isTaken, cond |-> TRUE])

\* A branch without fall-through: counted, not recorded, and no part of the history.
OtherBranch(ip) ==
  /\ Len(executed) < MAX_EXECUTED
  /\ counts' = [counts EXCEPT !.uncond = @ + 1, !.taken = @ + 1]
  /\ executed' = Append(executed, [ip |-> ip, taken |-> TRUE, cond |-> FALSE])
  /\ UNCHANGED <<BrInfo, BrHistory, BrHistoryNewest>>

Next ==
  \E ip \in Branches :
    \/ \E isTaken \in BOOLEAN : ConditionalBranch(ip, isTaken)
    \/ OtherBranch(ip)

Spec == Init /\ [][Next]_vars

--------------------------------------------------------------------------------
(* Properties *)

\* When the conditional branch ip was executed: places in the history.
Executions(ip) == {k \in DOMAIN executed : executed[k].cond /\ executed[k].ip = ip}

\* A branch's counts are those of its own executions, whatever other branches run
\* between them: a transition is two of them in a row in different directions.
LocalStatsExact ==
  /\ DOMAIN BrInfo = {ip \in Branches : Executions(ip) # {}}
  /\ \A ip \in DOMAIN BrInfo :
       LET runs == Executions(ip)
       IN  /\ BrInfo[ip].total_count = Cardinality(runs)
           /\ BrInfo[ip].taken_count = Cardinality({k \in runs : executed[k].taken})
           /\ BrInfo[ip].transition_count =
                Cardinality({k \in runs :
                  \E j \in runs : /\ j < k /\ \A l \in runs : l <= j \/ l >= k
                                  /\ executed[j].taken # executed[k].taken})

\* The totals printed are the sums of the local statistics printed below them.
TotalsAreSums ==
  /\ counts.cond = SumFunction([ip \in DOMAIN BrInfo |-> BrInfo[ip].total_count])
  /\ counts.trans = SumFunction([ip \in DOMAIN BrInfo |-> BrInfo[ip].transition_count])
  /\ counts.taken = SumFunction([ip \in DOMAIN BrInfo |-> BrInfo[ip].taken_count]) + counts.uncond

\* The ring gives every branch the correlations that a register shifted at every
\* conditional branch would, from before it is filled and after it wraps around.
Register == [i \in Slots |-> BrHistory[Lookback(BrHistoryNewest, i)]]

Lookbacks == INSTANCE BranchLookback WITH
  HISTORY_LEN <- BR_HISTORY_LEN,
  past <- Register,
  correlated <- [ip \in DOMAIN BrInfo |-> BrInfo[ip].correlations]

RingIsRegister == Lookbacks!Spec
================================================================================
