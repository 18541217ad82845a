---------------------------- MODULE ProfilerProofs -----------------------------
(***************************************************************************)
(* Theorems about the branch profilers, each about one tool (proved of the *)
(* steps of its instance in Profilers) and then of the programs that       *)
(* Profilers runs under them, for every value of the constants:            *)
(*   - the ring of the correlation profiler is the shift register of       *)
(*     BranchLookback, and the local statistics of a branch are those of   *)
(*     its own executions;                                                 *)
(*   - with several threads counts and entries are lost to races, but none *)
(*     is counted too often, no entry is left without its counts, and      *)
(*     nothing is lost as long as no two threads are in the tool at once;  *)
(*   - what the interval profiler writes for its intervals adds up.        *)
(***************************************************************************)
EXTENDS Profilers, SumTheorems, SequenceTheorems, TLAPS

\* Sums and numbers of elements are the same in each of the instances.
LEMMA CorrelationSums ==
  /\ \A f : Correlation!SumFunction(f) = SumFunction(f)
  /\ \A S : Correlation!Cardinality(S) = Cardinality(S)
BY DEF Correlation!SumFunction, SumFunction, Correlation!SumFunctionOnSet, SumFunctionOnSet,
       Correlation!FoldFunctionOnSet, FoldFunctionOnSet, Correlation!MapThenFoldSet, MapThenFoldSet,
       Correlation!Cardinality, Cardinality, Correlation!IsFiniteSet, IsFiniteSet

LEMMA IntervalSums ==
  /\ \A f : Intervals!SumFunction(f) = SumFunction(f)
  /\ \A f, S : Intervals!SumFunctionOnSet(f, S) = SumFunctionOnSet(f, S)
  /\ \A S : Intervals!Min(S) = Min(S)
BY DEF Intervals!SumFunction, SumFunction, Intervals!SumFunctionOnSet, SumFunctionOnSet,
       Intervals!FoldFunctionOnSet, FoldFunctionOnSet, Intervals!MapThenFoldSet, MapThenFoldSet,
       Intervals!Min, Min

LEMMA LocalSums == \A f : Local!SumFunction(f) = SumFunction(f)
BY DEF Local!SumFunction, SumFunction, Local!SumFunctionOnSet, SumFunctionOnSet,
       Local!FoldFunctionOnSet, FoldFunctionOnSet, Local!MapThenFoldSet, MapThenFoldSet
--------------------------------------------------------------------------------
(* The correlation profiler. *)

Length == BR_HISTORY_LEN \in Nat \ {0}

\* There is a newest slot, and every slot holds a direction.
RingInv == BrHistoryNewest \in Correlation!Slots /\ BrHistory \in [Correlation!Slots -> BOOLEAN]
--------------------------------------------------------------------------------
(* The ring. *)

\* A number that is less than twice the length, modulo the length.
LEMMA WrapsAround ==
  ASSUME NEW L \in Nat \ {0}, NEW x \in 0 .. 2 * L - 1
  PROVE  x % L = IF x < L THEN x ELSE x - L
<1>1. CASE x < L
  BY <1>1
<1>2. CASE x >= L
  <2>1. x - L \in 0 .. L - 1 /\ x = (x - L) + L * 1
    BY <1>2
  <2> QED  BY <2>1, <1>2
<1> QED  BY <1>1, <1>2

\* Looking back i from a slot: as many slots down, from the other end if need be.
LEMMA LookbackSlot ==
  ASSUME Length, NEW newest \in Correlation!Slots, NEW i \in Correlation!Slots
  PROVE  Correlation!Lookback(newest, i) = IF i <= newest THEN newest - i
                               ELSE newest - i + BR_HISTORY_LEN
<1> DEFINE x == BR_HISTORY_LEN + newest - i
<1>1. x \in 0 .. 2 * BR_HISTORY_LEN - 1 /\ (x < BR_HISTORY_LEN <=> i > newest)
  BY DEF Length, Correlation!Slots
<1>2. x % BR_HISTORY_LEN = IF x < BR_HISTORY_LEN THEN x ELSE x - BR_HISTORY_LEN
  BY <1>1, WrapsAround DEF Length
<1> QED  BY <1>1, <1>2 DEF Length, Correlation!Slots, Correlation!Lookback

\* What is looked back at is a slot.
LEMMA LookbackIsSlot ==
  ASSUME Length, NEW newest \in Correlation!Slots, NEW i \in Correlation!Slots
  PROVE  Correlation!Lookback(newest, i) \in Correlation!Slots
BY LookbackSlot DEF Length, Correlation!Slots

\* The slot after the newest.
LEMMA NextSlot ==
  ASSUME Length, NEW newest \in Correlation!Slots
  PROVE  /\ (newest + 1) % BR_HISTORY_LEN \in Correlation!Slots
         /\ (newest + 1) % BR_HISTORY_LEN = IF newest + 1 = BR_HISTORY_LEN THEN 0 ELSE newest + 1
<1> DEFINE x == newest + 1
<1>1. x \in 0 .. 2 * BR_HISTORY_LEN - 1 /\ x <= BR_HISTORY_LEN
  BY DEF Length, Correlation!Slots
<1>2. x % BR_HISTORY_LEN = IF x < BR_HISTORY_LEN THEN x ELSE x - BR_HISTORY_LEN
  BY <1>1, WrapsAround DEF Length
<1> QED  BY <1>1, <1>2 DEF Length, Correlation!Slots

\* A direction is remembered in the one slot that is looked at last before it is
\* forgotten, so that all the others move one further away.
LEMMA RememberShifts ==
  ASSUME Length, RingInv, NEW taken \in BOOLEAN, Correlation!Remember(taken)
  PROVE  /\ RingInv'
         /\ Correlation!Register' = [d \in Correlation!Slots |->
            IF d = 0 THEN taken ELSE Correlation!Register[d - 1]]
<1> DEFINE newest == (BrHistoryNewest + 1) % BR_HISTORY_LEN
<1>1. newest \in Correlation!Slots
        /\ newest = IF BrHistoryNewest + 1 = BR_HISTORY_LEN THEN 0 ELSE BrHistoryNewest + 1
  BY NextSlot DEF RingInv
<1>2. BrHistoryNewest' = newest /\ BrHistory' = [BrHistory EXCEPT ![newest] = taken]
  BY DEF Correlation!Remember
<1>3. RingInv'
  BY <1>1, <1>2 DEF RingInv
<1> HIDE DEF newest
<1>4. ASSUME NEW d \in Correlation!Slots
      PROVE  BrHistory'[Correlation!Lookback(newest, d)] = IF d = 0 THEN taken ELSE Correlation!Register[d - 1]
  <2>1. CASE d = 0
    <3>1. Correlation!Lookback(newest, d) = newest
      BY <1>1, <2>1, LookbackSlot DEF Length, Correlation!Slots
    <3> QED  BY <1>1, <1>2, <2>1, <3>1 DEF RingInv
  <2>2. CASE d # 0
    <3>1. d - 1 \in Correlation!Slots /\ d \in Nat /\ BR_HISTORY_LEN \in Nat
      BY <2>2 DEF Correlation!Slots, Length
    <3>2. Correlation!Lookback(newest, d) = Correlation!Lookback(BrHistoryNewest, d - 1)
      <4>1. Correlation!Lookback(newest, d) = IF d <= newest THEN newest - d ELSE newest - d + BR_HISTORY_LEN
        BY <1>1, LookbackSlot
      <4>2. Correlation!Lookback(BrHistoryNewest, d - 1) =
              IF d - 1 <= BrHistoryNewest THEN BrHistoryNewest - (d - 1)
              ELSE BrHistoryNewest - (d - 1) + BR_HISTORY_LEN
        BY <3>1, LookbackSlot DEF RingInv
      <4> QED  BY <1>1, <2>2, <3>1, <4>1, <4>2 DEF RingInv, Correlation!Slots, Length
    <3>3. Correlation!Lookback(newest, d) \in Correlation!Slots /\ Correlation!Lookback(newest, d) # newest
      <4>1. Correlation!Lookback(newest, d) = IF d <= newest THEN newest - d ELSE newest - d + BR_HISTORY_LEN
        BY <1>1, LookbackSlot
      <4>2. newest \in Nat /\ newest < BR_HISTORY_LEN /\ d > 0 /\ d < BR_HISTORY_LEN
        BY <1>1, <2>2, <3>1 DEF Correlation!Slots
      <4>3. Correlation!Lookback(newest, d) # newest
        BY <3>1, <4>1, <4>2
      <4> QED  BY <1>1, <4>3, LookbackIsSlot
    <3>4. Correlation!Register[d - 1] = BrHistory[Correlation!Lookback(BrHistoryNewest, d - 1)]
      BY <3>1 DEF Correlation!Register
    <3> QED  BY <1>2, <2>2, <3>2, <3>3, <3>4 DEF RingInv
  <2> QED  BY <2>1, <2>2
<1>5. Correlation!Register' = [d \in Correlation!Slots |-> BrHistory'[Correlation!Lookback(newest, d)]]
  BY <1>2 DEF Correlation!Register, Correlation!Lookback, Correlation!Slots
<1> QED  BY <1>3, <1>4, <1>5
--------------------------------------------------------------------------------
(* The refinement. *)

Correlated == [ip \in DOMAIN CorrelationInfo |-> CorrelationInfo[ip].correlations]

\* An empty ring is a register of branches that were not taken.
LEMMA InitRegister == ASSUME Length, Correlation!Init PROVE RingInv /\ Correlation!Lookbacks!Init
<1>1. RingInv
  BY DEF Length, Correlation!Init, RingInv, Correlation!Slots
<1>2. Correlation!Register = [d \in Correlation!Slots |-> FALSE]
  <2>1. \A d \in Correlation!Slots : Correlation!Lookback(BrHistoryNewest, d) \in Correlation!Slots
    BY <1>1, LookbackIsSlot DEF RingInv
  <2> QED  BY <2>1 DEF Correlation!Init, Correlation!Register
<1>3. DOMAIN CorrelationInfo = {}
  BY DEF Correlation!Init
<1> QED  BY <1>1, <1>2, <1>3 DEF Correlation!Lookbacks!Init, Correlation!Lookbacks!Distances, Correlation!Slots

\* What a branch agrees with, it agrees with in the register.
LEMMA AgreesWithRegister ==
  ASSUME NEW i \in Correlation!Slots, NEW taken
  PROVE  Correlation!Agrees(i, taken) = IF Correlation!Register[i] = taken THEN 1 ELSE -1
BY DEF Correlation!Agrees, Correlation!Register

\* A conditional branch is counted against the register as it is, and shifted into it.
LEMMA ConditionalBranchLooksBack ==
  ASSUME Length, RingInv, NEW ip \in Branches, NEW taken \in BOOLEAN,
         Correlation!ConditionalBranch(ip, taken)
  PROVE  RingInv' /\ Correlation!Lookbacks!Branch(ip, taken)
<1>1. Correlation!Remember(taken) /\ CorrelationInfo' = Correlation!Recorded(ip, taken)
  BY DEF Correlation!ConditionalBranch
<1>2. RingInv' /\ Correlation!Register' = [d \in Correlation!Slots |->
            IF d = 0 THEN taken ELSE Correlation!Register[d - 1]]
  BY <1>1, RememberShifts
<1> DEFINE Known(b) == IF b \in DOMAIN Correlated THEN Correlated[b] ELSE Correlation!Lookbacks!Unknown
<1>3. DOMAIN CorrelationInfo' = DOMAIN CorrelationInfo \cup {ip} /\ DOMAIN Correlated = DOMAIN CorrelationInfo
  BY <1>1 DEF Correlation!Recorded, Correlated
<1>4. CorrelationInfo'[ip].correlations =
        Correlation!Lookbacks!Agreement(Known(ip), Correlation!Register, taken)
  <2>1. CASE ip \in DOMAIN CorrelationInfo
    <3>1. CorrelationInfo'[ip] = Correlation!Updated(CorrelationInfo[ip], taken)
      BY <1>1, <2>1 DEF Correlation!Recorded
    <3>2. Known(ip) = CorrelationInfo[ip].correlations
      BY <2>1 DEF Correlated
    <3>3. Correlation!Lookbacks!Agreement(Known(ip), Correlation!Register, taken) =
            [d \in Correlation!Slots |-> CorrelationInfo[ip].correlations[d] + Correlation!Agrees(d, taken)]
      BY <3>2, AgreesWithRegister
           DEF Correlation!Lookbacks!Agreement, Correlation!Lookbacks!Distances, Correlation!Slots
    <3> QED  BY <3>1, <3>3 DEF Correlation!Updated
  <2>2. CASE ip \notin DOMAIN CorrelationInfo
    <3>1. CorrelationInfo'[ip] = Correlation!BranchStruct(taken)
      BY <1>1, <2>2 DEF Correlation!Recorded
    <3>2. Known(ip) = [d \in Correlation!Slots |-> 0]
      BY <2>2 DEF Correlated, Correlation!Lookbacks!Unknown, Correlation!Lookbacks!Distances, Correlation!Slots
    <3>3. \A d \in Correlation!Slots : Correlation!Agrees(d, taken) = 0 +
            IF Correlation!Register[d] = taken THEN 1 ELSE -1
      BY AgreesWithRegister
    <3>4. Correlation!Lookbacks!Agreement(Known(ip), Correlation!Register, taken) =
            [d \in Correlation!Slots |-> Correlation!Agrees(d, taken)]
      BY <3>2, <3>3 DEF Correlation!Lookbacks!Agreement, Correlation!Lookbacks!Distances, Correlation!Slots
    <3> QED  BY <3>1, <3>4 DEF Correlation!BranchStruct
  <2> QED  BY <2>1, <2>2
<1>5. \A b \in DOMAIN CorrelationInfo' : b # ip => CorrelationInfo'[b] = CorrelationInfo[b]
  BY <1>1, <1>3 DEF Correlation!Recorded
<1>6. Correlated' = [b \in DOMAIN Correlated \cup {ip} |->
        IF b # ip THEN Correlated[b]
        ELSE Correlation!Lookbacks!Agreement(Known(ip), Correlation!Register, taken)]
  BY <1>3, <1>4, <1>5 DEF Correlated
<1> QED  BY <1>2, <1>6
              DEF Correlated, Correlation!Lookbacks!Branch, Correlation!Lookbacks!Distances, Correlation!Slots

\* A step of the profiled program is a branch, or one that nobody correlates.
LEMMA NextLooksBack ==
  ASSUME Length, RingInv, [Correlation!Next]_Correlation!vars
  PROVE  RingInv' /\ [Correlation!Lookbacks!Next]_<<Correlation!Register, Correlated>>
<1>1. CASE \E ip \in Branches, taken \in BOOLEAN : Correlation!ConditionalBranch(ip, taken)
  BY <1>1, ConditionalBranchLooksBack DEF Correlation!Lookbacks!Next
<1>2. CASE UNCHANGED <<CorrelationInfo, BrHistory, BrHistoryNewest>>
  BY <1>2 DEF RingInv, Correlation!Register, Correlated, Correlation!Lookback, Correlation!Slots
<1> QED  BY <1>1, <1>2 DEF Correlation!Next, Correlation!OtherBranch, Correlation!vars

\* The ring gives every branch the correlations that a shift register would, before and
\* after it wraps around (update_global_branch_history and update_correlations).
THEOREM RingIsARegister == ASSUME Length PROVE Correlation!Spec => Correlation!RingIsRegister
<1>1. Correlation!Init => RingInv /\ Correlation!Lookbacks!Init
  BY InitRegister
<1>2. RingInv /\ [Correlation!Next]_Correlation!vars =>
        RingInv' /\ [Correlation!Lookbacks!Next]_<<Correlation!Register, Correlated>>
  BY NextLooksBack
<1> QED  BY <1>1, <1>2, PTL
              DEF Correlation!Spec, Correlation!RingIsRegister, Correlation!Lookbacks!Spec, Correlated
--------------------------------------------------------------------------------
(* Local statistics *)

Runs == [ip : Branches, taken : BOOLEAN, cond : BOOLEAN]

\* Places in the history where a branch was taken, and where it changed its direction.
TakenAt(ip) == {k \in Correlation!Executions(ip) : executed_branches[k].taken}
ChangedAt(ip) ==
  {k \in Correlation!Executions(ip) : \E j \in Correlation!Executions(ip) :
     /\ j < k /\ \A l \in Correlation!Executions(ip) : l <= j \/ l >= k
     /\ executed_branches[j].taken # executed_branches[k].taken}

\* The last of them is remembered.
LastRemembered(ip) ==
  \E k \in Correlation!Executions(ip) : /\ \A j \in Correlation!Executions(ip) : j <= k
                            /\ CorrelationInfo[ip].last_taken = executed_branches[k].taken

StatsInv ==
  /\ executed_branches \in Seq(Runs)
  /\ Correlation!LocalStatsExact
  /\ \A ip \in DOMAIN CorrelationInfo : LastRemembered(ip)
  /\ counts \in [cond : Int, uncond : Int, taken : Int, trans : Int]
  /\ Correlation!TotalsAreSums

\* The places are finitely many.
LEMMA ExecutionsFinite ==
  ASSUME executed_branches \in Seq(Runs), NEW ip
  PROVE  /\ IsFiniteSet(Correlation!Executions(ip)) /\ IsFiniteSet(TakenAt(ip)) /\ IsFiniteSet(ChangedAt(ip))
         /\ Correlation!Executions(ip) \subseteq 1 .. Len(executed_branches) /\ Len(executed_branches) \in Nat
<1>1. /\ Len(executed_branches) \in Nat /\ DOMAIN executed_branches = 1 .. Len(executed_branches)
      /\ Correlation!Executions(ip) \subseteq 1 .. Len(executed_branches)
  BY DEF Correlation!Executions
<1>2. IsFiniteSet(Correlation!Executions(ip))
  <2>1. 1 \in Int /\ Len(executed_branches) \in Int
    BY <1>1
  <2>2. IsFiniteSet(1 .. Len(executed_branches))
    BY <2>1, FS_Interval
  <2> QED  BY <1>1, <2>2, FS_Subset
<1>3. TakenAt(ip) \subseteq Correlation!Executions(ip) /\ ChangedAt(ip) \subseteq Correlation!Executions(ip)
  BY DEF TakenAt, ChangedAt
<1> QED  BY <1>1, <1>2, <1>3, FS_Subset

\* The statistics, in these terms.
LEMMA StatsAre ==
  Correlation!LocalStatsExact <=>
    /\ DOMAIN CorrelationInfo = {ip \in Branches : Correlation!Executions(ip) # {}}
    /\ \A ip \in DOMAIN CorrelationInfo :
         /\ CorrelationInfo[ip].total_count = Cardinality(Correlation!Executions(ip))
         /\ CorrelationInfo[ip].taken_count = Cardinality(TakenAt(ip))
         /\ CorrelationInfo[ip].transition_count = Cardinality(ChangedAt(ip))
BY CorrelationSums DEF Correlation!LocalStatsExact, TakenAt, ChangedAt

\* So are they after a step.
LEMMA StatsAreNext ==
  Correlation!LocalStatsExact' <=>
    /\ DOMAIN CorrelationInfo' = {ip \in Branches : Correlation!Executions(ip)' # {}}
    /\ \A ip \in DOMAIN CorrelationInfo' :
         /\ CorrelationInfo'[ip].total_count = Cardinality(Correlation!Executions(ip)')
         /\ CorrelationInfo'[ip].taken_count = Cardinality(TakenAt(ip)')
         /\ CorrelationInfo'[ip].transition_count = Cardinality(ChangedAt(ip)')
<1>1. \A x : {k \in Correlation!Executions(x)' : executed_branches'[k].taken} = TakenAt(x)'
  BY DEF TakenAt
<1>2. \A x : {k \in Correlation!Executions(x)' : \E j \in Correlation!Executions(x)' :
                /\ j < k /\ \A l \in Correlation!Executions(x)' : l <= j \/ l >= k
                /\ executed_branches'[j].taken # executed_branches'[k].taken} = ChangedAt(x)'
  BY DEF ChangedAt
<1> QED  BY <1>1, <1>2, CorrelationSums DEF Correlation!LocalStatsExact

\* Where the branches are in the history after one more.
LEMMA PlacesAfter ==
  ASSUME executed_branches \in Seq(Runs), NEW e \in Runs,
         executed_branches' = Append(executed_branches, e), NEW x
  PROVE  LET n == Len(executed_branches) + 1
             runs == Correlation!Executions(x)
             more == Correlation!Executions(x)'
         IN  /\ executed_branches' \in Seq(Runs)
             /\ e.cond /\ e.ip = x =>
                  /\ more = runs \cup {n} /\ n \notin runs
                  /\ TakenAt(x)' = IF e.taken THEN TakenAt(x) \cup {n} ELSE TakenAt(x)
                  /\ ChangedAt(x)' =
                       IF \E j \in runs : (\A l \in runs : l <= j) /\ executed_branches[j].taken # e.taken
                       THEN ChangedAt(x) \cup {n} ELSE ChangedAt(x)
             /\ ~ (e.cond /\ e.ip = x) =>
                  more = runs /\ TakenAt(x)' = TakenAt(x) /\ ChangedAt(x)' = ChangedAt(x)
<1> DEFINE n == Len(executed_branches) + 1
           runs == Correlation!Executions(x)
           more == Correlation!Executions(x)'
<1>1. /\ executed_branches' \in Seq(Runs) /\ DOMAIN executed_branches' = DOMAIN executed_branches \cup {n}
      /\ n \notin DOMAIN executed_branches /\ executed_branches'[n] = e /\ n \in Nat
      /\ \A k \in DOMAIN executed_branches : executed_branches'[k] = executed_branches[k] /\ k < n /\ k \in Nat
  OBVIOUS
<1>2. more = {k \in DOMAIN executed_branches' : executed_branches'[k].cond /\ executed_branches'[k].ip = x}
  BY DEF Correlation!Executions
<1>3. runs \subseteq DOMAIN executed_branches
  BY DEF Correlation!Executions
<1>4. \A k \in DOMAIN executed_branches : k \in runs <=> k \in more
  BY <1>1, <1>2 DEF Correlation!Executions
<1> HIDE DEF n
<1>5. n \in more <=> e.cond /\ e.ip = x
  BY <1>1, <1>2
<1>6. more \subseteq DOMAIN executed_branches \cup {n}
  BY <1>1, <1>2
<1>7. TakenAt(x)' = {k \in more : executed_branches'[k].taken}
  BY DEF TakenAt
<1>8. ChangedAt(x)' = {k \in more : \E j \in more :
         /\ j < k /\ \A l \in more : l <= j \/ l >= k
         /\ executed_branches'[j].taken # executed_branches'[k].taken}
  BY DEF ChangedAt
<1> HIDE DEF runs, more
<1>9. CASE e.cond /\ e.ip = x
  <2>1. more = runs \cup {n} /\ n \notin runs
    BY <1>1, <1>3, <1>4, <1>5, <1>6, <1>9
  <2>2. TakenAt(x)' = IF e.taken THEN TakenAt(x) \cup {n} ELSE TakenAt(x)
    BY <1>1, <1>3, <1>7, <2>1 DEF TakenAt, runs
  <2>3. ASSUME NEW k \in runs PROVE k \in ChangedAt(x)' <=> k \in ChangedAt(x)
    <3>1. k \in more /\ k < n /\ k \in Nat /\ executed_branches'[k] = executed_branches[k]
      BY <1>1, <1>3, <2>1
    <3>2. \A j \in more : j < k => j \in runs /\ executed_branches'[j] = executed_branches[j]
      BY <1>1, <1>3, <2>1, <3>1
    <3>3. n >= k
      BY <1>1, <3>1
    <3>4. \A j \in runs : (\A l \in more : l <= j \/ l >= k) <=> (\A l \in runs : l <= j \/ l >= k)
      BY <2>1, <3>3
    <3>5. k \in ChangedAt(x)' <=> \E j \in more : /\ j < k /\ \A l \in more : l <= j \/ l >= k
                                                /\ executed_branches'[j].taken # executed_branches'[k].taken
      BY <1>8, <3>1
    <3>6. k \in ChangedAt(x) <=> \E j \in runs : /\ j < k /\ \A l \in runs : l <= j \/ l >= k
                                               /\ executed_branches[j].taken # executed_branches[k].taken
      BY DEF ChangedAt, runs
    <3>7. \A j \in runs : j \in more
      BY <2>1
    <3> QED  BY <3>1, <3>2, <3>4, <3>5, <3>6, <3>7
  <2>4. n \in ChangedAt(x)' <=>
          \E j \in runs : (\A l \in runs : l <= j) /\ executed_branches[j].taken # e.taken
    <3>1. \A j \in runs : j < n /\ j \in Nat /\ executed_branches'[j] = executed_branches[j]
      BY <1>1, <1>3
    <3>2. n \in ChangedAt(x)' <=>
            \E j \in more : /\ j < n /\ \A l \in more : l <= j \/ l >= n
                            /\ executed_branches'[j].taken # e.taken
      BY <1>1, <1>8, <2>1
    <3>3. \A j \in more : j < n <=> j \in runs
      BY <1>1, <2>1, <3>1
    <3>4. \A j \in runs : (\A l \in more : l <= j \/ l >= n) <=> (\A l \in runs : l <= j)
      <4> SUFFICES ASSUME NEW j \in runs
                   PROVE  (\A l \in more : l <= j \/ l >= n) <=> (\A l \in runs : l <= j)
        OBVIOUS
      <4>1. n >= n
        BY <1>1
      <4>2. \A l \in runs : ~ (l >= n)
        BY <1>1, <3>1
      <4> QED  BY <2>1, <4>1, <4>2
    <3> QED  BY <2>1, <3>1, <3>2, <3>3, <3>4
  <2>5. ChangedAt(x)' \subseteq runs \cup {n} /\ ChangedAt(x) \subseteq runs
    BY <1>8, <2>1 DEF ChangedAt, runs
  <2>6. ChangedAt(x)' = IF \E j \in runs : (\A l \in runs : l <= j) /\ executed_branches[j].taken # e.taken
                        THEN ChangedAt(x) \cup {n} ELSE ChangedAt(x)
    <3> DEFINE P == \E j \in runs : (\A l \in runs : l <= j) /\ executed_branches[j].taken # e.taken
               T == ChangedAt(x)
               U == ChangedAt(x)'
    <3>1. /\ n \notin runs /\ (n \in U <=> P) /\ U \subseteq runs \cup {n} /\ T \subseteq runs
          /\ \A k \in runs : k \in U <=> k \in T
      BY <2>1, <2>3, <2>4, <2>5
    <3> HIDE DEF P, T, U
    <3>2. CASE P
      <4>1. \A k : k \in U <=> k \in T \cup {n}
        BY <3>1, <3>2
      <4> QED  BY <3>2, <4>1 DEF P, T, U
    <3>3. CASE ~ P
      <4>1. \A k : k \in U <=> k \in T
        BY <3>1, <3>3
      <4> QED  BY <3>3, <4>1 DEF P, T, U
    <3> QED  BY <3>2, <3>3
  <2> QED  BY <1>1, <1>9, <2>1, <2>2, <2>6 DEF n, runs, more
<1>10. CASE ~ (e.cond /\ e.ip = x)
  <2>1. more = runs
    BY <1>3, <1>4, <1>5, <1>6, <1>10
  <2>2. \A k \in runs : executed_branches'[k] = executed_branches[k]
    BY <1>1, <1>3
  <2>3. TakenAt(x)' = TakenAt(x)
    BY <1>7, <2>1, <2>2 DEF TakenAt, runs
  <2>4. ChangedAt(x)' = ChangedAt(x)
    <3>1. ChangedAt(x) = {k \in runs : \E j \in runs :
            /\ j < k /\ \A l \in runs : l <= j \/ l >= k
            /\ executed_branches[j].taken # executed_branches[k].taken}
      BY DEF ChangedAt, runs
    <3>2. \A k \in runs : k \in ChangedAt(x)' <=> k \in ChangedAt(x)
      BY <1>8, <2>1, <2>2, <3>1
    <3> QED  BY <1>8, <2>1, <3>1, <3>2
  <2> QED  BY <1>1, <1>10, <2>1, <2>3, <2>4 DEF n, runs, more
<1> QED  BY <1>9, <1>10

\* One that is executed and the statistics of it: what the last direction says of a change.
LEMMA LastDecides ==
  ASSUME executed_branches \in Seq(Runs), NEW ip, LastRemembered(ip), NEW taken
  PROVE  (\E j \in Correlation!Executions(ip) : (\A l \in Correlation!Executions(ip) : l <= j) /\
                executed_branches[j].taken # taken)
           <=> CorrelationInfo[ip].last_taken # taken
<1>1. PICK k \in Correlation!Executions(ip) : /\ \A j \in Correlation!Executions(ip) : j <= k
                                  /\ CorrelationInfo[ip].last_taken = executed_branches[k].taken
  BY DEF LastRemembered
<1>2. Correlation!Executions(ip) \subseteq Nat
  BY ExecutionsFinite
<1>3. \A j \in Correlation!Executions(ip) : (\A l \in Correlation!Executions(ip) : l <= j) => j = k
  <2> SUFFICES ASSUME NEW j \in Correlation!Executions(ip), \A l \in Correlation!Executions(ip) : l <= j
      PROVE j = k
    OBVIOUS
  <2>1. j <= k /\ k <= j /\ j \in Nat /\ k \in Nat
    BY <1>1, <1>2
  <2> QED  BY <2>1
<1> QED  BY <1>1, <1>3

\* The statistics are counted from the places.
LEMMA StatsAreNumbers ==
  ASSUME StatsInv, NEW ip \in DOMAIN CorrelationInfo
  PROVE  /\ CorrelationInfo[ip].total_count \in Nat /\ CorrelationInfo[ip].taken_count \in Nat
         /\ CorrelationInfo[ip].transition_count \in Nat
<1>1. /\ CorrelationInfo[ip].total_count = Cardinality(Correlation!Executions(ip))
      /\ CorrelationInfo[ip].taken_count = Cardinality(TakenAt(ip))
      /\ CorrelationInfo[ip].transition_count = Cardinality(ChangedAt(ip))
  BY StatsAre DEF StatsInv
<1> QED  BY <1>1, ExecutionsFinite, FS_CardinalityType DEF StatsInv

\* A branch that was executed is found with one more execution, and whatever that adds.
LEMMA MetAgain ==
  ASSUME StatsInv, NEW ip \in Branches, NEW isTaken \in BOOLEAN, ip \in DOMAIN CorrelationInfo,
         CorrelationInfo' = Correlation!Recorded(ip, isTaken),
         executed_branches' = Append(executed_branches, [ip |-> ip, taken |-> isTaken, cond |-> TRUE])
  PROVE  /\ CorrelationInfo'[ip].total_count = Cardinality(Correlation!Executions(ip)')
         /\ CorrelationInfo'[ip].taken_count = Cardinality(TakenAt(ip)')
         /\ CorrelationInfo'[ip].transition_count = Cardinality(ChangedAt(ip)')
<1> DEFINE n == Len(executed_branches) + 1
           e == [ip |-> ip, taken |-> isTaken, cond |-> TRUE]
<1>1. e \in Runs /\ e.cond /\ e.ip = ip /\ e.taken = isTaken
        /\ executed_branches' = Append(executed_branches, e)
  BY DEF Runs
<1>2. /\ Correlation!Executions(ip)' = Correlation!Executions(ip) \cup {n}
           /\ n \notin Correlation!Executions(ip)
      /\ TakenAt(ip)' = IF isTaken THEN TakenAt(ip) \cup {n} ELSE TakenAt(ip)
      /\ ChangedAt(ip)' =
           IF \E j \in Correlation!Executions(ip) : (\A l \in Correlation!Executions(ip) : l <= j) /\
                executed_branches[j].taken # isTaken
           THEN ChangedAt(ip) \cup {n} ELSE ChangedAt(ip)
  <2> HIDE DEF e
  <2> QED  BY <1>1, PlacesAfter DEF StatsInv
<1>3. (\E j \in Correlation!Executions(ip) : (\A l \in Correlation!Executions(ip) : l <= j) /\
                executed_branches[j].taken # isTaken)
        <=> CorrelationInfo[ip].last_taken # isTaken
  BY LastDecides DEF StatsInv
<1>4. /\ CorrelationInfo'[ip].total_count = CorrelationInfo[ip].total_count + 1
      /\ CorrelationInfo'[ip].taken_count = CorrelationInfo[ip].taken_count + Correlation!Number(isTaken)
      /\ CorrelationInfo'[ip].transition_count =
           CorrelationInfo[ip].transition_count + Correlation!Number(CorrelationInfo[ip].last_taken # isTaken)
  <2>1. CorrelationInfo'[ip] = Correlation!Updated(CorrelationInfo[ip], isTaken)
    BY DEF Correlation!Recorded
  <2> QED  BY <2>1 DEF Correlation!Updated
<1>5. /\ IsFiniteSet(Correlation!Executions(ip)) /\ IsFiniteSet(TakenAt(ip)) /\ IsFiniteSet(ChangedAt(ip))
      /\ n \notin TakenAt(ip) /\ n \notin ChangedAt(ip)
  BY <1>2, ExecutionsFinite DEF StatsInv, TakenAt, ChangedAt
<1>6. /\ CorrelationInfo[ip].total_count = Cardinality(Correlation!Executions(ip))
      /\ CorrelationInfo[ip].taken_count = Cardinality(TakenAt(ip))
      /\ CorrelationInfo[ip].transition_count = Cardinality(ChangedAt(ip))
  BY StatsAre DEF StatsInv
<1> HIDE DEF n
<1>7. /\ Cardinality(Correlation!Executions(ip) \cup {n}) = Cardinality(Correlation!Executions(ip)) + 1
      /\ Cardinality(TakenAt(ip) \cup {n}) = Cardinality(TakenAt(ip)) + 1
      /\ Cardinality(ChangedAt(ip) \cup {n}) = Cardinality(ChangedAt(ip)) + 1
  BY <1>2, <1>5, FS_AddElement
<1>8. /\ Cardinality(Correlation!Executions(ip)) \in Nat /\ Cardinality(TakenAt(ip)) \in Nat
      /\ Cardinality(ChangedAt(ip)) \in Nat
  BY <1>5, FS_CardinalityType
<1>9. CorrelationInfo'[ip].total_count = Cardinality(Correlation!Executions(ip)')
  BY <1>2, <1>4, <1>6, <1>7
<1>10. CorrelationInfo'[ip].taken_count = Cardinality(TakenAt(ip)')
  <2>1. CASE isTaken
    BY <1>2, <1>4, <1>6, <1>7, <2>1 DEF Correlation!Number
  <2>2. CASE ~ isTaken
    BY <1>2, <1>4, <1>6, <1>8, <2>2 DEF Correlation!Number
  <2> QED  BY <2>1, <2>2
<1>11. CorrelationInfo'[ip].transition_count = Cardinality(ChangedAt(ip)')
  <2>1. CASE CorrelationInfo[ip].last_taken # isTaken
    BY <1>2, <1>3, <1>4, <1>6, <1>7, <2>1 DEF Correlation!Number
  <2>2. CASE ~ (CorrelationInfo[ip].last_taken # isTaken)
    BY <1>2, <1>3, <1>4, <1>6, <1>8, <2>2 DEF Correlation!Number
  <2> QED  BY <2>1, <2>2
<1> QED  BY <1>9, <1>10, <1>11

\* A branch that is met for the first time is counted once, and has not changed.
LEMMA MetFirst ==
  ASSUME StatsInv, NEW ip \in Branches, NEW isTaken \in BOOLEAN, ip \notin DOMAIN CorrelationInfo,
         CorrelationInfo' = Correlation!Recorded(ip, isTaken),
         executed_branches' = Append(executed_branches, [ip |-> ip, taken |-> isTaken, cond |-> TRUE])
  PROVE  /\ CorrelationInfo'[ip].total_count = Cardinality(Correlation!Executions(ip)')
         /\ CorrelationInfo'[ip].taken_count = Cardinality(TakenAt(ip)')
         /\ CorrelationInfo'[ip].transition_count = Cardinality(ChangedAt(ip)')
<1> DEFINE n == Len(executed_branches) + 1
           e == [ip |-> ip, taken |-> isTaken, cond |-> TRUE]
<1>1. e \in Runs /\ e.cond /\ e.ip = ip /\ e.taken = isTaken
        /\ executed_branches' = Append(executed_branches, e)
  BY DEF Runs
<1>2. Correlation!Executions(ip) = {} /\ TakenAt(ip) = {} /\ ChangedAt(ip) = {}
  BY StatsAre DEF StatsInv, TakenAt, ChangedAt
<1>3. /\ Correlation!Executions(ip)' = {n}
      /\ TakenAt(ip)' = IF isTaken THEN {n} ELSE {}
      /\ ChangedAt(ip)' = {}
  <2>1. /\ Correlation!Executions(ip)' = Correlation!Executions(ip) \cup {n}
        /\ TakenAt(ip)' = IF isTaken THEN TakenAt(ip) \cup {n} ELSE TakenAt(ip)
        /\ ChangedAt(ip)' =
             IF \E j \in Correlation!Executions(ip) : (\A l \in Correlation!Executions(ip) : l <= j) /\
                executed_branches[j].taken # isTaken
             THEN ChangedAt(ip) \cup {n} ELSE ChangedAt(ip)
    <3> HIDE DEF e
    <3> QED  BY <1>1, PlacesAfter DEF StatsInv
  <2> HIDE DEF n
  <2> QED  BY <1>2, <2>1
<1>4. CorrelationInfo'[ip] = Correlation!BranchStruct(isTaken)
  BY DEF Correlation!Recorded
<1>5. Cardinality({n}) = 1 /\ Cardinality({}) = 0
  <2> HIDE DEF n
  <2> QED  BY FS_Singleton, FS_EmptySet
<1> HIDE DEF n
<1> QED  BY <1>3, <1>4, <1>5 DEF Correlation!BranchStruct, Correlation!Number

\* What is not this branch's does not change with it.
LEMMA OthersAlone ==
  ASSUME StatsInv, NEW ip \in Branches, NEW isTaken \in BOOLEAN, NEW isCond \in BOOLEAN,
         executed_branches' = Append(executed_branches, [ip |-> ip, taken |-> isTaken, cond |-> isCond]),
         NEW x, x # ip \/ ~ isCond
  PROVE  /\ executed_branches' \in Seq(Runs)
         /\ Correlation!Executions(x)' = Correlation!Executions(x)
         /\ TakenAt(x)' = TakenAt(x)
         /\ ChangedAt(x)' = ChangedAt(x)
<1> DEFINE e == [ip |-> ip, taken |-> isTaken, cond |-> isCond]
<1>1. e \in Runs /\ ~ (e.cond /\ e.ip = x) /\ executed_branches' = Append(executed_branches, e)
  BY DEF Runs
<1> HIDE DEF e
<1> QED  BY <1>1, PlacesAfter DEF StatsInv

\* Nothing is known of a program that has executed nothing.
LEMMA InitStats == ASSUME IsFiniteSet(Branches), Correlation!Init PROVE StatsInv
<1>1. /\ DOMAIN CorrelationInfo = {} /\ executed_branches \in Seq(Runs) /\ DOMAIN executed_branches = {}
      /\ counts = [cond |-> 0, uncond |-> 0, taken |-> 0, trans |-> 0]
  BY DEF Correlation!Init
<1>2. \A ip : Correlation!Executions(ip) = {}
  BY <1>1 DEF Correlation!Executions
<1>3. Correlation!LocalStatsExact
  BY <1>1, <1>2, StatsAre
<1>4. ASSUME NEW f, DOMAIN f = {} PROVE SumFunction(f) = 0
  BY <1>4, SumEmpty DEF SumFunction
<1>5. Correlation!TotalsAreSums
  <2>1. /\ SumFunction([ip \in DOMAIN CorrelationInfo |-> CorrelationInfo[ip].total_count]) = 0
        /\ SumFunction([ip \in DOMAIN CorrelationInfo |-> CorrelationInfo[ip].transition_count]) = 0
        /\ SumFunction([ip \in DOMAIN CorrelationInfo |-> CorrelationInfo[ip].taken_count]) = 0
    BY <1>1, <1>4
  <2> QED  BY <1>1, <2>1, CorrelationSums DEF Correlation!TotalsAreSums
<1> QED  BY <1>1, <1>3, <1>5 DEF StatsInv

\* A conditional branch is counted as executed, taken and changed where it was.
LEMMA ConditionalStats ==
  ASSUME StatsInv, NEW ip \in Branches, NEW isTaken \in BOOLEAN, Correlation!ConditionalBranch(ip, isTaken)
  PROVE  Correlation!LocalStatsExact' /\ \A x \in (DOMAIN CorrelationInfo)' : LastRemembered(x)'
<1>1. /\ CorrelationInfo' = Correlation!Recorded(ip, isTaken)
      /\ executed_branches' = Append(executed_branches, [ip |-> ip, taken |-> isTaken, cond |-> TRUE])
  BY DEF Correlation!ConditionalBranch
<1>2. DOMAIN CorrelationInfo' = DOMAIN CorrelationInfo \cup {ip}
        /\ \A x \in DOMAIN CorrelationInfo : x # ip => CorrelationInfo'[x] = CorrelationInfo[x]
  BY <1>1 DEF Correlation!Recorded
<1>3. \A x : x # ip => /\ Correlation!Executions(x)' = Correlation!Executions(x) /\ TakenAt(x)' = TakenAt(x)
                       /\ ChangedAt(x)' = ChangedAt(x)
  BY <1>1, OthersAlone
<1>4. /\ CorrelationInfo'[ip].total_count = Cardinality(Correlation!Executions(ip)')
      /\ CorrelationInfo'[ip].taken_count = Cardinality(TakenAt(ip)')
      /\ CorrelationInfo'[ip].transition_count = Cardinality(ChangedAt(ip)')
  BY <1>1, MetAgain, MetFirst
<1> DEFINE n == Len(executed_branches) + 1
           e == [ip |-> ip, taken |-> isTaken, cond |-> TRUE]
<1>5. Correlation!Executions(ip)' = Correlation!Executions(ip) \cup {n}
  <2>1. e \in Runs /\ e.cond /\ e.ip = ip /\ executed_branches' = Append(executed_branches, e)
    BY <1>1 DEF Runs
  <2> HIDE DEF e
  <2> QED  BY <2>1, PlacesAfter DEF StatsInv
<1>6. DOMAIN CorrelationInfo' = {x \in Branches : Correlation!Executions(x)' # {}}
  <2>1. DOMAIN CorrelationInfo = {x \in Branches : Correlation!Executions(x) # {}}
    BY StatsAre DEF StatsInv
  <2> HIDE DEF n
  <2>2. \A x \in Branches : Correlation!Executions(x)' # {} <=> x = ip \/ Correlation!Executions(x) # {}
    BY <1>3, <1>5
  <2> QED  BY <1>2, <2>1, <2>2
<1>7. Correlation!LocalStatsExact'
  <2>1. \A x \in DOMAIN CorrelationInfo' :
          /\ CorrelationInfo'[x].total_count = Cardinality(Correlation!Executions(x)')
          /\ CorrelationInfo'[x].taken_count = Cardinality(TakenAt(x)')
          /\ CorrelationInfo'[x].transition_count = Cardinality(ChangedAt(x)')
    <3> SUFFICES ASSUME NEW x \in DOMAIN CorrelationInfo', x # ip
                 PROVE  /\ CorrelationInfo'[x].total_count = Cardinality(Correlation!Executions(x)')
                        /\ CorrelationInfo'[x].taken_count = Cardinality(TakenAt(x)')
                        /\ CorrelationInfo'[x].transition_count = Cardinality(ChangedAt(x)')
      BY <1>4
    <3>1. /\ CorrelationInfo[x].total_count = Cardinality(Correlation!Executions(x))
          /\ CorrelationInfo[x].taken_count = Cardinality(TakenAt(x))
          /\ CorrelationInfo[x].transition_count = Cardinality(ChangedAt(x))
      BY <1>2, StatsAre DEF StatsInv
    <3> QED  BY <1>2, <1>3, <3>1
  <2> QED  BY <1>6, <2>1, StatsAreNext
<1>8. ASSUME NEW x \in DOMAIN CorrelationInfo' PROVE LastRemembered(x)'
  <2>1. executed_branches \in Seq(Runs)
    BY DEF StatsInv
  <2>2. /\ n \in Nat /\ executed_branches'[n] = e
        /\ \A k \in DOMAIN executed_branches : executed_branches'[k] = executed_branches[k] /\ k < n
    BY <1>1, <2>1
  <2>3. Correlation!Executions(x) \subseteq DOMAIN executed_branches
    BY DEF Correlation!Executions
  <2>4. CASE x = ip
    <3>1. CorrelationInfo'[ip].last_taken = isTaken
      BY <1>1 DEF Correlation!Recorded, Correlation!Updated, Correlation!BranchStruct
    <3>2. n \in Correlation!Executions(x)' /\ (\A j \in Correlation!Executions(x)' : j <= n)
            /\ executed_branches'[n].taken = isTaken
      BY <1>5, <2>2, <2>3, <2>4
    <3> HIDE DEF n
    <3> QED  BY <2>4, <3>1, <3>2 DEF LastRemembered
  <2>5. CASE x # ip
    <3>1. LastRemembered(x) /\ CorrelationInfo'[x] = CorrelationInfo[x]
            /\ Correlation!Executions(x)' = Correlation!Executions(x)
      BY <1>2, <1>3, <2>5 DEF StatsInv
    <3>2. PICK k \in Correlation!Executions(x) : /\ \A j \in Correlation!Executions(x) : j <= k
                                     /\ CorrelationInfo[x].last_taken = executed_branches[k].taken
      BY <3>1 DEF LastRemembered
    <3>3. executed_branches'[k] = executed_branches[k]
      BY <2>2, <2>3
    <3> QED  BY <3>1, <3>2, <3>3 DEF LastRemembered
  <2> QED  BY <2>4, <2>5
<1> QED  BY <1>7, <1>8

\* What is added to the statistics of one branch is added to the totals.
LEMMA ConditionalTotals ==
  ASSUME IsFiniteSet(Branches), StatsInv, NEW ip \in Branches, NEW isTaken \in BOOLEAN,
         Correlation!ConditionalBranch(ip, isTaken)
  PROVE  counts' \in [cond : Int, uncond : Int, taken : Int, trans : Int] /\ Correlation!TotalsAreSums'
<1>1. CorrelationInfo' = Correlation!Recorded(ip, isTaken)
  BY DEF Correlation!ConditionalBranch
<1>2. DOMAIN CorrelationInfo' = DOMAIN CorrelationInfo \cup {ip}
        /\ \A x \in DOMAIN CorrelationInfo : x # ip => CorrelationInfo'[x] = CorrelationInfo[x]
  BY <1>1 DEF Correlation!Recorded
<1>3. IsFiniteSet(DOMAIN CorrelationInfo)
  <2>1. DOMAIN CorrelationInfo \subseteq Branches
    BY StatsAre DEF StatsInv
  <2> QED  BY <2>1, FS_Subset
<1>4. \A x \in DOMAIN CorrelationInfo :
        /\ CorrelationInfo[x].total_count \in Int
        /\ CorrelationInfo[x].taken_count \in Int
                               /\ CorrelationInfo[x].transition_count \in Int
  BY StatsAreNumbers
<1> DEFINE t == Correlation!Number(isTaken)
           c == Correlation!Number(Correlation!Transits(ip, isTaken))
<1>5. t \in Int /\ c \in Int /\ 1 \in Int
  BY DEF Correlation!Number
<1>6. /\ CorrelationInfo'[ip].total_count =
           (IF ip \in DOMAIN CorrelationInfo THEN CorrelationInfo[ip].total_count ELSE 0) + 1
      /\ CorrelationInfo'[ip].taken_count =
           (IF ip \in DOMAIN CorrelationInfo THEN CorrelationInfo[ip].taken_count ELSE 0) + t
      /\ CorrelationInfo'[ip].transition_count =
           (IF ip \in DOMAIN CorrelationInfo THEN CorrelationInfo[ip].transition_count ELSE 0) + c
  <2>1. CASE ip \in DOMAIN CorrelationInfo
    <3>1. CorrelationInfo'[ip] = Correlation!Updated(CorrelationInfo[ip], isTaken)
      BY <1>1, <2>1 DEF Correlation!Recorded
    <3>2. Correlation!Transits(ip, isTaken) <=> CorrelationInfo[ip].last_taken # isTaken
      BY <2>1 DEF Correlation!Transits
    <3> QED  BY <2>1, <3>1, <3>2 DEF Correlation!Updated, Correlation!Number
  <2>2. CASE ip \notin DOMAIN CorrelationInfo
    <3>1. CorrelationInfo'[ip] = Correlation!BranchStruct(isTaken) /\ c = 0
      BY <1>1, <2>2 DEF Correlation!Recorded, Correlation!Transits, Correlation!Number
    <3> QED  BY <1>5, <2>2, <3>1 DEF Correlation!BranchStruct
  <2> QED  BY <2>1, <2>2
<1> HIDE DEF t, c
<1> DEFINE totals == [x \in DOMAIN CorrelationInfo |-> CorrelationInfo[x].total_count]
           takens == [x \in DOMAIN CorrelationInfo |-> CorrelationInfo[x].taken_count]
           changes == [x \in DOMAIN CorrelationInfo |-> CorrelationInfo[x].transition_count]
           totalsNext == [x \in DOMAIN CorrelationInfo' |-> CorrelationInfo'[x].total_count]
           takensNext == [x \in DOMAIN CorrelationInfo' |-> CorrelationInfo'[x].taken_count]
           changesNext == [x \in DOMAIN CorrelationInfo' |-> CorrelationInfo'[x].transition_count]
<1>7. SumFunction(totalsNext) = SumFunction(totals) + 1 /\ SumFunction(totals) \in Int
  <2> DEFINE f == totals
             g == totalsNext
  <2>1. /\ DOMAIN f = DOMAIN CorrelationInfo /\ IsFiniteSet(DOMAIN f) /\ DOMAIN g = DOMAIN f \cup {ip}
             /\ \A x \in DOMAIN f : f[x] \in Int
        /\ \A x \in DOMAIN f : x # ip => g[x] = f[x]
        /\ g[ip] = (IF ip \in DOMAIN f THEN f[ip] ELSE 0) + 1
    BY <1>2, <1>3, <1>4, <1>6
  <2> HIDE DEF f, g
  <2>2. SumFunction(g) = SumFunction(f) + 1 /\ SumFunction(f) \in Int
    BY <1>5, <2>1, SumCount
  <2> QED  BY <2>2 DEF f, g
<1>8. SumFunction(takensNext) = SumFunction(takens) + t /\ SumFunction(takens) \in Int
  <2> DEFINE f == takens
             g == takensNext
  <2>1. /\ DOMAIN f = DOMAIN CorrelationInfo /\ IsFiniteSet(DOMAIN f) /\ DOMAIN g = DOMAIN f \cup {ip}
             /\ \A x \in DOMAIN f : f[x] \in Int
        /\ \A x \in DOMAIN f : x # ip => g[x] = f[x]
        /\ g[ip] = (IF ip \in DOMAIN f THEN f[ip] ELSE 0) + t
    BY <1>2, <1>3, <1>4, <1>6
  <2> HIDE DEF f, g
  <2>2. SumFunction(g) = SumFunction(f) + t /\ SumFunction(f) \in Int
    BY <1>5, <2>1, SumCount
  <2> QED  BY <2>2 DEF f, g
<1>9. SumFunction(changesNext) = SumFunction(changes) + c /\ SumFunction(changes) \in Int
  <2> DEFINE f == changes
             g == changesNext
  <2>1. /\ DOMAIN f = DOMAIN CorrelationInfo /\ IsFiniteSet(DOMAIN f) /\ DOMAIN g = DOMAIN f \cup {ip}
             /\ \A x \in DOMAIN f : f[x] \in Int
        /\ \A x \in DOMAIN f : x # ip => g[x] = f[x]
        /\ g[ip] = (IF ip \in DOMAIN f THEN f[ip] ELSE 0) + c
    BY <1>2, <1>3, <1>4, <1>6
  <2> HIDE DEF f, g
  <2>2. SumFunction(g) = SumFunction(f) + c /\ SumFunction(f) \in Int
    BY <1>5, <2>1, SumCount
  <2> QED  BY <2>2 DEF f, g
<1> HIDE DEF totals, takens, changes, totalsNext, takensNext, changesNext
<1>10. /\ counts \in [cond : Int, uncond : Int, taken : Int, trans : Int]
       /\ counts.cond = SumFunction(totals) /\ counts.trans = SumFunction(changes)
       /\ counts.taken = SumFunction(takens) + counts.uncond
  BY CorrelationSums DEF StatsInv, Correlation!TotalsAreSums, totals, takens, changes
<1>11. counts' = [cond |-> counts.cond + 1, uncond |-> counts.uncond,
                  taken |-> counts.taken + t, trans |-> counts.trans + c]
  BY <1>10 DEF Correlation!ConditionalBranch, t, c
<1>12. /\ counts'.cond = counts.cond + 1 /\ counts'.trans = counts.trans + c
       /\ counts'.taken = counts.taken + t /\ counts'.uncond = counts.uncond
  BY <1>11
<1>13. counts.cond \in Int /\ counts.trans \in Int /\ counts.taken \in Int /\ counts.uncond \in Int
  BY <1>10
<1>14. /\ counts'.cond = SumFunction(totalsNext) /\ counts'.trans = SumFunction(changesNext)
       /\ counts'.taken = SumFunction(takensNext) + counts'.uncond
  BY <1>5, <1>7, <1>8, <1>9, <1>10, <1>12, <1>13
<1>15. Correlation!TotalsAreSums'
  BY <1>14, CorrelationSums DEF Correlation!TotalsAreSums, totalsNext, takensNext, changesNext
<1> QED  BY <1>5, <1>11, <1>13, <1>15

\* A branch without fall-through is only counted, and nothing else looks at the statistics.
LEMMA OtherStats ==
  ASSUME IsFiniteSet(Branches), StatsInv, NEW ip \in Branches, Correlation!OtherBranch(ip)
  PROVE  StatsInv'
<1>1. /\ executed_branches' = Append(executed_branches, [ip |-> ip, taken |-> TRUE, cond |-> FALSE])
      /\ CorrelationInfo' = CorrelationInfo
  BY DEF Correlation!OtherBranch
<1>2. /\ executed_branches' \in Seq(Runs)
      /\ \A x : Correlation!Executions(x)' = Correlation!Executions(x) /\ TakenAt(x)' = TakenAt(x)
           /\ ChangedAt(x)' = ChangedAt(x)
  BY <1>1, OthersAlone
<1>3. Correlation!LocalStatsExact'
  <2>1. /\ DOMAIN CorrelationInfo = {x \in Branches : Correlation!Executions(x) # {}}
        /\ \A x \in DOMAIN CorrelationInfo :
             /\ CorrelationInfo[x].total_count = Cardinality(Correlation!Executions(x))
             /\ CorrelationInfo[x].taken_count = Cardinality(TakenAt(x))
             /\ CorrelationInfo[x].transition_count = Cardinality(ChangedAt(x))
    BY StatsAre DEF StatsInv
  <2>2. /\ DOMAIN CorrelationInfo' = {x \in Branches : Correlation!Executions(x)' # {}}
        /\ \A x \in DOMAIN CorrelationInfo' :
             /\ CorrelationInfo'[x].total_count = Cardinality(Correlation!Executions(x)')
             /\ CorrelationInfo'[x].taken_count = Cardinality(TakenAt(x)')
             /\ CorrelationInfo'[x].transition_count = Cardinality(ChangedAt(x)')
    BY <1>1, <1>2, <2>1
  <2> QED  BY <2>2, StatsAreNext
<1>4. ASSUME NEW x \in DOMAIN CorrelationInfo' PROVE LastRemembered(x)'
  <2>1. executed_branches \in Seq(Runs) /\ LastRemembered(x)
    BY <1>1 DEF StatsInv
  <2>2. \A k \in DOMAIN executed_branches : executed_branches'[k] = executed_branches[k]
    BY <1>1, <2>1
  <2>3. Correlation!Executions(x) \subseteq DOMAIN executed_branches
    BY DEF Correlation!Executions
  <2>4. PICK k \in Correlation!Executions(x) : /\ \A j \in Correlation!Executions(x) : j <= k
                                   /\ CorrelationInfo[x].last_taken = executed_branches[k].taken
    BY <2>1 DEF LastRemembered
  <2>5. executed_branches'[k] = executed_branches[k]
    BY <2>2, <2>3
  <2> QED  BY <1>1, <1>2, <2>4, <2>5 DEF LastRemembered
<1>5. counts' \in [cond : Int, uncond : Int, taken : Int, trans : Int] /\ Correlation!TotalsAreSums'
  <2> DEFINE totals == SumFunction([x \in DOMAIN CorrelationInfo |-> CorrelationInfo[x].total_count])
             takens == SumFunction([x \in DOMAIN CorrelationInfo |-> CorrelationInfo[x].taken_count])
             changes == SumFunction([x \in DOMAIN CorrelationInfo |-> CorrelationInfo[x].transition_count])
  <2>1. /\ counts \in [cond : Int, uncond : Int, taken : Int, trans : Int]
        /\ counts.cond = totals /\ counts.trans = changes /\ counts.taken = takens + counts.uncond
    BY CorrelationSums DEF StatsInv, Correlation!TotalsAreSums
  <2>2. takens \in Int
    <3> DEFINE f == [x \in DOMAIN CorrelationInfo |-> CorrelationInfo[x].taken_count]
    <3>1. DOMAIN f = DOMAIN CorrelationInfo /\ \A x \in DOMAIN f : f[x] \in Int
      BY StatsAreNumbers
    <3>2. IsFiniteSet(DOMAIN f)
      <4>1. DOMAIN CorrelationInfo \subseteq Branches
        BY StatsAre DEF StatsInv
      <4> QED  BY <3>1, <4>1, FS_Subset
    <3> HIDE DEF f
    <3>3. SumFunction(f) \in Int
      BY <3>1, <3>2, SumInt DEF SumFunction
    <3> QED  BY <3>3 DEF f
  <2>3. counts' = [cond |-> counts.cond, uncond |-> counts.uncond + 1,
                   taken |-> counts.taken + 1, trans |-> counts.trans]
    BY <2>1 DEF Correlation!OtherBranch
  <2>4. /\ counts'.cond = counts.cond /\ counts'.trans = counts.trans
        /\ counts'.taken = counts.taken + 1 /\ counts'.uncond = counts.uncond + 1
    BY <2>3
  <2>5. counts.cond \in Int /\ counts.trans \in Int /\ counts.taken \in Int /\ counts.uncond \in Int
    BY <2>1
  <2> HIDE DEF totals, takens, changes
  <2>6. counts'.cond = totals /\ counts'.trans = changes /\ counts'.taken = takens + counts'.uncond
    BY <2>1, <2>2, <2>4, <2>5
  <2> QED  BY <1>1, <2>3, <2>5, <2>6, CorrelationSums DEF Correlation!TotalsAreSums, totals, takens, changes
<1> QED  BY <1>2, <1>3, <1>4, <1>5 DEF StatsInv

\* Every step of the program keeps the statistics exact.
LEMMA NextStats ==
  ASSUME IsFiniteSet(Branches), StatsInv, [Correlation!Next]_Correlation!vars
  PROVE  StatsInv'
<1>1. ASSUME NEW ip \in Branches, NEW isTaken \in BOOLEAN, Correlation!ConditionalBranch(ip, isTaken)
      PROVE  StatsInv'
  <2>1. executed_branches' \in Seq(Runs)
    <3>1. executed_branches' = Append(executed_branches, [ip |-> ip, taken |-> isTaken, cond |-> TRUE])
      BY <1>1 DEF Correlation!ConditionalBranch
    <3>2. [ip |-> ip, taken |-> isTaken, cond |-> TRUE] \in Runs
      BY DEF Runs
    <3> QED  BY <3>1, <3>2 DEF StatsInv
  <2>2. Correlation!LocalStatsExact' /\ \A x \in (DOMAIN CorrelationInfo)' : LastRemembered(x)'
    BY <1>1, ConditionalStats
  <2>3. counts' \in [cond : Int, uncond : Int, taken : Int, trans : Int] /\ Correlation!TotalsAreSums'
    BY <1>1, ConditionalTotals
  <2> QED  BY <2>1, <2>2, <2>3 DEF StatsInv
<1>2. ASSUME NEW ip \in Branches, Correlation!OtherBranch(ip) PROVE StatsInv'
  BY <1>2, OtherStats
<1>3. CASE UNCHANGED Correlation!vars
  <2>1. executed_branches' = executed_branches /\ CorrelationInfo' = CorrelationInfo /\ counts' = counts
    BY <1>3 DEF Correlation!vars
  <2>2. \A x : Correlation!Executions(x)' = Correlation!Executions(x)
    BY <2>1 DEF Correlation!Executions
  <2>3. Correlation!LocalStatsExact'
    <3>1. \A x : TakenAt(x)' = TakenAt(x)
      BY <2>1, <2>2 DEF TakenAt
    <3>2. \A x : ChangedAt(x)' = ChangedAt(x)
      BY <2>1, <2>2 DEF ChangedAt
    <3> QED  BY <2>1, <2>2, <3>1, <3>2, StatsAre, StatsAreNext DEF StatsInv
  <2>4. Correlation!TotalsAreSums'
    BY <2>1 DEF StatsInv, Correlation!TotalsAreSums
  <2>5. \A x \in (DOMAIN CorrelationInfo)' : LastRemembered(x)'
    BY <2>1, <2>2 DEF StatsInv, LastRemembered
  <2> QED  BY <2>1, <2>3, <2>4, <2>5 DEF StatsInv
<1> QED  BY <1>1, <1>2, <1>3 DEF Correlation!Next

\* However branches come after each other, each has the statistics of its own executions,
\* and the totals are the sums of these (record_branch_transitions, set_transibility,
\* incr_count).
THEOREM StatsAreExact ==
  ASSUME IsFiniteSet(Branches)
  PROVE  Correlation!Spec => [](Correlation!LocalStatsExact /\ Correlation!TotalsAreSums)
<1>1. Correlation!Init => StatsInv
  BY InitStats
<1>2. StatsInv /\ [Correlation!Next]_Correlation!vars => StatsInv'
  BY NextStats
<1>3. StatsInv => Correlation!LocalStatsExact /\ Correlation!TotalsAreSums
  BY DEF StatsInv
<1> QED  BY <1>1, <1>2, <1>3, PTL DEF Correlation!Spec
--------------------------------------------------------------------------------
(* The profiler of a program with threads: the dictionary holds together. *)

Allocated == [inst_ptr : Branches, total_count : Nat]
Linked == [inst_ptr : Branches, br : Nat]

\* A thread that has found or made a node, or a BranchStruct, has one of its branch; a
\* node's BranchStruct is of the node's branch; and one that has none yet is about to be
\* given it by the thread that made it, or the program has crashed.
DictionaryInv ==
  /\ at \in [Threads -> Local!Steps]
  /\ branch \in [Threads -> Branches]
  /\ executed \in [Threads -> [Branches -> Nat]]
  /\ node \in [Threads -> Nat] /\ struct \in [Threads -> Nat] /\ loaded \in [Threads -> Nat]
  /\ BranchStructs \in Seq(Allocated) /\ nodes \in Seq(Linked)
  /\ \A n \in DOMAIN nodes : nodes[n].br # 0 =>
       nodes[n].br \in DOMAIN BranchStructs /\ BranchStructs[nodes[n].br].inst_ptr = nodes[n].inst_ptr
  /\ \A n \in DOMAIN nodes : nodes[n].br = 0 =>
       \E th \in Threads : at[th] = "crashed" \/ (at[th] = "assign" /\ node[th] = n)
  /\ \A th \in Threads :
       /\ at[th] \in {"found", "assign"} =>
            node[th] \in DOMAIN nodes /\ nodes[node[th]].inst_ptr = branch[th]
       /\ at[th] \in {"struct", "count", "linking", "assign"} =>
            /\ struct[th] \in DOMAIN BranchStructs
            /\ BranchStructs[struct[th]].inst_ptr = branch[th]

\* What the sequences hold.
LEMMA Held ==
  ASSUME DictionaryInv
  PROVE  /\ Len(BranchStructs) \in Nat /\ DOMAIN BranchStructs = 1 .. Len(BranchStructs)
         /\ \A s \in DOMAIN BranchStructs :
              /\ BranchStructs[s] \in Allocated
              /\ BranchStructs[s].inst_ptr \in Branches /\ BranchStructs[s].total_count \in Nat
         /\ Len(nodes) \in Nat /\ DOMAIN nodes = 1 .. Len(nodes)
         /\ \A n \in DOMAIN nodes :
              nodes[n] \in Linked /\ nodes[n].inst_ptr \in Branches /\ nodes[n].br \in Nat
<1>1. BranchStructs \in Seq(Allocated) /\ nodes \in Seq(Linked)
  BY DEF DictionaryInv
<1>2. /\ Len(BranchStructs) \in Nat /\ DOMAIN BranchStructs = 1 .. Len(BranchStructs)
      /\ \A s \in DOMAIN BranchStructs : BranchStructs[s] \in Allocated
      /\ Len(nodes) \in Nat /\ DOMAIN nodes = 1 .. Len(nodes)
      /\ \A n \in DOMAIN nodes : nodes[n] \in Linked
  BY <1>1
<1> QED  BY <1>2 DEF Allocated, Linked

LEMMA Typed ==
  ASSUME DictionaryInv
  PROVE  /\ at \in [Threads -> Local!Steps] /\ branch \in [Threads -> Branches]
         /\ executed \in [Threads -> [Branches -> Nat]] /\ loaded \in [Threads -> Nat]
BY DEF DictionaryInv

\* At the beginning there is nothing in it.
LEMMA InitDictionary == ASSUME Local!Init PROVE DictionaryInv
<1>1. /\ BranchStructs = << >> /\ nodes = << >> /\ branch \in [Threads -> Branches]
      /\ at = [th \in Threads |-> "running"] /\ node = [th \in Threads |-> 0]
      /\ struct = [th \in Threads |-> 0] /\ loaded = [th \in Threads |-> 0]
      /\ executed = [th \in Threads |-> [ip \in Branches |-> 0]]
  BY DEF Local!Init
<1> QED  BY <1>1 DEF DictionaryInv, Local!Steps

\* What is found is of the branch looked for.
LEMMA FindKeeps == ASSUME DictionaryInv, NEW th \in Threads, Local!Find(th) PROVE DictionaryInv'
<1>1. PICK ip \in Branches :
        /\ branch' = [branch EXCEPT ![th] = ip]
        /\ executed' = [executed EXCEPT ![th] = [executed[th] EXCEPT ![ip] = executed[th][ip] + 1]]
        /\ \/ \E n \in Local!NodesOf(ip) : node' = [node EXCEPT ![th] = n] /\ at' = [at EXCEPT ![th] = "found"]
           \/ node' = node /\ at' = [at EXCEPT ![th] = "insert"]
  BY DEF Local!Find, Local!GoTo
<1>2. at[th] = "running" /\ UNCHANGED <<BranchStructs, nodes, struct, loaded>>
  BY DEF Local!Find
<1>3. executed' \in [Threads -> [Branches -> Nat]]
  BY <1>1 DEF DictionaryInv
<1>4. CASE node' = node /\ at' = [at EXCEPT ![th] = "insert"]
  BY <1>1, <1>2, <1>3, <1>4 DEF DictionaryInv, Local!Steps
<1>5. CASE \E n \in Local!NodesOf(ip) : node' = [node EXCEPT ![th] = n] /\ at' = [at EXCEPT ![th] = "found"]
  <2>1. PICK n \in Local!NodesOf(ip) : node' = [node EXCEPT ![th] = n] /\ at' = [at EXCEPT ![th] = "found"]
    BY <1>5
  <2>2. n \in DOMAIN nodes /\ n \in Nat /\ nodes[n].inst_ptr = ip
    BY <2>1 DEF Local!NodesOf, DictionaryInv
  <2> QED  BY <1>1, <1>2, <1>3, <2>1, <2>2 DEF DictionaryInv, Local!Steps
<1> QED  BY <1>1, <1>4, <1>5

\* A node that is found has a BranchStruct, or the program crashes.
LEMMA LoadStructKeeps == ASSUME DictionaryInv, NEW th \in Threads, Local!LoadStruct(th) PROVE DictionaryInv'
<1>1. /\ at[th] = "found" /\ nodes[node[th]].br # 0
      /\ struct' = [struct EXCEPT ![th] = nodes[node[th]].br]
      /\ at' = [at EXCEPT ![th] = "struct"]
      /\ UNCHANGED <<BranchStructs, nodes, branch, node, loaded, executed>>
  BY DEF Local!LoadStruct, Local!GoTo
<1>2. /\ nodes[node[th]].br \in DOMAIN BranchStructs /\ nodes[node[th]].br \in Nat
      /\ BranchStructs[nodes[node[th]].br].inst_ptr = branch[th]
  BY <1>1, Held DEF DictionaryInv
<1> QED  BY <1>1, <1>2 DEF DictionaryInv, Local!Steps

\* A count that is read, or goes up, is the number it was of the same BranchStruct.
LEMMA ReadTotalKeeps == ASSUME DictionaryInv, NEW th \in Threads, Local!ReadTotal(th) PROVE DictionaryInv'
<1>1. /\ at[th] = "struct" /\ at' = [at EXCEPT ![th] = "count"]
      /\ loaded' = [loaded EXCEPT ![th] = BranchStructs[struct[th]].total_count]
      /\ UNCHANGED <<BranchStructs, nodes, branch, node, struct, executed>>
  BY DEF Local!ReadTotal, Local!GoTo
<1>2. BranchStructs[struct[th]].total_count \in Nat
  BY <1>1, Held DEF DictionaryInv
<1> QED  BY <1>1, <1>2 DEF DictionaryInv, Local!Steps

LEMMA WriteTotalKeeps == ASSUME DictionaryInv, NEW th \in Threads, Local!WriteTotal(th) PROVE DictionaryInv'
<1> DEFINE s == struct[th]
<1>1. /\ at[th] = "count" /\ at' = [at EXCEPT ![th] = "recorded"]
      /\ BranchStructs' = [BranchStructs EXCEPT ![s] = [@ EXCEPT !.total_count = loaded[th] + 1]]
      /\ UNCHANGED <<nodes, branch, node, struct, loaded, executed>>
  BY DEF Local!WriteTotal, Local!GoTo
<1>2. /\ DOMAIN BranchStructs' = DOMAIN BranchStructs
      /\ BranchStructs' \in Seq(Allocated)
      /\ \A x \in DOMAIN BranchStructs : BranchStructs'[x].inst_ptr = BranchStructs[x].inst_ptr
  <2>1. s \in 1 .. Len(BranchStructs) /\ BranchStructs \in Seq(Allocated) /\ loaded[th] + 1 \in Nat
    BY <1>1, Held DEF DictionaryInv
  <2>2. [BranchStructs[s] EXCEPT !.total_count = loaded[th] + 1] \in Allocated
    BY <2>1, Held DEF Allocated
  <2>3. [BranchStructs[s] EXCEPT !.total_count = loaded[th] + 1].inst_ptr = BranchStructs[s].inst_ptr
    BY <2>1, Held DEF Allocated
  <2> HIDE DEF s
  <2> QED  BY <1>1, <2>1, <2>2, <2>3, ExceptSeq, Held
<1> HIDE DEF s
<1> QED  BY <1>1, <1>2 DEF DictionaryInv, Local!Steps

\* A new BranchStruct is of the branch being recorded.
LEMMA InsertKeeps == ASSUME DictionaryInv, NEW th \in Threads, Local!Insert(th) PROVE DictionaryInv'
<1>1. /\ at[th] = "insert"
      /\ BranchStructs' = Append(BranchStructs, [inst_ptr |-> branch[th], total_count |-> 1])
      /\ struct' = [struct EXCEPT ![th] = Len(BranchStructs) + 1]
      /\ UNCHANGED <<nodes, branch, loaded, executed>>
  BY DEF Local!Insert
<1>2. /\ DOMAIN BranchStructs \subseteq DOMAIN BranchStructs'
      /\ BranchStructs' \in Seq(Allocated)
      /\ \A x \in DOMAIN BranchStructs : BranchStructs'[x] = BranchStructs[x]
      /\ Len(BranchStructs) + 1 \in DOMAIN BranchStructs' /\ Len(BranchStructs) + 1 \in Nat
      /\ BranchStructs'[Len(BranchStructs) + 1].inst_ptr = branch[th]
  <2>1. BranchStructs \in Seq(Allocated) /\ [inst_ptr |-> branch[th], total_count |-> 1] \in Allocated
    BY DEF DictionaryInv, Allocated
  <2> QED  BY <1>1, <2>1, AppendProperties, Held
<1>3. \A n \in DOMAIN nodes : nodes[n].br # 0 =>
        nodes[n].br \in DOMAIN BranchStructs' /\ BranchStructs'[nodes[n].br].inst_ptr = nodes[n].inst_ptr
  BY <1>2 DEF DictionaryInv
<1>4. \A t \in Threads \ {th} : at[t] \in {"struct", "count", "linking", "assign"} =>
        struct[t] \in DOMAIN BranchStructs' /\ BranchStructs'[struct[t]].inst_ptr = branch[t]
  BY <1>2 DEF DictionaryInv
<1>5. CASE at' = [at EXCEPT ![th] = "linking"] /\ node' = node
  <2> QED  BY <1>1, <1>2, <1>3, <1>4, <1>5 DEF DictionaryInv, Local!Steps
<1>6. CASE \E n \in Local!NodesOf(branch[th]) : node' = [node EXCEPT ![th] = n] /\ at' = [at EXCEPT ![th] = "assign"]
  <2>1. PICK n \in Local!NodesOf(branch[th]) : node' = [node EXCEPT ![th] = n] /\ at' = [at EXCEPT ![th] = "assign"]
    BY <1>6
  <2>2. n \in DOMAIN nodes /\ n \in Nat /\ nodes[n].inst_ptr = branch[th]
    BY <2>1 DEF Local!NodesOf, DictionaryInv
  <2> QED  BY <1>1, <1>2, <1>3, <1>4, <2>1, <2>2 DEF DictionaryInv, Local!Steps
<1> QED  BY <1>5, <1>6 DEF Local!Insert, Local!GoTo

\* A new node has no BranchStruct, and the thread that made it has one for it.
LEMMA LinkKeeps == ASSUME DictionaryInv, NEW th \in Threads, Local!Link(th) PROVE DictionaryInv'
<1>1. /\ at[th] = "linking" /\ at' = [at EXCEPT ![th] = "assign"]
      /\ nodes' = Append(nodes, [inst_ptr |-> branch[th], br |-> 0])
      /\ node' = [node EXCEPT ![th] = Len(nodes) + 1]
      /\ UNCHANGED <<BranchStructs, branch, struct, loaded, executed>>
  BY DEF Local!Link, Local!GoTo
<1>2. /\ DOMAIN nodes' = DOMAIN nodes \cup {Len(nodes) + 1}
      /\ nodes' \in Seq(Linked) /\ Len(nodes) + 1 \in Nat
      /\ \A n \in DOMAIN nodes : nodes'[n] = nodes[n]
      /\ nodes'[Len(nodes) + 1] = [inst_ptr |-> branch[th], br |-> 0]
      /\ Len(nodes) + 1 \notin DOMAIN nodes
  <2>1. nodes \in Seq(Linked) /\ [inst_ptr |-> branch[th], br |-> 0] \in Linked
    BY DEF DictionaryInv, Linked
  <2> QED  BY <1>1, <2>1, AppendProperties, Held
<1>3. \A n \in DOMAIN nodes' : nodes'[n].br # 0 =>
        nodes'[n].br \in DOMAIN BranchStructs /\ BranchStructs[nodes'[n].br].inst_ptr = nodes'[n].inst_ptr
  BY <1>2 DEF DictionaryInv
<1>4. \A n \in DOMAIN nodes' : nodes'[n].br = 0 =>
        \E t \in Threads : at'[t] = "crashed" \/ (at'[t] = "assign" /\ node'[t] = n)
  <2> SUFFICES ASSUME NEW n \in DOMAIN nodes', nodes'[n].br = 0
               PROVE  \E t \in Threads : at'[t] = "crashed" \/ (at'[t] = "assign" /\ node'[t] = n)
    OBVIOUS
  <2>1. CASE n = Len(nodes) + 1
    BY <1>1, <2>1 DEF DictionaryInv
  <2>2. CASE n \in DOMAIN nodes
    <3>1. PICK t \in Threads : at[t] = "crashed" \/ (at[t] = "assign" /\ node[t] = n)
      BY <1>2, <2>2 DEF DictionaryInv
    <3> QED  BY <1>1, <3>1 DEF DictionaryInv
  <2> QED  BY <1>2, <2>1, <2>2
<1>5. \A t \in Threads : at'[t] \in {"found", "assign"} =>
        node'[t] \in DOMAIN nodes' /\ nodes'[node'[t]].inst_ptr = branch[t]
  BY <1>1, <1>2 DEF DictionaryInv
<1>6. \A t \in Threads : at'[t] \in {"struct", "count", "linking", "assign"} =>
        struct[t] \in DOMAIN BranchStructs /\ BranchStructs[struct[t]].inst_ptr = branch[t]
  BY <1>1 DEF DictionaryInv
<1>7. /\ at' \in [Threads -> Local!Steps] /\ branch' \in [Threads -> Branches]
      /\ executed' \in [Threads -> [Branches -> Nat]]
      /\ node' \in [Threads -> Nat] /\ struct' \in [Threads -> Nat] /\ loaded' \in [Threads -> Nat]
      /\ BranchStructs' \in Seq(Allocated) /\ nodes' \in Seq(Linked)
  BY <1>1, <1>2 DEF DictionaryInv, Local!Steps
<1> QED  BY <1>1, <1>3, <1>4, <1>5, <1>6, <1>7 DEF DictionaryInv

\* The BranchStruct assigned is of the node's branch.
LEMMA AssignKeeps == ASSUME DictionaryInv, NEW th \in Threads, Local!Assign(th) PROVE DictionaryInv'
<1>1. /\ at[th] = "assign" /\ at' = [at EXCEPT ![th] = "recorded"]
      /\ nodes' = [nodes EXCEPT ![node[th]] = [@ EXCEPT !.br = struct[th]]]
      /\ UNCHANGED <<BranchStructs, branch, node, struct, loaded, executed>>
  BY DEF Local!Assign, Local!GoTo
<1>2. /\ DOMAIN nodes' = DOMAIN nodes /\ nodes' \in Seq(Linked)
      /\ \A n \in DOMAIN nodes : nodes'[n].inst_ptr = nodes[n].inst_ptr
      /\ \A n \in DOMAIN nodes \ {node[th]} : nodes'[n] = nodes[n]
      /\ nodes'[node[th]].br = struct[th] /\ struct[th] # 0
      /\ struct[th] \in DOMAIN BranchStructs
      /\ BranchStructs[struct[th]].inst_ptr = nodes'[node[th]].inst_ptr
  <2> DEFINE n == node[th]
             e == [nodes[n] EXCEPT !.br = struct[th]]
  <2>1. /\ n \in 1 .. Len(nodes) /\ nodes \in Seq(Linked) /\ struct[th] \in Nat \ {0}
        /\ struct[th] \in DOMAIN BranchStructs /\ nodes[n].inst_ptr = branch[th]
        /\ BranchStructs[struct[th]].inst_ptr = branch[th]
    BY <1>1, Held DEF DictionaryInv
  <2>2. e \in Linked /\ e.inst_ptr = nodes[n].inst_ptr /\ e.br = struct[th]
    BY <2>1, Held DEF Linked
  <2>3. nodes' = [nodes EXCEPT ![n] = e]
    BY <1>1
  <2> HIDE DEF n, e
  <2>4. /\ DOMAIN nodes' = DOMAIN nodes /\ nodes' \in Seq(Linked) /\ nodes'[n] = e
        /\ \A x \in DOMAIN nodes \ {n} : nodes'[x] = nodes[x]
    BY <2>1, <2>2, <2>3, ExceptSeq, Held
  <2> QED  BY <2>1, <2>2, <2>4 DEF n
<1>3. \A n \in DOMAIN nodes' : nodes'[n].br # 0 =>
        nodes'[n].br \in DOMAIN BranchStructs /\ BranchStructs[nodes'[n].br].inst_ptr = nodes'[n].inst_ptr
  BY <1>2 DEF DictionaryInv
<1>4. \A n \in DOMAIN nodes' : nodes'[n].br = 0 =>
        \E t \in Threads : at'[t] = "crashed" \/ (at'[t] = "assign" /\ node'[t] = n)
  <2> SUFFICES ASSUME NEW n \in DOMAIN nodes \ {node[th]}, nodes[n].br = 0
               PROVE  \E t \in Threads : at'[t] = "crashed" \/ (at'[t] = "assign" /\ node'[t] = n)
    BY <1>2
  <2>1. PICK t \in Threads : at[t] = "crashed" \/ (at[t] = "assign" /\ node[t] = n)
    BY DEF DictionaryInv
  <2> QED  BY <1>1, <2>1 DEF DictionaryInv
<1>5. \A t \in Threads : at'[t] \in {"found", "assign"} =>
        node'[t] \in DOMAIN nodes' /\ nodes'[node'[t]].inst_ptr = branch[t]
  BY <1>1, <1>2 DEF DictionaryInv
<1> QED  BY <1>1, <1>2, <1>3, <1>4, <1>5 DEF DictionaryInv, Local!Steps

\* The global count has nothing to do with it.
LEMMA GlobalKeeps ==
  ASSUME DictionaryInv, GlobalCondCount \in Nat, NEW th \in Threads,
         Local!ReadGlobal(th) \/ Local!WriteGlobal(th)
  PROVE  DictionaryInv'
<1>1. CASE Local!ReadGlobal(th)
  <2>1. /\ at[th] = "recorded" /\ at' = [at EXCEPT ![th] = "finish"]
        /\ loaded' = [loaded EXCEPT ![th] = GlobalCondCount]
        /\ UNCHANGED <<BranchStructs, nodes, branch, node, struct, executed>>
    BY <1>1 DEF Local!ReadGlobal, Local!GoTo
  <2> QED  BY <2>1 DEF DictionaryInv, Local!Steps
<1>2. CASE Local!WriteGlobal(th)
  <2>1. /\ at[th] = "finish" /\ at' = [at EXCEPT ![th] = "running"]
        /\ node' = [node EXCEPT ![th] = 0] /\ struct' = [struct EXCEPT ![th] = 0]
        /\ loaded' = [loaded EXCEPT ![th] = 0]
        /\ UNCHANGED <<BranchStructs, nodes, branch, executed>>
    BY <1>2 DEF Local!WriteGlobal, Local!GoTo
  <2> QED  BY <2>1 DEF DictionaryInv, Local!Steps
<1> QED  BY <1>1, <1>2

\* When the program ends, it ends in all threads.
LEMMA CrashKeeps == ASSUME DictionaryInv, NEW th \in Threads, Local!Crash(th) PROVE DictionaryInv'
<1>1. /\ at' = [other \in Threads |-> "crashed"]
      /\ UNCHANGED <<BranchStructs, nodes, branch, node, struct, loaded, executed>>
  BY DEF Local!Crash
<1> QED  BY <1>1 DEF DictionaryInv, Local!Steps
--------------------------------------------------------------------------------
(* The profiler of a program with threads: no branch is counted too often. *)

\* There are finitely many threads and branches.
Finite == IsFiniteSet(Threads) /\ IsFiniteSet(Branches)

\* Where a thread has not counted its branch yet, in a BranchStruct, in one that the
\* dictionary has, or in the global count.
Uncounted == {"insert", "found", "struct", "count"}
Unassigned == Uncounted \cup {"linking", "assign"}
Unrecorded == Unassigned \cup {"recorded", "finish"}
Parts == {Uncounted, Unassigned, Unrecorded}

\* How often the thread has executed the branch and is past these steps.
Through(steps, th, ip) ==
  executed[th][ip] - (IF branch[th] = ip /\ at[th] \in steps THEN 1 ELSE 0)

PerThread(steps, ip) == [th \in Threads |-> Through(steps, th, ip)]
ThroughAll(steps, ip) == SumFunctionOnSet(PerThread(steps, ip), Threads)
PerBranch == [ip \in Branches |-> ThroughAll(Unrecorded, ip)]
ThroughAny == SumFunctionOnSet(PerBranch, Branches)

\* A count, and what a thread will write back as one, is no more than what is through,
\* in all threads: a thread that goes on is through once more at the moment it writes.
CountInv ==
  /\ DictionaryInv
  /\ \A th \in Threads, ip \in Branches : Through(Unrecorded, th, ip) \in Nat
  /\ \A s \in DOMAIN BranchStructs :
       BranchStructs[s].total_count <= ThroughAll(Uncounted, BranchStructs[s].inst_ptr)
  /\ \A th \in Threads :
       /\ at[th] = "count" => loaded[th] <= ThroughAll(Uncounted, branch[th])
       /\ at[th] = "finish" => loaded[th] <= ThroughAny
  /\ GlobalCondCount \in Nat /\ GlobalCondCount <= ThroughAny

\* The sums are natural numbers, and at most what is executed.
LEMMA SumsBounded ==
  ASSUME Finite, CountInv
  PROVE  /\ \A steps \in Parts, ip \in Branches :
              /\ \A th \in Threads : Through(steps, th, ip) \in Nat
              /\ ThroughAll(steps, ip) \in Nat
              /\ ThroughAll(steps, ip) <= Local!Executed(ip) /\ Local!Executed(ip) \in Nat
         /\ ThroughAny \in Nat /\ ThroughAny <= Local!ExecutedInAll /\ Local!ExecutedInAll \in Nat
<1>1. ASSUME NEW steps \in Parts, NEW ip \in Branches
      PROVE  /\ \A th \in Threads : Through(steps, th, ip) \in Nat
             /\ ThroughAll(steps, ip) \in Nat
             /\ ThroughAll(steps, ip) <= Local!Executed(ip) /\ Local!Executed(ip) \in Nat
  <2> DEFINE f == PerThread(steps, ip)
             g == [th \in Threads |-> executed[th][ip]]
  <2>0. steps \subseteq Unrecorded
    BY DEF Parts, Uncounted, Unassigned, Unrecorded
  <2>1. \A th \in Threads : Through(steps, th, ip) \in Nat /\ executed[th][ip] \in Nat
                            /\ Through(steps, th, ip) <= executed[th][ip]
    BY <2>0, Typed DEF CountInv, Through
  <2>2. /\ \A th \in Threads : f[th] \in Nat /\ g[th] \in Nat /\ f[th] <= g[th]
        /\ Local!Executed(ip) = SumFunctionOnSet(g, Threads)
        /\ ThroughAll(steps, ip) = SumFunctionOnSet(f, Threads)
    BY <2>1, LocalSums DEF PerThread, Local!Executed, SumFunction, ThroughAll
  <2> HIDE DEF f, g
  <2>3. \A th \in Threads : f[th] \in Int /\ g[th] \in Int
    BY <2>2
  <2>4. SumFunctionOnSet(f, Threads) \in Nat /\ SumFunctionOnSet(g, Threads) \in Nat
    BY <2>2, SumNat DEF Finite
  <2>5. SumFunctionOnSet(f, Threads) <= SumFunctionOnSet(g, Threads)
    BY <2>2, <2>3, SumMonotone DEF Finite
  <2> QED  BY <2>1, <2>2, <2>4, <2>5
<1>2. ThroughAny \in Nat /\ ThroughAny <= Local!ExecutedInAll /\ Local!ExecutedInAll \in Nat
  <2> DEFINE f == PerBranch
             g == [ip \in Branches |-> Local!Executed(ip)]
  <2>0. Unrecorded \in Parts
    BY DEF Parts
  <2>1. /\ \A ip \in Branches : f[ip] \in Nat /\ g[ip] \in Nat /\ f[ip] <= g[ip]
        /\ ThroughAny = SumFunctionOnSet(f, Branches)
        /\ Local!ExecutedInAll = SumFunctionOnSet(g, Branches)
    BY <1>1, <2>0, LocalSums DEF PerBranch, ThroughAny, Local!ExecutedInAll, SumFunction
  <2> HIDE DEF f, g
  <2>2. \A ip \in Branches : f[ip] \in Int /\ g[ip] \in Int
    BY <2>1
  <2>3. SumFunctionOnSet(f, Branches) \in Nat /\ SumFunctionOnSet(g, Branches) \in Nat
    BY <2>1, SumNat DEF Finite
  <2>4. SumFunctionOnSet(f, Branches) <= SumFunctionOnSet(g, Branches)
    BY <2>1, <2>2, SumMonotone DEF Finite
  <2> QED  BY <2>1, <2>3, <2>4
<1> QED  BY <1>1, <1>2

\* A thread that gets past the steps is through with its branch once more.
LEMMA OneMoreThrough ==
  ASSUME Finite, CountInv, NEW steps \in Parts, NEW th \in Threads,
         at[th] \in steps, UNCHANGED <<branch, executed>>,
         NEW next \in Local!Steps \ steps, at' = [at EXCEPT ![th] = next]
  PROVE  \A ip \in Branches :
           ThroughAll(steps, ip)' = ThroughAll(steps, ip) + (IF ip = branch[th] THEN 1 ELSE 0)
<1> SUFFICES ASSUME NEW ip \in Branches
             PROVE  ThroughAll(steps, ip)' = ThroughAll(steps, ip) + (IF ip = branch[th] THEN 1 ELSE 0)
  OBVIOUS
<1> DEFINE f == PerThread(steps, ip)
           g == [t \in Threads |-> Through(steps, t, ip)']
<1>1. /\ ThroughAll(steps, ip) = SumFunctionOnSet(f, Threads)
      /\ ThroughAll(steps, ip)' = SumFunctionOnSet(g, Threads)
  BY DEF PerThread, ThroughAll
<1>2. /\ \A t \in Threads : f[t] \in Int /\ SumFunctionOnSet(f, Threads) \in Int
      /\ \A t \in Threads \ {th} : f[t] = g[t]
      /\ g[th] = f[th] + (IF ip = branch[th] THEN 1 ELSE 0)
  <2>1. /\ \A t \in Threads : Through(steps, t, ip) \in Int /\ f[t] = Through(steps, t, ip)
        /\ ThroughAll(steps, ip) \in Int
    BY SumsBounded DEF PerThread
  <2>2. at \in [Threads -> Local!Steps] /\ \A t \in Threads : executed[t][ip] \in Nat
    BY Typed DEF CountInv
  <2>3. \A t \in Threads \ {th} : g[t] = f[t]
    BY <2>1, <2>2 DEF Through
  <2>4. g[th] = f[th] + (IF ip = branch[th] THEN 1 ELSE 0)
    BY <2>1, <2>2 DEF Through
  <2> QED  BY <1>1, <2>1, <2>3, <2>4
<1> HIDE DEF f, g
<1>3. SumFunctionOnSet(g, Threads) = SumFunctionOnSet(f, Threads) - f[th] + g[th]
  <2>1. g[th] \in Int
    BY <1>2
  <2> QED  BY <1>2, <2>1, SumChange DEF Finite
<1>4. f[th] \in Int /\ SumFunctionOnSet(f, Threads) \in Int
  BY <1>2
<1> QED  BY <1>1, <1>2, <1>3, <1>4

\* A thread that moves without getting past them is not.
LEMMA AsManyThrough ==
  ASSUME CountInv, NEW steps, NEW th \in Threads, UNCHANGED <<branch, executed>>,
         NEW next, at' = [at EXCEPT ![th] = next], at[th] \in steps <=> next \in steps
  PROVE  \A ip \in Branches : /\ ThroughAll(steps, ip)' = ThroughAll(steps, ip)
                              /\ \A t \in Threads : Through(steps, t, ip)' = Through(steps, t, ip)
<1> SUFFICES ASSUME NEW ip \in Branches
             PROVE  /\ ThroughAll(steps, ip)' = ThroughAll(steps, ip)
                    /\ \A t \in Threads : Through(steps, t, ip)' = Through(steps, t, ip)
  OBVIOUS
<1>1. \A t \in Threads : Through(steps, t, ip)' = Through(steps, t, ip)
  BY Typed DEF Through, CountInv
<1>2. PerThread(steps, ip)' = PerThread(steps, ip)
  BY <1>1 DEF PerThread
<1> QED  BY <1>1, <1>2 DEF ThroughAll

\* The sum over all branches depends on what is through with each.
LEMMA AsManyInAll ==
  ASSUME \A ip \in Branches : ThroughAll(Unrecorded, ip)' = ThroughAll(Unrecorded, ip)
  PROVE  ThroughAny' = ThroughAny
<1>1. PerBranch' = PerBranch
  BY DEF PerBranch
<1> QED  BY <1>1 DEF ThroughAny

\* The thread goes on with the branch it is recording, and back into no part.
Moves(th, next) ==
  /\ at' = [at EXCEPT ![th] = next] /\ next \in Local!Steps
  /\ UNCHANGED <<branch, executed>>
  /\ \A steps \in Parts : next \in steps => at[th] \in steps

\* It counts once for every part that it gets past, and no other thread does.
LEMMA GoesOn ==
  ASSUME Finite, CountInv, NEW th \in Threads, NEW next, Moves(th, next)
  PROVE  /\ \A steps \in Parts, ip \in Branches :
              /\ ThroughAll(steps, ip) \in Nat
              /\ ThroughAll(steps, ip)' =
                   ThroughAll(steps, ip)
                     + (IF ip = branch[th] /\ at[th] \in steps /\ next \notin steps THEN 1 ELSE 0)
         /\ ThroughAny \in Nat
         /\ ThroughAny' = ThroughAny + (IF at[th] \in Unrecorded /\ next \notin Unrecorded THEN 1 ELSE 0)
         /\ \A t \in Threads, ip \in Branches : Through(Unrecorded, t, ip)' \in Nat
<1>0. /\ at' = [at EXCEPT ![th] = next] /\ next \in Local!Steps
      /\ UNCHANGED <<branch, executed>>
      /\ \A steps \in Parts : next \in steps => at[th] \in steps
  BY DEF Moves
<1>1. ASSUME NEW steps \in Parts, NEW ip \in Branches
      PROVE  /\ ThroughAll(steps, ip) \in Nat
             /\ ThroughAll(steps, ip)' =
                  ThroughAll(steps, ip)
                    + (IF ip = branch[th] /\ at[th] \in steps /\ next \notin steps THEN 1 ELSE 0)
  <2>1. ThroughAll(steps, ip) \in Nat
    BY SumsBounded
  <2>2. CASE at[th] \in steps /\ next \notin steps
    BY <1>0, <2>1, <2>2, OneMoreThrough
  <2>3. CASE at[th] \in steps <=> next \in steps
    <3>1. ThroughAll(steps, ip)' = ThroughAll(steps, ip)
      BY <1>0, <2>3, AsManyThrough
    <3>2. ~ (at[th] \in steps /\ next \notin steps)
      BY <2>3
    <3> QED  BY <2>1, <3>1, <3>2
  <2> QED  BY <1>0, <2>2, <2>3
<1>2. Unrecorded \in Parts
  BY DEF Parts
<1>3. ThroughAny \in Nat
  BY SumsBounded
<1>4. ThroughAny' = ThroughAny + (IF at[th] \in Unrecorded /\ next \notin Unrecorded THEN 1 ELSE 0)
  <2>1. CASE ~ (at[th] \in Unrecorded /\ next \notin Unrecorded)
    <3>1. \A ip \in Branches : ThroughAll(Unrecorded, ip)' = ThroughAll(Unrecorded, ip)
      BY <1>1, <1>2, <2>1
    <3> QED  BY <1>3, <2>1, <3>1, AsManyInAll
  <2>2. CASE at[th] \in Unrecorded /\ next \notin Unrecorded
    <3> DEFINE b == branch[th]
               f == PerBranch
               g == [ip \in Branches |-> ThroughAll(Unrecorded, ip)']
    <3>0. b \in Branches
      BY Typed DEF CountInv
    <3>1. /\ \A ip \in Branches : f[ip] \in Int
          /\ \A ip \in Branches \ {b} : f[ip] = g[ip]
          /\ g[b] = f[b] + 1 /\ g[b] \in Int /\ f[b] \in Int
          /\ ThroughAny = SumFunctionOnSet(f, Branches)
          /\ ThroughAny' = SumFunctionOnSet(g, Branches)
      BY <1>1, <1>2, <2>2, <3>0 DEF PerBranch, ThroughAny
    <3> HIDE DEF f, g, b
    <3>2. SumFunctionOnSet(g, Branches) = SumFunctionOnSet(f, Branches) - f[b] + g[b]
      BY <3>0, <3>1, SumChange DEF Finite
    <3> QED  BY <1>3, <2>2, <3>1, <3>2
  <2> QED  BY <2>1, <2>2
<1>5. \A t \in Threads, ip \in Branches : Through(Unrecorded, t, ip)' \in Nat
  <2> SUFFICES ASSUME NEW t \in Threads, NEW ip \in Branches PROVE Through(Unrecorded, t, ip)' \in Nat
    OBVIOUS
  <2>1. /\ at'[t] \in Unrecorded => at[t] \in Unrecorded
        /\ executed[t][ip] \in Nat /\ Through(Unrecorded, t, ip) \in Nat
    BY <1>0, <1>2, Typed DEF CountInv
  <2> QED  BY <1>0, <2>1 DEF Through
<1> QED  BY <1>1, <1>3, <1>4, <1>5

\* At the beginning nothing is counted.
LEMMA InitCounts == ASSUME Finite, Local!Init PROVE CountInv /\ ThroughAny = 0
<1>1. DictionaryInv
  BY InitDictionary
<1>2. \A steps \in Parts : \A th \in Threads, ip \in Branches : Through(steps, th, ip) = 0
  BY DEF Local!Init, Through, Uncounted, Unassigned, Unrecorded, Parts
<1>3. \A ip \in Branches : ThroughAll(Unrecorded, ip) = 0
  <2> SUFFICES ASSUME NEW ip \in Branches PROVE ThroughAll(Unrecorded, ip) = 0
    OBVIOUS
  <2> DEFINE f == PerThread(Unrecorded, ip)
  <2>1. \A th \in Threads : f[th] = 0
    BY <1>2 DEF PerThread, Parts
  <2> HIDE DEF f
  <2>2. SumFunctionOnSet(f, Threads) = 0
    BY <2>1, SumZero DEF Finite
  <2> QED  BY <2>2 DEF f, ThroughAll
<1>4. ThroughAny = 0
  <2>1. \A ip \in Branches : PerBranch[ip] = 0
    BY <1>3 DEF PerBranch
  <2> QED  BY <2>1, SumZero DEF ThroughAny, Finite
<1>5. /\ BranchStructs = << >> /\ at = [th \in Threads |-> "running"] /\ GlobalCondCount = 0
      /\ \A th \in Threads, ip \in Branches : Through(Unrecorded, th, ip) \in Nat
  BY <1>2 DEF Local!Init, Parts
<1> QED  BY <1>1, <1>4, <1>5 DEF CountInv

\* A branch that is begun is not through.
LEMMA FindCounts ==
  ASSUME Finite, CountInv, NEW th \in Threads, Local!Find(th)
  PROVE  /\ CountInv' /\ ThroughAny' = ThroughAny
         /\ \A steps \in Parts, ip \in Branches : ThroughAll(steps, ip)' = ThroughAll(steps, ip)
<1>1. PICK ip \in Branches :
        /\ branch' = [branch EXCEPT ![th] = ip]
        /\ executed' = [executed EXCEPT ![th] = [executed[th] EXCEPT ![ip] = executed[th][ip] + 1]]
        /\ \/ at' = [at EXCEPT ![th] = "found"]
           \/ at' = [at EXCEPT ![th] = "insert"]
  BY DEF Local!Find, Local!GoTo
<1>2. at[th] = "running" /\ UNCHANGED <<BranchStructs, GlobalCondCount, loaded>>
  BY DEF Local!Find
<1>3. DictionaryInv'
  BY FindKeeps DEF CountInv
<1>4. \A steps \in Parts : \A b \in Branches, t \in Threads :
        Through(steps, t, b)' = Through(steps, t, b)
  <2> SUFFICES ASSUME NEW steps \in Parts, NEW b \in Branches, NEW t \in Threads
               PROVE  Through(steps, t, b)' = Through(steps, t, b)
    OBVIOUS
  <2>0. at \in [Threads -> Local!Steps] /\ branch \in [Threads -> Branches]
        /\ executed \in [Threads -> [Branches -> Nat]]
    BY Typed DEF CountInv
  <2>1. CASE t # th
    BY <1>1, <2>0, <2>1 DEF Through
  <2>2. CASE t = th
    <3>1. /\ executed'[t][b] = executed[t][b] + (IF b = ip THEN 1 ELSE 0)
          /\ branch'[t] = ip /\ executed[t][b] \in Nat
      BY <1>1, <2>0, <2>2
    <3>2. at'[t] \in steps /\ at[t] \notin steps
      <4>1. at'[t] \in {"found", "insert"} /\ at[t] = "running"
        BY <1>1, <1>2, <2>0, <2>2
      <4> QED  BY <4>1 DEF Uncounted, Unassigned, Unrecorded, Parts
    <3> QED  BY <3>1, <3>2 DEF Through
  <2> QED  BY <2>1, <2>2
<1>5. \A steps \in Parts : \A b \in Branches : ThroughAll(steps, b)' = ThroughAll(steps, b)
  <2> SUFFICES ASSUME NEW steps \in Parts, NEW b \in Branches
               PROVE  ThroughAll(steps, b)' = ThroughAll(steps, b)
    OBVIOUS
  <2>1. PerThread(steps, b)' = PerThread(steps, b)
    BY <1>4 DEF PerThread
  <2> QED  BY <2>1 DEF ThroughAll
<1>6. ThroughAny' = ThroughAny
  BY <1>5, AsManyInAll DEF Parts
<1>7. \A t \in Threads :
        /\ at'[t] = "count" => at[t] = "count" /\ branch'[t] = branch[t] /\ branch[t] \in Branches
        /\ at'[t] = "finish" => at[t] = "finish"
  BY <1>1, Typed DEF CountInv
<1>8. \A s \in DOMAIN BranchStructs : BranchStructs[s].inst_ptr \in Branches
  BY Held DEF CountInv
<1> QED  BY <1>2, <1>3, <1>4, <1>5, <1>6, <1>7, <1>8 DEF CountInv, Parts

\* The number of executions that are through does not go back, so nor does what bounds it.
LEMMA OthersCounted ==
  ASSUME Finite, CountInv, NEW th \in Threads, NEW next, Moves(th, next),
         \A t \in Threads \ {th} : loaded'[t] = loaded[t],
         DictionaryInv', next \notin {"count", "finish"}
  PROVE  \A t \in Threads :
           /\ at'[t] = "count" => loaded'[t] <= ThroughAll(Uncounted, branch[t])'
           /\ at'[t] = "finish" => loaded'[t] <= ThroughAny'
<1>0. at' = [at EXCEPT ![th] = next] /\ UNCHANGED branch /\ at \in [Threads -> Local!Steps]
  BY Typed DEF Moves, CountInv
<1> SUFFICES ASSUME NEW t \in Threads
             PROVE  /\ at'[t] = "count" => loaded'[t] <= ThroughAll(Uncounted, branch[t])'
                    /\ at'[t] = "finish" => loaded'[t] <= ThroughAny'
  OBVIOUS
<1>1. /\ ThroughAll(Uncounted, branch[t]) \in Nat
      /\ ThroughAll(Uncounted, branch[t])' \in Nat
      /\ ThroughAll(Uncounted, branch[t])' >= ThroughAll(Uncounted, branch[t])
      /\ ThroughAny \in Nat /\ ThroughAny' \in Nat /\ ThroughAny' >= ThroughAny
  <2>1. branch[t] \in Branches /\ branch'[t] = branch[t] /\ Uncounted \in Parts
    BY <1>0, Typed DEF CountInv, Parts
  <2>2. \A ip \in Branches :
          ThroughAll(Uncounted, ip) \in Nat /\ ThroughAll(Uncounted, ip)' \in Nat
          /\ ThroughAll(Uncounted, ip)' >= ThroughAll(Uncounted, ip)
    BY <2>1, GoesOn
  <2>3. ThroughAny \in Nat /\ ThroughAny' \in Nat /\ ThroughAny' >= ThroughAny
    BY GoesOn
  <2> QED  BY <2>1, <2>2, <2>3
<1>2. CASE t = th
  BY <1>0, <1>2
<1>3. CASE t # th
  <2>1. at'[t] = at[t] /\ loaded'[t] = loaded[t] /\ loaded[t] \in Nat
    BY <1>0, <1>3, Typed DEF CountInv
  <2> QED  BY <1>1, <2>1 DEF CountInv
<1> QED  BY <1>2, <1>3

\* A BranchStruct that is found, or its count that is read, is of what is through by now.
LEMMA ReadsCount ==
  ASSUME Finite, CountInv, NEW th \in Threads,
         Local!LoadStruct(th) \/ Local!ReadTotal(th) \/ Local!Link(th) \/ Local!ReadGlobal(th)
  PROVE  /\ CountInv' /\ ThroughAny' = ThroughAny
         /\ \A steps \in Parts, ip \in Branches : ThroughAll(steps, ip)' = ThroughAll(steps, ip)
<1>1. DictionaryInv'
  BY LoadStructKeeps, ReadTotalKeeps, LinkKeeps, GlobalKeeps DEF CountInv
<1>2. PICK next \in {"struct", "count", "assign", "finish"} :
        /\ at' = [at EXCEPT ![th] = next]
        /\ at[th] = CASE next = "struct" -> "found" [] next = "count" -> "struct"
                      [] next = "assign" -> "linking" [] next = "finish" -> "recorded"
        /\ loaded' = [loaded EXCEPT ![th] = CASE next = "count" -> BranchStructs[struct[th]].total_count
                                              [] next = "finish" -> GlobalCondCount
                                              [] OTHER -> loaded[th]]
  <2>0. loaded \in [Threads -> Nat]
    BY Typed DEF CountInv
  <2>1. CASE Local!LoadStruct(th)
    BY <2>0, <2>1 DEF Local!LoadStruct, Local!GoTo
  <2>2. CASE Local!ReadTotal(th)
    BY <2>0, <2>2 DEF Local!ReadTotal, Local!GoTo
  <2>3. CASE Local!Link(th)
    BY <2>0, <2>3 DEF Local!Link, Local!GoTo
  <2>4. CASE Local!ReadGlobal(th)
    BY <2>0, <2>4 DEF Local!ReadGlobal, Local!GoTo
  <2> QED  BY <2>1, <2>2, <2>3, <2>4
<1>3. UNCHANGED <<BranchStructs, GlobalCondCount, branch, executed>>
  BY DEF Local!LoadStruct, Local!ReadTotal, Local!Link, Local!ReadGlobal
<1>4. Moves(th, next) /\ \A steps \in Parts : next \in steps <=> at[th] \in steps
  BY <1>2, <1>3 DEF Moves, Local!Steps, Parts, Uncounted, Unassigned, Unrecorded
<1>5. /\ \A steps \in Parts, ip \in Branches :
           ThroughAll(steps, ip) \in Nat /\ ThroughAll(steps, ip)' = ThroughAll(steps, ip)
      /\ ThroughAny \in Nat /\ ThroughAny' = ThroughAny
      /\ \A t \in Threads, ip \in Branches : Through(Unrecorded, t, ip)' \in Nat
  <2>1. Unrecorded \in Parts
    BY DEF Parts
  <2> QED  BY <1>4, <2>1, GoesOn
<1>6. \A s \in DOMAIN BranchStructs : BranchStructs[s].inst_ptr \in Branches
  BY Held DEF CountInv
<1>7. \A t \in Threads :
        /\ at'[t] = "count" => loaded'[t] <= ThroughAll(Uncounted, branch[t])
        /\ at'[t] = "finish" => loaded'[t] <= ThroughAny
  <2> SUFFICES ASSUME NEW t \in Threads
               PROVE  /\ at'[t] = "count" => loaded'[t] <= ThroughAll(Uncounted, branch[t])
                      /\ at'[t] = "finish" => loaded'[t] <= ThroughAny
    OBVIOUS
  <2>1. CASE t # th
    BY <1>2, <2>1, Typed DEF CountInv
  <2>2. CASE t = th /\ next = "count"
    <3>1. at[th] = "struct" /\ loaded'[th] = BranchStructs[struct[th]].total_count /\ at'[th] = "count"
      BY <1>2, <2>2, Typed DEF CountInv
    <3>2. struct[th] \in DOMAIN BranchStructs /\ BranchStructs[struct[th]].inst_ptr = branch[th]
      BY <3>1 DEF CountInv, DictionaryInv
    <3> QED  BY <2>2, <3>1, <3>2 DEF CountInv
  <2>3. CASE t = th /\ next # "count"
    BY <1>2, <2>3, Typed DEF CountInv
  <2> QED  BY <2>1, <2>2, <2>3
<1>8. \A t \in Threads : ThroughAll(Uncounted, branch[t])' = ThroughAll(Uncounted, branch[t])
  <2> SUFFICES ASSUME NEW t \in Threads
               PROVE  ThroughAll(Uncounted, branch[t])' = ThroughAll(Uncounted, branch[t])
    OBVIOUS
  <2>1. branch[t] \in Branches /\ branch'[t] = branch[t] /\ Uncounted \in Parts
    BY <1>3, Typed DEF CountInv, Parts
  <2> QED  BY <1>5, <2>1
<1>9. \A s \in DOMAIN BranchStructs :
        BranchStructs[s].total_count <= ThroughAll(Uncounted, BranchStructs[s].inst_ptr)'
  <2> SUFFICES ASSUME NEW s \in DOMAIN BranchStructs
               PROVE  BranchStructs[s].total_count <= ThroughAll(Uncounted, BranchStructs[s].inst_ptr)'
    OBVIOUS
  <2>1. PICK ip \in Branches : ip = BranchStructs[s].inst_ptr
    BY <1>6
  <2>2. BranchStructs[s].total_count <= ThroughAll(Uncounted, ip)
    BY <2>1 DEF CountInv
  <2> QED  BY <1>3, <1>5, <2>1, <2>2 DEF Parts
<1>10. CountInv'
  BY <1>1, <1>3, <1>5, <1>7, <1>8, <1>9 DEF CountInv
<1> QED  BY <1>5, <1>10

\* A count that is written may undo others, and is of one execution more; the first count of
\* a branch is of one.
LEMMA WritesCount ==
  ASSUME Finite, CountInv, NEW th \in Threads, Local!WriteTotal(th) \/ Local!Insert(th) \/ Local!Assign(th)
  PROVE  CountInv'
<1>1. DictionaryInv'
  BY WriteTotalKeeps, InsertKeeps, AssignKeeps DEF CountInv
<1>2. PICK next \in {"linking", "assign", "recorded"} :
        /\ at' = [at EXCEPT ![th] = next]
        /\ at[th] \in {"count", "insert"} \/ (at[th] = "assign" /\ next = "recorded")
        /\ \/ UNCHANGED BranchStructs
           \/ /\ at[th] = "count"
              /\ BranchStructs' = [BranchStructs EXCEPT ![struct[th]] = [@ EXCEPT !.total_count = loaded[th] + 1]]
           \/ /\ at[th] = "insert"
              /\ BranchStructs' = Append(BranchStructs, [inst_ptr |-> branch[th], total_count |-> 1])
  BY DEF Local!WriteTotal, Local!Insert, Local!Assign, Local!GoTo
<1>3. UNCHANGED <<GlobalCondCount, branch, loaded, executed>>
  BY DEF Local!WriteTotal, Local!Insert, Local!Assign
<1>4. /\ Moves(th, next) /\ next \notin Uncounted /\ next \notin {"count", "finish"}
      /\ at[th] \in Unrecorded /\ next \in Unrecorded
      /\ at[th] \in {"count", "insert"} => at[th] \in Uncounted
  BY <1>2, <1>3 DEF Moves, Local!Steps, Parts, Uncounted, Unassigned, Unrecorded
<1>5. /\ \A ip \in Branches :
           /\ ThroughAll(Uncounted, ip) \in Nat
           /\ ThroughAll(Uncounted, ip)' =
                ThroughAll(Uncounted, ip) + (IF ip = branch[th] /\ at[th] \in Uncounted THEN 1 ELSE 0)
      /\ ThroughAny' = ThroughAny
      /\ \A t \in Threads, ip \in Branches : Through(Unrecorded, t, ip)' \in Nat
  <2>1. Uncounted \in Parts
    BY DEF Parts
  <2> QED  BY <1>4, <2>1, GoesOn
<1>6. \A t \in Threads :
        /\ at'[t] = "count" => loaded'[t] <= ThroughAll(Uncounted, branch[t])'
        /\ at'[t] = "finish" => loaded'[t] <= ThroughAny'
  BY <1>1, <1>3, <1>4, OthersCounted
<1>7. ASSUME NEW s \in DOMAIN BranchStructs'
      PROVE  (BranchStructs[s].total_count <= ThroughAll(Uncounted, BranchStructs[s].inst_ptr))'
  <2>0. /\ BranchStructs \in Seq(Allocated) /\ branch[th] \in Branches
        /\ Len(BranchStructs) \in Nat /\ DOMAIN BranchStructs = 1 .. Len(BranchStructs)
        /\ \A x \in DOMAIN BranchStructs :
             BranchStructs[x].inst_ptr \in Branches /\ BranchStructs[x].total_count \in Nat
    BY Held DEF CountInv, DictionaryInv
  <2>1. ASSUME s \in DOMAIN BranchStructs, BranchStructs'[s] = BranchStructs[s]
        PROVE  (BranchStructs[s].total_count <= ThroughAll(Uncounted, BranchStructs[s].inst_ptr))'
    <3>1. BranchStructs[s].inst_ptr \in Branches /\ BranchStructs[s].total_count \in Nat
      BY <2>0, <2>1
    <3> QED  BY <1>5, <2>1, <3>1 DEF CountInv
  <2>2. CASE BranchStructs' = BranchStructs
    BY <2>1, <2>2
  <2>3. CASE /\ at[th] = "count"
             /\ BranchStructs' = [BranchStructs EXCEPT ![struct[th]] = [@ EXCEPT !.total_count = loaded[th] + 1]]
    <3>1. /\ struct[th] \in DOMAIN BranchStructs /\ loaded[th] \in Nat
          /\ BranchStructs[struct[th]].inst_ptr = branch[th]
          /\ loaded[th] <= ThroughAll(Uncounted, branch[th])
      BY <2>3 DEF CountInv, DictionaryInv
    <3>2. CASE s = struct[th]
      <4>0. BranchStructs'[s] = [BranchStructs[s] EXCEPT !.total_count = loaded[th] + 1]
            /\ BranchStructs[s] \in Allocated
        BY <2>0, <2>3, <3>1, <3>2, Held DEF CountInv
      <4>1. BranchStructs'[s].total_count = loaded[th] + 1 /\ BranchStructs'[s].inst_ptr = branch[th]
        BY <3>1, <3>2, <4>0 DEF Allocated
      <4> QED  BY <1>4, <1>5, <2>0, <2>3, <3>1, <4>1
    <3>3. CASE s # struct[th]
      BY <2>0, <2>1, <2>3, <3>3
    <3> QED  BY <3>2, <3>3
  <2>4. CASE /\ at[th] = "insert"
             /\ BranchStructs' = Append(BranchStructs, [inst_ptr |-> branch[th], total_count |-> 1])
    <3>1. CASE s = Len(BranchStructs) + 1
      <4>1. BranchStructs'[s].total_count = 1 /\ BranchStructs'[s].inst_ptr = branch[th]
        BY <2>0, <2>4, <3>1
      <4> QED  BY <1>4, <1>5, <2>0, <2>4, <4>1
    <3>2. CASE s # Len(BranchStructs) + 1
      BY <2>0, <2>1, <2>4, <3>2
    <3> QED  BY <3>1, <3>2
  <2> QED  BY <1>2, <2>2, <2>3, <2>4
<1> QED  BY <1>1, <1>3, <1>5, <1>6, <1>7 DEF CountInv

\* The global count is written back as one thread is through with its branch altogether.
LEMMA WriteGlobalCounts ==
  ASSUME Finite, CountInv, NEW th \in Threads, Local!WriteGlobal(th)
  PROVE  /\ CountInv' /\ ThroughAny' = ThroughAny + 1
         /\ \A steps \in {Uncounted, Unassigned}, ip \in Branches :
              ThroughAll(steps, ip)' = ThroughAll(steps, ip)
<1>1. /\ at[th] = "finish" /\ at' = [at EXCEPT ![th] = "running"]
      /\ GlobalCondCount' = loaded[th] + 1 /\ loaded' = [loaded EXCEPT ![th] = 0]
      /\ UNCHANGED <<BranchStructs, branch, executed>>
  BY DEF Local!WriteGlobal, Local!GoTo
<1>2. DictionaryInv'
  BY GlobalKeeps DEF CountInv
<1>3. /\ Moves(th, "running")
      /\ \A steps \in Parts : "running" \notin steps
      /\ at[th] \notin Uncounted /\ at[th] \notin Unassigned /\ at[th] \in Unrecorded
      /\ {Uncounted, Unassigned} \subseteq Parts /\ Unrecorded \in Parts
  BY <1>1 DEF Moves, Local!Steps, Parts, Uncounted, Unassigned, Unrecorded
<1>4. /\ \A steps \in {Uncounted, Unassigned}, ip \in Branches :
           /\ ThroughAll(steps, ip) \in Nat
           /\ ThroughAll(steps, ip)' = ThroughAll(steps, ip)
      /\ ThroughAny \in Nat /\ ThroughAny' = ThroughAny + 1
      /\ \A t \in Threads, ip \in Branches : Through(Unrecorded, t, ip)' \in Nat
  <2> QED  BY <1>3, GoesOn
<1>5. \A t \in Threads :
        /\ at'[t] = "count" => loaded'[t] <= ThroughAll(Uncounted, branch[t])'
        /\ at'[t] = "finish" => loaded'[t] <= ThroughAny'
  <2>1. \A t \in Threads \ {th} : loaded'[t] = loaded[t]
    BY <1>1, Typed DEF CountInv
  <2> QED  BY <1>2, <1>3, <2>1, OthersCounted
<1>6. \A s \in DOMAIN BranchStructs :
        BranchStructs[s].total_count <= ThroughAll(Uncounted, BranchStructs[s].inst_ptr)'
  <2> SUFFICES ASSUME NEW s \in DOMAIN BranchStructs
               PROVE  BranchStructs[s].total_count <= ThroughAll(Uncounted, BranchStructs[s].inst_ptr)'
    OBVIOUS
  <2>1. PICK ip \in Branches : ip = BranchStructs[s].inst_ptr
    BY Held DEF CountInv
  <2>2. BranchStructs[s].total_count <= ThroughAll(Uncounted, ip)
    BY <2>1 DEF CountInv
  <2> QED  BY <1>1, <1>4, <2>1, <2>2
<1>7. GlobalCondCount' \in Nat /\ GlobalCondCount' <= ThroughAny'
  <2>1. loaded[th] \in Nat /\ loaded[th] <= ThroughAny
    BY <1>1, Typed DEF CountInv
  <2> QED  BY <1>1, <1>4, <2>1
<1>8. CountInv'
  BY <1>1, <1>2, <1>4, <1>5, <1>6, <1>7 DEF CountInv
<1> QED  BY <1>4, <1>8

\* When the program ends no thread has anything to count any more.
LEMMA CrashCounts == ASSUME Finite, CountInv, NEW th \in Threads, Local!Crash(th) PROVE CountInv'
<1>1. /\ at' = [other \in Threads |-> "crashed"]
      /\ UNCHANGED <<BranchStructs, GlobalCondCount, branch, loaded, executed>>
  BY DEF Local!Crash
<1>2. DictionaryInv'
  BY CrashKeeps DEF CountInv
<1>3. \A steps \in Parts : "crashed" \notin steps
  BY DEF Parts, Uncounted, Unassigned, Unrecorded
<1>4. ASSUME NEW steps \in Parts, NEW ip \in Branches
      PROVE  /\ \A t \in Threads : Through(steps, t, ip)' = executed[t][ip]
             /\ ThroughAll(steps, ip)' = Local!Executed(ip)
  <2>1. \A t \in Threads : Through(steps, t, ip)' = executed[t][ip]
    <3>1. \A t \in Threads : at'[t] \notin steps /\ executed'[t][ip] = executed[t][ip] /\ executed[t][ip] \in Nat
      BY <1>1, <1>3, Typed DEF CountInv
    <3> QED  BY <3>1 DEF Through
  <2>2. PerThread(steps, ip)' = [t \in Threads |-> executed[t][ip]]
    BY <2>1 DEF PerThread
  <2> QED  BY <2>1, <2>2, LocalSums DEF ThroughAll, Local!Executed, SumFunction
<1>5. Uncounted \in Parts /\ Unrecorded \in Parts
  BY DEF Parts
<1>6. ThroughAny' = Local!ExecutedInAll
  <2>1. PerBranch' = [ip \in Branches |-> Local!Executed(ip)]
    BY <1>4, <1>5 DEF PerBranch
  <2> QED  BY <2>1, LocalSums DEF ThroughAny, Local!ExecutedInAll, SumFunction
<1>7. \A s \in DOMAIN BranchStructs :
        BranchStructs[s].total_count <= ThroughAll(Uncounted, BranchStructs[s].inst_ptr)'
  <2> SUFFICES ASSUME NEW s \in DOMAIN BranchStructs
               PROVE  BranchStructs[s].total_count <= ThroughAll(Uncounted, BranchStructs[s].inst_ptr)'
    OBVIOUS
  <2>1. PICK ip \in Branches : ip = BranchStructs[s].inst_ptr /\ BranchStructs[s].total_count \in Nat
    BY Held DEF CountInv
  <2>2. /\ BranchStructs[s].total_count <= ThroughAll(Uncounted, ip)
        /\ ThroughAll(Uncounted, ip) <= Local!Executed(ip)
        /\ ThroughAll(Uncounted, ip) \in Nat /\ Local!Executed(ip) \in Nat
    BY <1>5, <2>1, SumsBounded DEF CountInv
  <2> QED  BY <1>1, <1>4, <1>5, <2>1, <2>2
<1>8. GlobalCondCount <= Local!ExecutedInAll
  BY SumsBounded DEF CountInv
<1>9. \A t \in Threads, ip \in Branches : Through(Unrecorded, t, ip)' \in Nat
  BY <1>4, <1>5, Typed DEF CountInv
<1> QED  BY <1>1, <1>2, <1>6, <1>7, <1>8, <1>9 DEF CountInv

\* What a step of a thread, or none, keeps.
LEMMA NextCounts == ASSUME Finite, CountInv, [Local!Next]_Local!vars PROVE CountInv'
<1>1. CASE UNCHANGED Local!vars
  <2> USE <1>1 DEF Local!vars
  <2>0. DictionaryInv'
    BY DEF CountInv, DictionaryInv
  <2>1. \A steps \in Parts, ip \in Branches : \A th \in Threads :
          Through(steps, th, ip)' = Through(steps, th, ip)
    BY Typed DEF CountInv, Through
  <2>2. \A steps \in Parts, ip \in Branches : ThroughAll(steps, ip)' = ThroughAll(steps, ip)
    BY DEF ThroughAll, PerThread, Through
  <2>3. ThroughAny' = ThroughAny
    BY <2>2, AsManyInAll DEF Parts
  <2>4. /\ branch \in [Threads -> Branches]
        /\ \A s \in DOMAIN BranchStructs : BranchStructs[s].inst_ptr \in Branches
    BY Held, Typed DEF CountInv
  <2> QED  BY <2>0, <2>1, <2>2, <2>3, <2>4 DEF CountInv, Parts
<1> QED  BY <1>1, FindCounts, ReadsCount, WritesCount, WriteGlobalCounts, CrashCounts
         DEF Local!Next, Local!Record, Local!Terminated

\* What is through is executed; and no thread is on the way to assign when all are idle.
LEMMA CountInvImplies ==
  ASSUME Finite, CountInv PROVE Local!NeverOvercounts /\ Local!NoneIsNull
<1>1. \A s \in DOMAIN BranchStructs :
        BranchStructs[s].total_count <= Local!Executed(BranchStructs[s].inst_ptr)
  <2> SUFFICES ASSUME NEW s \in DOMAIN BranchStructs
               PROVE  BranchStructs[s].total_count <= Local!Executed(BranchStructs[s].inst_ptr)
    OBVIOUS
  <2>1. PICK ip \in Branches : ip = BranchStructs[s].inst_ptr /\ BranchStructs[s].total_count \in Nat
    BY Held DEF CountInv
  <2>2. BranchStructs[s].total_count <= ThroughAll(Uncounted, ip)
    BY <2>1 DEF CountInv
  <2>3. /\ ThroughAll(Uncounted, ip) \in Nat /\ Local!Executed(ip) \in Nat
        /\ ThroughAll(Uncounted, ip) <= Local!Executed(ip)
    BY SumsBounded DEF Parts
  <2> QED  BY <2>1, <2>2, <2>3
<1>2. GlobalCondCount <= Local!ExecutedInAll
  BY SumsBounded DEF CountInv
<1>3. \A n \in DOMAIN nodes :
        nodes[n].br # 0 => BranchStructs[nodes[n].br].inst_ptr = nodes[n].inst_ptr
  BY DEF CountInv, DictionaryInv
<1>4. Local!NoneIsNull
  BY DEF CountInv, DictionaryInv, Local!NoneIsNull, Local!Idle
<1> QED  BY <1>1, <1>2, <1>3, <1>4 DEF Local!NeverOvercounts

\* However the threads insert nodes and BranchStructs over each other's, and read and write
\* back each other's counts, no BranchStruct counts more executions than its branch had, nor
\* does the global count (record_branch_transitions, incr_count, RecordBranchOrCall).
THEOREM NoneIsOvercounted == ASSUME Finite PROVE Local!Spec => []Local!NeverOvercounts
<1>1. Local!Init => CountInv
  BY InitCounts
<1>2. CountInv /\ [Local!Next]_Local!vars => CountInv'
  BY NextCounts
<1>3. CountInv => Local!NeverOvercounts
  BY CountInvImplies
<1> QED  BY <1>1, <1>2, <1>3, PTL DEF Local!Spec

\* Whenever no thread is in the tool, every node of the dictionary has the BranchStruct that
\* emit_stats will look into: a node that a thread leaves without one, between operator[] and
\* the assignment, is given one by that same thread (record_branch_transitions, 168).
THEOREM NoneStaysNull == ASSUME Finite PROVE Local!Spec => []Local!NoneIsNull
<1>1. Local!Init => CountInv
  BY InitCounts
<1>2. CountInv /\ [Local!Next]_Local!vars => CountInv'
  BY NextCounts
<1>3. CountInv => Local!NoneIsNull
  BY CountInvImplies
<1> QED  BY <1>1, <1>2, <1>3, PTL DEF Local!Spec
--------------------------------------------------------------------------------
(* The profiler of a program with threads: what is not lost. *)

\* No thread has been in the tool with another, nor has the program crashed.
Serial == ~ overlapped /\ \A th \in Threads : at[th] # "crashed"

\* The dictionary has the branch with the count it is due, or not at all, or its first node
\* is just being given its BranchStruct.
Kept(ip) ==
  /\ ThroughAll(Unassigned, ip) > 0 =>
       \E n \in Local!NodesOf(ip) :
         nodes[n].br # 0 /\ BranchStructs[nodes[n].br].total_count = ThroughAll(Unassigned, ip)
  /\ ThroughAll(Unassigned, ip) = 0 =>
       Local!NodesOf(ip) = {} \/ \E th \in Threads : at[th] = "assign" /\ branch[th] = ip

\* What a thread has found, made or read is as it was.
AtHand(th) ==
  /\ at[th] \in {"insert", "linking"} => Local!NodesOf(branch[th]) = {}
  /\ at[th] \in {"linking", "assign"} => BranchStructs[struct[th]].total_count = 1
  /\ at[th] = "assign" => ThroughAll(Unassigned, branch[th]) = 0
  /\ at[th] \in {"found", "struct", "count"} => ThroughAll(Unassigned, branch[th]) > 0
  /\ at[th] \in {"struct", "count"} =>
       \E n \in Local!NodesOf(branch[th]) : struct[th] = nodes[n].br
  /\ at[th] = "count" => loaded[th] = BranchStructs[struct[th]].total_count
  /\ at[th] = "finish" => loaded[th] = GlobalCondCount

Exact ==
  /\ torn = FALSE
  /\ \A t, u \in Threads : at[t] # "running" /\ at[u] # "running" => t = u
  /\ \A n, m \in DOMAIN nodes : nodes[n].inst_ptr = nodes[m].inst_ptr => n = m
  /\ \A ip \in Branches : Kept(ip)
  /\ \A th \in Threads : AtHand(th)
  /\ GlobalCondCount = ThroughAny

ExactInv == CountInv /\ (Serial => Exact)

\* While one thread is in the tool the others are not, and the map is sound.
LEMMA OneAtATime ==
  ASSUME DictionaryInv, Exact, NEW th \in Threads, at[th] # "running"
  PROVE  \A t \in Threads \ {th} : at[t] = "running"
BY DEF Exact

LEMMA Undisturbed ==
  ASSUME Exact, NEW th \in Threads, \A t \in Threads \ {th} : at[t] = "running"
  PROVE  ~ Local!Disturbed(th)
BY DEF Exact, Local!Disturbed, Local!Others

\* A thread that goes on, in a program where it is alone in the tool: only what it holds,
\* and the branch it is recording, has to be looked at.
LEMMA StaysExact ==
  ASSUME Finite, CountInv, Exact, NEW th \in Threads, NEW next, Moves(th, next),
         at[th] # "running", torn' = FALSE,
         \A n, m \in DOMAIN nodes' : nodes'[n].inst_ptr = nodes'[m].inst_ptr => n = m,
         \A ip \in Branches : Kept(ip)', AtHand(th)', GlobalCondCount' = ThroughAny'
  PROVE  Exact'
<1>1. at' = [at EXCEPT ![th] = next] /\ at \in [Threads -> Local!Steps]
  BY Typed DEF Moves, CountInv
<1>2. \A t \in Threads \ {th} : at[t] = "running"
  BY OneAtATime DEF CountInv
<1>3. \A t \in Threads \ {th} : at'[t] = "running"
  BY <1>1, <1>2
<1>4. \A t, u \in Threads : at'[t] # "running" /\ at'[u] # "running" => t = u
  BY <1>3
<1>5. \A t \in Threads : AtHand(t)'
  BY <1>3 DEF AtHand
<1> QED  BY <1>4, <1>5 DEF Exact

\* A branch is found if it was recorded before.
LEMMA FindExact ==
  ASSUME Finite, CountInv, Serial => Exact, NEW th \in Threads, Local!Find(th), Serial'
  PROVE  Exact'
<1>1. PICK ip \in Branches :
        /\ branch' = [branch EXCEPT ![th] = ip]
        /\ \/ Local!NodesOf(ip) # {} /\ at' = [at EXCEPT ![th] = "found"]
           \/ /\ Local!NodesOf(ip) = {} \/ Local!Disturbed(th)
              /\ at' = [at EXCEPT ![th] = "insert"]
  BY DEF Local!Find, Local!GoTo
<1>2. /\ at[th] = "running" /\ UNCHANGED <<BranchStructs, nodes, torn, GlobalCondCount, struct, loaded>>
      /\ \A t \in Threads : at[t] = "running"
  BY DEF Local!Find, Serial, Local!Others
<1>3. /\ Exact /\ ~ Local!Disturbed(th)
      /\ at \in [Threads -> Local!Steps] /\ branch \in [Threads -> Branches]
  BY <1>2, Undisturbed, Typed DEF Serial, Local!Find, CountInv
<1>4. /\ \A steps \in Parts, b \in Branches :
           ThroughAll(steps, b)' = ThroughAll(steps, b) /\ ThroughAll(steps, b) \in Nat
      /\ ThroughAny' = ThroughAny
  BY FindCounts, SumsBounded
<1>5. Unassigned \in Parts
  BY DEF Parts
<1>6. \A b \in Branches : Kept(b)'
  <2> SUFFICES ASSUME NEW b \in Branches PROVE Kept(b)'
    OBVIOUS
  <2>1. Kept(b) /\ \A t \in Threads : at[t] # "assign"
    BY <1>2, <1>3 DEF Exact
  <2>2. Local!NodesOf(b)' = Local!NodesOf(b)
    BY <1>2 DEF Local!NodesOf
  <2> QED  BY <1>2, <1>4, <1>5, <2>1, <2>2 DEF Kept
<1>7. AtHand(th)'
  <2>1. at'[th] \in {"found", "insert"} /\ branch'[th] = ip
    BY <1>1, <1>3
  <2>2. Local!NodesOf(ip)' = Local!NodesOf(ip)
    BY <1>2 DEF Local!NodesOf
  <2>3. CASE Local!NodesOf(ip) # {} /\ at' = [at EXCEPT ![th] = "found"]
    <3>1. ThroughAll(Unassigned, ip) \in Nat /\ ThroughAll(Unassigned, ip) # 0
      BY <1>2, <1>3, <1>4, <1>5, <2>3 DEF Exact, Kept
    <3>2. ThroughAll(Unassigned, ip)' > 0
      BY <1>4, <1>5, <3>1
    <3>3. at'[th] = "found"
      BY <1>3, <2>3
    <3> QED  BY <2>1, <3>2, <3>3 DEF AtHand
  <2>4. CASE Local!NodesOf(ip) = {} /\ at' = [at EXCEPT ![th] = "insert"]
    <3>1. at'[th] = "insert" /\ Local!NodesOf(ip)' = {}
      BY <1>3, <2>2, <2>4
    <3> QED  BY <2>1, <3>1 DEF AtHand
  <2> QED  BY <1>1, <1>3, <2>3, <2>4
<1>8. \A t \in Threads \ {th} : at'[t] = "running"
  BY <1>1, <1>2, <1>3
<1>9. \A t \in Threads : AtHand(t)'
  BY <1>7, <1>8 DEF AtHand
<1>10. /\ torn' = FALSE /\ GlobalCondCount' = ThroughAny'
       /\ \A t, u \in Threads : at'[t] # "running" /\ at'[u] # "running" => t = u
       /\ \A n, m \in DOMAIN nodes' : nodes'[n].inst_ptr = nodes'[m].inst_ptr => n = m
  BY <1>2, <1>3, <1>4, <1>8 DEF Exact
<1> QED  BY <1>6, <1>9, <1>10 DEF Exact

\* What is read is what was there.
LEMMA ReadExact ==
  ASSUME Finite, CountInv, Exact, NEW th \in Threads,
         Local!LoadStruct(th) \/ Local!ReadTotal(th) \/ Local!ReadGlobal(th)
  PROVE  Exact'
<1>1. PICK next \in {"struct", "count", "finish"} :
        /\ at' = [at EXCEPT ![th] = next]
        /\ at[th] = CASE next = "struct" -> "found" [] next = "count" -> "struct"
                      [] next = "finish" -> "recorded"
  BY DEF Local!LoadStruct, Local!ReadTotal, Local!ReadGlobal, Local!GoTo
<1>2. UNCHANGED <<BranchStructs, nodes, torn, GlobalCondCount, branch, executed>>
  BY DEF Local!LoadStruct, Local!ReadTotal, Local!ReadGlobal
<1>3. Moves(th, next)
  BY <1>1, <1>2 DEF Moves, Local!Steps, Parts, Uncounted, Unassigned, Unrecorded
<1>4. /\ \A b \in Branches : ThroughAll(Unassigned, b)' = ThroughAll(Unassigned, b)
      /\ ThroughAny' = ThroughAny /\ branch[th] \in Branches
      /\ at \in [Threads -> Local!Steps] /\ struct \in [Threads -> Nat] /\ loaded \in [Threads -> Nat]
  BY ReadsCount, Typed DEF Parts, CountInv, DictionaryInv
<1>5. \A t \in Threads : at[t] # "assign"
  BY <1>1, <1>4, OneAtATime DEF CountInv
<1>6. \A b \in Branches : Kept(b)'
  <2> SUFFICES ASSUME NEW b \in Branches PROVE Kept(b)'
    OBVIOUS
  <2>1. Kept(b) /\ Local!NodesOf(b)' = Local!NodesOf(b)
    BY <1>2 DEF Exact, Local!NodesOf
  <2> QED  BY <1>2, <1>4, <1>5, <2>1 DEF Kept
<1>7. AtHand(th)'
  <2>1. AtHand(th) /\ Local!NodesOf(branch[th])' = Local!NodesOf(branch[th])
    BY <1>2 DEF Exact, Local!NodesOf
  <2>2. ThroughAll(Unassigned, branch[th])' = ThroughAll(Unassigned, branch[th])
    BY <1>2, <1>4
  <2>3. at'[th] = next
    BY <1>1, <1>4
  <2>4. CASE Local!LoadStruct(th)
    <3>1. /\ at[th] = "found" /\ at'[th] = "struct"
          /\ struct'[th] = nodes[node[th]].br
      BY <1>4, <2>4 DEF Local!LoadStruct, Local!GoTo
    <3>2. node[th] \in Local!NodesOf(branch[th])
      BY <3>1 DEF CountInv, DictionaryInv, Local!NodesOf
    <3> QED  BY <1>2, <2>1, <2>2, <3>1, <3>2 DEF AtHand
  <2>5. CASE Local!ReadTotal(th)
    <3>1. /\ at[th] = "struct" /\ at'[th] = "count" /\ UNCHANGED struct
          /\ loaded'[th] = BranchStructs[struct[th]].total_count
      BY <1>4, <2>5 DEF Local!ReadTotal, Local!GoTo
    <3> QED  BY <1>2, <2>1, <2>2, <3>1 DEF AtHand
  <2>6. CASE Local!ReadGlobal(th)
    <3>1. at'[th] = "finish" /\ loaded'[th] = GlobalCondCount
      BY <1>4, <2>6 DEF Local!ReadGlobal, Local!GoTo
    <3> QED  BY <1>2, <3>1 DEF AtHand
  <2> QED  BY <2>4, <2>5, <2>6
<1>8. /\ at[th] # "running" /\ torn' = FALSE /\ GlobalCondCount' = ThroughAny'
      /\ \A n, m \in DOMAIN nodes' : nodes'[n].inst_ptr = nodes'[m].inst_ptr => n = m
  BY <1>1, <1>2, <1>4 DEF Exact
<1> QED  BY <1>3, <1>6, <1>7, <1>8, StaysExact

\* The count that is written is one more than what the BranchStruct of the branch's only node
\* had.
LEMMA WriteTotalExact ==
  ASSUME Finite, CountInv, Exact, NEW th \in Threads, Local!WriteTotal(th)
  PROVE  Exact'
<1> DEFINE s == struct[th]
           b == branch[th]
<1>1. /\ at[th] = "count" /\ at' = [at EXCEPT ![th] = "recorded"]
      /\ BranchStructs' = [BranchStructs EXCEPT ![s] = [@ EXCEPT !.total_count = loaded[th] + 1]]
      /\ UNCHANGED <<nodes, torn, GlobalCondCount, branch, loaded, executed>>
  BY DEF Local!WriteTotal, Local!GoTo
<1>2. /\ Moves(th, "recorded") /\ at[th] \in Unassigned /\ "recorded" \notin Unassigned
      /\ "recorded" \in Unrecorded /\ Unassigned \in Parts
  BY <1>1 DEF Moves, Local!Steps, Parts, Uncounted, Unassigned, Unrecorded
<1>3. /\ \A ip \in Branches :
           /\ ThroughAll(Unassigned, ip) \in Nat
           /\ ThroughAll(Unassigned, ip)' = ThroughAll(Unassigned, ip) + (IF ip = b THEN 1 ELSE 0)
      /\ ThroughAny' = ThroughAny
  BY <1>2, GoesOn
<1>4. /\ s \in DOMAIN BranchStructs /\ BranchStructs[s].inst_ptr = b /\ b \in Branches
      /\ loaded[th] = BranchStructs[s].total_count
      /\ ThroughAll(Unassigned, b) > 0
      /\ at \in [Threads -> Local!Steps]
      /\ DOMAIN BranchStructs = 1 .. Len(BranchStructs)
      /\ BranchStructs[s] \in Allocated
  BY <1>1, Typed, Held DEF CountInv, DictionaryInv, Exact, AtHand
<1>5. PICK n \in Local!NodesOf(b) : s = nodes[n].br
  BY <1>1 DEF Exact, AtHand
<1>6. /\ \A x \in DOMAIN BranchStructs \ {s} : BranchStructs'[x] = BranchStructs[x]
      /\ BranchStructs'[s].total_count = loaded[th] + 1
  <2>1. BranchStructs'[s] = [BranchStructs[s] EXCEPT !.total_count = loaded[th] + 1]
    BY <1>1, <1>4
  <2> QED  BY <1>1, <1>4, <2>1 DEF Allocated
<1>7. \A ip \in Branches : Kept(ip)'
  <2> SUFFICES ASSUME NEW ip \in Branches PROVE Kept(ip)'
    OBVIOUS
  <2>1. Kept(ip) /\ Local!NodesOf(ip)' = Local!NodesOf(ip) /\ \A t \in Threads : at[t] # "assign"
    BY <1>1, <1>4, OneAtATime DEF Exact, Local!NodesOf, CountInv
  <2>2. CASE ip = b
    <3>1. PICK m \in Local!NodesOf(b) :
            nodes[m].br # 0 /\ BranchStructs[nodes[m].br].total_count = ThroughAll(Unassigned, b)
      BY <1>4, <2>1, <2>2 DEF Kept
    <3>2. m = n
      BY <1>5, <3>1 DEF Exact, Local!NodesOf
    <3>3. BranchStructs'[nodes[m].br].total_count = ThroughAll(Unassigned, b) + 1 /\ nodes[m].br # 0
      BY <1>4, <1>5, <1>6, <3>1, <3>2
    <3>4. ThroughAll(Unassigned, ip)' = ThroughAll(Unassigned, b) + 1 /\ ThroughAll(Unassigned, b) \in Nat
      BY <1>3, <1>4, <2>2
    <3> QED  BY <1>1, <2>1, <2>2, <3>1, <3>3, <3>4 DEF Kept
  <2>3. CASE ip # b
    <3>1. ThroughAll(Unassigned, ip)' = ThroughAll(Unassigned, ip) /\ ThroughAll(Unassigned, ip) \in Nat
      BY <1>3, <2>3
    <3>2. \A m \in Local!NodesOf(ip) : nodes[m].br # 0 =>
            BranchStructs'[nodes[m].br] = BranchStructs[nodes[m].br]
      <4> SUFFICES ASSUME NEW m \in Local!NodesOf(ip), nodes[m].br # 0
                   PROVE  BranchStructs'[nodes[m].br] = BranchStructs[nodes[m].br]
        OBVIOUS
      <4>1. nodes[m].br \in DOMAIN BranchStructs /\ BranchStructs[nodes[m].br].inst_ptr = ip
        BY DEF CountInv, DictionaryInv, Local!NodesOf
      <4> QED  BY <1>4, <1>6, <2>3, <4>1
    <3> QED  BY <1>1, <2>1, <3>1, <3>2 DEF Kept
  <2> QED  BY <2>2, <2>3
<1>8. AtHand(th)' /\ at[th] # "running"
  BY <1>1, <1>4 DEF AtHand
<1>9. /\ torn' = FALSE /\ GlobalCondCount' = ThroughAny'
      /\ \A k, m \in DOMAIN nodes' : nodes'[k].inst_ptr = nodes'[m].inst_ptr => k = m
  BY <1>1, <1>3 DEF Exact
<1> QED  BY <1>2, <1>7, <1>8, <1>9, StaysExact

\* A branch that was not found has no node by now either.
LEMMA InsertExact ==
  ASSUME Finite, CountInv, Exact, NEW th \in Threads, Local!Insert(th)
  PROVE  Exact'
<1> DEFINE b == branch[th]
           e == [inst_ptr |-> b, total_count |-> 1]
<1>1. /\ at[th] = "insert"
      /\ BranchStructs' = Append(BranchStructs, e)
      /\ struct' = [struct EXCEPT ![th] = Len(BranchStructs) + 1]
      /\ UNCHANGED <<nodes, torn, GlobalCondCount, branch, loaded, executed>>
  BY DEF Local!Insert
<1>2. /\ Local!NodesOf(b) = {} /\ b \in Branches /\ at \in [Threads -> Local!Steps]
      /\ struct \in [Threads -> Nat]
  BY <1>1, Typed DEF Exact, AtHand, CountInv, DictionaryInv
<1>3. at' = [at EXCEPT ![th] = "linking"]
  BY <1>2 DEF Local!Insert, Local!GoTo
<1>4. /\ Moves(th, "linking") /\ "linking" \in Unassigned /\ "linking" \in Unrecorded
      /\ Unassigned \in Parts
  BY <1>1, <1>3 DEF Moves, Local!Steps, Parts, Uncounted, Unassigned, Unrecorded
<1>5. /\ \A ip \in Branches :
           ThroughAll(Unassigned, ip) \in Nat /\ ThroughAll(Unassigned, ip)' = ThroughAll(Unassigned, ip)
      /\ ThroughAny' = ThroughAny
  BY <1>4, GoesOn
<1>6. /\ Len(BranchStructs) \in Nat /\ DOMAIN BranchStructs = 1 .. Len(BranchStructs)
      /\ \A x \in DOMAIN BranchStructs : BranchStructs'[x] = BranchStructs[x]
      /\ BranchStructs'[Len(BranchStructs) + 1] = e
  <2>1. BranchStructs \in Seq(Allocated) /\ e \in Allocated
    BY <1>2 DEF CountInv, DictionaryInv, Allocated
  <2> HIDE DEF e
  <2> QED  BY <1>1, <2>1, AppendProperties, Held DEF CountInv
<1>7. \A ip \in Branches : Kept(ip)'
  <2> SUFFICES ASSUME NEW ip \in Branches PROVE Kept(ip)'
    OBVIOUS
  <2>1. Kept(ip) /\ Local!NodesOf(ip)' = Local!NodesOf(ip) /\ \A t \in Threads : at[t] # "assign"
    BY <1>1, <1>2, OneAtATime DEF Exact, Local!NodesOf, CountInv
  <2>2. \A m \in Local!NodesOf(ip) : nodes[m].br # 0 =>
          BranchStructs'[nodes[m].br] = BranchStructs[nodes[m].br]
    BY <1>6 DEF CountInv, DictionaryInv, Local!NodesOf
  <2>3. ThroughAll(Unassigned, ip)' = ThroughAll(Unassigned, ip) /\ ThroughAll(Unassigned, ip) \in Nat
    BY <1>5
  <2> QED  BY <1>1, <2>1, <2>2, <2>3 DEF Kept
<1>8. AtHand(th)' /\ at[th] # "running"
  <2>1. /\ at'[th] = "linking" /\ BranchStructs'[struct'[th]].total_count = 1
        /\ at[th] # "running"
    BY <1>1, <1>2, <1>3, <1>6
  <2>2. Local!NodesOf(branch[th])' = {}
    BY <1>1, <1>2 DEF Local!NodesOf
  <2> QED  BY <2>1, <2>2 DEF AtHand
<1>9. /\ torn' = FALSE /\ GlobalCondCount' = ThroughAny'
      /\ \A k, m \in DOMAIN nodes' : nodes'[k].inst_ptr = nodes'[m].inst_ptr => k = m
  BY <1>1, <1>5 DEF Exact
<1> QED  BY <1>4, <1>7, <1>8, <1>9, StaysExact

\* The node that is linked is the branch's only one.
LEMMA LinkExact ==
  ASSUME Finite, CountInv, Exact, NEW th \in Threads, Local!Link(th)
  PROVE  Exact'
<1> DEFINE b == branch[th]
           e == [inst_ptr |-> b, br |-> 0]
<1>1. /\ at[th] = "linking" /\ at' = [at EXCEPT ![th] = "assign"]
      /\ nodes' = Append(nodes, e) /\ torn' = Local!Disturbed(th)
      /\ UNCHANGED <<BranchStructs, GlobalCondCount, branch, struct, loaded, executed>>
  BY DEF Local!Link, Local!GoTo
<1>2. /\ Local!NodesOf(b) = {} /\ BranchStructs[struct[th]].total_count = 1
      /\ b \in Branches /\ at \in [Threads -> Local!Steps]
  BY <1>1, Typed DEF Exact, AtHand, CountInv
<1>3. /\ Moves(th, "assign") /\ "assign" \in Unassigned /\ "assign" \in Unrecorded
      /\ Unassigned \in Parts
  BY <1>1 DEF Moves, Local!Steps, Parts, Uncounted, Unassigned, Unrecorded
<1>4. /\ \A ip \in Branches :
           ThroughAll(Unassigned, ip) \in Nat /\ ThroughAll(Unassigned, ip)' = ThroughAll(Unassigned, ip)
      /\ ThroughAny' = ThroughAny
  BY <1>3, GoesOn
<1>5. /\ DOMAIN nodes' = DOMAIN nodes \cup {Len(nodes) + 1}
      /\ \A n \in DOMAIN nodes : nodes'[n] = nodes[n]
      /\ nodes'[Len(nodes) + 1] = e
  <2>1. nodes \in Seq(Linked) /\ e \in Linked
    BY <1>2 DEF CountInv, DictionaryInv, Linked
  <2> HIDE DEF e
  <2> QED  BY <1>1, <2>1, AppendProperties, Held DEF CountInv
<1>6. ThroughAll(Unassigned, b) = 0
  <2>1. ThroughAll(Unassigned, b) \in Nat /\ ~ (ThroughAll(Unassigned, b) > 0)
    BY <1>2, <1>4 DEF Exact, Kept
  <2> QED  BY <2>1
<1>7. \A ip \in Branches : Kept(ip)'
  <2> SUFFICES ASSUME NEW ip \in Branches PROVE Kept(ip)'
    OBVIOUS
  <2>1. CASE ip = b
    <3>1. ThroughAll(Unassigned, ip)' = 0 /\ at'[th] = "assign" /\ branch'[th] = ip
      BY <1>1, <1>2, <1>4, <1>6, <2>1
    <3> QED  BY <3>1 DEF Kept
  <2>2. CASE ip # b
    <3>1. Kept(ip) /\ \A t \in Threads : at[t] # "assign"
      BY <1>1, <1>2, OneAtATime DEF Exact, CountInv
    <3>2. Local!NodesOf(ip)' = Local!NodesOf(ip)
      BY <1>5, <2>2 DEF Local!NodesOf
    <3>3. \A m \in Local!NodesOf(ip) : nodes'[m] = nodes[m]
      BY <1>5 DEF Local!NodesOf
    <3>4. ThroughAll(Unassigned, ip)' = ThroughAll(Unassigned, ip) /\ ThroughAll(Unassigned, ip) \in Nat
      BY <1>4
    <3> QED  BY <1>1, <3>1, <3>2, <3>3, <3>4 DEF Kept
  <2> QED  BY <2>1, <2>2
<1>8. AtHand(th)' /\ at[th] # "running"
  <2>1. /\ at'[th] = "assign" /\ BranchStructs'[struct'[th]].total_count = 1
        /\ at[th] # "running"
    BY <1>1, <1>2
  <2>2. ThroughAll(Unassigned, branch[th])' = 0
    BY <1>1, <1>2, <1>4, <1>6
  <2> QED  BY <2>1, <2>2 DEF AtHand
<1>9. torn' = FALSE /\ GlobalCondCount' = ThroughAny'
  <2>1. \A t \in Threads \ {th} : at[t] = "running"
    BY <1>1, OneAtATime DEF CountInv
  <2>2. ~ Local!Disturbed(th)
    BY <2>1, Undisturbed
  <2>3. Local!Disturbed(th) = FALSE
    BY <2>2 DEF Local!Disturbed, Exact
  <2>4. GlobalCondCount = ThroughAny
    BY DEF Exact
  <2> QED  BY <1>1, <1>4, <2>3, <2>4
<1>10. \A k, m \in DOMAIN nodes' : nodes'[k].inst_ptr = nodes'[m].inst_ptr => k = m
  <2>1. \A k \in DOMAIN nodes : nodes[k].inst_ptr # b
    BY <1>2 DEF Local!NodesOf
  <2>2. \A k, m \in DOMAIN nodes : nodes[k].inst_ptr = nodes[m].inst_ptr => k = m
    BY DEF Exact
  <2> QED  BY <1>5, <2>1, <2>2
<1> QED  BY <1>3, <1>7, <1>8, <1>9, <1>10, StaysExact

\* A branch's first BranchStruct counts one.
LEMMA AssignExact ==
  ASSUME Finite, CountInv, Exact, NEW th \in Threads, Local!Assign(th)
  PROVE  Exact'
<1> DEFINE b == branch[th]
           n == node[th]
<1>1. /\ at[th] = "assign" /\ at' = [at EXCEPT ![th] = "recorded"]
      /\ nodes' = [nodes EXCEPT ![n] = [@ EXCEPT !.br = struct[th]]]
      /\ UNCHANGED <<BranchStructs, torn, GlobalCondCount, branch, struct, loaded, executed>>
  BY DEF Local!Assign, Local!GoTo
<1>2. /\ BranchStructs[struct[th]].total_count = 1 /\ ThroughAll(Unassigned, b) = 0
      /\ b \in Branches /\ at \in [Threads -> Local!Steps]
      /\ struct[th] \in DOMAIN BranchStructs /\ n \in DOMAIN nodes /\ nodes[n].inst_ptr = b
  BY <1>1, Typed DEF Exact, AtHand, CountInv, DictionaryInv
<1>3. struct[th] # 0
  BY <1>2, Held DEF CountInv
<1>4. /\ Moves(th, "recorded") /\ at[th] \in Unassigned /\ "recorded" \notin Unassigned
      /\ "recorded" \in Unrecorded /\ Unassigned \in Parts
  BY <1>1 DEF Moves, Local!Steps, Parts, Uncounted, Unassigned, Unrecorded
<1>5. /\ \A ip \in Branches :
           /\ ThroughAll(Unassigned, ip) \in Nat
           /\ ThroughAll(Unassigned, ip)' = ThroughAll(Unassigned, ip) + (IF ip = b THEN 1 ELSE 0)
      /\ ThroughAny' = ThroughAny
  BY <1>4, GoesOn
<1>6. /\ DOMAIN nodes' = DOMAIN nodes
      /\ \A k \in DOMAIN nodes \ {n} : nodes'[k] = nodes[k]
      /\ nodes'[n].br = struct[th] /\ nodes'[n].inst_ptr = b
  <2>1. nodes[n] \in Linked
    BY <1>2, Held DEF CountInv
  <2>2. nodes'[n] = [nodes[n] EXCEPT !.br = struct[th]]
    BY <1>1, <1>2
  <2> QED  BY <1>1, <1>2, <2>1, <2>2 DEF Linked
<1>7. \A ip \in Branches : Kept(ip)'
  <2> SUFFICES ASSUME NEW ip \in Branches PROVE Kept(ip)'
    OBVIOUS
  <2>1. Local!NodesOf(ip)' = Local!NodesOf(ip)
    BY <1>2, <1>6 DEF Local!NodesOf
  <2>2. CASE ip = b
    <3>1. n \in Local!NodesOf(ip) /\ ThroughAll(Unassigned, ip)' = 1
      BY <1>2, <1>5, <2>2 DEF Local!NodesOf
    <3> QED  BY <1>1, <1>2, <1>3, <1>6, <2>1, <3>1 DEF Kept
  <2>3. CASE ip # b
    <3>1. Kept(ip) /\ \A t \in Threads : at[t] = "assign" => branch[t] # ip
      BY <1>1, <2>3, OneAtATime DEF Exact, CountInv
    <3>2. \A m \in Local!NodesOf(ip) : nodes'[m] = nodes[m]
      BY <1>2, <1>6, <2>3 DEF Local!NodesOf
    <3>3. ThroughAll(Unassigned, ip)' = ThroughAll(Unassigned, ip) /\ ThroughAll(Unassigned, ip) \in Nat
      BY <1>5, <2>3
    <3> QED  BY <1>1, <2>1, <3>1, <3>2, <3>3 DEF Kept
  <2> QED  BY <2>2, <2>3
<1>8. AtHand(th)' /\ at[th] # "running"
  BY <1>1, <1>2 DEF AtHand
<1>9. /\ torn' = FALSE /\ GlobalCondCount' = ThroughAny'
      /\ \A k, m \in DOMAIN nodes' : nodes'[k].inst_ptr = nodes'[m].inst_ptr => k = m
  <2>1. \A k, m \in DOMAIN nodes : nodes[k].inst_ptr = nodes[m].inst_ptr => k = m
    BY DEF Exact
  <2>2. \A k \in DOMAIN nodes : nodes'[k].inst_ptr = nodes[k].inst_ptr
    BY <1>2, <1>6
  <2> QED  BY <1>1, <1>5, <1>6, <2>1, <2>2 DEF Exact
<1> QED  BY <1>4, <1>7, <1>8, <1>9, StaysExact

\* The global count goes up by one when one execution is through.
LEMMA WriteGlobalExact ==
  ASSUME Finite, CountInv, Exact, NEW th \in Threads, Local!WriteGlobal(th)
  PROVE  Exact'
<1>1. /\ at[th] = "finish" /\ at' = [at EXCEPT ![th] = "running"]
      /\ GlobalCondCount' = loaded[th] + 1
      /\ UNCHANGED <<BranchStructs, nodes, torn, branch, executed>>
  BY DEF Local!WriteGlobal, Local!GoTo
<1>2. /\ loaded[th] = GlobalCondCount /\ GlobalCondCount = ThroughAny
      /\ at \in [Threads -> Local!Steps]
  BY <1>1, Typed DEF Exact, AtHand, CountInv
<1>3. Moves(th, "running")
  BY <1>1 DEF Moves, Local!Steps, Parts, Uncounted, Unassigned, Unrecorded
<1>4. /\ \A ip \in Branches : ThroughAll(Unassigned, ip)' = ThroughAll(Unassigned, ip)
      /\ ThroughAny' = ThroughAny + 1
  BY WriteGlobalCounts
<1>5. \A ip \in Branches : Kept(ip)'
  <2> SUFFICES ASSUME NEW ip \in Branches PROVE Kept(ip)'
    OBVIOUS
  <2>1. Kept(ip) /\ Local!NodesOf(ip)' = Local!NodesOf(ip) /\ \A t \in Threads : at[t] # "assign"
    BY <1>1, <1>2, OneAtATime DEF Exact, Local!NodesOf, CountInv
  <2> QED  BY <1>1, <1>4, <2>1 DEF Kept
<1>6. AtHand(th)' /\ at[th] # "running"
  BY <1>1, <1>2 DEF AtHand
<1>7. /\ torn' = FALSE /\ GlobalCondCount' = ThroughAny'
      /\ \A n, m \in DOMAIN nodes' : nodes'[n].inst_ptr = nodes'[m].inst_ptr => n = m
  BY <1>1, <1>2, <1>4 DEF Exact
<1> QED  BY <1>3, <1>5, <1>6, <1>7, StaysExact

\* What a step keeps: a program that is serial has been so before.
LEMMA NextExact == ASSUME Finite, ExactInv, [Local!Next]_Local!vars PROVE ExactInv'
<1>1. CountInv /\ CountInv'
  BY NextCounts DEF ExactInv
<1>2. ASSUME Serial' PROVE Exact'
  <2>1. CASE UNCHANGED Local!vars
    <3> USE <2>1 DEF Local!vars
    <3>1. Serial
      BY <1>2 DEF Serial
    <3>2. \A steps \in Parts, ip \in Branches : ThroughAll(steps, ip)' = ThroughAll(steps, ip)
      BY DEF ThroughAll, PerThread, Through
    <3>3. ThroughAny' = ThroughAny /\ Unassigned \in Parts
      BY <3>2, AsManyInAll DEF Parts
    <3>4. Exact /\ branch \in [Threads -> Branches]
      BY <1>1, <3>1, Typed DEF ExactInv, CountInv
    <3>5. \A ip \in Branches : Kept(ip)'
      BY <3>2, <3>3, <3>4 DEF Exact, Kept, Local!NodesOf
    <3>6. \A t \in Threads : AtHand(t)'
      <4> SUFFICES ASSUME NEW t \in Threads PROVE AtHand(t)'
        OBVIOUS
      <4>1. AtHand(t) /\ branch[t] \in Branches
        BY <3>4 DEF Exact
      <4>2. ThroughAll(Unassigned, branch[t])' = ThroughAll(Unassigned, branch[t])
        BY <3>2, <3>3, <4>1
      <4>3. Local!NodesOf(branch[t])' = Local!NodesOf(branch[t])
        BY DEF Local!NodesOf
      <4> QED  BY <4>1, <4>2, <4>3 DEF AtHand
    <3> QED  BY <3>3, <3>4, <3>5, <3>6 DEF Exact
  <2>2. ASSUME NEW th \in Threads, Local!Record(th) PROVE Exact'
    <3>1. CASE Local!Find(th)
      BY <1>1, <1>2, <3>1, FindExact DEF ExactInv
    <3>2. CASE Local!Crash(th)
      BY <1>2, <3>2 DEF Local!Crash, Serial
    <3>3. CASE ~ Local!Find(th) /\ ~ Local!Crash(th)
      <4>1. UNCHANGED overlapped
        BY <2>2, <3>3 DEF Local!Record, Local!LoadStruct, Local!ReadTotal, Local!WriteTotal,
              Local!Insert, Local!Link, Local!Assign, Local!ReadGlobal, Local!WriteGlobal
      <4>2. /\ at[th] # "crashed"
            /\ \E next \in Local!Steps : at' = [at EXCEPT ![th] = next]
        BY <2>2, <3>3 DEF Local!Record, Local!LoadStruct, Local!ReadTotal, Local!WriteTotal,
              Local!Insert, Local!Link, Local!Assign, Local!ReadGlobal, Local!WriteGlobal,
              Local!GoTo, Local!Steps
      <4>3. Serial
        BY <1>1, <1>2, <4>1, <4>2, Typed DEF Serial, CountInv
      <4> QED  BY <1>1, <2>2, <3>3, <4>3, ReadExact, WriteTotalExact, InsertExact, LinkExact,
                  AssignExact, WriteGlobalExact DEF ExactInv, Local!Record
    <3> QED  BY <3>1, <3>2, <3>3
  <2> QED  BY <2>1, <2>2 DEF Local!Next, Local!Terminated
<1> QED  BY <1>1, <1>2 DEF ExactInv

\* Nothing has been counted, nor is anything due.
LEMMA InitExact == ASSUME Finite, Local!Init PROVE ExactInv
<1>1. CountInv /\ ThroughAny = 0
  BY InitCounts
<1>2. /\ nodes = << >> /\ torn = FALSE /\ GlobalCondCount = 0
      /\ at = [th \in Threads |-> "running"]
      /\ executed = [th \in Threads |-> [ip \in Branches |-> 0]]
  BY DEF Local!Init
<1>3. \A ip \in Branches : ThroughAll(Unassigned, ip) = 0
  <2> SUFFICES ASSUME NEW ip \in Branches PROVE ThroughAll(Unassigned, ip) = 0
    OBVIOUS
  <2> DEFINE f == PerThread(Unassigned, ip)
  <2>1. \A th \in Threads : f[th] = 0
    BY <1>2 DEF PerThread, Through, Unassigned, Uncounted
  <2> HIDE DEF f
  <2>2. SumFunctionOnSet(f, Threads) = 0
    BY <2>1, SumZero DEF Finite
  <2> QED  BY <2>2 DEF f, ThroughAll
<1>4. /\ \A ip \in Branches : Kept(ip)
      /\ \A th \in Threads : AtHand(th)
  BY <1>2, <1>3 DEF Kept, AtHand, Local!NodesOf
<1> QED  BY <1>1, <1>2, <1>4 DEF ExactInv, Exact

\* When no thread is in the tool, everything executed is through.
LEMMA ExactInvImplies == ASSUME Finite, ExactInv PROVE Local!ExactOneByOne
<1> SUFFICES ASSUME ~ overlapped, Local!Idle PROVE Local!CountsEveryBranch
  BY DEF Local!ExactOneByOne, Local!CountsEveryBranch
<1>1. CountInv /\ Exact /\ \A th \in Threads : at[th] = "running"
  BY DEF ExactInv, Serial, Local!Idle
<1>2. \A steps \in Parts : "running" \notin steps
  BY DEF Parts, Uncounted, Unassigned, Unrecorded
<1>3. ASSUME NEW steps \in Parts, NEW ip \in Branches
      PROVE  ThroughAll(steps, ip) = Local!Executed(ip)
  <2>1. \A th \in Threads : Through(steps, th, ip) = executed[th][ip]
    BY <1>1, <1>2, Typed DEF CountInv, Through
  <2>2. PerThread(steps, ip) = [th \in Threads |-> executed[th][ip]]
    BY <2>1 DEF PerThread
  <2> QED  BY <2>2, LocalSums DEF ThroughAll, Local!Executed, SumFunction
<1>4. Unassigned \in Parts /\ Unrecorded \in Parts
  BY DEF Parts
<1>5. GlobalCondCount = Local!ExecutedInAll
  <2>1. PerBranch = [ip \in Branches |-> Local!Executed(ip)]
    BY <1>3, <1>4 DEF PerBranch
  <2> QED  BY <1>1, <2>1, LocalSums DEF Exact, ThroughAny, Local!ExecutedInAll, SumFunction
<1>6. \A ip \in Branches : Local!Executed(ip) > 0 =>
        \E n \in Local!NodesOf(ip) : BranchStructs[nodes[n].br].total_count = Local!Executed(ip)
  BY <1>1, <1>3, <1>4 DEF Exact, Kept
<1> QED  BY <1>5, <1>6 DEF Local!CountsEveryBranch

\* As long as no thread has entered the tool with another in it, every branch executed is in
\* the dictionary and every count is exact whenever none is in it: what is lost is lost to
\* threads that overlap (record_branch_transitions, RecordBranchOrCall).
THEOREM ExactUnlessOverlapped == ASSUME Finite PROVE Local!Spec => []Local!ExactOneByOne
<1>1. Local!Init => ExactInv
  BY InitExact
<1>2. ExactInv /\ [Local!Next]_Local!vars => ExactInv'
  BY NextExact
<1>3. ExactInv => Local!ExactOneByOne
  BY ExactInvImplies
<1> QED  BY <1>1, <1>2, <1>3, PTL DEF Local!Spec
--------------------------------------------------------------------------------
(* The interval profiler. *)

Sizes ==
  /\ IsFiniteSet(Branches)
  /\ interval_ins \in Nat \ {0} /\ BLOCK_LEN \in Nat \ {0} /\ MAX_INSTRUCTIONS \in Nat
--------------------------------------------------------------------------------
(* Sums over what was written *)

\* One more entry is one more term.
LEMMA SumAppend ==
  ASSUME NEW n \in Nat, NEW f, NEW g, NEW e \in Int,
         DOMAIN f = 1 .. n, \A k \in 1 .. n : f[k] \in Int,
         DOMAIN g = 1 .. n + 1, \A k \in 1 .. n : g[k] = f[k], g[n + 1] = e
  PROVE  SumFunction(g) = SumFunction(f) + e /\ SumFunction(f) \in Int
<1> DEFINE S == 1 .. n
<1>1. IsFiniteSet(S)
  BY FS_Interval
<1>2. n + 1 \notin S /\ 1 .. n + 1 = S \cup {n + 1}
  OBVIOUS
<1>3. /\ SumFunction(g) = SumFunctionOnSet(g, S \cup {n + 1})
      /\ SumFunction(f) = SumFunctionOnSet(f, S)
  BY <1>2 DEF SumFunction
<1>4. (\A k \in S : f[k] \in Int /\ g[k] \in Int /\ g[k] = f[k]) /\ g[n + 1] = e
  OBVIOUS
<1> HIDE DEF S
<1>5. SumFunctionOnSet(g, S \cup {n + 1}) = g[n + 1] + SumFunctionOnSet(g, S)
  <2>1. \A k \in S : g[k] \in Int
    BY <1>4
  <2> QED  BY <1>1, <1>2, <1>4, <2>1, SumAdd
<1>6. SumFunctionOnSet(g, S) = SumFunctionOnSet(f, S)
  <2>1. \A k \in S : g[k] = f[k]
    BY <1>4
  <2> QED  BY <1>1, <2>1, SumSame
<1>7. SumFunctionOnSet(f, S) \in Int
  <2>1. \A k \in S : f[k] \in Int
    BY <1>4
  <2> QED  BY <1>1, <2>1, SumInt
<1> QED  BY <1>3, <1>4, <1>5, <1>6, <1>7
--------------------------------------------------------------------------------
(* Buckets *)

\* A dictionary of branches, each with fewer transitions than executions.
Counts(info) ==
  /\ DOMAIN info \subseteq Branches
  /\ \A ip \in DOMAIN info :
       /\ info[ip].total_count \in Nat /\ info[ip].transition_count \in Nat
       /\ info[ip].transition_count < info[ip].total_count

\* A rate below 100 percent has one of ten buckets.
LEMMA RateHasBucket ==
  ASSUME NEW total \in Nat, NEW transitions \in Nat, transitions < total
  PROVE  ((transitions * 100) \div total) \div 10 \in 0 .. 9
<1> DEFINE x == transitions * 100
           q == x \div total
<1>1. x \in Nat /\ x < total * 100 /\ total > 0
  OBVIOUS
<1>2. q \in Nat /\ q * total <= x
  <2> HIDE DEF x
  <2> QED  BY <1>1
<1>3. q < 100
  <2> HIDE DEF q, x
  <2> SUFFICES ASSUME q >= 100 PROVE FALSE
    BY <1>2
  <2>1. q * total >= 100 * total
    BY <1>2
  <2> QED  BY <1>1, <1>2, <2>1
<1> HIDE DEF q
<1> QED  BY <1>2, <1>3

\* The buckets of a dictionary hold all its executions.
LEMMA BucketsHoldAll ==
  ASSUME IsFiniteSet(Branches), NEW info, Counts(info)
  PROVE  /\ SumFunction(Intervals!TransitionBuckets(info)) = SumFunction(Intervals!Totals(info))
         /\ Intervals!TransitionBuckets(info) \in [0 .. 9 -> Int]
<1> DEFINE f == Intervals!Totals(info)
           S == DOMAIN info
           b == [ip \in S |-> Intervals!BucketOf(info[ip])]
           part(i) == {ip \in S : b[ip] = i}
<1>1. IsFiniteSet(S) /\ IsFiniteSet(0 .. 9)
  <2>1. IsFiniteSet(0 .. 9)
    <3>1. 0 \in Int /\ 9 \in Int
      OBVIOUS
    <3> QED  BY <3>1, FS_Interval
  <2>2. S \subseteq Branches
    BY DEF Counts
  <2> QED  BY <2>1, <2>2, FS_Subset
<1>2. \A ip \in S : b[ip] \in 0 .. 9
  BY RateHasBucket DEF Counts, Intervals!BucketOf
<1>3. \A ip \in S : f[ip] \in Int
  BY DEF Intervals!Totals, Counts
<1>4. \A i \in 0 .. 9 : part(i) = {ip \in S : Intervals!BucketOf(info[ip]) = i}
  OBVIOUS
<1>5. Intervals!TransitionBuckets(info) = [i \in 0 .. 9 |-> SumFunctionOnSet(f, {ip \in S : b[ip] = i})]
  BY <1>4, IntervalSums DEF Intervals!TransitionBuckets
<1>6. \A i \in 0 .. 9 : SumFunctionOnSet(f, part(i)) \in Int
  <2> SUFFICES ASSUME NEW i \in 0 .. 9 PROVE SumFunctionOnSet(f, part(i)) \in Int
    OBVIOUS
  <2> DEFINE P == part(i)
  <2>1. IsFiniteSet(P) /\ \A ip \in P : f[ip] \in Int
    BY <1>1, <1>3, FS_Subset
  <2> HIDE DEF P, f
  <2>2. SumFunctionOnSet(f, P) \in Int
    BY <2>1, SumInt
  <2> QED  BY <2>2 DEF P
<1>7. SumFunctionOnSet([i \in 0 .. 9 |-> SumFunctionOnSet(f, {ip \in S : b[ip] = i})], 0 .. 9)
        = SumFunctionOnSet(f, S)
  <2> DEFINE I == 0 .. 9
  <2>1. IsFiniteSet(I) /\ \A ip \in S : b[ip] \in I
    BY <1>1, <1>2
  <2> HIDE DEF S, f, b, I
  <2>2. SumFunctionOnSet([i \in I |-> SumFunctionOnSet(f, {ip \in S : b[ip] = i})], I)
          = SumFunctionOnSet(f, S)
    BY <1>1, <1>3, <2>1, SumOfParts
  <2> QED  BY <2>2 DEF I
<1>8. SumFunction(f) = SumFunctionOnSet(f, S)
  BY DEF SumFunction, Intervals!Totals
<1>9. SumFunction(Intervals!TransitionBuckets(info)) =
        SumFunctionOnSet(Intervals!TransitionBuckets(info), 0 .. 9)
  BY <1>5 DEF SumFunction
<1>10. Intervals!TransitionBuckets(info) \in [0 .. 9 -> Int]
  BY <1>5, <1>6
<1>11. SumFunctionOnSet(Intervals!TransitionBuckets(info), 0 .. 9) = SumFunctionOnSet(f, S)
  <2> HIDE DEF S, f, b
  <2> QED  BY <1>5, <1>7
<1> QED  BY <1>8, <1>9, <1>10, <1>11

\* A branch recorded once more is one execution more.
LEMMA RecordedOnce ==
  ASSUME IsFiniteSet(Branches), NEW info, Counts(info), NEW ip \in Branches, NEW isTaken
  PROVE  /\ Counts(Intervals!Recorded(info, ip, isTaken))
         /\ SumFunction(Intervals!Totals(Intervals!Recorded(info, ip, isTaken))) =
              SumFunction(Intervals!Totals(info)) + 1
         /\ SumFunction(Intervals!Totals(info)) \in Int
<1> DEFINE next == Intervals!Recorded(info, ip, isTaken)
           S == DOMAIN info
           f == Intervals!Totals(info)
           g == Intervals!Totals(next)
<1>1. /\ DOMAIN next = S \cup {ip}
      /\ \A x \in S \ {ip} : next[x] = info[x]
      /\ ip \in S => /\ next[ip].total_count = info[ip].total_count + 1
                     /\ next[ip].transition_count \in
                          {info[ip].transition_count, info[ip].transition_count + 1}
      /\ ip \notin S => next[ip].total_count = 1 /\ next[ip].transition_count = 0
  <2>1. next = [x \in DOMAIN next |-> next[x]] /\ DOMAIN next = S \cup {ip}
    BY DEF Intervals!Recorded
  <2>2. \A x \in S \ {ip} : next[x] = info[x]
    BY DEF Intervals!Recorded
  <2>3. ASSUME ip \in S
        PROVE  /\ next[ip].total_count = info[ip].total_count + 1
               /\ next[ip].transition_count \in
                    {info[ip].transition_count, info[ip].transition_count + 1}
    <3>1. next[ip] = [last_dir |-> isTaken, total_count |-> info[ip].total_count + 1,
             transition_count |-> info[ip].transition_count + Intervals!Number(info[ip].last_dir # isTaken)]
      BY <2>3 DEF Intervals!Recorded
    <3>2. info[ip].transition_count \in Nat
      BY <2>3 DEF Counts
    <3> QED  BY <3>1, <3>2 DEF Intervals!Number
  <2>4. ASSUME ip \notin S
        PROVE  next[ip].total_count = 1 /\ next[ip].transition_count = 0
    <3>1. next[ip] = [last_dir |-> isTaken, total_count |-> 1, transition_count |-> 0]
      BY <2>4 DEF Intervals!Recorded
    <3> QED  BY <3>1
  <2> QED  BY <2>1, <2>2, <2>3, <2>4
<1> HIDE DEF next
<1>2. Counts(next)
  <2> SUFFICES ASSUME NEW x \in DOMAIN next
               PROVE  /\ x \in Branches /\ next[x].total_count \in Nat /\ next[x].transition_count \in Nat
                      /\ next[x].transition_count < next[x].total_count
    BY DEF Counts
  <2>1. CASE x # ip
    BY <1>1, <2>1 DEF Counts
  <2>2. CASE x = ip /\ ip \in S
    BY <1>1, <2>2 DEF Counts
  <2>3. CASE x = ip /\ ip \notin S
    BY <1>1, <2>3 DEF Counts
  <2> QED  BY <2>1, <2>2, <2>3
<1>3. /\ DOMAIN f = S /\ DOMAIN g = S \cup {ip}
      /\ \A x \in S : f[x] = info[x].total_count /\ f[x] \in Int
      /\ \A x \in S \cup {ip} : g[x] = next[x].total_count
  BY <1>1 DEF Intervals!Totals, Counts
<1>4. IsFiniteSet(DOMAIN f)
  BY <1>3, FS_Subset DEF Counts
<1>5. /\ \A x \in DOMAIN f : x # ip => g[x] = f[x]
      /\ g[ip] = (IF ip \in DOMAIN f THEN f[ip] ELSE 0) + 1
  BY <1>1, <1>3
<1>6. DOMAIN g = DOMAIN f \cup {ip} /\ (\A x \in DOMAIN f : f[x] \in Int) /\ 1 \in Int
  BY <1>3
<1> HIDE DEF f, g
<1>7. SumFunction(g) = SumFunction(f) + 1 /\ SumFunction(f) \in Int
  BY <1>4, <1>5, <1>6, SumCount
<1> QED  BY <1>2, <1>7 DEF f, g, next
--------------------------------------------------------------------------------
(* The inductive invariant *)

Emissions == [ins : Int, cond : Int, taken : Int, buckets : [0 .. 9 -> Int]]

\* A block is executed to its end after it has been counted only.
TypeInv ==
  /\ thread_curr_ins \in Nat /\ icount \in Int /\ tmp_icount \in Int
  /\ cond_br \in Int /\ ack_cond_br \in Int /\ tk_branch \in Int /\ ack_tk_branch \in Int
  /\ block \in [len : 0 .. BLOCK_LEN, done : Nat, counted : BOOLEAN]
  /\ block.done <= block.len /\ (block.done = block.len => block.counted)
  /\ emitted \in Seq(Emissions)

\* The dictionaries hold the branches counted since the beginning and since the last interval.
DictionariesInv ==
  /\ Counts(BrInfo) /\ SumFunction(Intervals!Totals(BrInfo)) = cond_br
  /\ Counts(Interval_BrInfo) /\ SumFunction(Intervals!Totals(Interval_BrInfo)) = cond_br - ack_cond_br
  /\ \A k \in DOMAIN emitted : SumFunction(emitted[k].buckets) = emitted[k].cond

\* How many instructions of its block are counted too early, or, if negative, not yet.
Ahead == IF block.counted THEN block.len - block.done ELSE 0 - block.done

\* What the open interval has more than was executed in it, apart from its last block:
\* the block that the interval began in.
Excess == tmp_icount - (thread_curr_ins % interval_ins) - Ahead

\* The excess is less than a block, either way, in the open interval, and those of the
\* beginning and of the end make up for what a full one has.
FillInv ==
  /\ Excess \in 1 - BLOCK_LEN .. BLOCK_LEN - 1
  /\ Intervals!NearlyFull

IntervalInv == TypeInv /\ Intervals!CountsAddUp /\ DictionariesInv /\ FillInv
--------------------------------------------------------------------------------
(* Arithmetic *)

\* Counting one on, modulo n.
LEMMA ModStep ==
  ASSUME NEW n \in Nat \ {0}, NEW t \in Nat
  PROVE  /\ t % n \in 0 .. n - 1
         /\ (t + 1) % n = IF (t % n) + 1 = n THEN 0 ELSE (t % n) + 1
<1> DEFINE q == t \div n
           r == t % n
<1>1. r \in 0 .. n - 1 /\ q \in Nat /\ t = n * q + r
  OBVIOUS
<1> HIDE DEF q, r
<1>2. CASE r + 1 = n
  <2>1. t + 1 = n * (q + 1) + 0
    BY <1>1, <1>2
  <2>2. (n * (q + 1) + 0) % n = 0
    BY <1>1
  <2> QED  BY <1>1, <1>2, <2>1, <2>2 DEF r
<1>3. CASE r + 1 # n
  <2>1. t + 1 = n * q + (r + 1) /\ r + 1 \in 0 .. n - 1
    BY <1>1, <1>3
  <2>2. (t + 1) % n = r + 1
    BY <1>1, <2>1
  <2> QED  BY <1>1, <1>3, <2>2 DEF r
<1> QED  BY <1>2, <1>3
--------------------------------------------------------------------------------
(* The steps *)

\* An empty dictionary.
LEMMA NoCounts == Counts(<< >>) /\ SumFunction(Intervals!Totals(<< >>)) = 0
<1> DEFINE f == Intervals!Totals(<< >>)
<1>1. DOMAIN << >> = {}
  OBVIOUS
<1>2. Counts(<< >>) /\ DOMAIN f = {}
  BY <1>1 DEF Counts, Intervals!Totals
<1>3. SumFunction(f) = SumFunctionOnSet(f, {})
  BY <1>2 DEF SumFunction
<1> HIDE DEF f
<1> QED  BY <1>2, <1>3, SumEmpty DEF f

\* What was written of each kind.
Ins == [k \in DOMAIN emitted |-> emitted[k].ins]
Cond == [k \in DOMAIN emitted |-> emitted[k].cond]
Taken == [k \in DOMAIN emitted |-> emitted[k].taken]

\* It sums up to integers.
LEMMA WrittenSums ==
  ASSUME TypeInv
  PROVE  SumFunction(Ins) \in Int /\ SumFunction(Cond) \in Int /\ SumFunction(Taken) \in Int
<1>1. ASSUME NEW f, DOMAIN f = DOMAIN emitted, \A k \in DOMAIN emitted : f[k] \in Int
      PROVE  SumFunction(f) \in Int
  <2>1. emitted \in Seq(Emissions) /\ DOMAIN emitted = 1 .. Len(emitted) /\ Len(emitted) \in Nat
    BY DEF TypeInv
  <2>2. IsFiniteSet(DOMAIN emitted)
    BY <2>1, FS_Interval
  <2> QED  BY <1>1, <2>2, SumInt DEF SumFunction
<1>2. \A k \in DOMAIN emitted : emitted[k] \in Emissions
  BY DEF TypeInv
<1>3. \A k \in DOMAIN emitted : Ins[k] \in Int /\ Cond[k] \in Int /\ Taken[k] \in Int
  BY <1>2 DEF Emissions, Ins, Cond, Taken
<1>4. DOMAIN Ins = DOMAIN emitted /\ DOMAIN Cond = DOMAIN emitted /\ DOMAIN Taken = DOMAIN emitted
  BY DEF Ins, Cond, Taken
<1> QED  BY <1>1, <1>3, <1>4

\* At the beginning nothing is counted.
LEMMA InitIntervals == ASSUME Sizes, Intervals!Init PROVE IntervalInv
<1> USE DEF Intervals!Init
<1>1. TypeInv
  BY DEF Sizes, TypeInv, Intervals!NoBlock
<1>2. Intervals!CountsAddUp
  <2>1. DOMAIN emitted = {}
    OBVIOUS
  <2>2. ASSUME NEW f, DOMAIN f = {} PROVE SumFunction(f) = 0
    BY <2>2, SumEmpty DEF SumFunction
  <2> DEFINE f == [k \in DOMAIN emitted |-> emitted[k].ins]
             g == [k \in DOMAIN emitted |-> emitted[k].cond]
             h == [k \in DOMAIN emitted |-> emitted[k].taken]
  <2>3. DOMAIN f = {} /\ DOMAIN g = {} /\ DOMAIN h = {}
    BY <2>1
  <2> HIDE DEF f, g, h
  <2>4. SumFunction(f) = 0 /\ SumFunction(g) = 0 /\ SumFunction(h) = 0
    BY <2>2, <2>3
  <2> QED  BY <2>4, IntervalSums DEF Intervals!CountsAddUp, f, g, h
<1>3. DictionariesInv
  BY NoCounts DEF DictionariesInv
<1>4. FillInv
  <2>1. 0 % interval_ins = 0
    BY DEF Sizes
  <2>2. Excess = 0
    BY <2>1 DEF Excess, Ahead, Intervals!NoBlock
  <2> QED  BY <2>2 DEF FillInv, Intervals!NearlyFull, Sizes
<1> QED  BY <1>1, <1>2, <1>3, <1>4 DEF IntervalInv

\* A block that is begun is not counted yet.
LEMMA EnterBlockAddsUp == ASSUME Sizes, IntervalInv, Intervals!EnterBlock PROVE IntervalInv'
<1>1. PICK len \in 1 .. Min({BLOCK_LEN, MAX_INSTRUCTIONS - thread_curr_ins}) :
        block' = [len |-> len, done |-> 0, counted |-> FALSE]
  BY IntervalSums DEF Intervals!EnterBlock
<1>2. UNCHANGED <<Intervals!counters, thread_curr_ins>> /\ ~ Intervals!InBlock
  BY DEF Intervals!EnterBlock
<1>3. len \in 1 .. BLOCK_LEN
  <2>1. BLOCK_LEN \in Int /\ MAX_INSTRUCTIONS - thread_curr_ins \in Int
    BY DEF Sizes, IntervalInv, TypeInv
  <2> QED  BY <2>1 DEF Min
<1>4. TypeInv'
  BY <1>1, <1>2, <1>3 DEF TypeInv, IntervalInv, Intervals!counters
<1>5. Excess' = Excess
  <2>1. Ahead = 0
    BY <1>2 DEF Ahead, Intervals!InBlock, IntervalInv, TypeInv
  <2>2. Ahead' = 0
    <3>1. block'.counted = FALSE /\ block'.done = 0
      BY <1>1
    <3> QED  BY <3>1 DEF Ahead
  <2> QED  BY <1>2, <2>1, <2>2 DEF Excess, Intervals!counters
<1> QED  BY <1>2, <1>4, <1>5
              DEF IntervalInv, Intervals!CountsAddUp, DictionariesInv, FillInv, Intervals!NearlyFull, Intervals!counters

\* The whole of a block is counted at once.
LEMMA docountAddsUp == ASSUME Sizes, IntervalInv, Intervals!docount PROVE IntervalInv'
<1>1. /\ ~ block.counted /\ icount' = icount + block.len /\ tmp_icount' = tmp_icount + block.len
      /\ block' = [block EXCEPT !.counted = TRUE]
      /\ UNCHANGED <<thread_curr_ins, cond_br, ack_cond_br, tk_branch, ack_tk_branch, BrInfo,
                     Interval_BrInfo, emitted>>
  BY DEF Intervals!docount
<1>2. TypeInv /\ Intervals!CountsAddUp /\ DictionariesInv /\ FillInv
  BY DEF IntervalInv
<1>0. block' = [len |-> block.len, done |-> block.done, counted |-> TRUE]
  BY <1>1, <1>2 DEF TypeInv
<1>3. TypeInv'
  <2>1. block' \in [len : 0 .. BLOCK_LEN, done : Nat, counted : BOOLEAN]
    BY <1>0, <1>2 DEF TypeInv
  <2>2. block'.done <= block'.len /\ block'.counted
    BY <1>0, <1>2 DEF TypeInv
  <2>3. icount' \in Int /\ tmp_icount' \in Int
    BY <1>1, <1>2 DEF TypeInv
  <2> QED  BY <1>1, <1>2, <2>1, <2>2, <2>3 DEF TypeInv
<1>4. Intervals!CountsAddUp'
  <2>1. icount \in Int /\ tmp_icount \in Int /\ block.len \in Int /\ SumFunction(Ins) \in Int
    BY <1>2, WrittenSums DEF TypeInv
  <2>2. icount' = tmp_icount' + SumFunction(Ins)
    BY <1>1, <1>2, <2>1, IntervalSums DEF Intervals!CountsAddUp, Ins
  <2> QED  BY <1>1, <1>2, <2>2, IntervalSums DEF Intervals!CountsAddUp, Ins
<1>5. Excess' = Excess
  <2>1. Ahead = 0 - block.done /\ Ahead' = block.len - block.done
    BY <1>0, <1>1, <1>2 DEF Ahead, TypeInv
  <2>2. /\ block.len \in Int /\ block.done \in Int /\ tmp_icount \in Int
        /\ thread_curr_ins % interval_ins \in Int
    BY <1>2, ModStep DEF TypeInv, Sizes
  <2>3. tmp_icount' = tmp_icount + block.len /\ thread_curr_ins' = thread_curr_ins
    BY <1>1
  <2> QED  BY <2>1, <2>2, <2>3 DEF Excess
<1> QED  BY <1>1, <1>2, <1>3, <1>4, <1>5 DEF IntervalInv, DictionariesInv, FillInv, Intervals!NearlyFull

\* What an instruction that does not end an interval changes.
LEMMA InstructionAddsUp ==
  ASSUME Sizes, IntervalInv, Intervals!do_ins_count, thread_curr_ins' % interval_ins # 0
  PROVE  IntervalInv'
<1>1. /\ block.done < block.len /\ (block.done + 1 = block.len => block.counted)
      /\ thread_curr_ins' = thread_curr_ins + 1
      /\ block' = [block EXCEPT !.done = block.done + 1]
      /\ UNCHANGED <<emitted, tmp_icount, ack_cond_br, ack_tk_branch, Interval_BrInfo, icount, cond_br,
                     tk_branch, BrInfo>>
  BY DEF Intervals!do_ins_count, Intervals!InBlock
<1>2. TypeInv /\ Intervals!CountsAddUp /\ DictionariesInv /\ FillInv
  BY DEF IntervalInv
<1>0. block' = [len |-> block.len, done |-> block.done + 1, counted |-> block.counted]
  BY <1>1, <1>2 DEF TypeInv
<1>3. TypeInv'
  BY <1>0, <1>1, <1>2 DEF TypeInv
<1>4. Excess' = Excess
  <2>1. Ahead' = Ahead - 1 /\ Ahead \in Int
    <3>1. /\ block'.len = block.len /\ block'.done = block.done + 1 /\ block'.counted = block.counted
          /\ block.len \in Int /\ block.done \in Int
      BY <1>0, <1>2 DEF TypeInv
    <3> QED  BY <3>1 DEF Ahead
  <2>2. thread_curr_ins' % interval_ins = (thread_curr_ins % interval_ins) + 1
        /\ thread_curr_ins % interval_ins \in Int
    <3>1. /\ thread_curr_ins \in Nat /\ interval_ins \in Nat \ {0}
          /\ thread_curr_ins' = thread_curr_ins + 1 /\ (thread_curr_ins + 1) % interval_ins # 0
      BY <1>1, <1>2 DEF TypeInv, Sizes
    <3> DEFINE since == thread_curr_ins % interval_ins
               next == (thread_curr_ins + 1) % interval_ins
    <3>2. /\ since \in 0 .. interval_ins - 1
          /\ next = IF since + 1 = interval_ins THEN 0 ELSE since + 1
      BY <3>1, ModStep
    <3>3. thread_curr_ins' % interval_ins = next
      BY <3>1
    <3>4. next # 0 /\ interval_ins \in Int
      BY <3>1
    <3> HIDE DEF since, next
    <3>5. next = since + 1 /\ since \in Int
      BY <3>2, <3>4
    <3> QED  BY <3>3, <3>5 DEF since
  <2>3. tmp_icount' = tmp_icount /\ tmp_icount \in Int
    BY <1>1, <1>2 DEF TypeInv
  <2> QED  BY <2>1, <2>2, <2>3 DEF Excess
<1> QED  BY <1>1, <1>2, <1>3, <1>4
              DEF IntervalInv, Intervals!CountsAddUp, DictionariesInv, FillInv, Intervals!NearlyFull

\* What is appended to a sum of what was written.
LEMMA EmissionSums ==
  ASSUME TypeInv, NEW e \in Emissions, emitted' = Append(emitted, e)
  PROVE  /\ emitted' \in Seq(Emissions)
         /\ SumFunction(Ins)' = SumFunction(Ins) + e.ins
         /\ SumFunction(Cond)' = SumFunction(Cond) + e.cond
         /\ SumFunction(Taken)' = SumFunction(Taken) + e.taken
<1> DEFINE n == Len(emitted)
<1>1. /\ emitted \in Seq(Emissions) /\ n \in Nat /\ DOMAIN emitted = 1 .. n
      /\ \A k \in 1 .. n : emitted[k] \in Emissions
  BY DEF TypeInv
<1>2. /\ emitted' \in Seq(Emissions) /\ DOMAIN emitted' = 1 .. n + 1 /\ emitted'[n + 1] = e
      /\ \A k \in 1 .. n : emitted'[k] = emitted[k]
  BY <1>1
<1>3. e.ins \in Int /\ e.cond \in Int /\ e.taken \in Int
  BY DEF Emissions
<1>4. ASSUME NEW f, NEW g, NEW x \in Int, DOMAIN f = 1 .. n, \A k \in 1 .. n : f[k] \in Int,
             DOMAIN g = 1 .. n + 1, \A k \in 1 .. n : g[k] = f[k], g[n + 1] = x
      PROVE  SumFunction(g) = SumFunction(f) + x
  BY <1>1, <1>4, SumAppend
<1> HIDE DEF n
<1>5. /\ DOMAIN Ins = 1 .. n /\ DOMAIN Ins' = 1 .. n + 1 /\ Ins'[n + 1] = e.ins
      /\ \A k \in 1 .. n : Ins[k] \in Int /\ Ins'[k] = Ins[k]
  <2>1. Ins = [k \in 1 .. n |-> emitted[k].ins] /\ Ins' = [k \in 1 .. n + 1 |-> emitted'[k].ins]
    BY <1>1, <1>2 DEF Ins
  <2>2. n + 1 \in 1 .. n + 1 /\ \A k \in 1 .. n : k \in 1 .. n + 1
    BY <1>1
  <2>3. \A k \in 1 .. n : emitted[k].ins \in Int
    BY <1>1 DEF Emissions
  <2> QED  BY <1>2, <2>1, <2>2, <2>3
<1>6. /\ DOMAIN Cond = 1 .. n /\ DOMAIN Cond' = 1 .. n + 1 /\ Cond'[n + 1] = e.cond
      /\ \A k \in 1 .. n : Cond[k] \in Int /\ Cond'[k] = Cond[k]
  <2>1. Cond = [k \in 1 .. n |-> emitted[k].cond] /\ Cond' = [k \in 1 .. n + 1 |-> emitted'[k].cond]
    BY <1>1, <1>2 DEF Cond
  <2>2. n + 1 \in 1 .. n + 1 /\ \A k \in 1 .. n : k \in 1 .. n + 1
    BY <1>1
  <2>3. \A k \in 1 .. n : emitted[k].cond \in Int
    BY <1>1 DEF Emissions
  <2> QED  BY <1>2, <2>1, <2>2, <2>3
<1>7. /\ DOMAIN Taken = 1 .. n /\ DOMAIN Taken' = 1 .. n + 1 /\ Taken'[n + 1] = e.taken
      /\ \A k \in 1 .. n : Taken[k] \in Int /\ Taken'[k] = Taken[k]
  <2>1. Taken = [k \in 1 .. n |-> emitted[k].taken] /\ Taken' = [k \in 1 .. n + 1 |-> emitted'[k].taken]
    BY <1>1, <1>2 DEF Taken
  <2>2. n + 1 \in 1 .. n + 1 /\ \A k \in 1 .. n : k \in 1 .. n + 1
    BY <1>1
  <2>3. \A k \in 1 .. n : emitted[k].taken \in Int
    BY <1>1 DEF Emissions
  <2> QED  BY <1>2, <2>1, <2>2, <2>3
<1>8. SumFunction(Ins') = SumFunction(Ins) + e.ins
  BY <1>3, <1>4, <1>5
<1>9. SumFunction(Cond') = SumFunction(Cond) + e.cond
  BY <1>3, <1>4, <1>6
<1>10. SumFunction(Taken') = SumFunction(Taken) + e.taken
  BY <1>3, <1>4, <1>7
<1>11. SumFunction(Ins)' = SumFunction(Ins') /\ SumFunction(Cond)' = SumFunction(Cond')
       /\ SumFunction(Taken)' = SumFunction(Taken')
  OBVIOUS
<1> QED  BY <1>2, <1>8, <1>9, <1>10, <1>11

\* What an instruction that ends an interval changes: the open one is written.
LEMMA IntervalAddsUp ==
  ASSUME Sizes, IntervalInv, Intervals!do_ins_count, thread_curr_ins' % interval_ins = 0
  PROVE  IntervalInv'
<1>1. /\ block.done < block.len /\ (block.done + 1 = block.len => block.counted)
      /\ thread_curr_ins' = thread_curr_ins + 1
      /\ block' = [block EXCEPT !.done = block.done + 1]
      /\ emitted' = Append(emitted, Intervals!Interval)
      /\ tmp_icount' = 0 /\ ack_cond_br' = cond_br /\ ack_tk_branch' = tk_branch
      /\ Interval_BrInfo' = << >>
      /\ UNCHANGED <<icount, cond_br, tk_branch, BrInfo>>
  BY DEF Intervals!do_ins_count, Intervals!InBlock, Intervals!EmitInterval
<1>2. TypeInv /\ Intervals!CountsAddUp /\ DictionariesInv /\ FillInv
  BY DEF IntervalInv
<1>3. block' = [len |-> block.len, done |-> block.done + 1, counted |-> block.counted]
  BY <1>1, <1>2 DEF TypeInv
<1>4. /\ SumFunction(Intervals!TransitionBuckets(Interval_BrInfo)) =
           SumFunction(Intervals!Totals(Interval_BrInfo))
      /\ Intervals!TransitionBuckets(Interval_BrInfo) \in [0 .. 9 -> Int]
  BY <1>2, BucketsHoldAll DEF Sizes, DictionariesInv
<1>5. /\ Intervals!Interval \in Emissions
      /\ Intervals!Interval.ins = tmp_icount /\ Intervals!Interval.cond = cond_br - ack_cond_br
      /\ Intervals!Interval.taken = tk_branch - ack_tk_branch
      /\ SumFunction(Intervals!Interval.buckets) = cond_br - ack_cond_br
  BY <1>2, <1>4 DEF Intervals!Interval, Emissions, TypeInv, DictionariesInv
<1> DEFINE e == Intervals!Interval
<1> HIDE DEF e
<1>6. /\ emitted' \in Seq(Emissions)
      /\ SumFunction(Ins)' = SumFunction(Ins) + tmp_icount
      /\ SumFunction(Cond)' = SumFunction(Cond) + (cond_br - ack_cond_br)
      /\ SumFunction(Taken)' = SumFunction(Taken) + (tk_branch - ack_tk_branch)
  <2>1. e \in Emissions /\ emitted' = Append(emitted, e)
    BY <1>1, <1>5 DEF e
  <2>2. /\ emitted' \in Seq(Emissions)
        /\ SumFunction(Ins)' = SumFunction(Ins) + e.ins
        /\ SumFunction(Cond)' = SumFunction(Cond) + e.cond
        /\ SumFunction(Taken)' = SumFunction(Taken) + e.taken
    BY <1>2, <2>1, EmissionSums
  <2> QED  BY <1>5, <2>2 DEF e
<1>7. \A k \in DOMAIN emitted' :
        (k \in DOMAIN emitted /\ emitted'[k] = emitted[k]) \/ emitted'[k] = e
  <2>1. emitted \in Seq(Emissions) /\ e \in Emissions /\ emitted' = Append(emitted, e)
    BY <1>1, <1>2, <1>5 DEF e, TypeInv
  <2> QED  BY <2>1
<1>8. TypeInv'
  <2>1. block' \in [len : 0 .. BLOCK_LEN, done : Nat, counted : BOOLEAN]
    BY <1>2, <1>3 DEF TypeInv
  <2>2. block'.done <= block'.len /\ (block'.done = block'.len => block'.counted)
    BY <1>1, <1>2, <1>3 DEF TypeInv
  <2>3. thread_curr_ins' \in Nat /\ tmp_icount' \in Int
    BY <1>1, <1>2 DEF TypeInv
  <2> QED  BY <1>1, <1>2, <1>6, <2>1, <2>2, <2>3 DEF TypeInv
<1>9. Intervals!CountsAddUp'
  <2>1. /\ icount = tmp_icount + SumFunction(Ins)
        /\ cond_br = (cond_br - ack_cond_br) + SumFunction(Cond)
        /\ tk_branch = (tk_branch - ack_tk_branch) + SumFunction(Taken)
    BY <1>2, IntervalSums DEF Intervals!CountsAddUp, Ins, Cond, Taken
  <2>2. /\ SumFunction(Ins) \in Int /\ SumFunction(Cond) \in Int /\ SumFunction(Taken) \in Int
        /\ tmp_icount \in Int /\ cond_br \in Int /\ tk_branch \in Int
        /\ ack_cond_br \in Int /\ ack_tk_branch \in Int
    BY <1>2, WrittenSums DEF TypeInv
  <2>3. icount' = tmp_icount' + SumFunction(Ins)'
    <3>1. icount' = icount /\ tmp_icount' = 0
      BY <1>1
    <3>2. SumFunction(Ins)' = SumFunction(Ins) + tmp_icount
      BY <1>6
    <3> QED  BY <2>1, <2>2, <3>1, <3>2
  <2>4. cond_br' = (cond_br' - ack_cond_br') + SumFunction(Cond)'
    <3>1. cond_br' = cond_br /\ ack_cond_br' = cond_br
      BY <1>1
    <3>2. SumFunction(Cond)' = SumFunction(Cond) + (cond_br - ack_cond_br)
      BY <1>6
    <3> QED  BY <2>1, <2>2, <3>1, <3>2
  <2>5. tk_branch' = (tk_branch' - ack_tk_branch') + SumFunction(Taken)'
    <3>1. tk_branch' = tk_branch /\ ack_tk_branch' = tk_branch
      BY <1>1
    <3>2. SumFunction(Taken)' = SumFunction(Taken) + (tk_branch - ack_tk_branch)
      BY <1>6
    <3> QED  BY <2>1, <2>2, <3>1, <3>2
  <2> QED  BY <2>3, <2>4, <2>5, IntervalSums DEF Intervals!CountsAddUp, Ins, Cond, Taken
<1>10. DictionariesInv'
  <2>1. Counts(Interval_BrInfo') /\ SumFunction(Intervals!Totals(Interval_BrInfo')) = cond_br' - ack_cond_br'
    BY <1>1, <1>2, NoCounts DEF TypeInv
  <2>2. \A k \in DOMAIN emitted' : SumFunction(emitted'[k].buckets) = emitted'[k].cond
    BY <1>2, <1>5, <1>7 DEF e, DictionariesInv
  <2> QED  BY <1>1, <1>2, <2>1, <2>2 DEF DictionariesInv
<1>11. FillInv'
  <2> DEFINE since == thread_curr_ins % interval_ins
  <2>1. since + 1 = interval_ins /\ since \in Int /\ interval_ins \in Int
    <3>1. /\ thread_curr_ins \in Nat /\ interval_ins \in Nat \ {0}
          /\ (thread_curr_ins + 1) % interval_ins = 0
      BY <1>1, <1>2 DEF TypeInv, Sizes
    <3>2. /\ since \in 0 .. interval_ins - 1
          /\ 0 = IF since + 1 = interval_ins THEN 0 ELSE since + 1
      BY <3>1, ModStep
    <3> HIDE DEF since
    <3> QED  BY <3>1, <3>2
  <2>2. Ahead' = Ahead - 1 /\ Ahead \in Int /\ Ahead' \in 1 - BLOCK_LEN .. BLOCK_LEN - 1
    <3>1. /\ block'.len = block.len /\ block'.done = block.done + 1 /\ block'.counted = block.counted
          /\ block.len \in 0 .. BLOCK_LEN /\ block.done \in Nat /\ BLOCK_LEN \in Nat
          /\ block.counted \in BOOLEAN /\ block.done < block.len
      BY <1>1, <1>2, <1>3 DEF TypeInv, Sizes
    <3>2. Ahead' = Ahead - 1 /\ Ahead \in Int
      BY <3>1 DEF Ahead
    <3>3. CASE block.counted
      <4>1. Ahead' = block.len - (block.done + 1)
        BY <3>1, <3>3 DEF Ahead
      <4> QED  BY <3>1, <3>2, <4>1
    <3>4. CASE ~ block.counted
      <4>1. Ahead' = 0 - (block.done + 1) /\ block.done + 1 < block.len
        BY <1>1, <3>1, <3>4 DEF Ahead
      <4> QED  BY <3>1, <3>2, <4>1
    <3> QED  BY <3>2, <3>3, <3>4
  <2>3. Excess' = 0 - Ahead'
    <3>1. Excess' = tmp_icount' - (thread_curr_ins' % interval_ins) - Ahead'
      BY DEF Excess
    <3>2. tmp_icount' = 0 /\ thread_curr_ins' % interval_ins = 0
      BY <1>1
    <3> QED  BY <2>2, <3>1, <3>2
  <2>4. Excess' \in 1 - BLOCK_LEN .. BLOCK_LEN - 1
    BY <2>2, <2>3 DEF Sizes
  <2>5. Intervals!Abs(tmp_icount - interval_ins) <= 2 * (BLOCK_LEN - 1)
    <3>1. Excess = tmp_icount - since - Ahead /\ Excess \in 1 - BLOCK_LEN .. BLOCK_LEN - 1
          /\ tmp_icount \in Int /\ BLOCK_LEN \in Int
      BY <1>2 DEF Excess, FillInv, TypeInv, Sizes
    <3> HIDE DEF since
    <3>2. tmp_icount - interval_ins = Excess + Ahead'
      BY <2>1, <2>2, <3>1
    <3>3. /\ tmp_icount - interval_ins <= 2 * (BLOCK_LEN - 1)
          /\ 0 - 2 * (BLOCK_LEN - 1) <= tmp_icount - interval_ins
      BY <2>2, <3>1, <3>2
    <3>4. tmp_icount - interval_ins \in Int
      BY <2>1, <3>1
    <3> QED  BY <3>1, <3>3, <3>4 DEF Intervals!Abs
  <2>6. Intervals!NearlyFull'
    BY <1>2, <1>5, <1>7, <2>5 DEF e, Intervals!NearlyFull, FillInv
  <2> QED  BY <2>4, <2>6 DEF FillInv
<1> QED  BY <1>8, <1>9, <1>10, <1>11 DEF IntervalInv

\* A branch is counted in the total and in the open interval.
LEMMA BranchAddsUp ==
  ASSUME Sizes, IntervalInv, NEW ip \in Branches, NEW isTaken \in BOOLEAN,
         Intervals!ConditionalBranch(ip, isTaken)
  PROVE  IntervalInv'
<1>1. /\ BrInfo' = Intervals!Recorded(BrInfo, ip, isTaken)
      /\ Interval_BrInfo' = Intervals!Recorded(Interval_BrInfo, ip, isTaken)
      /\ cond_br' = cond_br + 1 /\ tk_branch' \in {tk_branch, tk_branch + 1}
      /\ UNCHANGED <<icount, tmp_icount, thread_curr_ins, ack_cond_br, ack_tk_branch, emitted, block>>
  <2>1. TypeInv
    BY DEF IntervalInv
  <2> QED  BY <2>1 DEF Intervals!ConditionalBranch, Intervals!Number, TypeInv
<1>2. TypeInv /\ Intervals!CountsAddUp /\ DictionariesInv /\ FillInv
  BY DEF IntervalInv
<1>3. TypeInv'
  BY <1>1, <1>2 DEF TypeInv
<1>4. Intervals!CountsAddUp'
  <2>1. /\ icount = tmp_icount + SumFunction(Ins)
        /\ cond_br = (cond_br - ack_cond_br) + SumFunction(Cond)
        /\ tk_branch = (tk_branch - ack_tk_branch) + SumFunction(Taken)
    BY <1>2, IntervalSums DEF Intervals!CountsAddUp, Ins, Cond, Taken
  <2>2. /\ SumFunction(Ins) \in Int /\ SumFunction(Cond) \in Int /\ SumFunction(Taken) \in Int
        /\ cond_br \in Int /\ tk_branch \in Int /\ ack_cond_br \in Int /\ ack_tk_branch \in Int
    BY <1>2, WrittenSums DEF TypeInv
  <2>3. /\ cond_br' = (cond_br' - ack_cond_br) + SumFunction(Cond)
        /\ tk_branch' = (tk_branch' - ack_tk_branch) + SumFunction(Taken)
    BY <1>1, <2>1, <2>2
  <2> QED  BY <1>1, <2>1, <2>3, IntervalSums DEF Intervals!CountsAddUp, Ins, Cond, Taken
<1>5. DictionariesInv'
  <2>1. /\ Counts(BrInfo') /\ SumFunction(Intervals!Totals(BrInfo')) = cond_br'
    BY <1>1, <1>2, RecordedOnce DEF Sizes, DictionariesInv
  <2>2. Counts(Interval_BrInfo')
          /\ SumFunction(Intervals!Totals(Interval_BrInfo')) = (cond_br - ack_cond_br) + 1
    BY <1>1, <1>2, RecordedOnce DEF Sizes, DictionariesInv
  <2>3. (cond_br - ack_cond_br) + 1 = cond_br' - ack_cond_br'
    BY <1>1, <1>2 DEF TypeInv
  <2> QED  BY <1>1, <1>2, <2>1, <2>2, <2>3 DEF DictionariesInv
<1>6. FillInv'
  BY <1>1, <1>2 DEF FillInv, Excess, Ahead, Intervals!NearlyFull
<1> QED  BY <1>3, <1>4, <1>5, <1>6 DEF IntervalInv

\* A branch that never falls through is counted as taken.
LEMMA OtherBranchAddsUp == ASSUME Sizes, IntervalInv, Intervals!OtherBranch PROVE IntervalInv'
<1>1. /\ tk_branch' = tk_branch + 1
      /\ UNCHANGED <<icount, tmp_icount, thread_curr_ins, cond_br, ack_cond_br, ack_tk_branch,
                     BrInfo, Interval_BrInfo, emitted, block>>
  BY DEF Intervals!OtherBranch
<1>2. TypeInv /\ Intervals!CountsAddUp /\ DictionariesInv /\ FillInv
  BY DEF IntervalInv
<1>3. TypeInv'
  BY <1>1, <1>2 DEF TypeInv
<1>4. Intervals!CountsAddUp'
  <2>1. tk_branch = (tk_branch - ack_tk_branch) + SumFunction(Taken)
    BY <1>2, IntervalSums DEF Intervals!CountsAddUp, Taken
  <2>2. SumFunction(Taken) \in Int /\ tk_branch \in Int /\ ack_tk_branch \in Int
    BY <1>2, WrittenSums DEF TypeInv
  <2>3. tk_branch' = (tk_branch' - ack_tk_branch) + SumFunction(Taken)
    BY <1>1, <2>1, <2>2
  <2> QED  BY <1>1, <1>2, <2>3, IntervalSums DEF Intervals!CountsAddUp, Taken
<1>5. DictionariesInv' /\ FillInv'
  BY <1>1, <1>2 DEF DictionariesInv, FillInv, Excess, Ahead, Intervals!NearlyFull
<1> QED  BY <1>3, <1>4, <1>5 DEF IntervalInv

\* What a step, or none, keeps.
LEMMA NextAddsUp == ASSUME Sizes, IntervalInv, [Intervals!Next]_Intervals!vars PROVE IntervalInv'
<1>1. CASE UNCHANGED <<icount, tmp_icount, thread_curr_ins, cond_br, ack_cond_br, tk_branch, ack_tk_branch,
                       BrInfo, Interval_BrInfo, emitted, block>>
  BY <1>1 DEF IntervalInv, TypeInv, Intervals!CountsAddUp, DictionariesInv, FillInv, Excess, Ahead,
       Intervals!NearlyFull
<1>2. CASE Intervals!do_ins_count
  BY <1>2, InstructionAddsUp, IntervalAddsUp
<1> QED  BY <1>1, <1>2, EnterBlockAddsUp, docountAddsUp, BranchAddsUp, OtherBranchAddsUp
         DEF Intervals!Next, Intervals!vars, Intervals!Fini, Intervals!counters

\* The buckets of a dictionary, and of what was written, are complete.
LEMMA IntervalInvImplies ==
  ASSUME Sizes, IntervalInv PROVE Intervals!CountsAddUp /\ Intervals!BucketsComplete /\ Intervals!NearlyFull
<1>1. Intervals!CountsAddUp /\ DictionariesInv /\ Intervals!NearlyFull
  BY DEF IntervalInv, FillInv
<1>2. /\ SumFunction(Intervals!TransitionBuckets(BrInfo)) = cond_br
      /\ SumFunction(Intervals!TransitionBuckets(Interval_BrInfo)) = cond_br - ack_cond_br
  BY <1>1, BucketsHoldAll DEF Sizes, DictionariesInv
<1> QED  BY <1>1, <1>2, IntervalSums DEF Intervals!BucketsComplete, DictionariesInv

\* Nothing falls between two intervals or into both, no branch is dropped from the buckets
\* of its interval, and an interval is off by less than a block at each end (do_ins_count,
\* calculate_interval_transitions, RecordBranchOrCall, docount).
THEOREM WhatIsWrittenAddsUp ==
  ASSUME Sizes
  PROVE  Intervals!Init /\ [][Intervals!Next]_Intervals!vars =>
           [](Intervals!CountsAddUp /\ Intervals!BucketsComplete /\ Intervals!NearlyFull)
<1>1. Intervals!Init => IntervalInv
  BY InitIntervals
<1>2. IntervalInv /\ [Intervals!Next]_Intervals!vars => IntervalInv'
  BY NextAddsUp
<1>3. IntervalInv => Intervals!CountsAddUp /\ Intervals!BucketsComplete /\ Intervals!NearlyFull
  BY IntervalInvImplies
<1> QED  BY <1>1, <1>2, <1>3, PTL
--------------------------------------------------------------------------------
(* The programs under the tools. *)

\* A step of the program is a step of the correlation tool, or it does not notice.
LEMMA NextCorrelates == ASSUME [Next]_vars PROVE [Correlation!Next]_Correlation!vars
<1> USE DEF correlation_vars, Correlation!vars
<1>1. ASSUME NEW ip \in Branches, NEW isTaken \in BOOLEAN, ConditionalBranch(ip, isTaken)
      PROVE  Correlation!ConditionalBranch(ip, isTaken)
  BY <1>1 DEF ConditionalBranch
<1>2. ASSUME NEW ip \in Branches, OtherBranch(ip) PROVE Correlation!OtherBranch(ip)
  BY <1>2 DEF OtherBranch
<1>3. CASE Instruction
  BY <1>3 DEF Instruction
<1>4. ASSUME NEW th \in Threads, ThreadStep(th) PROVE UNCHANGED Correlation!vars
  BY <1>4 DEF ThreadStep
<1>5. CASE UNCHANGED vars
  BY <1>5 DEF vars
<1> QED  BY <1>1, <1>2, <1>3, <1>4, <1>5 DEF Next, Terminated, Correlation!Next

\* Theorem: under a program that other tools look at too, the ring gives every branch the
\* correlations of a shift register (update_global_branch_history, update_correlations).
THEOREM RingStaysARegister == Spec => RingIsRegister
<1>0. Length
  BY ProfilersAssumption DEF Length
<1>1. Init => RingInv /\ Correlation!Lookbacks!Init
  BY <1>0, InitRegister DEF Init
<1>2. RingInv /\ [Next]_vars =>
        RingInv' /\ [Correlation!Lookbacks!Next]_<<Correlation!Register, Correlated>>
  BY <1>0, NextCorrelates, NextLooksBack
<1> QED  BY <1>1, <1>2, PTL
         DEF Spec, RingIsRegister, Correlation!RingIsRegister, Correlation!Lookbacks!Spec, Correlated

\* Each tool has come to the same, and knows the same last direction of a branch.
ToolsAgree ==
  /\ DOMAIN BrInfo = DOMAIN CorrelationInfo
  /\ \A ip \in DOMAIN BrInfo :
       /\ BrInfo[ip].total_count = CorrelationInfo[ip].total_count
       /\ BrInfo[ip].transition_count = CorrelationInfo[ip].transition_count
       /\ BrInfo[ip].last_dir = CorrelationInfo[ip].last_taken
  /\ cond_br = counts.cond /\ tk_branch = counts.taken

\* Both are told of every branch, and count it in the same way.
LEMMA NextAgrees ==
  ASSUME ToolsAgree, counts \in [cond : Int, uncond : Int, taken : Int, trans : Int], [Next]_vars
  PROVE  ToolsAgree'
<1>1. ASSUME NEW ip \in Branches, NEW isTaken \in BOOLEAN, ConditionalBranch(ip, isTaken)
      PROVE  ToolsAgree'
  <2>1. /\ BrInfo' = Intervals!Recorded(BrInfo, ip, isTaken)
        /\ cond_br' = cond_br + 1 /\ tk_branch' = tk_branch + Intervals!Number(isTaken)
    BY <1>1 DEF ConditionalBranch, Intervals!ConditionalBranch
  <2>2. /\ CorrelationInfo' = Correlation!Recorded(ip, isTaken)
        /\ counts'.cond = counts.cond + 1
        /\ counts'.taken = counts.taken + Correlation!Number(isTaken)
    BY <1>1 DEF ConditionalBranch, Correlation!ConditionalBranch
  <2>3. DOMAIN BrInfo' = DOMAIN BrInfo \cup {ip} /\ DOMAIN CorrelationInfo' = DOMAIN CorrelationInfo \cup {ip}
    BY <2>1, <2>2 DEF Intervals!Recorded, Correlation!Recorded
  <2>4. ASSUME NEW x \in DOMAIN BrInfo', x # ip
        PROVE  BrInfo'[x] = BrInfo[x] /\ CorrelationInfo'[x] = CorrelationInfo[x] /\ x \in DOMAIN BrInfo
    BY <2>1, <2>2, <2>3, <2>4 DEF Intervals!Recorded, Correlation!Recorded, ToolsAgree
  <2>5. /\ BrInfo'[ip].total_count = CorrelationInfo'[ip].total_count
        /\ BrInfo'[ip].transition_count = CorrelationInfo'[ip].transition_count
        /\ BrInfo'[ip].last_dir = CorrelationInfo'[ip].last_taken
    <3>1. CASE ip \in DOMAIN BrInfo
      <4>1. BrInfo'[ip] = [last_dir |-> isTaken, total_count |-> BrInfo[ip].total_count + 1,
              transition_count |->
                BrInfo[ip].transition_count + Intervals!Number(BrInfo[ip].last_dir # isTaken)]
        BY <2>1, <3>1 DEF Intervals!Recorded
      <4>2. CorrelationInfo'[ip] = Correlation!Updated(CorrelationInfo[ip], isTaken)
        BY <2>2, <3>1 DEF Correlation!Recorded, ToolsAgree
      <4> QED  BY <3>1, <4>1, <4>2 DEF ToolsAgree, Correlation!Updated, Correlation!Number, Intervals!Number
    <3>2. CASE ip \notin DOMAIN BrInfo
      <4>1. BrInfo'[ip] = [last_dir |-> isTaken, total_count |-> 1, transition_count |-> 0]
        BY <2>1, <3>2 DEF Intervals!Recorded
      <4>2. CorrelationInfo'[ip] = Correlation!BranchStruct(isTaken)
        BY <2>2, <3>2 DEF Correlation!Recorded, ToolsAgree
      <4> QED  BY <4>1, <4>2 DEF Correlation!BranchStruct
    <3> QED  BY <3>1, <3>2
  <2>6. cond_br' = counts'.cond /\ tk_branch' = counts'.taken
    BY <2>1, <2>2 DEF ToolsAgree, Correlation!Number, Intervals!Number
  <2> QED  BY <2>3, <2>4, <2>5, <2>6 DEF ToolsAgree
<1>2. ASSUME NEW ip \in Branches, OtherBranch(ip) PROVE ToolsAgree'
  <2>1. /\ BrInfo' = BrInfo /\ cond_br' = cond_br /\ tk_branch' = tk_branch + 1
        /\ CorrelationInfo' = CorrelationInfo
        /\ counts'.cond = counts.cond /\ counts'.taken = counts.taken + 1
    BY <1>2 DEF OtherBranch, Intervals!OtherBranch, Correlation!OtherBranch
  <2> QED  BY <2>1 DEF ToolsAgree
<1>3. CASE Instruction
  <2>1. UNCHANGED <<BrInfo, cond_br, tk_branch>>
    BY <1>3 DEF Instruction, Intervals!EnterBlock, Intervals!docount, Intervals!do_ins_count, Intervals!Fini,
                Intervals!counters
  <2> QED  BY <1>3, <2>1 DEF Instruction, correlation_vars, ToolsAgree
<1>4. ASSUME NEW th \in Threads, ThreadStep(th) PROVE ToolsAgree'
  BY <1>4 DEF ThreadStep, interval_vars, correlation_vars, ToolsAgree
<1>5. CASE UNCHANGED vars
  BY <1>5 DEF vars, interval_vars, correlation_vars, ToolsAgree
<1> QED  BY <1>1, <1>2, <1>3, <1>4, <1>5 DEF Next, Terminated

\* Theorem: two tools with a dictionary each come to the same statistics of every branch,
\* which are those of its own executions, and the totals are their sums
\* (record_branch_transitions, RecordBranchOrCall).
THEOREM BranchCountsAreExact == Spec => []BranchCountsExact
<1>0. IsFiniteSet(Branches)
  BY ProfilersAssumption
<1>1. Init => StatsInv /\ ToolsAgree
  <2> SUFFICES ASSUME Init PROVE StatsInv /\ ToolsAgree
    OBVIOUS
  <2>1. StatsInv
    BY <1>0, InitStats DEF Init
  <2> QED  BY <2>1 DEF Init, Correlation!Init, Intervals!Init, ToolsAgree
<1>2. StatsInv /\ ToolsAgree /\ [Next]_vars => (StatsInv /\ ToolsAgree)'
  <2> SUFFICES ASSUME StatsInv, ToolsAgree, [Next]_vars PROVE StatsInv' /\ ToolsAgree'
    OBVIOUS
  <2>1. StatsInv'
    BY <1>0, NextCorrelates, NextStats
  <2> QED  BY <2>1, NextAgrees DEF StatsInv
<1>3. StatsInv /\ ToolsAgree => BranchCountsExact
  BY DEF StatsInv, BranchCountsExact, ToolsAgree
<1> QED  BY <1>1, <1>2, <1>3, PTL DEF Spec

\* A step of the program is a step of one of its threads, or they do not notice.
LEMMA NextRaces == ASSUME [Next]_vars PROVE [Local!Next]_Local!vars
<1> USE DEF thread_vars, Local!vars
<1>1. ASSUME NEW th \in Threads, ThreadStep(th) PROVE Local!Record(th)
  BY <1>1 DEF ThreadStep
<1>2. CASE Instruction
  BY <1>2 DEF Instruction
<1>3. ASSUME NEW ip \in Branches, NEW isTaken \in BOOLEAN, ConditionalBranch(ip, isTaken)
      PROVE  UNCHANGED Local!vars
  BY <1>3 DEF ConditionalBranch
<1>4. ASSUME NEW ip \in Branches, OtherBranch(ip) PROVE UNCHANGED Local!vars
  BY <1>4 DEF OtherBranch
<1>5. CASE UNCHANGED vars
  BY <1>5 DEF vars
<1> QED  BY <1>1, <1>2, <1>3, <1>4, <1>5 DEF Next, Terminated, Local!Next

\* Theorem: threads that race for the dictionary and the counts lose some of them, but no
\* count goes beyond the executions there were, no node is left without a BranchStruct, and
\* without threads in the tool at the same time nothing is lost (record_branch_transitions,
\* incr_count, RecordBranchOrCall).
THEOREM RacesLoseOnly == Spec => []RacesOnlyLose
<1>0. Finite
  BY ProfilersAssumption DEF Finite
<1>1. Init => ExactInv
  BY <1>0, InitExact DEF Init
<1>2. ExactInv /\ [Next]_vars => ExactInv'
  BY <1>0, NextRaces, NextExact
<1>3. ExactInv => RacesOnlyLose
  BY <1>0, CountInvImplies, ExactInvImplies DEF ExactInv, RacesOnlyLose
<1> QED  BY <1>1, <1>2, <1>3, PTL DEF Spec

\* A step of the program is a step of the tool, or it does not notice.
LEMMA NextWrites == ASSUME [Next]_vars PROVE [Intervals!Next]_Intervals!vars
<1> USE DEF interval_vars, Intervals!vars
<1>1. CASE Instruction
  BY <1>1 DEF Instruction, Intervals!Next
<1>2. ASSUME NEW ip \in Branches, NEW isTaken \in BOOLEAN, ConditionalBranch(ip, isTaken)
      PROVE  Intervals!ConditionalBranch(ip, isTaken)
  BY <1>2 DEF ConditionalBranch
<1>3. ASSUME NEW ip \in Branches, OtherBranch(ip) PROVE Intervals!OtherBranch
  BY <1>3 DEF OtherBranch
<1>4. ASSUME NEW th \in Threads, ThreadStep(th) PROVE UNCHANGED Intervals!vars
  BY <1>4 DEF ThreadStep
<1>5. CASE UNCHANGED vars
  BY <1>5 DEF vars
<1> QED  BY <1>1, <1>2, <1>3, <1>4, <1>5 DEF Next, Terminated, Intervals!Next

\* Theorem: what is written for the intervals adds up to the totals, every branch is in a
\* bucket of its interval, and an interval is off by less than a block at each end
\* (do_ins_count, calculate_interval_transitions, docount).
THEOREM IntervalsDoAddUp == Spec => []IntervalsAddUp
<1>0. Sizes
  BY ProfilersAssumption DEF Sizes
<1>1. Init => IntervalInv
  BY <1>0, InitIntervals DEF Init
<1>2. IntervalInv /\ [Next]_vars => IntervalInv'
  BY <1>0, NextWrites, NextAddsUp
<1>3. IntervalInv => IntervalsAddUp
  BY <1>0, IntervalInvImplies DEF IntervalsAddUp
<1> QED  BY <1>1, <1>2, <1>3, PTL DEF Spec
================================================================================
