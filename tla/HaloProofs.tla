------------------------------ MODULE HaloProofs ------------------------------
(***************************************************************************)
(* Theorems about HaloLocality, for every value of its constants:          *)
(*   - the types, the LRU list, and the asserts on the first access to a   *)
(*     macroblock;                                                         *)
(*   - the weights kept by hand stay equal to the counts they copy, the    *)
(*     accesses of each macroblock are conserved, and so HaloBudget is     *)
(*     implemented;                                                        *)
(*   - a macroblock that has been generated and has accesses left can go   *)
(*     on, evictions included, and no access is output outside its         *)
(*     macroblock;                                                         *)
(*   - what is left to generate is worth what the phase is due.            *)
(***************************************************************************)
EXTENDS HaloLocality, SequenceTheorems, FiniteSetTheorems, WellFoundedInduction, SumTheorems, TLAPS

--------------------------------------------------------------------------------
(* The LRU list *)

\* is_mb_used yields the position of a macroblock that is on the list, and
\* MAX_MB_REUSE for one that is not.
LEMMA PositionOnList ==
  ASSUME NEW S, NEW list \in Seq(S), NEW mb, Len(list) <= MAX_MB_REUSE
  PROVE  /\ is_mb_used(list, mb) \in 0 .. MAX_MB_REUSE
         /\ is_mb_used(list, mb) # MAX_MB_REUSE =>
              /\ is_mb_used(list, mb) < Len(list)
              /\ list[is_mb_used(list, mb) + 1] = mb
         /\ (\E i \in 1 .. Len(list) : list[i] = mb) => is_mb_used(list, mb) # MAX_MB_REUSE
<1> USE HaloAssumption
<1> DEFINE Hits == {i \in 1 .. Len(list) : list[i] = mb}
<1>1. CASE Hits = {}
  BY <1>1 DEF is_mb_used
<1>2. CASE Hits # {}
  <2>1. PICK i \in Hits : \A j \in Hits : i <= j
    <3>1. Hits \subseteq Nat
      OBVIOUS
    <3> HIDE DEF Hits
    <3> QED
      BY <1>2, <3>1, LeastNatural
  <2>2. i \in 1 .. Len(list) /\ list[i] = mb /\ \A j \in 1 .. i - 1 : list[j] # mb
    BY <2>1
  <2> DEFINE c == CHOOSE k \in 1 .. Len(list) :
                    list[k] = mb /\ \A j \in 1 .. k - 1 : list[j] # mb
  <2>3. c \in 1 .. Len(list) /\ list[c] = mb
    BY <2>2
  <2>4. is_mb_used(list, mb) = c - 1
    BY <1>2 DEF is_mb_used
  <2> QED
    BY <2>3, <2>4
<1> QED
  BY <1>1, <1>2

NoRepeats(list) == \A i, j \in 1 .. Len(list) : list[i] = list[j] => i = j

\* update_mb_reuse_list puts the macroblock in front of a list that stays within
\* its capacity, repeats nothing, and gains nothing else.
LEMMA UpdatedList ==
  ASSUME NEW S, NEW list \in Seq(S), NEW mb \in S,
         Len(list) <= MAX_MB_REUSE, NoRepeats(list)
  PROVE  LET new == update_mb_reuse_list(list, mb)
         IN  /\ new \in Seq(S)
             /\ Len(new) <= MAX_MB_REUSE
             /\ NoRepeats(new)
             /\ \A i \in 1 .. Len(new) :
                  new[i] = mb \/ \E j \in 1 .. Len(list) : new[i] = list[j]
<1> USE HaloAssumption
<1> DEFINE pos  == is_mb_used(list, mb)
           n    == Len(list)
           rest == IF pos < n THEN SubSeq(list, 1, pos) \o SubSeq(list, pos + 2, n) ELSE list
           kept == IF Len(rest) = MAX_MB_REUSE THEN SubSeq(rest, 1, Len(rest) - 1) ELSE rest
<1>1. /\ n \in Nat
      /\ pos \in 0 .. MAX_MB_REUSE
      /\ pos < n => list[pos + 1] = mb
      /\ pos >= n => \A i \in 1 .. n : list[i] # mb
  BY PositionOnList
<1>2. /\ rest \in Seq(S)
      /\ NoRepeats(rest)
      /\ Len(rest) <= n
      /\ \A i \in 1 .. Len(rest) : rest[i] # mb /\ \E j \in 1 .. n : rest[i] = list[j]
  <2>1. CASE pos < n
    <3> DEFINE a == SubSeq(list, 1, pos)
               b == SubSeq(list, pos + 2, n)
    <3>1. /\ a \in Seq(S) /\ Len(a) = pos
          /\ \A i \in 1 .. pos : a[i] = list[i]
      BY <1>1, <2>1, SubSeqProperties
    <3>2. /\ b \in Seq(S) /\ Len(b) = n - pos - 1
          /\ \A i \in 1 .. n - pos - 1 : b[i] = list[pos + 1 + i]
      <4>1. \A i \in pos + 2 .. n : list[i] \in S
        BY <1>1
      <4>2. /\ b \in Seq(S)
            /\ Len(b) = IF pos + 2 <= n THEN n - (pos + 2) + 1 ELSE 0
            /\ \A i \in 1 .. n - (pos + 2) + 1 : b[i] = list[(pos + 2) + i - 1]
        BY <1>1, <4>1, SubSeqProperties
      <4>3. /\ n \in Nat /\ pos \in Nat /\ pos < n
            /\ (IF pos + 2 <= n THEN n - (pos + 2) + 1 ELSE 0) = n - pos - 1
            /\ n - (pos + 2) + 1 = n - pos - 1
        BY <1>1, <2>1, HaloAssumption
      <4>4. \A i \in 1 .. n - pos - 1 : (pos + 2) + i - 1 = pos + 1 + i
        BY <4>3
      <4> HIDE DEF b, pos, n
      <4> QED
        BY <4>2, <4>3, <4>4
    <3>3. /\ a \o b \in Seq(S)
          /\ Len(a \o b) = n - 1
          /\ \A i \in 1 .. n - 1 : (a \o b)[i] = list[IF i <= pos THEN i ELSE i + 1]
      <4>1. /\ a \o b \in Seq(S)
            /\ Len(a \o b) = Len(a) + Len(b)
            /\ \A i \in 1 .. Len(a) + Len(b) :
                 (a \o b)[i] = IF i <= Len(a) THEN a[i] ELSE b[i - Len(a)]
        BY <3>1, <3>2, ConcatProperties
      <4>2. n \in Nat /\ pos \in Nat /\ pos < n
        BY <1>1, <2>1, HaloAssumption
      <4> HIDE DEF a, b, pos, n
      <4>3. Len(a \o b) = n - 1
        BY <3>1, <3>2, <4>1, <4>2
      <4>4. ASSUME NEW i \in 1 .. n - 1 PROVE (a \o b)[i] = list[IF i <= pos THEN i ELSE i + 1]
        <5>1. CASE i <= pos
          BY <3>1, <3>2, <4>1, <4>2, <5>1
        <5>2. CASE i > pos
          <6>1. /\ i - pos \in 1 .. n - pos - 1 /\ pos + 1 + (i - pos) = i + 1
                /\ i \in 1 .. Len(a) + Len(b)
            BY <3>1, <3>2, <4>2, <5>2
          <6>2. (a \o b)[i] = b[i - pos] /\ b[i - pos] = list[i + 1]
            BY <3>1, <3>2, <4>1, <4>2, <5>2, <6>1
          <6> QED
            BY <4>2, <5>2, <6>2
        <5>3. i <= pos \/ i > pos
          BY <4>2
        <5> QED
          BY <5>1, <5>2, <5>3, Zenon
      <4> QED
        BY <4>1, <4>3, <4>4
    <3>4. rest = a \o b
      BY <2>1
    <3> HIDE DEF a, b, rest, pos
    <3>5. /\ rest \in Seq(S)
          /\ Len(rest) = n - 1
          /\ \A i \in 1 .. n - 1 : rest[i] = list[IF i <= pos THEN i ELSE i + 1]
      BY <3>3, <3>4
    <3>6. \A i \in 1 .. n - 1 : (IF i <= pos THEN i ELSE i + 1) \in 1 .. n \ {pos + 1}
      BY <1>1
    <3>7. \A i \in 1 .. n - 1 : rest[i] # mb /\ \E j \in 1 .. n : rest[i] = list[j]
      <4>1. \A j \in 1 .. n \ {pos + 1} : list[j] # mb
        BY <1>1, <2>1 DEF NoRepeats
      <4> QED
        BY <3>5, <3>6, <4>1
    <3>8. NoRepeats(rest)
      BY <1>1, <2>1, <3>5, <3>6 DEF NoRepeats
    <3> QED
      BY <1>1, <3>5, <3>7, <3>8
  <2>2. CASE pos >= n
    <3>1. rest = list
      BY <1>1, <2>2
    <3> HIDE DEF rest, pos
    <3>2. \A i \in 1 .. n : list[i] # mb
      BY <1>1, <2>2
    <3>3. list \in Seq(S) /\ n <= n /\ \A i \in 1 .. n : list[i] # mb /\ \E j \in 1 .. n : list[i] = list[j]
      BY <1>1, <3>2
    <3>4. NoRepeats(rest)
      BY <3>1, Zenon
    <3> QED
      BY <3>1, <3>3, <3>4
  <2> HIDE DEF pos, rest, n
  <2> QED
    BY <1>1, <2>1, <2>2
<1> HIDE DEF rest
<1>3. /\ kept \in Seq(S)
      /\ Len(kept) < MAX_MB_REUSE
      /\ Len(kept) <= Len(rest)
      /\ \A i \in 1 .. Len(kept) : kept[i] = rest[i]
  <2>1. Len(rest) \in Nat /\ Len(rest) <= MAX_MB_REUSE
    BY <1>1, <1>2
  <2>2. CASE Len(rest) = MAX_MB_REUSE
    <3>1. \A i \in 1 .. Len(rest) - 1 : rest[i] \in S
      BY <1>2, <2>1
    <3>2. /\ SubSeq(rest, 1, Len(rest) - 1) \in Seq(S)
          /\ Len(SubSeq(rest, 1, Len(rest) - 1)) =
               IF 1 <= Len(rest) - 1 THEN Len(rest) - 1 - 1 + 1 ELSE 0
          /\ \A i \in 1 .. Len(rest) - 1 - 1 + 1 :
               SubSeq(rest, 1, Len(rest) - 1)[i] = rest[1 + i - 1]
      BY <2>1, <3>1, SubSeqProperties
    <3>3. kept = SubSeq(rest, 1, Len(rest) - 1)
      BY <2>2
    <3> HIDE DEF kept
    <3> QED
      BY <2>1, <2>2, <3>2, <3>3
  <2>3. CASE Len(rest) # MAX_MB_REUSE
    BY <1>2, <2>1, <2>3
  <2> QED
    BY <2>2, <2>3
<1>4. update_mb_reuse_list(list, mb) = <<mb>> \o kept
  BY DEF update_mb_reuse_list, rest
<1> HIDE DEF kept
<1>5. /\ <<mb>> \o kept \in Seq(S)
      /\ Len(<<mb>> \o kept) = 1 + Len(kept)
      /\ \A i \in 1 .. 1 + Len(kept) :
           (<<mb>> \o kept)[i] = IF i <= 1 THEN mb ELSE kept[i - 1]
  <2>1. <<mb>> \in Seq(S) /\ Len(<<mb>>) = 1 /\ <<mb>>[1] = mb
    OBVIOUS
  <2> QED
    BY <1>3, <2>1, ConcatProperties
<1> DEFINE new == update_mb_reuse_list(list, mb)
<1>6. /\ new \in Seq(S)
      /\ Len(new) = 1 + Len(kept)
      /\ \A i \in 1 .. Len(new) : new[i] = IF i <= 1 THEN mb ELSE kept[i - 1]
  BY <1>4, <1>5
<1> HIDE DEF new
<1>7. Len(kept) \in Nat /\ Len(rest) \in Nat /\ Len(new) \in Nat
  BY <1>2, <1>3, <1>6
<1>8. \A i \in 1 .. Len(new) : i # 1 =>
        /\ i - 1 \in 1 .. Len(rest)
        /\ new[i] = rest[i - 1]
        /\ new[i] # mb
        /\ \E j \in 1 .. n : new[i] = list[j]
  <2> SUFFICES ASSUME NEW i \in 1 .. Len(new), i # 1
               PROVE  /\ i - 1 \in 1 .. Len(rest)
                      /\ new[i] = rest[i - 1]
                      /\ new[i] # mb
                      /\ \E j \in 1 .. n : new[i] = list[j]
    OBVIOUS
  <2>1. i - 1 \in 1 .. Len(kept) /\ i - 1 \in 1 .. Len(rest) /\ new[i] = rest[i - 1]
    BY <1>3, <1>6, <1>7
  <2> QED
    BY <1>2, <2>1
<1>9. NoRepeats(new)
  <2> SUFFICES ASSUME NEW i \in 1 .. Len(new), NEW j \in 1 .. Len(new), new[i] = new[j]
               PROVE  i = j
    BY DEF NoRepeats
  <2>1. new[1] = mb
    BY <1>6, <1>7
  <2>2. CASE i = 1 \/ j = 1
    BY <1>8, <2>1, <2>2
  <2>3. CASE i # 1 /\ j # 1
    <3>1. /\ i - 1 \in 1 .. Len(rest) /\ j - 1 \in 1 .. Len(rest)
          /\ rest[i - 1] = rest[j - 1]
      BY <1>8, <2>3
    <3>2. \A k, l \in 1 .. Len(rest) : rest[k] = rest[l] => k = l
      BY <1>2 DEF NoRepeats
    <3>3. i - 1 = j - 1
      BY <3>1, <3>2
    <3> QED
      BY <1>7, <3>3
  <2> QED
    BY <2>2, <2>3
<1>10. \A i \in 1 .. Len(new) : new[i] = mb \/ \E j \in 1 .. Len(list) : new[i] = list[j]
  BY <1>6, <1>7, <1>8
<1>11. Len(new) <= MAX_MB_REUSE
  BY <1>3, <1>6, <1>7
<1> QED
  BY <1>6, <1>9, <1>10, <1>11 DEF new

--------------------------------------------------------------------------------
(* The inductive invariant *)

Blocks == DOMAIN per_MB_historytable

\* The generator is looking for the next access.
Looking == pc \in {"new", "grow", "lower", "fallback", "forced"}

\* The macroblocks generated so far, the access to be output included.
Visited == DOMAIN new_MBs \cup {mb \in {this.mb} : pc = "commit"}

Untouched(m) == ~ m.first_proxy_gen /\ m.first_N_deltas = m.saved_first_N_deltas

BlockOK(m) ==
  /\ m \in MacroBlocks
  /\ Len(m.last_N_deltas) <= MAX_DELTA
  /\ Len(m.saved_first_N_deltas) <= MAX_DELTA

EntryOK(e) ==
  /\ DOMAIN e = {"next_deltas", "valid", "most_freq_foll"}
  /\ DOMAIN e.next_deltas \subseteq Int
  /\ IsFiniteSet(DOMAIN e.next_deltas)

TablesInv ==
  \A k \in DOMAIN global_delta_tables :
    k \in Seq(Int) /\ Len(k) \in 1 .. MAX_DELTA /\ EntryOK(global_delta_tables[k])

ControlInv ==
  /\ trace \in Traces
  /\ num_elems \in 0 .. Len(trace)
  /\ pc \in {"profile", "prepare", "next", "new", "grow", "lower", "fallback", "forced", "commit",
             "done", "abort"}
  /\ gen_elems \in 0 .. GEN_LEN
  /\ Looking \/ pc = "commit" => gen_elems < GEN_LEN
  /\ Looking => gen_elems > MAX_INIT_ELEMS
  /\ temp_reuse \in 0 .. MAX_MB_REUSE
  /\ pc = "lower" => temp_reuse < Len(last_macroblock_list)

\* What leads to a macroblock leads to one that has been recorded.
RecordInv ==
  /\ Blocks \subseteq Nat
  /\ \A mb \in Blocks : BlockOK(per_MB_historytable[mb])
  /\ MB_reuse \in [0 .. MAX_MB_REUSE -> Nat]
  /\ DOMAIN unique_MB_reuse \subseteq 0 .. MAX_MB_REUSE
  /\ unique_mbs \in Seq(Blocks)
  /\ unique_mb_ct \in Seq(Int)
  /\ Generating => Len(unique_mb_ct) = Len(unique_mbs)
  /\ pc \in {"profile", "prepare"} => unique_mb_ct = << >>
  /\ init_addrs \in Seq(Int)
  /\ \A i \in 1 .. Len(init_addrs) : MB(init_addrs[i]) \in Blocks
  /\ DOMAIN new_MBs \subseteq Blocks

\* The list holds generated macroblocks only once the generator runs.
ListInv ==
  /\ last_macroblock_list \in Seq(Blocks)
  /\ Len(last_macroblock_list) <= MAX_MB_REUSE
  /\ NoRepeats(last_macroblock_list)
  /\ Generating =>
       \A i \in 1 .. Len(last_macroblock_list) : last_macroblock_list[i] \in DOMAIN new_MBs

\* The access to be output: only a new macroblock needs the maximal distance.
ChosenInv ==
  /\ this \in [mb : Int, addr : Int, reuse : 0 .. MAX_MB_REUSE, delta : Int, first : BOOLEAN]
  /\ pc = "commit" => /\ this.mb \in Blocks
                      /\ this.mb \in DOMAIN new_MBs \/ this.reuse = MAX_MB_REUSE

\* A macroblock is untouched until it is generated; as long as first addresses
\* are replayed the generated ones are marked.
TouchInv ==
  /\ pc \in {"profile", "prepare"} => DOMAIN new_MBs = {} /\ gen_elems = 0
  /\ pc # "abort" => \A mb \in Blocks \ Visited : Untouched(per_MB_historytable[mb])
  /\ Generating /\ gen_elems <= MAX_INIT_ELEMS =>
       \A mb \in Visited : per_MB_historytable[mb].first_proxy_gen

IInv ==
  /\ ControlInv
  /\ TablesInv
  /\ RecordInv
  /\ ListInv
  /\ ChosenInv
  /\ TouchInv
  /\ NewBlocksAreFirst

--------------------------------------------------------------------------------
(* The operations on one macroblock and on the tables *)

\* An address lies in a macroblock whose number is natural.
LEMMA BlockNumber ==
  ASSUME NEW addr \in Nat
  PROVE  MB(addr) \in Nat
BY DeltaAssumption DEF MB

\* A set of natural numbers up to a bound has a greatest element.
LEMMA GreatestNatural ==
  ASSUME NEW n \in Nat, NEW T, T \subseteq 0 .. n, T # {}
  PROVE  \E x \in T : \A y \in T : y <= x
<1> DEFINE U == {n - y : y \in T}
<1>1. U \subseteq Nat /\ U # {}
  <2>1. ASSUME NEW y \in T PROVE n - y \in Nat
    BY y \in 0 .. n
  <2> QED
    BY <2>1
<1>2. PICK u \in U : \A v \in U : u <= v
  <2> HIDE DEF U
  <2> QED
    BY <1>1, LeastNatural
<1>3. PICK x \in T : u = n - x
  BY <1>2
<1>4. \A y \in T : y <= x
  <2> SUFFICES ASSUME NEW y \in T PROVE y <= x
    OBVIOUS
  <2>1. n - y \in U
    OBVIOUS
  <2> QED
    BY <1>2, <1>3, <2>1
<1> QED
  BY <1>4

\* A finite set of integers that is not empty has a least element.
LEMMA LeastOfFinite ==
  ASSUME NEW T \in SUBSET Int, IsFiniteSet(T), T # {}
  PROVE  \E x \in T : \A y \in T : x <= y
<1> DEFINE Least(S) == \E x \in S : \A y \in S : x <= y
           Bad == {S \in FiniteSubsetsOf(Int) : S # {} /\ ~ Least(S)}
<1>1. ASSUME Bad # {} PROVE FALSE
  <2>1. PICK S \in Bad : \A R \in Bad : ~ (<<R, S>> \in StrictSubsetOrdering(Int))
    <3>1. IsWellFoundedOn(StrictSubsetOrdering(Int), FiniteSubsetsOf(Int))
      BY FS_StrictSubsetOrderingWellFounded
    <3>2. Bad \subseteq FiniteSubsetsOf(Int)
      OBVIOUS
    <3> HIDE DEF Bad
    <3> QED
      BY <1>1, <3>1, <3>2, WFMin
  <2>2. S \subseteq Int /\ IsFiniteSet(S) /\ S # {} /\ ~ Least(S)
    BY DEF FiniteSubsetsOf
  <2>3. PICK x \in S : TRUE
    BY <2>2
  <2> DEFINE R == S \ {x}
  <2>4. R \in FiniteSubsetsOf(Int)
    BY <2>2, FS_RemoveElement DEF FiniteSubsetsOf
  <2>5. <<R, S>> \in StrictSubsetOrdering(Int)
    BY <2>2, <2>3 DEF StrictSubsetOrdering
  <2>6. R = {} \/ Least(R)
    BY <2>1, <2>4, <2>5
  <2>7. CASE R = {}
    BY <2>2, <2>3, <2>7
  <2>8. CASE Least(R)
    <3>1. PICK y \in R : \A z \in R : y <= z
      BY <2>8
    <3>2. x \in Int /\ y \in Int /\ y \in S
      BY <2>2, <2>3
    <3>3. \A z \in S : z \in Int /\ (z = x \/ y <= z)
      BY <2>2, <3>1
    <3>4. CASE x <= y
      BY <2>2, <2>3, <3>2, <3>3, <3>4
    <3>5. CASE y <= x
      BY <2>2, <3>2, <3>3, <3>5
    <3> QED
      BY <3>2, <3>4, <3>5
  <2> QED
    BY <2>6, <2>7, <2>8
<1>2. T \in FiniteSubsetsOf(Int)
  BY DEF FiniteSubsetsOf
<1> QED
  BY <1>1, <1>2

\* PushDelta keeps a history within MAX_DELTA deltas.
LEMMA PushedHistory ==
  ASSUME NEW hist \in Seq(Int), Len(hist) <= MAX_DELTA, NEW d \in Int
  PROVE  PushDelta(hist, d) \in Seq(Int) /\ Len(PushDelta(hist, d)) <= MAX_DELTA
<1> USE DeltaAssumption
<1>1. CASE Len(hist) = MAX_DELTA
  <2>1. hist # << >>
    BY <1>1
  <2>2. Tail(hist) \in Seq(Int) /\ Len(Tail(hist)) = Len(hist) - 1
    BY <2>1, HeadTailProperties
  <2>3. Append(Tail(hist), d) \in Seq(Int) /\ Len(Append(Tail(hist), d)) = Len(Tail(hist)) + 1
    BY <2>2, AppendProperties
  <2> QED
    BY <1>1, <2>2, <2>3 DEF PushDelta
<1>2. CASE Len(hist) # MAX_DELTA
  BY <1>2, AppendProperties DEF PushDelta
<1> QED
  BY <1>1, <1>2

\* A suffix of a history is a history of the length asked for.
LEMMA SuffixOfHistory ==
  ASSUME NEW hist \in Seq(Int), NEW n \in 1 .. Len(hist)
  PROVE  Suffix(hist, n) \in Seq(Int) /\ Len(Suffix(hist, n)) = n
<1>1. \A i \in Len(hist) - n + 1 .. Len(hist) : hist[i] \in Int
  OBVIOUS
<1>2. /\ SubSeq(hist, Len(hist) - n + 1, Len(hist)) \in Seq(Int)
      /\ Len(SubSeq(hist, Len(hist) - n + 1, Len(hist))) =
           IF Len(hist) - n + 1 <= Len(hist) THEN Len(hist) - (Len(hist) - n + 1) + 1 ELSE 0
  BY <1>1, SubSeqProperties
<1> QED
  BY <1>2 DEF Suffix

\* An access while profiling leaves a macroblock well formed and untouched.
LEMMA AccessedBlock ==
  ASSUME NEW m, BlockOK(m), Untouched(m), NEW addr \in Int
  PROVE  BlockOK(access_mb(m, addr)) /\ Untouched(access_mb(m, addr))
<1> DEFINE d == addr - m.last_addr
           saved == KeepFirst(m, m.saved_first_N_deltas, d)
           hist == PushDelta(m.last_N_deltas, d)
<1>1. m \in MacroBlocks /\ d \in Int
  BY DEF BlockOK, MacroBlocks
<1>2. hist \in Seq(Int) /\ Len(hist) <= MAX_DELTA
  BY <1>1, PushedHistory DEF BlockOK, MacroBlocks
<1>3. saved \in Seq(Int) /\ Len(saved) <= MAX_DELTA
  BY <1>1, AppendProperties, DeltaAssumption DEF BlockOK, MacroBlocks, Untouched, KeepFirst
<1>4. KeepFirst(m, m.first_N_deltas, d) = saved
  BY DEF Untouched, KeepFirst
<1> HIDE DEF d, saved, hist
<1>5. access_mb(m, addr) =
        [m EXCEPT !.first_N_deltas = saved, !.saved_first_N_deltas = saved,
                  !.last_N_deltas = hist, !.last_addr = addr,
                  !.num_accesses = m.num_accesses + 1]
  BY <1>4 DEF access_mb, d, saved, hist
<1> DEFINE new == access_mb(m, addr)
<1>6. /\ new.first_N_deltas = saved /\ new.saved_first_N_deltas = saved
      /\ new.last_N_deltas = hist
      /\ new.first_proxy_gen = m.first_proxy_gen
  BY <1>1, <1>5 DEF MacroBlocks
<1>7. new \in MacroBlocks
  <2>1. m.num_accesses + 1 \in Nat /\ m.first_addr \in Int /\ m.first_proxy_gen \in BOOLEAN
    BY <1>1 DEF MacroBlocks
  <2>2. new = [last_addr |-> addr, first_addr |-> m.first_addr, last_N_deltas |-> hist,
               first_N_deltas |-> saved, saved_first_N_deltas |-> saved,
               num_accesses |-> m.num_accesses + 1, first_proxy_gen |-> m.first_proxy_gen]
    BY <1>1, <1>5 DEF MacroBlocks
  <2> HIDE DEF new
  <2> QED
    BY <1>2, <1>3, <2>1, <2>2 DEF MacroBlocks
<1> HIDE DEF new
<1>8. BlockOK(new)
  BY <1>2, <1>3, <1>6, <1>7 DEF BlockOK
<1>9. Untouched(new)
  BY <1>6 DEF Untouched
<1> QED
  BY <1>8, <1>9 DEF new

\* Outputting an access keeps a macroblock well formed, and its mark.
LEMMA OutputBlock ==
  ASSUME NEW m, BlockOK(m), m.num_accesses # 0,
         NEW d \in Int, NEW first \in BOOLEAN, NEW addr \in Int
  PROVE  /\ BlockOK(proxy_access(m, d, first, addr))
         /\ proxy_access(m, d, first, addr).first_proxy_gen = m.first_proxy_gen
<1>1. PushDelta(m.last_N_deltas, d) \in Seq(Int) /\ Len(PushDelta(m.last_N_deltas, d)) <= MAX_DELTA
  BY PushedHistory DEF BlockOK, MacroBlocks
<1> DEFINE hist == IF first THEN m.last_N_deltas ELSE PushDelta(m.last_N_deltas, d)
           new  == proxy_access(m, d, first, addr)
<1>2. hist \in Seq(Int) /\ Len(hist) <= MAX_DELTA
  BY <1>1 DEF BlockOK, MacroBlocks
<1>3. m \in MacroBlocks /\ m.num_accesses - 1 \in Nat
  BY DEF BlockOK, MacroBlocks
<1> HIDE DEF hist
<1>4. new = [m EXCEPT !.last_N_deltas = hist, !.last_addr = addr,
                      !.num_accesses = m.num_accesses - 1]
  BY <1>3 DEF proxy_access, MacroBlocks, hist
<1>5. new \in MacroBlocks
  BY <1>2, <1>3, <1>4 DEF MacroBlocks
<1>6. /\ new.last_N_deltas = hist
      /\ new.saved_first_N_deltas = m.saved_first_N_deltas
      /\ new.first_proxy_gen = m.first_proxy_gen
  BY <1>3, <1>4 DEF MacroBlocks
<1> HIDE DEF new
<1>7. BlockOK(new)
  BY <1>2, <1>5, <1>6 DEF BlockOK
<1> QED
  BY <1>6, <1>7 DEF new

\* So does giving it a history it can go on from.
LEMMA ReinitBlock ==
  ASSUME NEW m, BlockOK(m), NEW mb
  PROVE  /\ BlockOK(reinit_MB_delta(m, mb))
         /\ reinit_MB_delta(m, mb).first_proxy_gen = m.first_proxy_gen
<1>1. CASE m.first_N_deltas # << >>
  BY <1>1 DEF reinit_MB_delta
<1>2. CASE m.first_N_deltas = << >> /\ StartsOver(m, mb)
  <2>1. reinit_MB_delta(m, mb) = reinit_first_addr(m)
    BY <1>2 DEF reinit_MB_delta
  <2>2. BlockOK(reinit_first_addr(m))
    <3> DEFINE new == reinit_first_addr(m)
    <3>1. new = [m EXCEPT !.first_N_deltas = m.saved_first_N_deltas, !.last_N_deltas = << >>,
                          !.last_addr = m.first_addr]
      BY DEF reinit_first_addr
    <3>2. << >> \in Seq(Int) /\ Len(<< >>) <= MAX_DELTA
      BY DeltaAssumption
    <3>3. new \in MacroBlocks
      BY <3>1, <3>2 DEF BlockOK, MacroBlocks
    <3>4. new.last_N_deltas = << >> /\ new.saved_first_N_deltas = m.saved_first_N_deltas
      BY <3>1 DEF BlockOK, MacroBlocks
    <3> HIDE DEF new
    <3>5. BlockOK(new)
      BY <3>2, <3>3, <3>4 DEF BlockOK
    <3> QED
      BY <3>5 DEF new
  <2>3. reinit_first_addr(m).first_proxy_gen = m.first_proxy_gen
    BY DEF reinit_first_addr, BlockOK, MacroBlocks
  <2> QED
    BY <2>1, <2>2, <2>3
<1>3. CASE m.first_N_deltas = << >> /\ ~ StartsOver(m, mb)
  <2> DEFINE hist == m.last_N_deltas
             Good(n) == Continues(SubSeq(hist, 1, n), m, mb)
             T == {n \in 1 .. Len(hist) : Good(n)}
             kept == CHOOSE n \in 1 .. Len(hist) : Good(n) /\ \A l \in n + 1 .. Len(hist) : ~ Good(l)
  <2>1. hist \in Seq(Int) /\ Len(hist) \in Nat /\ Len(hist) <= MAX_DELTA
    BY DEF BlockOK, MacroBlocks
  <2>2. T # {} /\ T \subseteq 0 .. Len(hist)
    BY <1>3, <2>1 DEF StartsOver
  <2> HIDE DEF Good, hist
  <2>3. PICK x \in T : \A y \in T : y <= x
    <3> HIDE DEF T
    <3> QED
      BY <2>1, <2>2, GreatestNatural
  <2>4. x \in 1 .. Len(hist) /\ Good(x) /\ \A l \in x + 1 .. Len(hist) : ~ Good(l)
    BY <2>1, <2>3
  <2>5. kept \in 1 .. Len(hist)
    BY <2>4
  <2>6. reinit_MB_delta(m, mb) = [m EXCEPT !.last_N_deltas = SubSeq(hist, 1, kept)]
    BY <1>3 DEF reinit_MB_delta, Good, hist
  <2> HIDE DEF kept
  <2>7. SubSeq(hist, 1, kept) \in Seq(Int) /\ Len(SubSeq(hist, 1, kept)) <= MAX_DELTA
    <3>1. \A i \in 1 .. kept : hist[i] \in Int
      BY <2>1, <2>5
    <3>2. /\ SubSeq(hist, 1, kept) \in Seq(Int)
          /\ Len(SubSeq(hist, 1, kept)) = IF 1 <= kept THEN kept - 1 + 1 ELSE 0
      BY <2>5, <3>1, SubSeqProperties
    <3>3. kept <= Len(hist) /\ (IF 1 <= kept THEN kept - 1 + 1 ELSE 0) = kept
      BY <2>1, <2>5
    <3>4. Len(SubSeq(hist, 1, kept)) = kept
      BY <3>2, <3>3
    <3> QED
      BY <2>1, <2>5, <3>2, <3>3, <3>4, DeltaAssumption
  <2> DEFINE new == [m EXCEPT !.last_N_deltas = SubSeq(hist, 1, kept)]
  <2>8. new \in MacroBlocks
    BY <2>7 DEF BlockOK, MacroBlocks
  <2>9. /\ new.last_N_deltas = SubSeq(hist, 1, kept)
        /\ new.saved_first_N_deltas = m.saved_first_N_deltas
        /\ new.first_proxy_gen = m.first_proxy_gen
    BY DEF BlockOK, MacroBlocks
  <2> HIDE DEF new
  <2>10. BlockOK(new)
    BY <2>7, <2>8, <2>9 DEF BlockOK
  <2> QED
    BY <2>6, <2>9, <2>10 DEF new
<1> QED
  BY <1>1, <1>2, <1>3

\* Counting a follower gives a well formed table to the suffixes of the history.
LEMMA UpdatedTables ==
  ASSUME NEW tables, NEW hist \in Seq(Int), Len(hist) <= MAX_DELTA, NEW nd \in Int,
         \A k \in DOMAIN tables : k \in Seq(Int) /\ Len(k) \in 1 .. MAX_DELTA /\ EntryOK(tables[k])
  PROVE  LET new == update_tables(tables, hist, nd)
         IN  \A k \in DOMAIN new :
               k \in Seq(Int) /\ Len(k) \in 1 .. MAX_DELTA /\ EntryOK(new[k])
<1> DEFINE keys == {Suffix(hist, i) : i \in 1 .. Len(hist)}
           old(k) == IF k \in DOMAIN tables THEN tables[k] ELSE DELTA_ENTRY
<1>1. \A k \in keys : k \in Seq(Int) /\ Len(k) \in 1 .. MAX_DELTA
  <2> SUFFICES ASSUME NEW i \in 1 .. Len(hist)
               PROVE  Suffix(hist, i) \in Seq(Int) /\ Len(Suffix(hist, i)) \in 1 .. MAX_DELTA
    OBVIOUS
  <2> QED
    BY SuffixOfHistory, DeltaAssumption
<1>2. EntryOK(DELTA_ENTRY)
  BY FS_EmptySet DEF EntryOK, DELTA_ENTRY
<1>3. ASSUME NEW e, EntryOK(e) PROVE EntryOK(access(e, nd))
  <2> DEFINE f == [d \in DOMAIN e.next_deltas \cup {nd} |->
                     Followed(e, d) + (IF d = nd THEN 1 ELSE 0)]
  <2>1. access(e, nd) = [e EXCEPT !.next_deltas = f]
    BY DEF access
  <2>2. DOMAIN f \subseteq Int /\ IsFiniteSet(DOMAIN f)
    BY <1>3, FS_AddElement DEF EntryOK
  <2> HIDE DEF f
  <2> QED
    BY <1>3, <2>1, <2>2 DEF EntryOK
<1>4. \A k \in keys : EntryOK(access(old(k), nd))
  <2> SUFFICES ASSUME NEW k \in keys PROVE EntryOK(access(old(k), nd))
    OBVIOUS
  <2>1. EntryOK(old(k))
    BY <1>2
  <2> HIDE DEF old
  <2> QED
    BY <1>3, <2>1
<1>5. update_tables(tables, hist, nd) =
        [k \in DOMAIN tables \cup keys |->
           IF k \notin keys THEN tables[k] ELSE access(old(k), nd)]
  BY DEF update_tables
<1> HIDE DEF keys, old
<1> QED
  BY <1>1, <1>4, <1>5

\* Taking a drawn delta out of its entry and closing the phase change neither
\* the histories nor their followers.
LEMMA DrawnTables ==
  ASSUME NEW tables, NEW k \in DOMAIN tables, NEW nd,
         \A h \in DOMAIN tables : EntryOK(tables[h])
  PROVE  LET new == update_proxy(tables, k, nd)
         IN  DOMAIN new = DOMAIN tables /\ \A h \in DOMAIN new : EntryOK(new[h])
<1> DEFINE e == tables[k]
           c == IF e.next_deltas[nd] > 0 THEN e.next_deltas[nd] - 1 ELSE e.next_deltas[nd]
           f == [e.next_deltas EXCEPT ![nd] = c]
<1>1. DOMAIN f = DOMAIN e.next_deltas
  OBVIOUS
<1> HIDE DEF c
<1>2. EntryOK([e EXCEPT !.next_deltas = f])
  BY <1>1 DEF EntryOK
<1>3. update_proxy(tables, k, nd) = [tables EXCEPT ![k] = [e EXCEPT !.next_deltas = f]]
  BY Zenon DEF update_proxy, c
<1> HIDE DEF f, e
<1> QED
  BY <1>2, <1>3

\* Cascading the tables changes neither the histories nor their followers.
LEMMA CascadedTables ==
  ASSUME NEW tables, \A h \in DOMAIN tables : EntryOK(tables[h])
  PROVE  LET new == manage_cascaded_tables(tables)
         IN  DOMAIN new = DOMAIN tables /\ \A h \in DOMAIN new : EntryOK(new[h])
<1>1. ASSUME NEW e, EntryOK(e), NEW v, NEW d
      PROVE  EntryOK([e EXCEPT !.valid = v, !.most_freq_foll = d])
  BY <1>1 DEF EntryOK
<1> QED
  BY <1>1 DEF manage_cascaded_tables

--------------------------------------------------------------------------------
(* The ways a step of the generator ends *)

\* An assertion that fails keeps the invariant, whatever its line, unless it is
\* one of those the invariant excludes.
LEMMA AbortKeeps ==
  ASSUME IInv, NEW line, line \notin {"422", "1334", "1839"}, Abort(line)
  PROVE  IInv'
<1> USE DEF IInv, Abort, input, profile, generator
<1>1. ControlInv' /\ TablesInv' /\ NewBlocksAreFirst'
  BY DEF ControlInv, TablesInv, Looking, NewBlocksAreFirst
<1>2. RecordInv'
  BY DEF RecordInv, Blocks, Generating
<1>3. ListInv'
  BY DEF ListInv, Blocks, Generating
<1>4. ChosenInv'
  BY DEF ChosenInv, Blocks
<1>5. TouchInv'
  BY DEF TouchInv, Blocks, Visited, Generating
<1> QED
  BY <1>1, <1>2, <1>3, <1>4, <1>5

\* What happens to a macroblock that is tried: an access of it is chosen, or the
\* next case is tried.
Tried(mb) ==
  \/ /\ pc' = "commit"
     /\ this' \in [mb : {mb}, addr : Int, reuse : 0 .. MAX_MB_REUSE, delta : Int, first : BOOLEAN]
  \/ pc' \in {"new", "grow", "fallback", "forced"} /\ this' = this

\* Trying a macroblock that has been generated keeps the invariant if it keeps
\* the macroblock and the tables well formed.
LEMMA TriedKeeps ==
  ASSUME IInv, Looking, NEW mb \in DOMAIN new_MBs, NEW m, BlockOK(m),
         Blocks' = Blocks,
         \A b \in Blocks : per_MB_historytable'[b] = IF b = mb THEN m ELSE per_MB_historytable[b],
         TablesInv', Tried(mb),
         UNCHANGED <<input, last_macroblock_list, MB_reuse, unique_mbs, unique_mb_ct,
                     unique_MB_reuse, init_addrs, gen_elems, new_MBs, temp_reuse, assert_failed>>
  PROVE  IInv'
<1> USE DEF IInv
<1>1. pc \in {"new", "grow", "lower", "fallback", "forced"}
  BY DEF Looking
<1>2. pc' \in {"new", "grow", "fallback", "forced", "commit"}
  BY DEF Tried
<1>3. Blocks' = Blocks /\ mb \in Blocks
  BY DEF RecordInv
<1>4. ControlInv'
  BY <1>1, <1>2 DEF ControlInv, Looking, input
<1>5. \A b \in Blocks : b # mb => per_MB_historytable'[b] = per_MB_historytable[b]
  OBVIOUS
<1>6. per_MB_historytable'[mb] = m
  BY <1>3
<1>7. RecordInv'
  <2>1. \A b \in Blocks : BlockOK(per_MB_historytable'[b])
    BY <1>5, <1>6 DEF RecordInv
  <2> QED
    BY <1>1, <1>2, <1>3, <2>1 DEF RecordInv, Generating
<1>8. ListInv'
  BY <1>1, <1>2, <1>3 DEF ListInv, Generating
<1>9. ChosenInv'
  <2>1. CASE pc' = "commit"
    <3>1. this' \in [mb : {mb}, addr : Int, reuse : 0 .. MAX_MB_REUSE, delta : Int, first : BOOLEAN]
      BY <2>1 DEF Tried
    <3>2. mb \in Nat
      BY <1>3 DEF RecordInv
    <3> QED
      BY <1>3, <3>1, <3>2 DEF ChosenInv
  <2>2. CASE pc' # "commit"
    BY <2>2 DEF Tried, ChosenInv
  <2> QED
    BY <2>1, <2>2
<1>10. TouchInv'
  <2>1. Visited = DOMAIN new_MBs
    BY <1>1 DEF Visited
  <2>2. Visited' = DOMAIN new_MBs
    <3>1. pc' = "commit" => this'.mb = mb
      BY DEF Tried
    <3> QED
      BY <3>1 DEF Visited
  <2>3. \A b \in Blocks \ DOMAIN new_MBs : Untouched(per_MB_historytable'[b])
    BY <1>1, <1>5, <2>1 DEF TouchInv
  <2>4. ~ (gen_elems' <= MAX_INIT_ELEMS)
    <3>1. gen_elems \in Int /\ gen_elems > MAX_INIT_ELEMS /\ gen_elems' = gen_elems
      BY DEF ControlInv
    <3> QED
      BY <3>1, HaloAssumption
  <2> QED
    BY <1>1, <1>2, <1>3, <2>2, <2>3, <2>4 DEF TouchInv
<1>11. NewBlocksAreFirst'
  BY DEF NewBlocksAreFirst
<1> QED
  BY <1>4, <1>7, <1>8, <1>9, <1>10, <1>11

\* The addresses and deltas that are drawn are integers.
LEMMA DrawnDelta ==
  ASSUME TablesInv, NEW mb, NEW m,
         NEW draw \in RandomDraws(mb, m) \cup ForcedDraws(mb, m)
  PROVE  /\ draw[1] \in Usable(m)
         /\ draw[2] \in Int
<1>1. ASSUME NEW n \in Usable(m)
      PROVE  /\ Suffix(m.last_N_deltas, n) \in DOMAIN global_delta_tables
             /\ EntryOK(Entry(m, n))
  BY DEF Usable, Entry, TablesInv
<1>2. CASE draw \in RandomDraws(mb, m)
  <2>1. draw[1] \in Usable(m) /\ draw[2] \in get_rand_delta(Entry(m, draw[1]))
    BY <1>2 DEF RandomDraws
  <2> QED
    BY <1>1, <2>1 DEF get_rand_delta, EntryOK
<1>3. CASE draw \in ForcedDraws(mb, m)
  <2>1. PICK n \in Usable(m) :
          /\ is_any_delta_valid(Entry(m, n), m.last_addr, mb)
          /\ draw = <<n, get_forced_delta(Entry(m, n), m.last_addr, mb)>>
    BY <1>3 DEF ForcedDraws
  <2> DEFINE live == LiveFollowers(Entry(m, n), m.last_addr, mb)
  <2>2. live \in SUBSET Int /\ IsFiniteSet(live) /\ live # {}
    BY <1>1, <2>1, FS_Subset DEF is_any_delta_valid, LiveFollowers, EntryOK
  <2>3. \E d \in live : \A o \in live : d <= o
    <3> HIDE DEF live
    <3> QED
      BY <2>2, LeastOfFinite
  <2>4. get_forced_delta(Entry(m, n), m.last_addr, mb) \in Int
    BY <2>2, <2>3 DEF get_forced_delta
  <2> QED
    BY <2>1, <2>4
<1> QED
  BY <1>2, <1>3

\* Choosing an access of a macroblock is one way to try it.
LEMMA ChosenIsTried ==
  ASSUME NEW mb, NEW addr \in Int, NEW reuse \in 0 .. MAX_MB_REUSE, NEW d \in Int,
         NEW first \in BOOLEAN, Choose(mb, addr, reuse, d, first)
  PROVE  Tried(mb)
BY DEF Choose, Tried

\* get_next_delta keeps the invariant.
LEMMA NextDeltaKeeps ==
  ASSUME IInv, Looking, NEW mb \in DOMAIN new_MBs, NEW reuse \in 0 .. MAX_MB_REUSE,
         get_next_delta(mb, reuse)
  PROVE  IInv'
<1> DEFINE m == per_MB_historytable[mb]
<1>1. mb \in Blocks /\ BlockOK(m) /\ m \in MacroBlocks /\ m.last_addr \in Int
  BY DEF IInv, RecordInv, BlockOK, MacroBlocks
<1>2. CASE ReplayDelta(mb, reuse)
  <2> DEFINE d == Head(m.first_N_deltas)
             m2 == [m EXCEPT !.first_N_deltas = Tail(@)]
  <2>1. CASE MB(m.last_addr + d) # mb
    <3>1. Abort("935")
      BY <1>2, <2>1 DEF ReplayDelta
    <3> QED
      BY <3>1, AbortKeeps
  <2>2. CASE MB(m.last_addr + d) = mb
    <3>1. /\ m.first_N_deltas # << >>
          /\ per_MB_historytable' = [per_MB_historytable EXCEPT ![mb].first_N_deltas = Tail(@)]
          /\ Choose(mb, m.last_addr + d, reuse, d, FALSE)
          /\ UNCHANGED init_addrs
          /\ UNCHANGED_but_MB
      BY <1>2, <2>2 DEF ReplayDelta
    <3>2. d \in Int /\ Tail(m.first_N_deltas) \in Seq(Int)
      BY <1>1, <3>1, HeadTailProperties DEF MacroBlocks
    <3>3. BlockOK(m2)
      <4>1. m2 \in MacroBlocks
        BY <1>1, <3>2 DEF MacroBlocks
      <4>2. m2.last_N_deltas = m.last_N_deltas /\ m2.saved_first_N_deltas = m.saved_first_N_deltas
        BY <1>1 DEF MacroBlocks
      <4> HIDE DEF m2
      <4> QED
        BY <1>1, <4>1, <4>2 DEF BlockOK
    <3>4. /\ Blocks' = Blocks
          /\ \A b \in Blocks :
               per_MB_historytable'[b] = IF b = mb THEN m2 ELSE per_MB_historytable[b]
      BY <1>1, <3>1 DEF Blocks
    <3>5. m.last_addr + d \in Int
      BY <1>1, <3>2
    <3> HIDE DEF m2, d
    <3>6. Tried(mb)
      BY <3>1, <3>2, <3>5, ChosenIsTried
    <3>7. TablesInv'
      BY <3>1 DEF IInv, TablesInv, UNCHANGED_but_MB
    <3> QED
      BY <3>1, <3>3, <3>4, <3>6, <3>7, TriedKeeps DEF UNCHANGED_but_MB
  <2> QED
    BY <2>1, <2>2
<1>3. CASE DrawDelta(mb, reuse)
  <2>1. PICK draw \in RandomDraws(mb, m) \cup ForcedDraws(mb, m) :
          /\ global_delta_tables' =
               update_proxy(global_delta_tables, Suffix(m.last_N_deltas, draw[1]), draw[2])
          /\ Choose(mb, m.last_addr + draw[2], reuse, draw[2], FALSE)
    BY <1>3 DEF DrawDelta
  <2>2. UNCHANGED <<input, per_MB_historytable, last_macroblock_list, MB_reuse, unique_mbs,
                    unique_mb_ct, unique_MB_reuse, init_addrs, gen_elems,
                    new_MBs, temp_reuse, assert_failed>>
    BY <1>3 DEF DrawDelta
  <2>3. draw[1] \in Usable(m) /\ draw[2] \in Int
    BY <2>1, DrawnDelta DEF IInv
  <2>4. Tried(mb)
    <3>1. m.last_addr + draw[2] \in Int
      BY <1>1, <2>3
    <3> QED
      BY <2>1, <2>3, <3>1, ChosenIsTried
  <2>5. TablesInv'
    <3>1. Suffix(m.last_N_deltas, draw[1]) \in DOMAIN global_delta_tables
      BY <2>3 DEF Usable
    <3>2. /\ DOMAIN global_delta_tables' = DOMAIN global_delta_tables
          /\ \A h \in DOMAIN global_delta_tables' : EntryOK(global_delta_tables'[h])
      BY <2>1, <3>1, DrawnTables DEF IInv, TablesInv
    <3> QED
      BY <3>2 DEF IInv, TablesInv
  <2>6. /\ Blocks' = Blocks
        /\ \A b \in Blocks :
             per_MB_historytable'[b] = IF b = mb THEN m ELSE per_MB_historytable[b]
    BY <1>1, <2>2 DEF Blocks
  <2> QED
    BY <1>1, <2>2, <2>4, <2>5, <2>6, TriedKeeps
<1> QED
  BY <1>2, <1>3 DEF get_next_delta

\* Trying a macroblock that has been generated, whatever is done when it has no
\* delta to go on with.
LEMMA ContinueKeeps ==
  ASSUME IInv, Looking, NEW mb \in DOMAIN new_MBs, NEW reuse \in 0 .. MAX_MB_REUSE,
         NEW ACTION Otherwise, Otherwise => Tried(mb),
         ContinueMB(mb, reuse, Otherwise)
  PROVE  IInv'
<1> DEFINE m == per_MB_historytable[mb]
           line == ReinitAssert(m, mb)
<1>1. mb \in Blocks /\ BlockOK(m) /\ m \in MacroBlocks /\ m.first_addr \in Int
  BY DEF IInv, RecordInv, BlockOK, MacroBlocks
<1>2. CASE get_next_delta(mb, reuse)
  BY <1>2, NextDeltaKeeps
<1>3. CASE line # "none" /\ Abort(line)
  <2>1. line \in {"1090", "1100", "1149"}
    BY <1>3 DEF ReinitAssert
  <2> HIDE DEF line
  <2> QED
    BY <1>3, <2>1, AbortKeeps
<1>4. CASE /\ per_MB_historytable' = [per_MB_historytable EXCEPT ![mb] = reinit_MB_delta(m, mb)]
           /\ IF StartsOver(m, mb) THEN Choose(mb, m.first_addr, reuse, 0, TRUE) ELSE Otherwise
           /\ UNCHANGED init_addrs
           /\ UNCHANGED_but_MB
  <2>1. BlockOK(reinit_MB_delta(m, mb))
    BY <1>1, ReinitBlock
  <2>2. /\ Blocks' = Blocks
        /\ \A b \in Blocks :
             per_MB_historytable'[b] =
               IF b = mb THEN reinit_MB_delta(m, mb) ELSE per_MB_historytable[b]
    BY <1>1, <1>4 DEF Blocks
  <2>3. Tried(mb)
    <3>1. CASE StartsOver(m, mb)
      <4>1. Choose(mb, m.first_addr, reuse, 0, TRUE)
        BY <1>4, <3>1, Zenon
      <4>2. 0 \in Int /\ TRUE \in BOOLEAN
        OBVIOUS
      <4> QED
        BY <1>1, <4>1, <4>2, ChosenIsTried, Zenon
    <3>2. CASE ~ StartsOver(m, mb)
      BY <1>4, <3>2, Zenon
    <3> QED
      BY <3>1, <3>2
  <2>4. TablesInv'
    BY <1>4 DEF IInv, TablesInv, UNCHANGED_but_MB
  <2> QED
    BY <1>4, <2>1, <2>2, <2>3, <2>4, TriedKeeps DEF UNCHANGED_but_MB
<1> QED
  BY <1>2, <1>3, <1>4, Zenon DEF ContinueMB

\* Choosing an access at the maximal distance keeps the invariant, for a
\* macroblock that has been generated and for one that has not.
LEMMA FarKeeps ==
  ASSUME IInv, Looking, NEW mb \in Blocks, NEW m, BlockOK(m),
         Blocks' = Blocks,
         \A b \in Blocks : per_MB_historytable'[b] = IF b = mb THEN m ELSE per_MB_historytable[b],
         Choose(mb, m.first_addr, MAX_MB_REUSE, 0, TRUE),
         UNCHANGED init_addrs, UNCHANGED_but_MB
  PROVE  IInv'
<1> USE DEF IInv
<1>1. pc \in {"new", "grow", "lower", "fallback", "forced"} /\ Visited = DOMAIN new_MBs
  BY DEF Looking, Visited
<1>2. UNCHANGED <<input, global_delta_tables, last_macroblock_list, MB_reuse, unique_mbs,
                  unique_mb_ct, unique_MB_reuse, init_addrs, gen_elems, new_MBs, temp_reuse,
                  assert_failed>>
  BY DEF UNCHANGED_but_MB
<1>3. /\ pc' = "commit"
      /\ this' = [mb |-> mb, addr |-> m.first_addr, reuse |-> MAX_MB_REUSE, delta |-> 0,
                  first |-> TRUE]
  BY DEF Choose
<1>4. ControlInv'
  BY <1>1, <1>2, <1>3 DEF ControlInv, Looking, input
<1>5. TablesInv'
  BY <1>2 DEF TablesInv
<1>6. RecordInv'
  <2>1. \A b \in Blocks : BlockOK(per_MB_historytable'[b])
    BY DEF RecordInv
  <2> QED
    BY <1>1, <1>2, <1>3, <2>1 DEF RecordInv, Generating
<1>7. ListInv'
  BY <1>1, <1>2, <1>3 DEF ListInv, Generating
<1>8. ChosenInv'
  <2>1. m.first_addr \in Int /\ MAX_MB_REUSE \in 0 .. MAX_MB_REUSE
    BY HaloAssumption DEF BlockOK, MacroBlocks
  <2>2. mb \in Nat
    BY DEF RecordInv
  <2> QED
    BY <1>3, <2>1, <2>2 DEF ChosenInv
<1>9. TouchInv'
  <2>1. Visited' = DOMAIN new_MBs \cup {mb}
    BY <1>2, <1>3 DEF Visited
  <2>2. \A b \in Blocks \ Visited' : Untouched(per_MB_historytable'[b])
    BY <1>1, <2>1 DEF TouchInv
  <2>3. ~ (gen_elems' <= MAX_INIT_ELEMS)
    <3>1. gen_elems \in Int /\ gen_elems > MAX_INIT_ELEMS /\ gen_elems' = gen_elems
      BY <1>2 DEF ControlInv
    <3> QED
      BY <3>1, HaloAssumption
  <2> QED
    BY <1>3, <2>2, <2>3 DEF TouchInv
<1>10. NewBlocksAreFirst'
  BY <1>2 DEF NewBlocksAreFirst
<1> QED
  BY <1>4, <1>5, <1>6, <1>7, <1>8, <1>9, <1>10

\* Taking a macroblock that has not been generated keeps the invariant: it is
\* untouched, so neither of the assertions on it fails.
LEMMA TakeNewKeeps ==
  ASSUME IInv, Looking, NEW mb \in Blocks, mb \notin DOMAIN new_MBs, TakeNewMB(mb)
  PROVE  IInv'
<1> DEFINE m  == per_MB_historytable[mb]
           m2 == [m EXCEPT !.first_proxy_gen = TRUE]
<1>1. Visited = DOMAIN new_MBs /\ pc # "abort"
  BY DEF Looking, Visited
<1>2. BlockOK(m) /\ m \in MacroBlocks /\ Untouched(m)
  BY <1>1 DEF IInv, RecordInv, BlockOK, TouchInv
<1>3. /\ per_MB_historytable' = [per_MB_historytable EXCEPT ![mb].first_proxy_gen = TRUE]
      /\ Choose(mb, m.first_addr, MAX_MB_REUSE, 0, TRUE)
      /\ UNCHANGED init_addrs
      /\ UNCHANGED_but_MB
  BY <1>2, Zenon DEF TakeNewMB, Untouched
<1>4. /\ Blocks' = Blocks
      /\ \A b \in Blocks : per_MB_historytable'[b] = IF b = mb THEN m2 ELSE per_MB_historytable[b]
  BY <1>3 DEF Blocks
<1>5. m2 \in MacroBlocks
  BY <1>2 DEF MacroBlocks
<1>6. /\ m2.last_N_deltas = m.last_N_deltas
      /\ m2.saved_first_N_deltas = m.saved_first_N_deltas
      /\ m2.first_addr = m.first_addr
  BY <1>2 DEF MacroBlocks
<1> HIDE DEF m2
<1>7. BlockOK(m2)
  BY <1>2, <1>5, <1>6 DEF BlockOK
<1> QED
  BY <1>3, <1>4, <1>6, <1>7, FarKeeps

\* Moving on to another case keeps the invariant.
LEMMA MoveOnKeeps ==
  ASSUME IInv, Looking, pc' \in {"new", "grow", "fallback", "forced"}, UNCHANGED this,
         UNCHANGED <<per_MB_historytable, init_addrs>>, UNCHANGED_but_MB
  PROVE  IInv'
<1> USE DEF IInv, UNCHANGED_but_MB
<1>1. pc \in {"new", "grow", "lower", "fallback", "forced"}
  BY DEF Looking
<1>2. ControlInv' /\ TablesInv' /\ NewBlocksAreFirst'
  BY <1>1 DEF ControlInv, TablesInv, Looking, NewBlocksAreFirst, input
<1>3. RecordInv'
  BY <1>1 DEF RecordInv, Blocks, Generating
<1>4. ListInv'
  BY <1>1 DEF ListInv, Blocks, Generating
<1>5. ChosenInv'
  BY DEF ChosenInv
<1>6. TouchInv'
  BY <1>1 DEF TouchInv, Blocks, Visited, Generating
<1> QED
  BY <1>2, <1>3, <1>4, <1>5, <1>6

\* The macroblocks a retry loop comes up with have been recorded.
LEMMA PickableRecorded ==
  ASSUME IInv, Looking
  PROVE  PickableMBs \subseteq Blocks
<1>1. Generating /\ Len(unique_mb_ct) = Len(unique_mbs) /\ unique_mbs \in Seq(Blocks)
      /\ unique_mb_ct \in Seq(Int)
  BY DEF IInv, Looking, Generating, RecordInv
<1>2. roulette(unique_mb_ct) \subseteq 1 .. Len(unique_mbs)
  BY <1>1 DEF roulette
<1> HIDE DEF Blocks
<1>3. \A i \in 1 .. Len(unique_mbs) : unique_mbs[i] \in Blocks
  BY <1>1
<1> QED
  BY <1>2, <1>3 DEF PickableMBs

\* What is on the list has been generated.
LEMMA ListedGenerated ==
  ASSUME IInv, Looking, NEW p \in 0 .. Len(last_macroblock_list) - 1
  PROVE  last_macroblock_list[p + 1] \in DOMAIN new_MBs /\ p \in 0 .. MAX_MB_REUSE
<1>1. Generating /\ Len(last_macroblock_list) \in Nat /\ Len(last_macroblock_list) <= MAX_MB_REUSE
  BY DEF IInv, ListInv, Looking, Generating
<1>2. p + 1 \in 1 .. Len(last_macroblock_list)
  BY <1>1
<1> QED
  BY <1>1, <1>2, HaloAssumption DEF IInv, ListInv

\* max_nonzero_reuse is -1 or a reuse distance.
LEMMA GreatestReuse ==
  ASSUME IInv
  PROVE  max_nonzero_reuse \in -1 .. MAX_MB_REUSE
<1> DEFINE T == {r \in DOMAIN unique_MB_reuse : r # MAX_MB_REUSE /\ MB_reuse[r] > 0}
<1>1. T \subseteq 0 .. MAX_MB_REUSE /\ MAX_MB_REUSE \in Nat
  BY HaloAssumption DEF IInv, RecordInv
<1>2. T = {} => max_nonzero_reuse = -1
  BY DEF max_nonzero_reuse
<1>3. T # {} => max_nonzero_reuse = CHOOSE r \in T : \A o \in T : o <= r
  BY DEF max_nonzero_reuse
<1>4. T # {} => \E r \in T : \A o \in T : o <= r
  <2> HIDE DEF T
  <2> QED
    BY <1>1, GreatestNatural
<1> HIDE DEF T
<1>5. CASE T = {}
  BY <1>1, <1>2, <1>5
<1>6. CASE T # {}
  <2>1. max_nonzero_reuse \in T
    BY <1>3, <1>4, <1>6
  <2> QED
    BY <1>1, <2>1
<1> QED
  BY <1>5, <1>6

--------------------------------------------------------------------------------
(* The steps of the generator *)

\* Drawing a reuse distance keeps the invariant.
LEMMA PickReuseKeeps == ASSUME IInv, PickReuse PROVE IInv'
<1> USE DEF IInv, PickReuse, profile, input
<1>1. PICK reuse \in roulette(unique_MB_reuse) :
        /\ temp_reuse' = reuse
        /\ pc' = IF MB_reuse[reuse] = 0 THEN "fallback"
                 ELSE IF reuse = MAX_MB_REUSE THEN "new"
                 ELSE IF reuse < Len(last_macroblock_list) THEN "lower"
                 ELSE "grow"
  OBVIOUS
<1>2. reuse \in 0 .. MAX_MB_REUSE
  BY DEF roulette, RecordInv
<1>3. /\ pc' \in {"new", "grow", "lower", "fallback"}
      /\ pc' = "lower" => temp_reuse' < Len(last_macroblock_list)
  BY <1>1
<1>4. gen_elems \in 0 .. GEN_LEN /\ gen_elems < GEN_LEN /\ gen_elems > MAX_INIT_ELEMS
  BY DEF ControlInv
<1>5. ControlInv'
  BY <1>1, <1>2, <1>3, <1>4 DEF ControlInv, Looking
<1>6. TablesInv' /\ NewBlocksAreFirst'
  BY DEF TablesInv, NewBlocksAreFirst
<1>7. RecordInv'
  BY <1>3 DEF RecordInv, Blocks, Generating
<1>8. ListInv'
  BY <1>3 DEF ListInv, Blocks, Generating
<1>9. ChosenInv'
  BY <1>3 DEF ChosenInv
<1>10. TouchInv'
  BY <1>3 DEF TouchInv, Blocks, Visited, Generating
<1> QED
  BY <1>5, <1>6, <1>7, <1>8, <1>9, <1>10

\* Taking a macroblock that is new keeps the invariant (cases 2, 5 and 7).
LEMMA PickFreshKeeps == ASSUME IInv, PickFresh \/ FallbackFresh PROVE IInv'
<1>1. Looking
  BY DEF PickFresh, FallbackFresh, Looking
<1>2. PICK mb \in PickableMBs : Fresh(mb) /\ TakeNewMB(mb)
  BY DEF PickFresh, FallbackFresh
<1> QED
  BY <1>1, <1>2, PickableRecorded, TakeNewKeeps DEF Fresh

\* Taking a macroblock that has left the list keeps the invariant (cases 3, 6).
LEMMA PickEvictedKeeps == ASSUME IInv, PickEvicted PROVE IInv'
<1>1. Looking /\ pc \in {"new", "grow"}
  BY DEF PickEvicted, Looking
<1>2. PICK mb \in DOMAIN new_MBs : ContinueMB(mb, MAX_MB_REUSE, GoTo(pc))
  BY DEF PickEvicted
<1>3. GoTo(pc) => Tried(mb)
  BY <1>1 DEF GoTo, Tried
<1>4. MAX_MB_REUSE \in 0 .. MAX_MB_REUSE
  BY HaloAssumption
<1> QED
  BY <1>1, <1>2, <1>3, <1>4, ContinueKeeps

\* Running out of tries keeps the invariant.
LEMMA GiveUpKeeps == ASSUME IInv, GiveUp \/ FallbackMiss PROVE IInv'
BY MoveOnKeeps DEF GiveUp, FallbackMiss, GoTo, Looking

\* Taking the macroblock at the reuse distance keeps the invariant (case 4).
LEMMA PickLowerKeeps == ASSUME IInv, PickLower PROVE IInv'
<1> DEFINE mb == last_macroblock_list[temp_reuse + 1]
<1>1. Looking
  BY DEF PickLower, Looking
<1>2. temp_reuse \in 0 .. Len(last_macroblock_list) - 1
  BY DEF PickLower, IInv, ControlInv, ListInv
<1>3. mb \in DOMAIN new_MBs /\ temp_reuse \in 0 .. MAX_MB_REUSE
  BY <1>1, <1>2, ListedGenerated
<1> HIDE DEF mb
<1>4. CASE ContinueMB(mb, temp_reuse, GoTo("fallback"))
  <2>1. GoTo("fallback") => Tried(mb)
    BY DEF GoTo, Tried
  <2> QED
    BY <1>1, <1>3, <1>4, <2>1, ContinueKeeps
<1>5. CASE GoTo("fallback") /\ UNCHANGED <<per_MB_historytable, init_addrs>> /\ UNCHANGED_but_MB
  BY <1>1, <1>5, MoveOnKeeps DEF GoTo
<1> QED
  BY <1>4, <1>5, Zenon DEF PickLower, mb

\* The last address of a macroblock is one that can be chosen.
LEMMA RepeatIsTried ==
  ASSUME IInv, NEW mb \in DOMAIN new_MBs, NEW reuse \in 0 .. MAX_MB_REUSE, RepeatLast(mb, reuse)
  PROVE  Tried(mb)
<1>1. per_MB_historytable[mb].last_addr \in Int
  BY DEF IInv, RecordInv, BlockOK, MacroBlocks
<1>2. 0 \in Int /\ TRUE \in BOOLEAN
  OBVIOUS
<1>3. Choose(mb, per_MB_historytable[mb].last_addr, reuse, 0, TRUE)
  BY DEF RepeatLast
<1> QED
  BY <1>1, <1>2, <1>3, ChosenIsTried, Zenon

\* Taking a macroblock farther down the list keeps the invariant (case 8).
LEMMA FallbackHigherKeeps == ASSUME IInv, FallbackHigher PROVE IInv'
<1>1. Looking
  BY DEF FallbackHigher, Looking
<1>2. PICK p \in HigherReuse :
        ContinueMB(last_macroblock_list[p + 1], p,
                   RepeatLast(last_macroblock_list[p + 1], temp_reuse))
  BY DEF FallbackHigher
<1> DEFINE mb == last_macroblock_list[p + 1]
<1>3. p \in 0 .. Len(last_macroblock_list) - 1
  <2>1. max_nonzero_reuse \in Nat /\ Len(last_macroblock_list) \in Nat
    BY GreatestReuse DEF FallbackHigher, IInv, ListInv
  <2> QED
    BY <2>1 DEF HigherReuse
<1>4. mb \in DOMAIN new_MBs /\ p \in 0 .. MAX_MB_REUSE
  BY <1>1, <1>3, ListedGenerated
<1>5. RepeatLast(mb, temp_reuse) => Tried(mb)
  <2>1. temp_reuse \in 0 .. MAX_MB_REUSE
    BY DEF IInv, ControlInv
  <2> HIDE DEF mb
  <2> QED
    BY <1>4, <2>1, RepeatIsTried
<1>6. ContinueMB(mb, p, RepeatLast(mb, temp_reuse))
  BY <1>2
<1> HIDE DEF mb
<1> QED
  BY <1>1, <1>4, <1>5, <1>6, ContinueKeeps

\* Taking any macroblock off the list keeps the invariant (case 9).
LEMMA ForceMaxReuseKeeps == ASSUME IInv, ForceMaxReuse PROVE IInv'
<1>1. Looking
  BY DEF ForceMaxReuse, Looking
<1>2. CASE Abort("1716")
  BY <1>2, AbortKeeps
<1>3. CASE /\ \E mb \in OffList :
                Choose(mb, per_MB_historytable[mb].first_addr, MAX_MB_REUSE, 0, TRUE)
           /\ UNCHANGED <<per_MB_historytable, init_addrs>>
           /\ UNCHANGED_but_MB
  <2>1. PICK mb \in OffList :
          Choose(mb, per_MB_historytable[mb].first_addr, MAX_MB_REUSE, 0, TRUE)
    BY <1>3
  <2> DEFINE m == per_MB_historytable[mb]
  <2>2. mb \in Blocks /\ BlockOK(m)
    BY DEF OffList, Blocks, IInv, RecordInv
  <2>3. /\ Blocks' = Blocks
        /\ \A b \in Blocks : per_MB_historytable'[b] = IF b = mb THEN m ELSE per_MB_historytable[b]
    BY <1>3 DEF Blocks
  <2> QED
    BY <1>1, <1>3, <2>1, <2>2, <2>3, FarKeeps
<1> QED
  BY <1>2, <1>3 DEF ForceMaxReuse

\* Taking any macroblock on the list keeps the invariant (case 10).
LEMMA ForceOnListKeeps == ASSUME IInv, ForceOnList PROVE IInv'
<1>1. Looking
  BY DEF ForceOnList, Looking
<1>2. PICK p \in OnListCandidates : get_next_delta(last_macroblock_list[p + 1], p)
  BY DEF ForceOnList
<1>3. p \in 0 .. Len(last_macroblock_list) - 1
  BY DEF OnListCandidates
<1> QED
  BY <1>1, <1>2, <1>3, ListedGenerated, NextDeltaKeeps

\* Taking any macroblock that was generated keeps the invariant (case 11).
LEMMA ForceVisitedKeeps == ASSUME IInv, ForceVisited PROVE IInv'
<1> DEFINE rest == {b \in DOMAIN new_MBs : Left(b) > 0}
           mb == CHOOSE b \in rest : \A o \in rest : b <= o
           reuse == is_mb_used(last_macroblock_list, mb)
<1>1. Looking
  BY DEF ForceVisited, Looking
<1>2. CASE rest = {}
  <2>1. Abort("1803")
    BY <1>2 DEF ForceVisited
  <2> QED
    BY <2>1, AbortKeeps
<1>3. CASE rest # {}
  <2>1. ContinueMB(mb, reuse, RepeatLast(mb, reuse))
    BY <1>3 DEF ForceVisited
  <2>2. rest \subseteq Nat /\ rest \subseteq DOMAIN new_MBs
    BY DEF IInv, RecordInv
  <2>3. mb \in DOMAIN new_MBs
    <3>1. \E b \in rest : \A o \in rest : b <= o
      <4> HIDE DEF rest
      <4> QED
        BY <1>3, <2>2, LeastNatural
    <3> QED
      BY <2>2, <3>1
  <2> HIDE DEF mb
  <2>4. reuse \in 0 .. MAX_MB_REUSE
    BY PositionOnList DEF IInv, ListInv
  <2> HIDE DEF reuse
  <2>5. RepeatLast(mb, reuse) => Tried(mb)
    BY <2>3, <2>4, RepeatIsTried
  <2> QED
    BY <1>1, <2>1, <2>3, <2>4, <2>5, ContinueKeeps
<1> QED
  BY <1>2, <1>3

\* Replaying one of the first addresses keeps the invariant (case 1).
LEMMA InitAccessKeeps == ASSUME IInv, InitAccess PROVE IInv'
<1> DEFINE addr  == Head(init_addrs)
           mb    == MB(addr)
           m     == per_MB_historytable[mb]
           d     == addr - m.last_addr
           reuse == is_mb_used(last_macroblock_list, mb)
           first == IF m.first_proxy_gen /\ m.first_N_deltas # << >> THEN Tail(m.first_N_deltas)
                    ELSE m.first_N_deltas
           m2    == [m EXCEPT !.first_proxy_gen = TRUE, !.first_N_deltas = first]
<1>1. pc = "next" /\ gen_elems < GEN_LEN /\ gen_elems <= MAX_INIT_ELEMS /\ Generating
  BY DEF InitAccess, Generating
<1>2. CASE init_addrs = << >>
  <2>1. Abort("1272")
    BY <1>2, Zenon DEF InitAccess
  <2> QED
    BY <2>1, AbortKeeps
<1>3. CASE init_addrs # << >>
  <2>1. addr \in Int /\ mb \in Blocks /\ Tail(init_addrs) \in Seq(Int)
        /\ Len(Tail(init_addrs)) = Len(init_addrs) - 1
        /\ \A i \in 1 .. Len(Tail(init_addrs)) : Tail(init_addrs)[i] = init_addrs[i + 1]
    <3>1. init_addrs \in Seq(Int) /\ \A i \in 1 .. Len(init_addrs) : MB(init_addrs[i]) \in Blocks
      BY DEF IInv, RecordInv
    <3>2. Len(init_addrs) \in Nat \ {0} /\ Head(init_addrs) = init_addrs[1]
      BY <1>3, <3>1
    <3>3. 1 \in 1 .. Len(init_addrs)
      BY <3>2
    <3> QED
      BY <1>3, <3>1, <3>2, <3>3, HeadTailProperties
  <2>2. BlockOK(m) /\ m \in MacroBlocks
    BY <2>1 DEF IInv, RecordInv, BlockOK
  <2>3. Visited = DOMAIN new_MBs
    BY <1>1 DEF Visited
  <2>4. ~ m.first_proxy_gen => mb \notin DOMAIN new_MBs
    BY <1>1, <2>3 DEF IInv, TouchInv
  <2>5. mb \notin DOMAIN new_MBs => Untouched(m)
    BY <1>1, <2>1, <2>3 DEF IInv, TouchInv
  <2>6. Len(m.first_N_deltas) # Len(m.saved_first_N_deltas) => m.first_proxy_gen
    BY <2>4, <2>5 DEF Untouched
  <2>7. reuse \in 0 .. MAX_MB_REUSE
    BY PositionOnList DEF IInv, ListInv
  <2>8. mb \notin DOMAIN new_MBs => reuse = MAX_MB_REUSE
    <3>1. /\ reuse # MAX_MB_REUSE =>
               reuse < Len(last_macroblock_list) /\ last_macroblock_list[reuse + 1] = mb
          /\ \A i \in 1 .. Len(last_macroblock_list) : last_macroblock_list[i] \in DOMAIN new_MBs
          /\ Len(last_macroblock_list) \in Nat
      BY <1>1, PositionOnList DEF IInv, ListInv
    <3> HIDE DEF reuse
    <3> QED
      BY <2>7, <3>1
  <2> HIDE DEF reuse
  <2>9. CASE /\ m.first_proxy_gen /\ m.first_N_deltas # << >> /\ d # Head(m.first_N_deltas)
    <3>1. Abort("1282")
      BY <1>3, <2>6, <2>9, Zenon DEF InitAccess
    <3> QED
      BY <3>1, AbortKeeps
  <2>10. CASE ~ (m.first_proxy_gen /\ m.first_N_deltas # << >> /\ d # Head(m.first_N_deltas))
    <3>1. /\ per_MB_historytable' =
               [per_MB_historytable EXCEPT
                  ![mb].first_proxy_gen = TRUE, ![mb].first_N_deltas = first]
          /\ IF m.first_proxy_gen THEN Choose(mb, addr, reuse, d, FALSE)
             ELSE Choose(mb, addr, reuse, 0, TRUE)
          /\ init_addrs' = Tail(init_addrs)
          /\ UNCHANGED_but_MB
      BY <1>3, <2>6, <2>10, Zenon DEF InitAccess, reuse
    <3>2. /\ pc' = "commit"
          /\ this' \in [mb : {mb}, addr : Int, reuse : {reuse}, delta : Int, first : BOOLEAN]
      <4>1. d \in Int /\ 0 \in Int
        BY <2>1, <2>2 DEF MacroBlocks
      <4>2. \/ Choose(mb, addr, reuse, d, FALSE)
            \/ Choose(mb, addr, reuse, 0, TRUE)
        BY <3>1, Zenon
      <4> HIDE DEF d, addr, mb
      <4>3. ASSUME NEW e \in Int, NEW f \in BOOLEAN, Choose(mb, addr, reuse, e, f)
            PROVE  /\ pc' = "commit"
                   /\ this' \in [mb : {mb}, addr : Int, reuse : {reuse}, delta : Int, first : BOOLEAN]
        BY <2>1, <4>3 DEF Choose
      <4>4. TRUE \in BOOLEAN /\ FALSE \in BOOLEAN
        OBVIOUS
      <4> QED
        BY <4>1, <4>2, <4>3, <4>4, Zenon
    <3>3. /\ Blocks' = Blocks
          /\ \A b \in Blocks : b # mb => per_MB_historytable'[b] = per_MB_historytable[b]
      BY <3>1 DEF Blocks
    <3>4. per_MB_historytable'[mb] = m2
      BY <2>1, <2>2, <3>1 DEF Blocks, MacroBlocks
    <3>5. BlockOK(m2) /\ m2.first_proxy_gen = TRUE
      <4>1. first \in Seq(Int)
        BY <2>2, HeadTailProperties DEF MacroBlocks
      <4> HIDE DEF first
      <4>2. m2 \in MacroBlocks
        BY <2>2, <4>1 DEF MacroBlocks
      <4>3. /\ m2.last_N_deltas = m.last_N_deltas
            /\ m2.saved_first_N_deltas = m.saved_first_N_deltas
            /\ m2.first_proxy_gen = TRUE
        BY <2>2 DEF MacroBlocks
      <4> HIDE DEF m2
      <4> QED
        BY <2>2, <4>2, <4>3 DEF BlockOK
    <3> HIDE DEF m2, first, d, m, mb, addr
    <3> USE DEF IInv, UNCHANGED_but_MB
    <3>6. ControlInv'
      BY <1>1, <3>1, <3>2 DEF ControlInv, Looking, input
    <3>7. TablesInv' /\ NewBlocksAreFirst'
      BY <3>1 DEF TablesInv, NewBlocksAreFirst
    <3>8. RecordInv'
      <4>1. \A b \in Blocks : BlockOK(per_MB_historytable'[b])
        BY <3>3, <3>4, <3>5 DEF RecordInv
      <4>2. \A i \in 1 .. Len(init_addrs') : MB(init_addrs'[i]) \in Blocks
        <5>1. /\ Len(init_addrs') = Len(init_addrs) - 1
              /\ \A i \in 1 .. Len(init_addrs') : init_addrs'[i] = init_addrs[i + 1]
          BY <2>1, <3>1
        <5>2. Len(init_addrs) \in Nat
          BY DEF RecordInv
        <5>3. \A i \in 1 .. Len(init_addrs') : i + 1 \in 1 .. Len(init_addrs)
          BY <5>1, <5>2
        <5> QED
          BY <5>1, <5>3 DEF RecordInv
      <4> QED
        BY <1>1, <2>1, <3>1, <3>2, <3>3, <4>1, <4>2 DEF RecordInv, Generating
    <3>9. ListInv'
      BY <1>1, <3>1, <3>2, <3>3 DEF ListInv, Generating
    <3>10. ChosenInv'
      <4>1. mb \in Nat
        BY <2>1 DEF RecordInv
      <4> QED
        BY <2>1, <2>7, <2>8, <3>1, <3>2, <3>3, <4>1 DEF ChosenInv
    <3>11. TouchInv'
      <4>1. Visited' = DOMAIN new_MBs \cup {mb}
        BY <3>1, <3>2 DEF Visited
      <4>2. \A b \in Blocks \ Visited' : Untouched(per_MB_historytable'[b])
        BY <1>1, <2>3, <3>3, <4>1 DEF TouchInv
      <4>3. \A b \in Visited' : per_MB_historytable'[b].first_proxy_gen
        <5>1. \A b \in DOMAIN new_MBs : b \in Blocks /\ per_MB_historytable[b].first_proxy_gen
          BY <1>1, <2>3 DEF TouchInv, RecordInv
        <5> QED
          BY <3>3, <3>4, <3>5, <4>1, <5>1
      <4> QED
        BY <3>2, <3>3, <4>2, <4>3 DEF TouchInv
    <3> QED
      BY <3>6, <3>7, <3>8, <3>9, <3>10, <3>11
  <2> QED
    BY <2>9, <2>10
<1> QED
  BY <1>2, <1>3

\* Spending an access keeps the number of weights.
LEMMA SpentWeights ==
  ASSUME NEW ct \in Seq(Int), NEW hits
  PROVE  Spend(ct, hits) \in Seq(Int) /\ Len(Spend(ct, hits)) = Len(ct)
<1> DEFINE v(i) == IF i \in hits /\ ct[i] > 0 THEN ct[i] - 1 ELSE ct[i]
<1>1. Spend(ct, hits) = [i \in 1 .. Len(ct) |-> v(i)]
  BY DEF Spend
<1>2. \A i \in 1 .. Len(ct) : v(i) \in Int
  OBVIOUS
<1>3. Len(ct) \in Nat
  OBVIOUS
<1> HIDE DEF v
<1> QED
  BY <1>1, <1>2, <1>3

\* Outputting the access keeps the invariant.
LEMMA CommitKeeps == ASSUME IInv, Commit PROVE IInv'
<1> DEFINE mb    == this.mb
           old   == per_MB_historytable[mb]
           m     == proxy_access(old, this.delta, this.first, this.addr)
           known == mb \in DOMAIN new_MBs
           again == known /\ m.last_N_deltas # << >>
           reuse_ct == Spend(unique_MB_reuse, {this.reuse})
           mb_ct == Spend(unique_mb_ct, {i \in DOMAIN unique_mbs : unique_mbs[i] = mb})
           m2    == IF again THEN reinit_MB_delta(m, mb) ELSE m
           line  == ReinitAssert(m, mb)
<1>1. pc = "commit" /\ Generating /\ gen_elems < GEN_LEN
  BY DEF Commit, Generating, IInv, ControlInv
<1>2. /\ mb \in Blocks
      /\ known \/ this.reuse = MAX_MB_REUSE
      /\ this.reuse \in 0 .. MAX_MB_REUSE
      /\ this.delta \in Int /\ this.addr \in Int /\ this.first \in BOOLEAN
  BY <1>1 DEF IInv, ChosenInv
<1>3. line # "none" => line \in {"1090", "1100", "1149"}
  BY DEF ReinitAssert
<1>4. CASE \E l \in {"570", "1884", "1924", line} : l # "none" /\ Abort(l)
  <2>1. PICK l \in {"570", "1884", "1924", line} : l # "none" /\ Abort(l)
    BY <1>4
  <2> HIDE DEF line
  <2>2. l \notin {"422", "1334", "1839"}
    BY <1>3, <2>1
  <2> QED
    BY <2>1, <2>2, AbortKeeps
<1>5. CASE /\ Left(mb) # 0
           /\ per_MB_historytable' = [per_MB_historytable EXCEPT ![mb] = m2]
           /\ last_macroblock_list' = update_mb_reuse_list(last_macroblock_list, mb)
           /\ MB_reuse' = [MB_reuse EXCEPT ![this.reuse] = IF @ > 0 THEN @ - 1 ELSE @]
           /\ DOMAIN new_MBs' = DOMAIN new_MBs \cup {mb}
           /\ unique_MB_reuse' = reuse_ct
           /\ unique_mb_ct' = mb_ct
           /\ gen_elems' = gen_elems + 1
           /\ this' = NoAccess
           /\ pc' = "next"
           /\ UNCHANGED <<input, global_delta_tables, unique_mbs, init_addrs, temp_reuse,
                          assert_failed>>
  <2> USE DEF IInv
  <2>1. BlockOK(old)
    BY <1>2 DEF RecordInv
  <2>2. BlockOK(m) /\ m.first_proxy_gen = old.first_proxy_gen
    BY <1>2, <1>5, <2>1, OutputBlock DEF Left
  <2> HIDE DEF m
  <2>3. BlockOK(m2) /\ m2.first_proxy_gen = old.first_proxy_gen
    BY <2>2, ReinitBlock
  <2>4. /\ Blocks' = Blocks
        /\ \A b \in Blocks :
             per_MB_historytable'[b] = IF b = mb THEN m2 ELSE per_MB_historytable[b]
    BY <1>2, <1>5 DEF Blocks
  <2>5. /\ last_macroblock_list' \in Seq(Blocks)
        /\ Len(last_macroblock_list') <= MAX_MB_REUSE
        /\ NoRepeats(last_macroblock_list')
        /\ \A i \in 1 .. Len(last_macroblock_list') :
             \/ last_macroblock_list'[i] = mb
             \/ \E j \in 1 .. Len(last_macroblock_list) :
                  last_macroblock_list'[i] = last_macroblock_list[j]
    <3> HIDE DEF mb
    <3>1. /\ last_macroblock_list \in Seq(Blocks)
          /\ Len(last_macroblock_list) <= MAX_MB_REUSE
          /\ NoRepeats(last_macroblock_list)
      BY DEF ListInv
    <3> HIDE DEF IInv
    <3>2. last_macroblock_list' = update_mb_reuse_list(last_macroblock_list, mb)
      BY <1>5
    <3> DEFINE new == update_mb_reuse_list(last_macroblock_list, mb)
    <3>3. /\ new \in Seq(Blocks)
          /\ Len(new) <= MAX_MB_REUSE
          /\ NoRepeats(new)
          /\ \A i \in 1 .. Len(new) :
               \/ new[i] = mb
               \/ \E j \in 1 .. Len(last_macroblock_list) : new[i] = last_macroblock_list[j]
      BY <1>2, <3>1, UpdatedList
    <3> HIDE DEF new
    <3> QED
      BY <3>2, <3>3 DEF new
  <2>6. mb_ct \in Seq(Int) /\ Len(mb_ct) = Len(unique_mb_ct)
    BY SpentWeights DEF RecordInv
  <2>7. DOMAIN reuse_ct = DOMAIN unique_MB_reuse
    BY DEF Spend
  <2> HIDE DEF m2, mb_ct, reuse_ct, mb, old
  <2>8. ControlInv'
    <3>1. gen_elems \in Nat /\ GEN_LEN \in Nat
      BY HaloAssumption DEF ControlInv, GEN_LEN
    <3>2. gen_elems + 1 \in 0 .. GEN_LEN
      BY <1>1, <3>1
    <3> QED
      BY <1>1, <1>5, <3>2 DEF ControlInv, Looking, input
  <2>9. TablesInv' /\ NewBlocksAreFirst'
    BY <1>5 DEF TablesInv, NewBlocksAreFirst
  <2>10. RecordInv'
    <3>1. \A b \in Blocks : BlockOK(per_MB_historytable'[b])
      BY <2>3, <2>4 DEF RecordInv
    <3>2. MB_reuse' \in [0 .. MAX_MB_REUSE -> Nat]
      BY <1>2, <1>5 DEF RecordInv
    <3> QED
      BY <1>1, <1>2, <1>5, <2>4, <2>6, <2>7, <3>1, <3>2 DEF RecordInv, Generating
  <2>11. ListInv'
    BY <1>1, <1>5, <2>4, <2>5 DEF ListInv, Generating
  <2>12. ChosenInv'
    <3>1. 0 \in 0 .. MAX_MB_REUSE
      BY HaloAssumption
    <3> QED
      BY <1>5, <3>1 DEF ChosenInv, NoAccess
  <2>13. TouchInv'
    <3>1. Visited = DOMAIN new_MBs \cup {mb} /\ Visited' = DOMAIN new_MBs \cup {mb}
      BY <1>1, <1>5 DEF Visited, mb
    <3>2. \A b \in Blocks \ Visited : Untouched(per_MB_historytable'[b])
      BY <1>1, <2>4, <3>1 DEF TouchInv
    <3>3. gen_elems' <= MAX_INIT_ELEMS =>
            \A b \in Visited : per_MB_historytable'[b].first_proxy_gen
      <4>1. gen_elems' <= MAX_INIT_ELEMS => gen_elems <= MAX_INIT_ELEMS
        BY <1>5, HaloAssumption DEF ControlInv
      <4>2. \A b \in Visited : b \in Blocks
        BY <1>2, <3>1 DEF RecordInv
      <4>3. mb \in Visited
        BY <3>1
      <4> QED
        BY <1>1, <2>3, <2>4, <4>1, <4>2, <4>3 DEF TouchInv, old
    <3> QED
      BY <1>5, <2>4, <3>1, <3>2, <3>3 DEF TouchInv
  <2> QED
    BY <2>8, <2>9, <2>10, <2>11, <2>12, <2>13
<1>6. DOMAIN [b \in DOMAIN new_MBs \cup {mb} |->
                (IF b \in DOMAIN new_MBs THEN new_MBs[b] ELSE 0) + (IF b = mb THEN 1 ELSE 0)]
      = DOMAIN new_MBs \cup {mb}
  OBVIOUS
<1>7. "570" # "none" /\ "1884" # "none" /\ "1924" # "none"
  OBVIOUS
<1> HIDE DEF line
<1> QED
  BY <1>2, <1>4, <1>5, <1>6, <1>7, Zenon DEF Commit, line

--------------------------------------------------------------------------------
(* The steps of the profiler *)

\* Recording a line of the trace keeps the invariant.
LEMMA ReadElementKeeps == ASSUME IInv, ReadElement PROVE IInv'
<1> DEFINE addr == trace[num_elems + 1]
           mb   == MB(addr)
           pos  == is_mb_used(last_macroblock_list, mb)
           m    == per_MB_historytable[mb]
           m2   == IF mb \in Blocks THEN access_mb(m, addr) ELSE MACRO_BLOCK_LOC(addr)
<1> USE DEF IInv
<1>1. /\ pc = "profile" /\ num_elems < Len(trace) /\ mem_access(addr)
      /\ num_elems' = num_elems + 1
      /\ pc' \in {"profile", "prepare"}
      /\ UNCHANGED <<trace, generator, assert_failed>>
  BY DEF ReadElement
<1>2. addr \in Nat /\ num_elems \in Nat /\ Len(trace) \in Nat /\ mb \in Nat
  <2>1. trace \in Seq(Nat) /\ num_elems \in 0 .. Len(trace)
    BY HaloAssumption DEF ControlInv
  <2>2. num_elems + 1 \in 1 .. Len(trace)
    BY <1>1, <2>1
  <2>3. addr \in Nat
    BY <2>1, <2>2, ElementOfSeq
  <2>4. mb \in Nat
    <3> HIDE DEF addr
    <3> QED
      BY <2>3, BlockNumber
  <2> QED
    BY <2>1, <2>3, <2>4
<1>3. /\ MB_reuse' = [MB_reuse EXCEPT ![pos] = @ + 1]
      /\ last_macroblock_list' = update_mb_reuse_list(last_macroblock_list, mb)
      /\ UNCHANGED <<unique_mb_ct, unique_MB_reuse>>
      /\ init_addrs' = IF Len(init_addrs) <= MAX_INIT_ELEMS THEN Append(init_addrs, addr)
                       ELSE init_addrs
  BY <1>1 DEF mem_access
<1>4. DOMAIN new_MBs = {} /\ gen_elems = 0 /\ Visited = {} /\ unique_mb_ct = << >>
  BY <1>1 DEF TouchInv, RecordInv, Visited
<1>5. /\ Blocks' = Blocks \cup {mb}
      /\ \A b \in Blocks' : per_MB_historytable'[b] = IF b = mb THEN m2 ELSE per_MB_historytable[b]
      /\ unique_mbs' = IF mb \in Blocks THEN unique_mbs ELSE Append(unique_mbs, mb)
      /\ global_delta_tables' =
           IF mb \in Blocks
           THEN update_tables(global_delta_tables, m.last_N_deltas, addr - m.last_addr)
           ELSE global_delta_tables
  <2>1. CASE mb \in Blocks
    <3>1. /\ per_MB_historytable' = [per_MB_historytable EXCEPT ![mb] = access_mb(m, addr)]
          /\ global_delta_tables' =
               update_tables(global_delta_tables, m.last_N_deltas, addr - m.last_addr)
          /\ UNCHANGED unique_mbs
      BY <1>1, <2>1 DEF mem_access, Blocks
    <3> QED
      BY <2>1, <3>1 DEF Blocks
  <2>2. CASE mb \notin Blocks
    <3>1. /\ per_MB_historytable' =
               [b \in DOMAIN per_MB_historytable \cup {mb} |->
                  IF b = mb THEN MACRO_BLOCK_LOC(addr) ELSE per_MB_historytable[b]]
          /\ unique_mbs' = Append(unique_mbs, mb)
          /\ UNCHANGED global_delta_tables
      BY <1>1, <2>2 DEF mem_access, Blocks
    <3> QED
      BY <2>2, <3>1 DEF Blocks
  <2> QED
    BY <2>1, <2>2
<1>6. mb \in Blocks => BlockOK(m) /\ Untouched(m)
  BY <1>1, <1>4 DEF RecordInv, TouchInv
<1>7. BlockOK(m2) /\ Untouched(m2)
  <2>1. CASE mb \in Blocks
    BY <1>2, <1>6, <2>1, AccessedBlock
  <2>2. CASE mb \notin Blocks
    <3>1. << >> \in Seq(Int) /\ Len(<< >>) <= MAX_DELTA
      BY DeltaAssumption
    <3>2. MACRO_BLOCK_LOC(addr) \in MacroBlocks
      BY <1>2, <3>1 DEF MACRO_BLOCK_LOC, MacroBlocks
    <3> QED
      BY <2>2, <3>1, <3>2 DEF BlockOK, Untouched, MACRO_BLOCK_LOC
  <2> QED
    BY <2>1, <2>2
<1>8. pos \in 0 .. MAX_MB_REUSE
  BY PositionOnList DEF ListInv
<1>9. /\ last_macroblock_list' \in Seq(Blocks')
      /\ Len(last_macroblock_list') <= MAX_MB_REUSE
      /\ NoRepeats(last_macroblock_list')
  <2>1. Blocks \subseteq Blocks' /\ mb \in Blocks'
    BY <1>5
  <2>2. last_macroblock_list \in Seq(Blocks')
    BY <2>1, SeqMonotonic DEF ListInv
  <2>3. Len(last_macroblock_list) <= MAX_MB_REUSE /\ NoRepeats(last_macroblock_list)
    BY DEF ListInv
  <2> HIDE DEF IInv, mb
  <2> QED
    BY <1>3, <2>1, <2>2, <2>3, UpdatedList, Zenon
<1>10. TablesInv'
  <2>1. CASE mb \in Blocks
    <3>1. /\ m.last_N_deltas \in Seq(Int) /\ Len(m.last_N_deltas) <= MAX_DELTA
          /\ addr - m.last_addr \in Int
      BY <1>2, <1>6, <2>1 DEF BlockOK, MacroBlocks
    <3>2. global_delta_tables' =
            update_tables(global_delta_tables, m.last_N_deltas, addr - m.last_addr)
      BY <1>5, <2>1
    <3> HIDE DEF m, addr
    <3> QED
      BY <3>1, <3>2, UpdatedTables DEF TablesInv
  <2>2. CASE mb \notin Blocks
    BY <1>5, <2>2 DEF TablesInv
  <2> QED
    BY <2>1, <2>2
<1>11. init_addrs' \in Seq(Int) /\ \A i \in 1 .. Len(init_addrs') : MB(init_addrs'[i]) \in Blocks'
  <2>1. init_addrs \in Seq(Int) /\ \A i \in 1 .. Len(init_addrs) : MB(init_addrs[i]) \in Blocks
    BY DEF RecordInv
  <2>2. /\ Append(init_addrs, addr) \in Seq(Int)
        /\ Len(Append(init_addrs, addr)) = Len(init_addrs) + 1
        /\ \A i \in 1 .. Len(init_addrs) : Append(init_addrs, addr)[i] = init_addrs[i]
        /\ Append(init_addrs, addr)[Len(init_addrs) + 1] = addr
    BY <1>2, <2>1, AppendProperties
  <2>3. \A i \in 1 .. Len(Append(init_addrs, addr)) : MB(Append(init_addrs, addr)[i]) \in Blocks'
    <3> SUFFICES ASSUME NEW i \in 1 .. Len(Append(init_addrs, addr))
                 PROVE  MB(Append(init_addrs, addr)[i]) \in Blocks'
      OBVIOUS
    <3>1. i \in 1 .. Len(init_addrs) \/ i = Len(init_addrs) + 1
      BY <2>1, <2>2
    <3> QED
      BY <1>5, <2>1, <2>2, <3>1
  <2> QED
    BY <1>3, <1>5, <2>1, <2>2, <2>3
<1>12. unique_mbs' \in Seq(Blocks')
  <2>1. unique_mbs \in Seq(Blocks') /\ mb \in Blocks'
    BY <1>5, SeqMonotonic DEF RecordInv
  <2> QED
    BY <1>5, <2>1, AppendProperties
<1> HIDE DEF m2, m, pos, mb, addr
<1>13. ControlInv'
  BY <1>1, <1>2 DEF ControlInv, Looking, generator
<1>14. RecordInv'
  <2>1. \A b \in Blocks' : BlockOK(per_MB_historytable'[b])
    BY <1>5, <1>7 DEF RecordInv
  <2>2. MB_reuse' \in [0 .. MAX_MB_REUSE -> Nat]
    <3>1. MB_reuse \in [0 .. MAX_MB_REUSE -> Nat]
      BY DEF RecordInv
    <3>2. MB_reuse[pos] + 1 \in Nat
      BY <1>8, <3>1
    <3> QED
      BY <1>3, <3>1, <3>2
  <2>3. Blocks' \subseteq Nat
    BY <1>2, <1>5 DEF RecordInv
  <2> QED
    BY <1>1, <1>3, <1>4, <1>11, <1>12, <2>1, <2>2, <2>3 DEF RecordInv, Generating, generator
<1>15. ListInv'
  BY <1>1, <1>9 DEF ListInv, Generating
<1>16. ChosenInv'
  BY <1>1 DEF ChosenInv, generator
<1>17. TouchInv'
  <2>1. \A b \in Blocks' : Untouched(per_MB_historytable'[b])
    BY <1>1, <1>4, <1>5, <1>7 DEF TouchInv
  <2> QED
    BY <1>1, <1>4, <2>1 DEF TouchInv, Generating, generator
<1>18. NewBlocksAreFirst'
  BY <1>1 DEF NewBlocksAreFirst
<1> QED
  BY <1>10, <1>13, <1>14, <1>15, <1>16, <1>17, <1>18

\* Reaching the end of the trace keeps the invariant.
LEMMA EndOfTraceKeeps == ASSUME IInv, EndOfTrace PROVE IInv'
<1> USE DEF IInv, EndOfTrace, input, profile, generator
<1>1. ControlInv' /\ TablesInv' /\ NewBlocksAreFirst'
  BY DEF ControlInv, TablesInv, Looking, NewBlocksAreFirst
<1>2. RecordInv'
  BY DEF RecordInv, Blocks, Generating
<1>3. ListInv' /\ ChosenInv'
  BY DEF ListInv, ChosenInv, Blocks, Generating
<1>4. TouchInv'
  BY DEF TouchInv, Blocks, Visited, Generating
<1> QED
  BY <1>1, <1>2, <1>3, <1>4

\* Closing the statistics of a phase keeps the invariant.
LEMMA PrepareKeeps == ASSUME IInv, Prepare PROVE IInv'
<1> USE DEF IInv
<1>1. /\ pc = "prepare" /\ pc' = "next"
      /\ global_delta_tables' = manage_cascaded_tables(global_delta_tables)
      /\ last_macroblock_list' = << >>
      /\ per_MB_historytable' =
           [b \in DOMAIN per_MB_historytable |-> reset(per_MB_historytable[b])]
      /\ unique_mb_ct' = unique_mb_ct \o
           [i \in 1 .. Len(unique_mbs) |-> per_MB_historytable[unique_mbs[i]].num_accesses]
      /\ DOMAIN unique_MB_reuse' \subseteq 0 .. MAX_MB_REUSE
      /\ UNCHANGED <<input, MB_reuse, unique_mbs, init_addrs, generator, assert_failed>>
  BY DEF Prepare
<1>2. /\ DOMAIN new_MBs = {} /\ gen_elems = 0 /\ Visited = {} /\ unique_mb_ct = << >>
      /\ Visited' = {}
  BY <1>1 DEF TouchInv, RecordInv, Visited, generator
<1>3. /\ Blocks' = Blocks
      /\ \A b \in Blocks : per_MB_historytable'[b] = reset(per_MB_historytable[b])
  BY <1>1 DEF Blocks
<1>4. ASSUME NEW m, BlockOK(m), Untouched(m)
      PROVE  BlockOK(reset(m)) /\ Untouched(reset(m))
  <2>1. m \in MacroBlocks /\ << >> \in Seq(Int) /\ Len(<< >>) <= MAX_DELTA
    BY <1>4, DeltaAssumption DEF BlockOK
  <2>2. reset(m) \in MacroBlocks
    <3>1. reset(m) = [m EXCEPT !.last_N_deltas = << >>, !.last_addr = 0]
      BY DEF reset
    <3>2. << >> \in Seq(Int) /\ 0 \in Int
      OBVIOUS
    <3> QED
      BY <2>1, <3>1, <3>2 DEF MacroBlocks
  <2>3. /\ reset(m).last_N_deltas = << >>
        /\ reset(m).saved_first_N_deltas = m.saved_first_N_deltas
        /\ reset(m).first_N_deltas = m.first_N_deltas
        /\ reset(m).first_proxy_gen = m.first_proxy_gen
    BY <2>1 DEF MacroBlocks, reset
  <2> QED
    BY <1>4, <2>1, <2>2, <2>3 DEF BlockOK, Untouched
<1>5. \A b \in Blocks : BlockOK(per_MB_historytable'[b]) /\ Untouched(per_MB_historytable'[b])
  BY <1>1, <1>2, <1>3, <1>4 DEF RecordInv, TouchInv
<1>6. unique_mb_ct' \in Seq(Int) /\ Len(unique_mb_ct') = Len(unique_mbs)
  <2> DEFINE v(i) == per_MB_historytable[unique_mbs[i]].num_accesses
             ct   == [i \in 1 .. Len(unique_mbs) |-> v(i)]
  <2>1. unique_mbs \in Seq(Blocks) /\ Len(unique_mbs) \in Nat
    BY DEF RecordInv
  <2>2. \A i \in 1 .. Len(unique_mbs) : v(i) \in Int
    <3>1. \A i \in 1 .. Len(unique_mbs) : unique_mbs[i] \in Blocks
      BY <2>1, ElementOfSeq
    <3>2. \A b \in Blocks : per_MB_historytable[b].num_accesses \in Int
      BY DEF RecordInv, BlockOK, MacroBlocks
    <3> QED
      BY <3>1, <3>2
  <2>3. unique_mb_ct' = << >> \o ct
    BY <1>1, <1>2
  <2> HIDE DEF v
  <2>4. ct \in Seq(Int) /\ Len(ct) = Len(unique_mbs)
    BY <2>1, <2>2
  <2> HIDE DEF ct
  <2> QED
    BY <2>3, <2>4, ConcatEmptySeq
<1>7. TablesInv'
  BY <1>1, CascadedTables DEF TablesInv
<1>8. ControlInv'
  BY <1>1 DEF ControlInv, Looking, input, generator
<1>9. RecordInv'
  BY <1>1, <1>2, <1>3, <1>5, <1>6 DEF RecordInv, Generating, input, generator
<1>10. ListInv'
  <2>1. << >> \in Seq(Blocks) /\ Len(<< >>) = 0
    OBVIOUS
  <2> QED
    BY <1>1, <1>3, <2>1, HaloAssumption DEF ListInv, NoRepeats
<1>11. ChosenInv'
  BY <1>1 DEF ChosenInv, generator
<1>12. TouchInv'
  BY <1>1, <1>2, <1>3, <1>5 DEF TouchInv
<1>13. NewBlocksAreFirst'
  BY <1>1 DEF NewBlocksAreFirst
<1> QED
  BY <1>7, <1>8, <1>9, <1>10, <1>11, <1>12, <1>13

\* Clearing the statistics of a phase keeps the invariant.
LEMMA PhaseClearKeeps == ASSUME IInv, PhaseClear PROVE IInv'
<1> USE DEF IInv
<1>1. /\ last_macroblock_list' = << >> /\ unique_mbs' = << >> /\ unique_mb_ct' = << >>
      /\ init_addrs' = << >>
      /\ MB_reuse' = [r \in 0 .. MAX_MB_REUSE |-> 0]
      /\ gen_elems' = 0 /\ temp_reuse' = 0 /\ this' = NoAccess /\ pc' = "profile"
      /\ UNCHANGED <<input, assert_failed>>
  BY DEF PhaseClear
<1>2. /\ Blocks' = {} /\ DOMAIN global_delta_tables' = {} /\ DOMAIN unique_MB_reuse' = {}
      /\ DOMAIN new_MBs' = {}
  BY DEF PhaseClear, Blocks, NoEntries
<1>3. 0 \in 0 .. MAX_MB_REUSE /\ 0 \in 0 .. GEN_LEN
  BY HaloAssumption DEF GEN_LEN
<1>4. \A S : << >> \in Seq(S) /\ Len(<< >>) = 0
  BY EmptySeq
<1>5. ControlInv'
  BY <1>1, <1>3 DEF ControlInv, Looking, input
<1>6. TablesInv' /\ NewBlocksAreFirst'
  BY <1>1, <1>2 DEF TablesInv, NewBlocksAreFirst
<1>7. RecordInv'
  BY <1>1, <1>2, <1>4 DEF RecordInv, Generating
<1>8. ListInv'
  BY <1>1, <1>4, HaloAssumption DEF ListInv, NoRepeats, Generating
<1>9. ChosenInv'
  BY <1>1, <1>3 DEF ChosenInv, NoAccess
<1>10. TouchInv'
  BY <1>1, <1>2 DEF TouchInv, Generating
<1> QED
  BY <1>5, <1>6, <1>7, <1>8, <1>9, <1>10

--------------------------------------------------------------------------------
(* Theorems *)

\* The inductive invariant holds at the start.
LEMMA InitIInv == Init => IInv
<1> SUFFICES ASSUME Init PROVE IInv
  OBVIOUS
<1>1. /\ Blocks = {} /\ DOMAIN global_delta_tables = {} /\ DOMAIN unique_MB_reuse = {}
      /\ DOMAIN new_MBs = {}
  BY DEF Init, Blocks, NoEntries
<1>2. 0 \in 0 .. MAX_MB_REUSE /\ 0 \in 0 .. GEN_LEN /\ 0 \in 0 .. Len(trace)
  <2>1. trace \in Seq(Nat)
    BY HaloAssumption DEF Init
  <2> QED
    BY <2>1, HaloAssumption DEF GEN_LEN
<1>3. \A S : << >> \in Seq(S) /\ Len(<< >>) = 0
  BY EmptySeq
<1>4. ControlInv
  BY <1>2 DEF Init, ControlInv, Looking
<1>5. TablesInv /\ NewBlocksAreFirst
  BY <1>1 DEF Init, TablesInv, NewBlocksAreFirst
<1>6. RecordInv
  BY <1>1, <1>3 DEF Init, RecordInv, Generating
<1>7. ListInv
  BY <1>3, HaloAssumption DEF Init, ListInv, NoRepeats, Generating
<1>8. ChosenInv
  BY <1>2 DEF Init, ChosenInv, NoAccess
<1>9. TouchInv
  BY <1>1 DEF Init, TouchInv, Generating
<1> QED
  BY <1>4, <1>5, <1>6, <1>7, <1>8, <1>9 DEF IInv

\* A step that changes no variable keeps the invariant.
LEMMA StutterKeeps == ASSUME IInv, UNCHANGED vars PROVE IInv'
<1> USE DEF IInv, vars, input, profile, generator
<1>1. ControlInv' /\ TablesInv' /\ NewBlocksAreFirst'
  BY DEF ControlInv, TablesInv, Looking, NewBlocksAreFirst
<1>2. RecordInv'
  BY DEF RecordInv, Blocks, Generating
<1>3. ListInv' /\ ChosenInv'
  BY DEF ListInv, ChosenInv, Blocks, Generating
<1>4. TouchInv'
  BY DEF TouchInv, Blocks, Visited, Generating
<1> QED
  BY <1>1, <1>2, <1>3, <1>4

\* Every step keeps the inductive invariant.
LEMMA NextIInv == IInv /\ [Next]_vars => IInv'
<1> SUFFICES ASSUME IInv, [Next]_vars PROVE IInv'
  OBVIOUS
<1>1. CASE ReadElement
  BY <1>1, ReadElementKeeps
<1>2. CASE EndOfTrace
  BY <1>2, EndOfTraceKeeps
<1>3. CASE Prepare
  BY <1>3, PrepareKeeps
<1>4. CASE InitAccess
  BY <1>4, InitAccessKeeps
<1>5. CASE PickReuse
  BY <1>5, PickReuseKeeps
<1>6. CASE PickFresh \/ FallbackFresh
  BY <1>6, PickFreshKeeps
<1>7. CASE PickEvicted
  BY <1>7, PickEvictedKeeps
<1>8. CASE GiveUp \/ FallbackMiss
  BY <1>8, GiveUpKeeps
<1>9. CASE PickLower
  BY <1>9, PickLowerKeeps
<1>10. CASE FallbackHigher
  BY <1>10, FallbackHigherKeeps
<1>11. CASE ForceMaxReuse
  BY <1>11, ForceMaxReuseKeeps
<1>12. CASE ForceOnList
  BY <1>12, ForceOnListKeeps
<1>13. CASE ForceVisited
  BY <1>13, ForceVisitedKeeps
<1>14. CASE Commit
  BY <1>14, CommitKeeps
<1>15. CASE PhaseClear
  BY <1>15, PhaseClearKeeps
<1>16. CASE UNCHANGED vars
  BY <1>16, StutterKeeps
<1> QED
  BY <1>1, <1>2, <1>3, <1>4, <1>5, <1>6, <1>7, <1>8, <1>9, <1>10, <1>11, <1>12, <1>13, <1>14,
     <1>15, <1>16 DEF Next, Step, Terminated

\* Every state of the program satisfies the inductive invariant.
THEOREM Invariance == Spec => []IInv
BY InitIInv, NextIInv, PTL DEF Spec

\* The statistics keep their types and the histories their bound, MAX_DELTA.
THEOREM TypeCorrect == Spec => []TypeOK
<1>1. IInv => TypeOK
  <2> SUFFICES ASSUME IInv PROVE TypeOK
    OBVIOUS
  <2>1. this.reuse \in 0 .. MAX_MB_REUSE
    BY DEF IInv, ChosenInv
  <2> QED
    BY <2>1 DEF IInv, ControlInv, TablesInv, RecordInv, Blocks, BlockOK, TypeOK
<1> QED
  BY <1>1, Invariance, PTL

\* The LRU list holds at most MAX_MB_REUSE macroblocks, none of them twice, and
\* in the generator only generated ones (is_mb_used, update_mb_reuse_list).
THEOREM ListStaysSound == Spec => []ListSound
<1>1. IInv => ListSound
  BY DEF IInv, ListInv, NoRepeats, ListSound
<1> QED
  BY <1>1, Invariance, PTL

\* The asserts at 422, 1334 and 1839 never fail: a macroblock is marked, has its
\* first deltas replayed and is entered in new_MBs at the same access.
THEOREM FirstAccessAsserts == Spec => []NewBlocksAreFirst
<1>1. IInv => NewBlocksAreFirst
  BY DEF IInv
<1> QED
  BY <1>1, Invariance, PTL

--------------------------------------------------------------------------------
(* The steps that select an access count nothing. *)

\* The states in which a phase is generated.
Drawing == {"next", "new", "grow", "lower", "fallback", "forced", "commit"}

SameCounts ==
  /\ Blocks' = Blocks
  /\ \A b \in Blocks : per_MB_historytable'[b].num_accesses = per_MB_historytable[b].num_accesses

\* No access is counted, and the program goes on with the phase or aborts.
Quiet ==
  /\ SameCounts
  /\ pc \in Drawing /\ pc' \in Drawing \cup {"abort"}
  /\ UNCHANGED <<input, MB_reuse, last_macroblock_list, unique_mbs, unique_mb_ct, unique_MB_reuse,
                 gen_elems, new_MBs>>

\* What is recorded of a macroblock is a record.
LEMMA BlockRecord == ASSUME IInv, NEW mb \in Blocks PROVE per_MB_historytable[mb] \in MacroBlocks
BY DEF IInv, RecordInv, BlockOK

\* A failed assertion leaves everything as it is.
LEMMA AbortIsQuiet == ASSUME pc \in Drawing, NEW line, Abort(line) PROVE Quiet
BY DEF Abort, Quiet, SameCounts, Blocks, profile, generator

\* Changing one macroblock, but not its number of accesses.
LEMMA ChangeIsQuiet ==
  ASSUME NEW mb, NEW m,
         mb \in Blocks => m.num_accesses = per_MB_historytable[mb].num_accesses,
         per_MB_historytable' = [per_MB_historytable EXCEPT ![mb] = m],
         pc \in Drawing, pc' \in Drawing, UNCHANGED_but_MB
  PROVE  Quiet
BY DEF Quiet, SameCounts, Blocks, UNCHANGED_but_MB

\* A macroblock that is given a history again has the accesses it had.
LEMMA ReinitCounts ==
  ASSUME NEW m \in MacroBlocks, NEW mb
  PROVE  reinit_MB_delta(m, mb).num_accesses = m.num_accesses
<1>1. reinit_first_addr(m).num_accesses = m.num_accesses
  BY DEF reinit_first_addr, MacroBlocks
<1>2. \A hist : [m EXCEPT !.last_N_deltas = hist].num_accesses = m.num_accesses
  BY DEF MacroBlocks
<1> QED  BY <1>1, <1>2 DEF reinit_MB_delta

LEMMA TakeNewIsQuiet ==
  ASSUME IInv, pc \in Drawing, NEW mb, TakeNewMB(mb) PROVE Quiet
<1> DEFINE m == per_MB_historytable[mb]
<1>1. CASE \E line : Abort(line)
  BY <1>1, AbortIsQuiet
<1>2. CASE /\ per_MB_historytable' = [per_MB_historytable EXCEPT ![mb] = [m EXCEPT !.first_proxy_gen = TRUE]]
           /\ pc' = "commit" /\ UNCHANGED_but_MB
  <2>1. mb \in Blocks => [m EXCEPT !.first_proxy_gen = TRUE].num_accesses = m.num_accesses
    BY BlockRecord DEF MacroBlocks
  <2> HIDE DEF m
  <2> QED  BY <1>2, <2>1, ChangeIsQuiet DEF Drawing, m
<1> QED  BY <1>1, <1>2 DEF TakeNewMB, Choose

LEMMA NextDeltaIsQuiet ==
  ASSUME IInv, pc \in Drawing, NEW mb, NEW reuse, get_next_delta(mb, reuse)
  PROVE  Quiet
<1> DEFINE m == per_MB_historytable[mb]
<1>1. CASE \E line : Abort(line)
  BY <1>1, AbortIsQuiet
<1>2. CASE /\ per_MB_historytable' =
                [per_MB_historytable EXCEPT ![mb] = [m EXCEPT !.first_N_deltas = Tail(m.first_N_deltas)]]
           /\ pc' = "commit" /\ UNCHANGED_but_MB
  <2>1. mb \in Blocks => [m EXCEPT !.first_N_deltas = Tail(m.first_N_deltas)].num_accesses = m.num_accesses
    BY BlockRecord DEF MacroBlocks
  <2> HIDE DEF m
  <2> QED  BY <1>2, <2>1, ChangeIsQuiet DEF Drawing, m
<1>3. CASE DrawDelta(mb, reuse)
  <2>1. pc' = "commit" /\ UNCHANGED <<input, per_MB_historytable, MB_reuse, last_macroblock_list,
                                      unique_mbs, unique_mb_ct, unique_MB_reuse, gen_elems, new_MBs>>
    BY <1>3 DEF DrawDelta, Choose
  <2> QED  BY <2>1 DEF Quiet, SameCounts, Blocks, Drawing
<1> QED  BY <1>1, <1>2, <1>3 DEF get_next_delta, ReplayDelta, Choose

LEMMA ContinueIsQuiet ==
  ASSUME IInv, pc \in Drawing, NEW mb, NEW reuse,
         NEW ACTION Otherwise, Otherwise => pc' \in Drawing,
         ContinueMB(mb, reuse, Otherwise)
  PROVE  Quiet
<1> DEFINE m == per_MB_historytable[mb]
<1>1. CASE get_next_delta(mb, reuse)
  BY <1>1, NextDeltaIsQuiet
<1>2. CASE \E line : Abort(line)
  BY <1>2, AbortIsQuiet
<1>3. CASE /\ per_MB_historytable' = [per_MB_historytable EXCEPT ![mb] = reinit_MB_delta(m, mb)]
           /\ IF StartsOver(m, mb) THEN Choose(mb, m.first_addr, reuse, 0, TRUE) ELSE Otherwise
           /\ UNCHANGED_but_MB
  <2>1. mb \in Blocks => reinit_MB_delta(m, mb).num_accesses = m.num_accesses
    BY BlockRecord, ReinitCounts
  <2>2. pc' \in Drawing
    BY <1>3, Zenon DEF Choose, Drawing
  <2> QED  BY <1>3, <2>1, <2>2, ChangeIsQuiet
<1> QED  BY <1>1, <1>2, <1>3, Zenon DEF ContinueMB

\* The steps that select an access, the whole of generate_proxy_access but its end.
Select ==
  \/ InitAccess \/ PickReuse \/ PickFresh \/ PickEvicted \/ GiveUp \/ PickLower
  \/ FallbackFresh \/ FallbackHigher \/ FallbackMiss
  \/ ForceMaxReuse \/ ForceOnList \/ ForceVisited

LEMMA InitAccessIsQuiet == ASSUME IInv, InitAccess PROVE Quiet
<1> DEFINE mb == MB(Head(init_addrs))
           m == per_MB_historytable[mb]
           rest == IF m.first_proxy_gen /\ m.first_N_deltas # << >> THEN Tail(m.first_N_deltas)
                   ELSE m.first_N_deltas
           m2 == [[m EXCEPT !.first_proxy_gen = TRUE] EXCEPT !.first_N_deltas = rest]
<1>1. pc \in Drawing
  BY DEF InitAccess, Drawing
<1>2. CASE \E line : Abort(line)
  BY <1>1, <1>2, AbortIsQuiet
<1>3. CASE /\ per_MB_historytable' = [per_MB_historytable EXCEPT
                ![mb].first_proxy_gen = TRUE, ![mb].first_N_deltas = rest]
           /\ pc' = "commit" /\ UNCHANGED_but_MB
  <2>1. mb \in Blocks => m2.num_accesses = m.num_accesses
    BY BlockRecord DEF MacroBlocks
  <2> HIDE DEF rest
  <2>2. mb \in Blocks => per_MB_historytable'[mb] = m2
    BY <1>3, BlockRecord DEF Blocks, MacroBlocks
  <2>3. Blocks' = Blocks /\ \A b \in Blocks : b # mb => per_MB_historytable'[b] = per_MB_historytable[b]
    BY <1>3 DEF Blocks
  <2> HIDE DEF m2, m, mb
  <2> QED  BY <1>1, <1>3, <2>1, <2>2, <2>3 DEF m, Quiet, SameCounts, UNCHANGED_but_MB, Drawing
<1> QED  BY <1>2, <1>3 DEF InitAccess, Choose

\* Selecting an access counts nothing.
LEMMA SelectIsQuiet == ASSUME IInv, Select PROVE Quiet
<1>1. pc \in Drawing
  BY DEF Select, Drawing, InitAccess, PickReuse, PickFresh, PickEvicted, GiveUp, PickLower,
         FallbackFresh, FallbackHigher, FallbackMiss, ForceMaxReuse, ForceOnList, ForceVisited
<1>2. CASE InitAccess
  BY <1>2, InitAccessIsQuiet
<1>3. CASE PickReuse
  <2>1. pc' \in Drawing /\ UNCHANGED <<input, profile, gen_elems, new_MBs>>
    BY <1>3 DEF PickReuse, Drawing
  <2> QED  BY <1>1, <2>1 DEF Quiet, SameCounts, Blocks, profile
<1>4. CASE PickFresh \/ FallbackFresh
  BY <1>1, <1>4, TakeNewIsQuiet DEF PickFresh, FallbackFresh
<1>5. ASSUME NEW label \in Drawing, GoTo(label) PROVE pc' \in Drawing
  BY <1>5 DEF GoTo
<1>6. ASSUME NEW mb, NEW reuse, RepeatLast(mb, reuse) PROVE pc' \in Drawing
  BY <1>6 DEF RepeatLast, Choose, Drawing
<1>7. CASE PickEvicted
  <2>1. PICK mb \in PickableMBs : ContinueMB(mb, MAX_MB_REUSE, GoTo(pc))
    BY <1>7 DEF PickEvicted
  <2> QED  BY <1>1, <1>5, <2>1, ContinueIsQuiet
<1>8. ASSUME pc' \in Drawing, UNCHANGED per_MB_historytable, UNCHANGED_but_MB PROVE Quiet
  BY <1>1, <1>8 DEF Quiet, SameCounts, Blocks, UNCHANGED_but_MB
<1>9. CASE GiveUp \/ FallbackMiss
  BY <1>8, <1>9 DEF GiveUp, FallbackMiss, GoTo, Drawing
<1>10. CASE PickLower
  <2> DEFINE mb == last_macroblock_list[temp_reuse + 1]
  <2>1. CASE ContinueMB(mb, temp_reuse, GoTo("fallback"))
    <3>1. GoTo("fallback") => pc' \in Drawing
      BY <1>5 DEF Drawing
    <3> HIDE DEF mb
    <3> QED  BY <1>1, <2>1, <3>1, ContinueIsQuiet
  <2>2. CASE GoTo("fallback") /\ UNCHANGED <<per_MB_historytable, init_addrs>> /\ UNCHANGED_but_MB
    BY <1>8, <2>2 DEF GoTo, Drawing
  <2> QED  BY <1>10, <2>1, <2>2 DEF PickLower
<1>11. CASE FallbackHigher
  <2>1. PICK p \in HigherReuse :
          ContinueMB(last_macroblock_list[p + 1], p, RepeatLast(last_macroblock_list[p + 1], temp_reuse))
    BY <1>11 DEF FallbackHigher
  <2> DEFINE mb == last_macroblock_list[p + 1]
  <2>2. ContinueMB(mb, p, RepeatLast(mb, temp_reuse))
    BY <2>1
  <2>3. RepeatLast(mb, temp_reuse) => pc' \in Drawing
    BY <1>6
  <2> HIDE DEF mb
  <2> QED  BY <1>1, <2>2, <2>3, ContinueIsQuiet
<1>12. CASE ForceMaxReuse
  <2>1. CASE Abort("1716")
    BY <1>1, <2>1, AbortIsQuiet
  <2>2. CASE pc' = "commit" /\ UNCHANGED <<per_MB_historytable, init_addrs>> /\ UNCHANGED_but_MB
    BY <1>8, <2>2 DEF Drawing
  <2> QED  BY <1>12, <2>1, <2>2 DEF ForceMaxReuse, Choose
<1>13. CASE ForceOnList
  BY <1>1, <1>13, NextDeltaIsQuiet DEF ForceOnList
<1>14. CASE ForceVisited
  <2>1. CASE Abort("1803")
    BY <1>1, <2>1, AbortIsQuiet
  <2>2. CASE \E mb, reuse : ContinueMB(mb, reuse, RepeatLast(mb, reuse))
    <3>1. PICK mb, reuse : ContinueMB(mb, reuse, RepeatLast(mb, reuse))
      BY <2>2
    <3>2. RepeatLast(mb, reuse) => pc' \in Drawing
      BY <1>6
    <3> QED  BY <1>1, <3>1, <3>2, ContinueIsQuiet
  <2> QED  BY <1>14, <2>1, <2>2, Zenon DEF ForceVisited
<1> QED  BY <1>2, <1>3, <1>4, <1>7, <1>9, <1>10, <1>11, <1>12, <1>13, <1>14 DEF Select

--------------------------------------------------------------------------------
(* Outputting an access *)

\* The access is counted once wherever its macroblock and its reuse distance are.
Counted ==
  LET mb == this.mb
  IN  /\ pc = "commit" /\ pc' = "next" /\ gen_elems < GEN_LEN
      /\ mb \in Blocks /\ Left(mb) \in Nat \ {0}
      /\ Blocks' = Blocks
      /\ \A b \in Blocks : per_MB_historytable'[b].num_accesses =
                             IF b = mb THEN Left(mb) - 1 ELSE Left(b)
      /\ last_macroblock_list' = update_mb_reuse_list(last_macroblock_list, mb)
      /\ MB_reuse' = [MB_reuse EXCEPT ![this.reuse] = IF @ > 0 THEN @ - 1 ELSE @]
      /\ new_MBs' = [b \in DOMAIN new_MBs \cup {mb} |->
                       (IF b \in DOMAIN new_MBs THEN new_MBs[b] ELSE 0) + (IF b = mb THEN 1 ELSE 0)]
      /\ unique_MB_reuse' = Spend(unique_MB_reuse, {this.reuse})
      /\ unique_mb_ct' = Spend(unique_mb_ct, {i \in DOMAIN unique_mbs : unique_mbs[i] = mb})
      /\ gen_elems' = gen_elems + 1
      /\ UNCHANGED <<input, unique_mbs>>

\* An access is output and counted, or an assertion fails.
LEMMA CommitCounts ==
  ASSUME IInv, Commit PROVE Counted \/ (Quiet /\ pc' = "abort")
<1> DEFINE mb    == this.mb
           old   == per_MB_historytable[mb]
           m     == proxy_access(old, this.delta, this.first, this.addr)
           again == mb \in DOMAIN new_MBs /\ m.last_N_deltas # << >>
           m2    == IF again THEN reinit_MB_delta(m, mb) ELSE m
<1>1. pc = "commit" /\ gen_elems < GEN_LEN /\ pc \in Drawing
  BY DEF Commit, IInv, ControlInv, Drawing
<1>2. mb \in Blocks /\ this.delta \in Int /\ this.addr \in Int /\ this.first \in BOOLEAN
  BY <1>1 DEF IInv, ChosenInv
<1>3. old \in MacroBlocks /\ BlockOK(old)
  BY <1>2, BlockRecord DEF IInv, RecordInv
<1>4. CASE \E line : Abort(line)
  BY <1>1, <1>4, AbortIsQuiet DEF Abort
<1>5. CASE ~ \E line : Abort(line)
  <2>1. /\ Left(mb) # 0
        /\ per_MB_historytable' = [per_MB_historytable EXCEPT ![mb] = m2]
        /\ last_macroblock_list' = update_mb_reuse_list(last_macroblock_list, mb)
        /\ MB_reuse' = [MB_reuse EXCEPT ![this.reuse] = IF @ > 0 THEN @ - 1 ELSE @]
        /\ new_MBs' = [b \in DOMAIN new_MBs \cup {mb} |->
                         (IF b \in DOMAIN new_MBs THEN new_MBs[b] ELSE 0) + (IF b = mb THEN 1 ELSE 0)]
        /\ unique_MB_reuse' = Spend(unique_MB_reuse, {this.reuse})
        /\ unique_mb_ct' = Spend(unique_mb_ct, {i \in DOMAIN unique_mbs : unique_mbs[i] = mb})
        /\ gen_elems' = gen_elems + 1
        /\ pc' = "next"
        /\ UNCHANGED <<input, unique_mbs>>
    <3> HIDE DEF m, old
    <3> QED  BY <1>5 DEF Commit, m, old
  <2>2. Left(mb) = old.num_accesses /\ Left(mb) \in Nat
    BY <1>3 DEF MacroBlocks, Left
  <2>3. m2.num_accesses = Left(mb) - 1
    <3>1. m \in MacroBlocks /\ m.num_accesses = old.num_accesses - 1
      <4> HIDE DEF old
      <4>1. m.num_accesses = old.num_accesses - 1
        BY <1>3 DEF proxy_access, MacroBlocks
      <4>2. BlockOK(m)
        BY <1>2, <1>3, <2>1, <2>2, OutputBlock
      <4> QED  BY <4>1, <4>2 DEF BlockOK
    <3> HIDE DEF m, old
    <3>2. reinit_MB_delta(m, mb).num_accesses = m.num_accesses
      BY <3>1, ReinitCounts
    <3> QED  BY <2>2, <3>1, <3>2
  <2> HIDE DEF m2
  <2>4. /\ Blocks' = Blocks
        /\ \A b \in Blocks : per_MB_historytable'[b] = IF b = mb THEN m2 ELSE per_MB_historytable[b]
    BY <2>1 DEF Blocks
  <2>5. \A b \in Blocks : per_MB_historytable'[b].num_accesses = IF b = mb THEN Left(mb) - 1 ELSE Left(b)
    BY <2>3, <2>4 DEF Left
  <2> HIDE DEF mb
  <2> QED  BY <1>1, <1>2, <2>1, <2>2, <2>4, <2>5 DEF Counted, mb
<1> QED  BY <1>4, <1>5

\* The accesses are still the same when the generator is prepared.
LEMMA PrepareCounts == ASSUME IInv, Prepare PROVE SameCounts
<1> SUFFICES ASSUME NEW b \in Blocks
             PROVE  per_MB_historytable'[b].num_accesses = per_MB_historytable[b].num_accesses
  BY DEF SameCounts, Prepare, Blocks
<1>1. per_MB_historytable'[b] = reset(per_MB_historytable[b])
  BY DEF Prepare, Blocks
<1> QED  BY <1>1, BlockRecord DEF reset, MacroBlocks

--------------------------------------------------------------------------------
(* The weights *)

\* The weights are taken from the counts.
LEMMA PrepareWeighs == ASSUME IInv, Prepare PROVE WeightsInSync'
<1> DEFINE n     == Len(unique_mbs)
           ct    == [i \in 1 .. n |-> Left(unique_mbs[i])]
<1>1. /\ unique_mb_ct' = unique_mb_ct \o ct
      /\ unique_MB_reuse' = [r \in {q \in 0 .. MAX_MB_REUSE : MB_reuse[q] > 0} |-> MB_reuse[r]]
      /\ per_MB_historytable' = [b \in Blocks |-> reset(per_MB_historytable[b])]
      /\ UNCHANGED <<MB_reuse, unique_mbs>>
  BY DEF Prepare, Left, Blocks
<1>2. unique_mb_ct = << >> /\ unique_mbs \in Seq(Blocks) /\ n \in Nat
  BY DEF Prepare, IInv, RecordInv
<1>3. \A b \in Blocks : Left(b) \in Nat /\ Left(b)' = Left(b)
  BY PrepareCounts, BlockRecord DEF SameCounts, Left, MacroBlocks
<1>4. \A i \in 1 .. n : unique_mbs[i] \in Blocks
  BY <1>2, ElementOfSeq
<1> HIDE DEF n
<1>5. ct \in Seq(Nat) /\ Len(ct) = n /\ \A i \in 1 .. n : ct[i] = Left(unique_mbs[i])
  BY <1>2, <1>3, <1>4
<1> HIDE DEF ct
<1>6. unique_mb_ct' = ct
  BY <1>1, <1>2, <1>5, ConcatEmptySeq
<1>7. Len(unique_mb_ct)' = Len(unique_mbs)' /\ Len(unique_mbs)' = n
  BY <1>1, <1>5, <1>6 DEF n
<1>8. \A i \in 1 .. n : unique_mb_ct'[i] = Left(unique_mbs[i])'
  BY <1>1, <1>3, <1>4, <1>5, <1>6 DEF Left
<1>9. /\ \A r \in DOMAIN unique_MB_reuse' : unique_MB_reuse'[r] = MB_reuse'[r]
      /\ \A r \in 0 .. MAX_MB_REUSE : MB_reuse'[r] > 0 => r \in DOMAIN unique_MB_reuse'
  BY <1>1
<1> QED  BY <1>7, <1>8, <1>9 DEF WeightsInSync

\* An access that is output is taken from the weights as from the counts.
LEMMA CommitWeighs == ASSUME IInv, WeightsInSync, Counted PROVE WeightsInSync'
<1> DEFINE mb == this.mb
           hits == {i \in DOMAIN unique_mbs : unique_mbs[i] = mb}
<1>1. Generating
  BY DEF Counted, Generating
<1>2. /\ Len(unique_mb_ct) = Len(unique_mbs)
      /\ \A i \in 1 .. Len(unique_mbs) : unique_mb_ct[i] = Left(unique_mbs[i])
      /\ \A r \in DOMAIN unique_MB_reuse : unique_MB_reuse[r] = MB_reuse[r]
      /\ \A r \in 0 .. MAX_MB_REUSE : MB_reuse[r] > 0 => r \in DOMAIN unique_MB_reuse
  BY <1>1 DEF WeightsInSync
<1>3. /\ unique_mb_ct' = Spend(unique_mb_ct, hits)
      /\ unique_MB_reuse' = Spend(unique_MB_reuse, {this.reuse})
      /\ MB_reuse' = [MB_reuse EXCEPT ![this.reuse] = IF @ > 0 THEN @ - 1 ELSE @]
      /\ unique_mbs' = unique_mbs /\ mb \in Blocks /\ Left(mb) \in Nat \ {0}
      /\ \A b \in Blocks : Left(b)' = IF b = mb THEN Left(mb) - 1 ELSE Left(b)
  BY DEF Counted, Left
<1>4. /\ unique_mbs \in Seq(Blocks) /\ unique_mb_ct \in Seq(Int)
      /\ MB_reuse \in [0 .. MAX_MB_REUSE -> Nat] /\ DOMAIN unique_MB_reuse \subseteq 0 .. MAX_MB_REUSE
  BY DEF IInv, RecordInv
<1>5. Len(unique_mb_ct') = Len(unique_mbs)
  BY <1>2, <1>3, <1>4, SpentWeights
<1>6. ASSUME NEW i \in 1 .. Len(unique_mbs)
      PROVE  unique_mb_ct'[i] = Left(unique_mbs[i])'
  <2>1. unique_mbs[i] \in Blocks
    BY <1>4, ElementOfSeq
  <2>2. /\ i \in DOMAIN unique_mb_ct
        /\ i \in hits <=> unique_mbs[i] = mb
    BY <1>2, <1>4
  <2>3. unique_mb_ct'[i] = IF unique_mbs[i] = mb /\ unique_mb_ct[i] > 0 THEN unique_mb_ct[i] - 1
                           ELSE unique_mb_ct[i]
    BY <1>3, <2>2 DEF Spend
  <2>4. unique_mb_ct[i] = Left(unique_mbs[i])
    BY <1>2
  <2> HIDE DEF mb, hits
  <2>5. Left(unique_mbs[i])' = IF unique_mbs[i] = mb THEN Left(mb) - 1 ELSE Left(unique_mbs[i])
    BY <1>3, <2>1 DEF Left
  <2> QED  BY <1>3, <2>3, <2>4, <2>5
<1>7. \A r \in DOMAIN unique_MB_reuse : /\ r \in DOMAIN unique_MB_reuse'
                                        /\ unique_MB_reuse'[r] = MB_reuse'[r]
  <2> SUFFICES ASSUME NEW r \in DOMAIN unique_MB_reuse
               PROVE  r \in DOMAIN unique_MB_reuse' /\ unique_MB_reuse'[r] = MB_reuse'[r]
    OBVIOUS
  <2>1. r \in 0 .. MAX_MB_REUSE /\ unique_MB_reuse[r] = MB_reuse[r]
    BY <1>2, <1>4
  <2> QED  BY <1>3, <1>4, <2>1 DEF Spend
<1>8. ASSUME NEW r \in 0 .. MAX_MB_REUSE, MB_reuse'[r] > 0 PROVE r \in DOMAIN unique_MB_reuse'
  <2>1. MB_reuse[r] > 0
    BY <1>3, <1>4, <1>8
  <2> QED  BY <1>2, <1>7, <2>1
<1>9. DOMAIN unique_MB_reuse' = DOMAIN unique_MB_reuse
  BY <1>3 DEF Spend
<1> QED  BY <1>3, <1>5, <1>6, <1>7, <1>8, <1>9 DEF WeightsInSync

LEMMA QuietWeighs == ASSUME IInv, WeightsInSync, Quiet PROVE WeightsInSync'
<1>1. CASE pc' = "abort"
  BY <1>1 DEF WeightsInSync, Generating
<1>2. CASE pc' # "abort"
  <2>1. Generating
    BY DEF Quiet, Generating, Drawing
  <2>2. unique_mbs \in Seq(Blocks)
    BY DEF IInv, RecordInv
  <2>3. \A i \in 1 .. Len(unique_mbs) : Left(unique_mbs[i])' = Left(unique_mbs[i])
    <3>1. \A i \in 1 .. Len(unique_mbs) : unique_mbs[i] \in Blocks
      BY <2>2, ElementOfSeq
    <3> QED  BY <3>1 DEF Left, Quiet, SameCounts
  <2> QED  BY <2>1, <2>3 DEF WeightsInSync, Quiet
<1> QED  BY <1>1, <1>2

\* The weights rand() is matched against stay equal to the counts they are kept for.
THEOREM WeightsStayInSync == Spec => []WeightsInSync
<1>1. Init => WeightsInSync
  BY DEF Init, WeightsInSync, Generating
<1>2. IInv /\ WeightsInSync /\ [Next]_vars => WeightsInSync'
  <2> SUFFICES ASSUME IInv, WeightsInSync, [Next]_vars PROVE WeightsInSync'
    OBVIOUS
  <2>1. CASE ReadElement \/ EndOfTrace \/ PhaseClear
    <3>1. ~ Generating'
      BY <2>1 DEF ReadElement, EndOfTrace, PhaseClear, Generating
    <3> QED  BY <3>1 DEF WeightsInSync
  <2>2. CASE Prepare
    BY <2>2, PrepareWeighs
  <2>3. CASE Select
    BY <2>3, SelectIsQuiet, QuietWeighs
  <2>4. CASE Commit
    BY <2>4, CommitCounts, CommitWeighs, QuietWeighs
  <2>5. CASE UNCHANGED vars
    BY <2>5 DEF WeightsInSync, Generating, Left, vars, profile
  <2> QED  BY <2>1, <2>2, <2>3, <2>4, <2>5 DEF Next, Step, Terminated, Select
<1> QED  BY <1>1, <1>2, Invariance, PTL DEF Spec

--------------------------------------------------------------------------------
(* The accesses of a phase *)

\* Where the next element lies in its phase.
LEMMA NextRemainder ==
  ASSUME NEW n \in Nat, NEW len \in Nat \ {0}
  PROVE  /\ n % len \in 0 .. len - 1
         /\ (n + 1) % len = IF n % len = len - 1 THEN 0 ELSE (n % len) + 1
<1> DEFINE r == n % len
           q == n \div len
<1>1. r \in 0 .. len - 1 /\ q \in Int /\ n = len * q + r
  OBVIOUS
<1>2. CASE r = len - 1
  <2>1. n + 1 = len * (q + 1) + 0
    BY <1>1, <1>2
  <2> QED  BY <1>1, <1>2, <2>1
<1>3. CASE r # len - 1
  <2>1. n + 1 = len * q + (r + 1) /\ r + 1 \in 0 .. len - 1
    BY <1>1, <1>3
  <2>2. (n + 1) % len = r + 1
    <3> HIDE DEF r, q
    <3> QED  BY <1>1, <2>1
  <2> QED  BY <1>1, <1>3, <2>2
<1> QED  BY <1>2, <1>3

\* An element that is read is counted for its macroblock.
ReadCounted ==
  LET mb == MB(trace[num_elems + 1])
  IN  /\ Blocks' = Blocks \cup {mb}
      /\ \A b \in Blocks' :
           per_MB_historytable'[b].num_accesses =
             (IF b \in Blocks THEN Left(b) ELSE 0) + (IF b = mb THEN 1 ELSE 0)

LEMMA ReadCounts == ASSUME IInv, ReadElement PROVE ReadCounted
<1> DEFINE addr == trace[num_elems + 1]
           mb == MB(addr)
           m == per_MB_historytable[mb]
<1>1. mem_access(addr)
  BY DEF ReadElement
<1> HIDE DEF addr
<1>2. CASE mb \in Blocks
  <2>1. per_MB_historytable' = [per_MB_historytable EXCEPT ![mb] = access_mb(m, addr)]
    BY <1>1, <1>2 DEF mem_access, Blocks
  <2>2. m \in MacroBlocks
    BY <1>2, BlockRecord
  <2>3. access_mb(m, addr).num_accesses = m.num_accesses + 1
    BY <2>2 DEF access_mb, MacroBlocks
  <2>4. \A b \in Blocks : Left(b) \in Nat
    BY BlockRecord DEF MacroBlocks, Left
  <2>5. m.num_accesses = Left(mb)
    BY DEF Left
  <2> HIDE DEF mb, m
  <2>6. Blocks' = Blocks
    BY <2>1 DEF Blocks
  <2>7. \A b \in Blocks' : per_MB_historytable'[b].num_accesses =
                             IF b = mb THEN Left(mb) + 1 ELSE Left(b)
    BY <2>1, <2>3, <2>5, <2>6 DEF Blocks, Left
  <2> QED  BY <1>2, <2>4, <2>6, <2>7 DEF ReadCounted, mb, addr
<1>3. CASE mb \notin Blocks
  <2>1. per_MB_historytable' =
          [b \in Blocks \cup {mb} |-> IF b = mb THEN MACRO_BLOCK_LOC(addr) ELSE per_MB_historytable[b]]
    BY <1>1, <1>3 DEF mem_access, Blocks
  <2>2. MACRO_BLOCK_LOC(addr).num_accesses = 1
    BY DEF MACRO_BLOCK_LOC
  <2>3. \A b \in Blocks : Left(b) \in Nat
    BY BlockRecord DEF MacroBlocks, Left
  <2> HIDE DEF mb
  <2>4. Blocks' = Blocks \cup {mb}
    BY <2>1 DEF Blocks
  <2>5. \A b \in Blocks' : per_MB_historytable'[b].num_accesses =
                             IF b = mb THEN 1 ELSE per_MB_historytable[b].num_accesses
    BY <2>1, <2>2, <2>4
  <2> QED  BY <1>3, <2>3, <2>4, <2>5 DEF ReadCounted, Left, mb, addr
<1> QED  BY <1>2, <1>3

\* What the accesses of the phase add up to, and where the phase ends.
CountInv ==
  /\ BudgetConserved
  /\ pc \in Drawing \cup {"prepare"} => num_elems % PHASE_LEN = 0
  /\ \A mb \in DOMAIN new_MBs : new_MBs[mb] \in Nat

\* The phase is extended by the element that is read.
LEMMA ReadExtendsPhase ==
  ASSUME IInv, ReadElement
  PROVE  Phase' = Phase \cup {num_elems + 1} /\ num_elems + 1 \notin Phase /\ IsFiniteSet(Phase)
<1>1. num_elems \in Nat /\ PHASE_LEN \in Nat \ {0} /\ num_elems' = num_elems + 1 /\ pc = "profile"
  <2>1. trace \in Seq(Nat)
    BY HaloAssumption DEF IInv, ControlInv
  <2> QED  BY <2>1, HaloAssumption DEF IInv, ControlInv, ReadElement
<1> DEFINE r == num_elems % PHASE_LEN
<1>2. /\ r \in 0 .. PHASE_LEN - 1
      /\ (num_elems + 1) % PHASE_LEN = IF r = PHASE_LEN - 1 THEN 0 ELSE r + 1
  BY <1>1, NextRemainder
<1>3. pc' = IF (num_elems + 1) % PHASE_LEN = 0 THEN "prepare" ELSE "profile"
  BY <1>1 DEF ReadElement
<1>4. Phase = num_elems - r + 1 .. num_elems
  BY <1>1 DEF Phase
<1> HIDE DEF r
<1>5. Phase' = num_elems - r + 1 .. num_elems + 1
  <2>1. CASE r = PHASE_LEN - 1
    BY <1>1, <1>2, <1>3, <2>1 DEF Phase
  <2>2. CASE r # PHASE_LEN - 1
    BY <1>1, <1>2, <1>3, <2>2 DEF Phase
  <2> QED  BY <2>1, <2>2
<1>6. IsFiniteSet(num_elems - r + 1 .. num_elems)
  BY <1>1, <1>2, FS_Interval
<1> QED  BY <1>1, <1>2, <1>4, <1>5, <1>6

\* An element that is read adds one to the accesses of its macroblock.
LEMMA ReadConserves == ASSUME IInv, CountInv, ReadElement PROVE CountInv'
<1> DEFINE next == num_elems + 1
           mb == MB(trace[next])
<1>1. /\ trace' = trace /\ new_MBs' = new_MBs /\ pc = "profile"
      /\ num_elems' = next /\ pc' = IF num_elems' % PHASE_LEN = 0 THEN "prepare" ELSE pc
  BY DEF ReadElement, generator
<1>2. DOMAIN new_MBs = {}
  BY <1>1 DEF IInv, TouchInv
<1>3. Phase' = Phase \cup {next} /\ next \notin Phase /\ IsFiniteSet(Phase)
  BY ReadExtendsPhase
<1>4. /\ Blocks' = Blocks \cup {mb}
      /\ \A b \in Blocks' : Left(b)' = (IF b \in Blocks THEN Left(b) ELSE 0) + (IF b = mb THEN 1 ELSE 0)
  BY ReadCounts DEF ReadCounted, Left
<1>5. /\ Blocks = {MB(trace[i]) : i \in Phase}
      /\ \A b \in Blocks : Left(b) + Generated(b) = Cardinality(Touches(b)) /\ Generated(b) = 0
  BY <1>1, <1>2 DEF CountInv, BudgetConserved, Blocks, Generated
<1>6. Blocks' = {MB(trace'[i]) : i \in Phase'}
  BY <1>1, <1>3, <1>4, <1>5
<1>7. ASSUME NEW b \in Blocks'
      PROVE  Left(b)' + Generated(b)' = Cardinality(Touches(b))'
  <2>1. Generated(b)' = 0
    BY <1>1, <1>2 DEF Generated
  <2>2. IsFiniteSet(Touches(b)) /\ next \notin Touches(b)
    BY <1>3, FS_Subset DEF Touches
  <2>3. Touches(b)' = IF b = mb THEN Touches(b) \cup {next} ELSE Touches(b)
    BY <1>1, <1>3 DEF Touches
  <2>4. Cardinality(Touches(b)) \in Nat
    BY <2>2, FS_CardinalityType
  <2>5. Cardinality(Touches(b)') = Cardinality(Touches(b)) + (IF b = mb THEN 1 ELSE 0)
    <3> HIDE DEF mb
    <3>1. CASE b = mb
      BY <2>2, <2>3, <2>4, <3>1, FS_AddElement
    <3>2. CASE b # mb
      BY <2>3, <2>4, <3>2
    <3> QED  BY <3>1, <3>2
  <2>6. Cardinality(Touches(b)) = IF b \in Blocks THEN Left(b) ELSE 0
    <3>1. CASE b \in Blocks
      <4>1. Left(b) \in Nat
        BY <3>1, BlockRecord DEF Left, MacroBlocks
      <4> QED  BY <1>5, <3>1, <4>1
    <3>2. CASE b \notin Blocks
      <4>1. Touches(b) = {}
        BY <1>5, <3>2 DEF Touches
      <4> QED  BY <3>2, <4>1, FS_EmptySet
    <3> QED  BY <3>1, <3>2
  <2> HIDE DEF mb
  <2> QED  BY <1>4, <2>1, <2>4, <2>5, <2>6
<1>8. BudgetConserved'
  BY <1>1, <1>2, <1>6, <1>7 DEF BudgetConserved, Blocks
<1>9. pc' \in Drawing \cup {"prepare"} => num_elems' % PHASE_LEN = 0
  BY <1>1 DEF Drawing
<1> QED  BY <1>1, <1>2, <1>8, <1>9 DEF CountInv

\* What counts nothing, within a phase, conserves the accesses.
LEMMA SameCountsConserve ==
  ASSUME CountInv, SameCounts, pc \in Drawing \cup {"prepare"}, pc' \in Drawing \cup {"abort"},
         UNCHANGED <<input, new_MBs>>
  PROVE  CountInv'
<1>1. CASE pc' = "abort"
  BY <1>1 DEF CountInv, BudgetConserved, Drawing
<1>2. CASE pc' # "abort"
  <2>1. Phase' = Phase
    BY <1>2 DEF Phase, input, Drawing
  <2>2. \A b \in Blocks : /\ Left(b)' = Left(b) /\ Generated(b)' = Generated(b)
                          /\ Touches(b)' = Touches(b)
    BY <2>1 DEF SameCounts, Left, Generated, Touches, input
  <2>3. /\ Blocks = {MB(trace[i]) : i \in Phase} /\ DOMAIN new_MBs \subseteq Blocks
        /\ \A b \in Blocks : Left(b) + Generated(b) = Cardinality(Touches(b))
    BY DEF CountInv, BudgetConserved, Blocks, Drawing
  <2>4. BudgetConserved'
    BY <2>1, <2>2, <2>3 DEF BudgetConserved, SameCounts, Blocks, input
  <2> QED  BY <2>4 DEF CountInv, input
<1> QED  BY <1>1, <1>2

\* An access that is output is one more generated and one less left.
LEMMA CommitConserves == ASSUME CountInv, IInv, Counted PROVE CountInv'
<1> DEFINE mb == this.mb
<1>1. /\ pc = "commit" /\ pc' = "next" /\ mb \in Blocks /\ Left(mb) \in Nat \ {0}
      /\ Blocks' = Blocks /\ UNCHANGED <<trace, num_elems>>
      /\ \A b \in Blocks : Left(b)' = IF b = mb THEN Left(mb) - 1 ELSE Left(b)
      /\ new_MBs' = [b \in DOMAIN new_MBs \cup {mb} |->
                       (IF b \in DOMAIN new_MBs THEN new_MBs[b] ELSE 0) + (IF b = mb THEN 1 ELSE 0)]
  BY DEF Counted, Left, input
<1> HIDE DEF mb
<1>2. /\ Phase' = Phase /\ \A b : Touches(b)' = Touches(b)
  BY <1>1 DEF Phase, Touches
<1>3. /\ Blocks = {MB(trace[i]) : i \in Phase} /\ DOMAIN new_MBs \subseteq Blocks
      /\ \A b \in Blocks : Left(b) + Generated(b) = Cardinality(Touches(b))
      /\ num_elems % PHASE_LEN = 0 /\ \A b \in DOMAIN new_MBs : new_MBs[b] \in Nat
  BY <1>1 DEF CountInv, BudgetConserved, Blocks, Drawing
<1>4. \A b \in Blocks : /\ Generated(b) \in Nat
                        /\ Generated(b)' = Generated(b) + (IF b = mb THEN 1 ELSE 0)
  BY <1>1, <1>3 DEF Generated
<1>5. \A b \in Blocks : Left(b) \in Nat
  BY BlockRecord DEF Left, MacroBlocks
<1>6. \A b \in Blocks : Left(b)' + Generated(b)' = Left(b) + Generated(b)
  BY <1>1, <1>4, <1>5
<1>7. BudgetConserved'
  BY <1>1, <1>2, <1>3, <1>6 DEF BudgetConserved, Blocks
<1>8. \A b \in DOMAIN new_MBs' : new_MBs'[b] \in Nat
  BY <1>1, <1>3
<1> QED  BY <1>1, <1>3, <1>7, <1>8 DEF CountInv

\* The next phase begins with no accesses.
LEMMA ClearConserves == ASSUME CountInv, IInv, PhaseClear PROVE CountInv'
<1>1. /\ pc = "next" /\ pc' = "profile" /\ UNCHANGED <<trace, num_elems>>
      /\ per_MB_historytable' = NoEntries /\ new_MBs' = NoEntries
  BY DEF PhaseClear, input
<1>2. num_elems \in Nat /\ num_elems % PHASE_LEN = 0
  <2>1. trace \in Seq(Nat)
    BY HaloAssumption DEF IInv, ControlInv
  <2> QED  BY <1>1, <2>1 DEF CountInv, Drawing, IInv, ControlInv
<1>3. Phase' = {}
  BY <1>1, <1>2 DEF Phase
<1>4. BudgetConserved'
  BY <1>1, <1>3 DEF BudgetConserved, NoEntries
<1> QED  BY <1>1, <1>4 DEF CountInv, NoEntries, Drawing

\* Every step conserves the accesses.
LEMMA NextConserves == IInv /\ CountInv /\ [Next]_vars => CountInv'
<1> SUFFICES ASSUME IInv, CountInv, [Next]_vars PROVE CountInv'
  OBVIOUS
<1>1. CASE ReadElement
  BY <1>1, ReadConserves
<1>2. CASE EndOfTrace
  <2>1. /\ pc = "profile" /\ pc' = "done"
        /\ UNCHANGED <<trace, num_elems, per_MB_historytable, new_MBs>>
    BY <1>2 DEF EndOfTrace, input, profile, generator
  <2> QED  BY <2>1 DEF CountInv, BudgetConserved, Phase, Touches, Left, Generated, Drawing
<1>3. CASE Prepare
  <2>1. pc = "prepare" /\ pc' = "next" /\ UNCHANGED <<input, new_MBs>>
    BY <1>3 DEF Prepare, generator
  <2> QED  BY <1>3, <2>1, PrepareCounts, SameCountsConserve DEF Drawing
<1>4. CASE Quiet
  BY <1>4, SameCountsConserve DEF Quiet
<1>5. CASE Commit
  BY <1>4, <1>5, CommitCounts, CommitConserves
<1>6. CASE PhaseClear
  BY <1>6, ClearConserves
<1>7. CASE UNCHANGED vars
  BY <1>7 DEF CountInv, BudgetConserved, Phase, Touches, Left, Generated, vars, input, profile, generator
<1> QED
  BY <1>1, <1>2, <1>3, <1>4, <1>5, <1>6, <1>7, SelectIsQuiet DEF Next, Step, Terminated, Select

\* Before anything is read nothing is counted.
LEMMA InitConserves == Init => CountInv
<1> SUFFICES ASSUME Init PROVE CountInv
  OBVIOUS
<1>1. num_elems = 0 /\ num_elems % PHASE_LEN = 0
  BY HaloAssumption DEF Init
<1>2. Phase = {}
  BY <1>1 DEF Init, Phase
<1> QED  BY <1>2 DEF Init, CountInv, BudgetConserved, NoEntries, Drawing

\* Every profiled access of a macroblock is either still to be generated or has been.
THEOREM AccessesAreConserved == Spec => []BudgetConserved
<1>1. Spec => []CountInv
  BY Invariance, InitConserves, NextConserves, PTL DEF Spec
<1>2. CountInv => BudgetConserved
  BY DEF CountInv
<1> QED  BY <1>1, <1>2, PTL

--------------------------------------------------------------------------------
(* HaloBudget is implemented *)

\* An element that is read adds to the budget of its macroblock.
LEMMA ReadIsCount == ASSUME IInv, ReadElement PROVE Budget!Count
<1> DEFINE mb == MB(trace[num_elems + 1])
           left == [b \in DOMAIN per_MB_historytable |-> per_MB_historytable[b].num_accesses]
<1>1. /\ pc = "profile" /\ num_elems < Len(trace) /\ num_elems' = num_elems + 1
      /\ pc' = IF num_elems' % PHASE_LEN = 0 THEN "prepare" ELSE "profile"
      /\ UNCHANGED <<trace, gen_elems>>
  BY DEF ReadElement, generator
<1>2. left' = [b \in DOMAIN left \cup {mb} |->
                 (IF b \in DOMAIN left THEN left[b] ELSE 0) + (IF b = mb THEN 1 ELSE 0)]
  <2>1. /\ Blocks' = Blocks \cup {mb}
        /\ \A b \in Blocks' : per_MB_historytable'[b].num_accesses =
                                (IF b \in Blocks THEN Left(b) ELSE 0) + (IF b = mb THEN 1 ELSE 0)
    BY ReadCounts DEF ReadCounted
  <2> HIDE DEF mb
  <2> QED  BY <2>1 DEF Blocks, Left
<1>3. mb = trace[num_elems + 1] \div MACROBLOCK_SIZE
  BY DEF MB
<1> QED  BY <1>1, <1>2, <1>3 DEF Budget!Count

\* An access that is output is drawn from the budget of its macroblock.
LEMMA CommitIsDraw == ASSUME IInv, Counted PROVE Budget!Draw
<1> DEFINE left == [b \in DOMAIN per_MB_historytable |-> per_MB_historytable[b].num_accesses]
<1>1. /\ pc = "commit" /\ pc' = "next" /\ gen_elems < PHASE_LEN \div 5
      /\ gen_elems' = gen_elems + 1 /\ UNCHANGED <<trace, num_elems>>
  BY DEF Counted, GEN_LEN, input
<1>2. this.mb \in DOMAIN left /\ left[this.mb] > 0 /\ left' = [left EXCEPT ![this.mb] = @ - 1]
  <2>1. /\ this.mb \in Blocks /\ Left(this.mb) > 0
        /\ Blocks' = Blocks
        /\ \A b \in Blocks : per_MB_historytable'[b].num_accesses =
                               IF b = this.mb THEN Left(this.mb) - 1 ELSE Left(b)
    BY DEF Counted
  <2> QED  BY <2>1 DEF Blocks, Left
<1> QED  BY <1>1, <1>2 DEF Budget!Draw

\* Every step counts, draws, clears or ends, or changes no budget.
LEMMA NextIsBudget == IInv /\ [Next]_vars => [Budget!Next]_Budget!vars
<1> SUFFICES ASSUME IInv, [Next]_vars PROVE Budget!Next \/ UNCHANGED Budget!vars
  OBVIOUS
<1> DEFINE left == [b \in DOMAIN per_MB_historytable |-> per_MB_historytable[b].num_accesses]
<1> USE DEF Budget!Next
<1>1. CASE ReadElement
  BY <1>1, ReadIsCount
<1>2. CASE EndOfTrace
  <2>1. /\ pc = "profile" /\ num_elems = Len(trace) /\ pc' = "done"
        /\ UNCHANGED <<trace, num_elems, per_MB_historytable, gen_elems>>
    BY <1>2 DEF EndOfTrace, input, profile, generator
  <2> QED  BY <2>1 DEF Budget!End
<1>3. ASSUME SameCounts PROVE left' = left
  BY <1>3 DEF SameCounts, Blocks
<1>4. CASE Prepare
  <2>1. pc = "prepare" /\ pc' = "next" /\ UNCHANGED <<trace, num_elems, gen_elems>> /\ left' = left
    BY <1>3, <1>4, PrepareCounts DEF Prepare, input, generator
  <2> QED  BY <2>1 DEF Budget!vars
<1>5. CASE Quiet
  <2>1. /\ pc \in Drawing /\ pc' \in Drawing \cup {"abort"}
        /\ UNCHANGED <<trace, num_elems, gen_elems>> /\ left' = left
    BY <1>3, <1>5 DEF Quiet, input
  <2>2. CASE pc' = "abort"
    BY <2>1, <2>2 DEF Budget!End, Drawing
  <2>3. CASE pc' # "abort"
    BY <2>1, <2>3 DEF Budget!vars, Drawing
  <2> QED  BY <2>2, <2>3
<1>6. CASE Commit
  BY <1>5, <1>6, CommitCounts, CommitIsDraw
<1>7. CASE PhaseClear
  <2>1. /\ pc = "next" /\ gen_elems = PHASE_LEN \div 5 /\ pc' = "profile" /\ gen_elems' = 0
        /\ UNCHANGED <<trace, num_elems>>
    BY <1>7 DEF PhaseClear, GEN_LEN, input
  <2>2. left' = [b \in {} |-> 0]
    BY <1>7 DEF PhaseClear, NoEntries
  <2> QED  BY <2>1, <2>2 DEF Budget!Clear
<1>8. CASE UNCHANGED vars
  BY <1>8 DEF vars, input, profile, generator, Budget!vars
<1> QED
  BY <1>1, <1>2, <1>4, <1>5, <1>6, <1>7, <1>8, SelectIsQuiet DEF Next, Step, Terminated, Select

\* The generator draws from the recorded accesses without replacement: HaloBudget.
THEOREM ImplementsBudget == Spec => DrawsWithoutReplacement
<1>1. Init => Budget!Init
  BY DEF Init, Budget!Init, NoEntries
<1> QED  BY <1>1, NextIsBudget, Invariance, PTL DEF Spec, DrawsWithoutReplacement, Budget!Spec
--------------------------------------------------------------------------------
(* The inductive invariant *)

\* The first address of a macroblock, and the one after it, lie in it.
Home(m, mb) ==
  /\ MB(m.first_addr) = mb
  /\ m.saved_first_N_deltas # << >> => MB(m.first_addr + Head(m.saved_first_N_deltas)) = mb

\* There is something to go on from.
Ready(m) == m.first_N_deltas # << >> \/ m.last_N_deltas # << >>

\* The access that is chosen is the next of its macroblock: its delta is about to be pushed.
Advances(mb) == pc = "commit" /\ this.mb = mb /\ ~ this.first

HomeInv == \A mb \in Blocks : Home(per_MB_historytable[mb], mb)

\* A macroblock without first deltas was accessed once.
OnceInv ==
  /\ \A mb \in DOMAIN new_MBs : new_MBs[mb] \in Nat \ {0}
  /\ pc # "abort" =>
       \A mb \in Blocks :
         per_MB_historytable[mb].saved_first_N_deltas = << >> => Left(mb) + Generated(mb) = 1
  /\ pc = "profile" =>
       \A mb \in Blocks : per_MB_historytable[mb].saved_first_N_deltas = << >> =>
         per_MB_historytable[mb].last_addr = per_MB_historytable[mb].first_addr

GoOnInv ==
  Generating =>
    \A mb \in DOMAIN new_MBs :
      /\ MB(per_MB_historytable[mb].last_addr) = mb
      /\ Left(mb) > 0 => Ready(per_MB_historytable[mb]) \/ Advances(mb)

\* What is known of next, a chosen access; m is what is recorded of its macroblock.
ChosenOK(next, m) ==
  /\ MB(next.addr) = next.mb
  /\ next.first \/ next.addr = m.last_addr + next.delta
  /\ next.mb \notin DOMAIN new_MBs => next.first /\ m.first_N_deltas = m.saved_first_N_deltas

HistoryInv ==
  /\ HomeInv
  /\ OnceInv
  /\ GoOnInv
  /\ pc = "commit" => ChosenOK(this, per_MB_historytable[this.mb])
  /\ ReinitSucceeds

--------------------------------------------------------------------------------
(* Selecting an access *)

\* A failed assertion changes nothing.
LEMMA AbortKeepsHistory ==
  ASSUME HistoryInv, NEW line, line \notin {"1090", "1100", "1149"}, Abort(line)
  PROVE  HistoryInv'
<1>1. /\ pc' = "abort" /\ assert_failed' = line
      /\ UNCHANGED <<per_MB_historytable, new_MBs, this>>
  BY DEF Abort, profile, generator
<1> QED
  BY <1>1 DEF HistoryInv, HomeInv, OnceInv, GoOnInv, Generating, ReinitSucceeds, Blocks

\* Moving on to another case changes no macroblock.
LEMMA MoveOnKeepsHistory ==
  ASSUME HistoryInv, pc \in Drawing \ {"commit"}, pc' \in Drawing \ {"commit"},
         UNCHANGED <<per_MB_historytable, new_MBs, assert_failed>>
  PROVE  HistoryInv'
<1>1. HomeInv' /\ ReinitSucceeds'
  BY DEF HistoryInv, HomeInv, ReinitSucceeds, Blocks
<1>2. OnceInv'
  BY DEF HistoryInv, OnceInv, Blocks, Left, Generated, Drawing
<1>3. GoOnInv'
  BY DEF HistoryInv, GoOnInv, Generating, Left, Advances, Drawing
<1> QED
  BY <1>1, <1>2, <1>3 DEF HistoryInv

\* Trying a macroblock keeps the invariant if it leaves it ready, or with a delta to push.
LEMMA TryKeepsHistory ==
  ASSUME HistoryInv, pc \in Drawing \ {"commit"}, pc' \in Drawing,
         NEW mb \in Blocks, NEW m,
         Blocks' = Blocks,
         \A b \in Blocks : per_MB_historytable'[b] = IF b = mb THEN m ELSE per_MB_historytable[b],
         UNCHANGED <<new_MBs, assert_failed>>,
         m.first_addr = per_MB_historytable[mb].first_addr,
         m.saved_first_N_deltas = per_MB_historytable[mb].saved_first_N_deltas,
         m.num_accesses = Left(mb),
         mb \in DOMAIN new_MBs =>
           MB(m.last_addr) = mb /\ (Left(mb) > 0 => Ready(m) \/ Advances(mb)'),
         pc' = "commit" => this'.mb = mb /\ ChosenOK(this', m),
         DOMAIN new_MBs \subseteq Blocks
  PROVE  HistoryInv'
<1>1. HomeInv' /\ ReinitSucceeds'
  BY DEF HistoryInv, HomeInv, ReinitSucceeds, Home
<1>2. OnceInv'
  <2>1. \A b \in Blocks : Left(b)' = Left(b) /\ Generated(b)' = Generated(b)
    BY DEF Left, Generated
  <2>2. pc # "profile" /\ pc' # "profile" /\ pc # "abort"
    BY DEF Drawing
  <2> QED  BY <2>1, <2>2 DEF HistoryInv, OnceInv
<1>3. GoOnInv'
  <2> SUFFICES ASSUME NEW b \in DOMAIN new_MBs
               PROVE  /\ MB(per_MB_historytable'[b].last_addr) = b
                      /\ Left(b)' > 0 => Ready(per_MB_historytable'[b]) \/ Advances(b)'
    BY DEF GoOnInv, Ready
  <2>1. Generating /\ ~ Advances(b)
    BY DEF Drawing, Generating, Advances
  <2>2. b \in Blocks /\ Left(b)' = Left(b)
    BY DEF Left
  <2>3. MB(per_MB_historytable[b].last_addr) = b /\ (Left(b) > 0 => Ready(per_MB_historytable[b]))
    BY <2>1 DEF HistoryInv, GoOnInv
  <2> QED  BY <2>2, <2>3
<1>4. pc' = "commit" => ChosenOK(this, per_MB_historytable[this.mb])'
  BY DEF ChosenOK
<1> QED
  BY <1>1, <1>2, <1>3, <1>4 DEF HistoryInv

\* A generated macroblock with accesses left has first deltas to be started over with.
LEMMA StartsAgain ==
  ASSUME IInv, HistoryInv, pc # "abort", NEW mb \in DOMAIN new_MBs, Left(mb) > 0
  PROVE  /\ mb \in Blocks /\ per_MB_historytable[mb] \in MacroBlocks
         /\ per_MB_historytable[mb].saved_first_N_deltas # << >>
<1>1. mb \in Blocks /\ per_MB_historytable[mb] \in MacroBlocks
  BY BlockRecord DEF IInv, RecordInv
<1>2. Left(mb) \in Nat \ {0} /\ Generated(mb) \in Nat \ {0}
  BY <1>1 DEF MacroBlocks, Left, HistoryInv, OnceInv, Generated
<1>3. Left(mb) + Generated(mb) # 1
  BY <1>2
<1> QED  BY <1>1, <1>3 DEF HistoryInv, OnceInv

\* What drawing a delta promises: it leads to an address in the macroblock.
LEMMA DrawnStays ==
  ASSUME TablesInv, NEW mb, NEW m, NEW draw \in RandomDraws(mb, m) \cup ForcedDraws(mb, m)
  PROVE  MB(m.last_addr + draw[2]) = mb
<1>1. CASE draw \in RandomDraws(mb, m)
  BY <1>1 DEF RandomDraws
<1>2. CASE draw \in ForcedDraws(mb, m)
  <2>1. PICK n \in Usable(m) :
          /\ is_any_delta_valid(Entry(m, n), m.last_addr, mb)
          /\ draw = <<n, get_forced_delta(Entry(m, n), m.last_addr, mb)>>
    BY <1>2 DEF ForcedDraws
  <2> DEFINE live == LiveFollowers(Entry(m, n), m.last_addr, mb)
  <2>2. EntryOK(Entry(m, n))
    BY DEF Usable, Entry, TablesInv
  <2>3. live \in SUBSET Int /\ IsFiniteSet(live) /\ live # {}
    BY <2>1, <2>2, FS_Subset DEF is_any_delta_valid, LiveFollowers, EntryOK
  <2>4. \E d \in live : \A o \in live : d <= o
    <3> HIDE DEF live
    <3> QED  BY <2>3, LeastOfFinite
  <2>5. get_forced_delta(Entry(m, n), m.last_addr, mb) \in live
    BY <2>4 DEF get_forced_delta
  <2> QED  BY <2>1, <2>5 DEF LiveFollowers
<1> QED  BY <1>1, <1>2

\* An access with a delta is within its macroblock, whether it is replayed or drawn.
LEMMA NextDeltaKeepsHistory ==
  ASSUME IInv, HistoryInv, Looking, NEW mb \in DOMAIN new_MBs, NEW reuse,
         get_next_delta(mb, reuse)
  PROVE  HistoryInv'
<1> DEFINE m == per_MB_historytable[mb]
<1>1. /\ mb \in Blocks /\ m \in MacroBlocks /\ DOMAIN new_MBs \subseteq Blocks
      /\ MB(m.last_addr) = mb /\ pc \in Drawing \ {"commit"}
  BY BlockRecord DEF IInv, RecordInv, HistoryInv, GoOnInv, Generating, Looking, Drawing
<1>2. CASE ReplayDelta(mb, reuse)
  <2> DEFINE d == Head(m.first_N_deltas)
             m2 == [m EXCEPT !.first_N_deltas = Tail(m.first_N_deltas)]
  <2>1. CASE Abort("935")
    BY <2>1, AbortKeepsHistory
  <2>2. CASE ~ Abort("935")
    <3>1. /\ MB(m.last_addr + d) = mb
          /\ per_MB_historytable' = [per_MB_historytable EXCEPT ![mb] = m2]
          /\ Choose(mb, m.last_addr + d, reuse, d, FALSE)
          /\ UNCHANGED_but_MB
      BY <1>2, <2>2 DEF ReplayDelta
    <3>2. /\ m2.first_addr = m.first_addr /\ m2.saved_first_N_deltas = m.saved_first_N_deltas
          /\ m2.num_accesses = Left(mb) /\ m2.last_addr = m.last_addr
      BY <1>1 DEF MacroBlocks, Left
    <3> HIDE DEF m2, d
    <3>3. /\ Blocks' = Blocks
          /\ \A b \in Blocks :
               per_MB_historytable'[b] = IF b = mb THEN m2 ELSE per_MB_historytable[b]
      BY <3>1 DEF Blocks
    <3>4. pc' = "commit" /\ this'.mb = mb /\ Advances(mb)' /\ ChosenOK(this', m2)
      BY <3>1, <3>2 DEF Choose, Advances, ChosenOK
    <3> QED
      BY <1>1, <3>1, <3>2, <3>3, <3>4, TryKeepsHistory DEF UNCHANGED_but_MB, Drawing
  <2> QED  BY <2>1, <2>2
<1>3. CASE DrawDelta(mb, reuse)
  <2>1. PICK draw \in RandomDraws(mb, m) \cup ForcedDraws(mb, m) :
          Choose(mb, m.last_addr + draw[2], reuse, draw[2], FALSE)
    BY <1>3 DEF DrawDelta
  <2>2. MB(m.last_addr + draw[2]) = mb
    BY DrawnStays DEF IInv
  <2>3. UNCHANGED <<per_MB_historytable, new_MBs, assert_failed>>
    BY <1>3 DEF DrawDelta
  <2>4. pc' = "commit" /\ this'.mb = mb /\ Advances(mb)' /\ ChosenOK(this', m)
    BY <2>1, <2>2 DEF Choose, Advances, ChosenOK
  <2>5. /\ Blocks' = Blocks
        /\ \A b \in Blocks :
             per_MB_historytable'[b] = IF b = mb THEN m ELSE per_MB_historytable[b]
    BY <2>3 DEF Blocks
  <2>6. m.num_accesses = Left(mb)
    BY DEF Left
  <2> HIDE DEF m
  <2> QED
    BY <1>1, <2>3, <2>4, <2>5, <2>6, TryKeepsHistory DEF Drawing, m
<1> QED
  BY <1>2, <1>3 DEF get_next_delta

\* A macroblock that is ready and has been accessed more than once can be given a history
\* again: no assertion of reinit_MB_delta fails, and it is ready.
LEMMA ReinitReady ==
  ASSUME NEW m, BlockOK(m), NEW mb, Home(m, mb), MB(m.last_addr) = mb,
         Ready(m), m.saved_first_N_deltas # << >>
  PROVE  /\ ReinitAssert(m, mb) = "none"
         /\ reinit_MB_delta(m, mb).first_addr = m.first_addr
         /\ reinit_MB_delta(m, mb).saved_first_N_deltas = m.saved_first_N_deltas
         /\ MB(reinit_MB_delta(m, mb).last_addr) = mb
         /\ Ready(reinit_MB_delta(m, mb))
<1>1. m \in MacroBlocks
  BY DEF BlockOK
<1>2. ReinitAssert(m, mb) = "none"
  BY DEF ReinitAssert, Ready, Home, reuse_first_addr
<1>3. CASE m.first_N_deltas # << >>
  BY <1>2, <1>3 DEF reinit_MB_delta
<1>4. CASE m.first_N_deltas = << >> /\ StartsOver(m, mb)
  <2> DEFINE new == [m EXCEPT !.first_N_deltas = m.saved_first_N_deltas,
                              !.last_N_deltas = << >>, !.last_addr = m.first_addr]
  <2>1. reinit_MB_delta(m, mb) = new
    BY <1>4 DEF reinit_MB_delta, reinit_first_addr
  <2>2. /\ new.first_addr = m.first_addr /\ new.last_addr = m.first_addr
        /\ new.saved_first_N_deltas = m.saved_first_N_deltas
        /\ new.first_N_deltas = m.saved_first_N_deltas
    BY <1>1 DEF MacroBlocks
  <2> HIDE DEF new
  <2> QED  BY <1>2, <2>1, <2>2 DEF Ready, Home
<1>5. CASE m.first_N_deltas = << >> /\ ~ StartsOver(m, mb)
  <2> DEFINE hist == m.last_N_deltas
             Good(n) == Continues(SubSeq(hist, 1, n), m, mb)
             T == {n \in 1 .. Len(hist) : Good(n)}
             kept == CHOOSE n \in 1 .. Len(hist) : Good(n) /\ \A l \in n + 1 .. Len(hist) : ~ Good(l)
  <2>1. hist \in Seq(Int) /\ Len(hist) \in Nat
    BY <1>1 DEF MacroBlocks
  <2>2. T # {} /\ T \subseteq 0 .. Len(hist)
    BY <1>5, <2>1 DEF StartsOver
  <2> HIDE DEF Good, hist
  <2>3. PICK x \in T : \A y \in T : y <= x
    <3> HIDE DEF T
    <3> QED  BY <2>1, <2>2, GreatestNatural
  <2>4. x \in 1 .. Len(hist) /\ Good(x) /\ \A l \in x + 1 .. Len(hist) : ~ Good(l)
    BY <2>1, <2>3
  <2>5. kept \in 1 .. Len(hist)
    BY <2>4
  <2>6. reinit_MB_delta(m, mb) = [m EXCEPT !.last_N_deltas = SubSeq(hist, 1, kept)]
    BY <1>5 DEF reinit_MB_delta, Good, hist
  <2> HIDE DEF kept
  <2>7. SubSeq(hist, 1, kept) # << >>
    <3>1. \A i \in 1 .. kept : hist[i] \in Int
      BY <2>1, <2>5
    <3>2. Len(SubSeq(hist, 1, kept)) = IF 1 <= kept THEN kept - 1 + 1 ELSE 0
      BY <2>5, <3>1, SubSeqProperties
    <3> QED  BY <2>1, <2>5, <3>2
  <2> DEFINE new == [m EXCEPT !.last_N_deltas = SubSeq(hist, 1, kept)]
  <2>8. /\ new.first_addr = m.first_addr /\ new.last_addr = m.last_addr
        /\ new.saved_first_N_deltas = m.saved_first_N_deltas
        /\ new.last_N_deltas = SubSeq(hist, 1, kept)
    BY <1>1 DEF MacroBlocks
  <2> HIDE DEF new
  <2>9. reinit_MB_delta(m, mb) = new
    BY <2>6 DEF new
  <2> QED  BY <1>2, <2>7, <2>8, <2>9 DEF Ready
<1> QED
  BY <1>3, <1>4, <1>5

\* Trying a generated macroblock: its next delta, its first address again, or what
\* Otherwise does, which chooses its last address or moves on.
LEMMA ContinueKeepsHistory ==
  ASSUME IInv, HistoryInv, Looking, NEW mb \in DOMAIN new_MBs, Left(mb) > 0, NEW reuse,
         NEW ACTION Otherwise,
         Otherwise => \/ pc' \in Drawing \ {"commit"}
                      \/ \E r : RepeatLast(mb, r),
         ContinueMB(mb, reuse, Otherwise)
  PROVE  HistoryInv'
<1> DEFINE m == per_MB_historytable[mb]
           m2 == reinit_MB_delta(m, mb)
<1>1. /\ mb \in Blocks /\ m \in MacroBlocks /\ BlockOK(m) /\ DOMAIN new_MBs \subseteq Blocks
      /\ m.saved_first_N_deltas # << >>
  BY StartsAgain, BlockRecord DEF IInv, RecordInv, Looking, BlockOK
<1>2. /\ MB(m.last_addr) = mb /\ Ready(m) /\ Home(m, mb) /\ pc \in Drawing \ {"commit"}
  BY <1>1 DEF HistoryInv, GoOnInv, HomeInv, Advances, Generating, Looking, Drawing
<1>3. CASE get_next_delta(mb, reuse)
  BY <1>3, NextDeltaKeepsHistory
<1>4. CASE ~ get_next_delta(mb, reuse)
  <2>1. /\ ReinitAssert(m, mb) = "none"
        /\ m2.first_addr = m.first_addr /\ m2.saved_first_N_deltas = m.saved_first_N_deltas
        /\ MB(m2.last_addr) = mb /\ Ready(m2)
    <3> HIDE DEF m
    <3> QED  BY <1>1, <1>2, ReinitReady
  <2>2. m2.num_accesses = Left(mb)
    BY <1>1, ReinitCounts DEF Left
  <2>3. /\ per_MB_historytable' = [per_MB_historytable EXCEPT ![mb] = m2]
        /\ IF StartsOver(m, mb) THEN Choose(mb, m.first_addr, reuse, 0, TRUE) ELSE Otherwise
        /\ UNCHANGED_but_MB
    BY <1>4, <2>1, Zenon DEF ContinueMB
  <2> HIDE DEF m2
  <2>4. /\ Blocks' = Blocks
        /\ \A b \in Blocks :
             per_MB_historytable'[b] = IF b = mb THEN m2 ELSE per_MB_historytable[b]
    BY <2>3 DEF Blocks
  <2>5. ASSUME NEW addr, MB(addr) = mb, NEW r, Choose(mb, addr, r, 0, TRUE)
        PROVE  pc' = "commit" /\ this'.mb = mb /\ ChosenOK(this', m2)
    BY <2>5 DEF Choose, ChosenOK
  <2>6. /\ pc' \in Drawing
        /\ pc' = "commit" => this'.mb = mb /\ ChosenOK(this', m2)
    <3> HIDE DEF m
    <3>1. CASE StartsOver(m, mb)
      <4>1. Choose(mb, m.first_addr, reuse, 0, TRUE) /\ MB(m.first_addr) = mb
        BY <1>2, <2>3, <3>1, Zenon DEF Home
      <4> QED  BY <2>5, <4>1 DEF Drawing
    <3>2. CASE pc' \in Drawing \ {"commit"}
      BY <3>2
    <3>3. CASE \E r : RepeatLast(mb, r)
      <4>1. PICK r : Choose(mb, m.last_addr, r, 0, TRUE)
        BY <3>3 DEF RepeatLast, m
      <4> QED  BY <1>2, <2>5, <4>1 DEF Drawing
    <3> QED  BY <2>3, <3>1, <3>2, <3>3, Zenon
  <2> HIDE DEF m
  <2>7. UNCHANGED <<new_MBs, assert_failed>>
    BY <2>3 DEF UNCHANGED_but_MB
  <2> QED
    BY <1>1, <1>2, <2>1, <2>2, <2>4, <2>6, <2>7, TryKeepsHistory DEF m
<1> QED
  BY <1>3, <1>4

\* A macroblock that has not been generated is entered at its first address.
LEMMA TakeNewKeepsHistory ==
  ASSUME IInv, HistoryInv, Looking, NEW mb \in Blocks, mb \notin DOMAIN new_MBs, TakeNewMB(mb)
  PROVE  HistoryInv'
<1> DEFINE m == per_MB_historytable[mb]
           m2 == [m EXCEPT !.first_proxy_gen = TRUE]
<1>1. /\ m \in MacroBlocks /\ Home(m, mb) /\ Untouched(m) /\ DOMAIN new_MBs \subseteq Blocks
      /\ pc \in Drawing \ {"commit"}
  BY BlockRecord DEF IInv, RecordInv, TouchInv, Visited, Looking, HistoryInv, HomeInv, Drawing
<1>2. /\ per_MB_historytable' = [per_MB_historytable EXCEPT ![mb] = m2]
      /\ Choose(mb, m.first_addr, MAX_MB_REUSE, 0, TRUE)
      /\ UNCHANGED_but_MB
  BY <1>1, Zenon DEF TakeNewMB, Untouched
<1>3. /\ m2.first_addr = m.first_addr /\ m2.saved_first_N_deltas = m.saved_first_N_deltas
      /\ m2.first_N_deltas = m.first_N_deltas /\ m2.num_accesses = Left(mb)
  BY <1>1 DEF MacroBlocks, Left
<1> HIDE DEF m2
<1>4. /\ Blocks' = Blocks
      /\ \A b \in Blocks : per_MB_historytable'[b] = IF b = mb THEN m2 ELSE per_MB_historytable[b]
  BY <1>2 DEF Blocks
<1>5. pc' = "commit" /\ this'.mb = mb /\ ChosenOK(this', m2)
  BY <1>1, <1>2, <1>3 DEF Choose, ChosenOK, Home, Untouched
<1>6. UNCHANGED <<new_MBs, assert_failed>>
  BY <1>2 DEF UNCHANGED_but_MB
<1> QED
  BY <1>1, <1>3, <1>4, <1>5, <1>6, TryKeepsHistory DEF Drawing

LEMMA PickLowerKeepsHistory == ASSUME IInv, HistoryInv, PickLower PROVE HistoryInv'
<1> DEFINE mb == last_macroblock_list[temp_reuse + 1]
<1>1. Looking /\ pc \in Drawing \ {"commit"}
  BY DEF PickLower, Looking, Drawing
<1>2. temp_reuse \in 0 .. Len(last_macroblock_list) - 1
  BY DEF PickLower, IInv, ControlInv, ListInv
<1>3. mb \in DOMAIN new_MBs
  BY <1>1, <1>2, ListedGenerated
<1>4. GoTo("fallback") => pc' \in Drawing \ {"commit"}
  BY DEF GoTo, Drawing
<1> HIDE DEF mb
<1>5. CASE Left(mb) > 0 /\ ContinueMB(mb, temp_reuse, GoTo("fallback"))
  BY <1>1, <1>3, <1>4, <1>5, ContinueKeepsHistory
<1>6. CASE GoTo("fallback") /\ UNCHANGED per_MB_historytable /\ UNCHANGED_but_MB
  BY <1>1, <1>4, <1>6, MoveOnKeepsHistory DEF UNCHANGED_but_MB
<1> QED
  BY <1>5, <1>6, Zenon DEF PickLower, mb

LEMMA FallbackHigherKeepsHistory == ASSUME IInv, HistoryInv, FallbackHigher PROVE HistoryInv'
<1>1. Looking
  BY DEF FallbackHigher, Looking
<1>2. PICK p \in HigherReuse :
        ContinueMB(last_macroblock_list[p + 1], p,
                   RepeatLast(last_macroblock_list[p + 1], temp_reuse))
  BY DEF FallbackHigher
<1> DEFINE mb == last_macroblock_list[p + 1]
<1>3. p \in 0 .. Len(last_macroblock_list) - 1
  <2>1. max_nonzero_reuse \in Nat /\ Len(last_macroblock_list) \in Nat
    BY GreatestReuse DEF FallbackHigher, IInv, ListInv
  <2> QED  BY <2>1 DEF HigherReuse
<1>4. mb \in DOMAIN new_MBs /\ Left(mb) > 0 /\ ContinueMB(mb, p, RepeatLast(mb, temp_reuse))
  BY <1>1, <1>2, <1>3, ListedGenerated DEF HigherReuse
<1> HIDE DEF mb
<1>5. RepeatLast(mb, temp_reuse) => \E r : RepeatLast(mb, r)
  OBVIOUS
<1> QED
  BY <1>1, <1>4, <1>5, ContinueKeepsHistory

\* Case 9 enters a macroblock at its first address, generated before or not.
LEMMA ForceMaxReuseKeepsHistory == ASSUME IInv, HistoryInv, ForceMaxReuse PROVE HistoryInv'
<1>1. Looking /\ pc \in Drawing \ {"commit"} /\ Generating
  BY DEF ForceMaxReuse, Looking, Drawing, Generating
<1>2. CASE Abort("1716")
  BY <1>2, AbortKeepsHistory
<1>3. CASE /\ \E mb \in OffList :
                Choose(mb, per_MB_historytable[mb].first_addr, MAX_MB_REUSE, 0, TRUE)
           /\ UNCHANGED per_MB_historytable
           /\ UNCHANGED_but_MB
  <2>1. PICK mb \in OffList :
          Choose(mb, per_MB_historytable[mb].first_addr, MAX_MB_REUSE, 0, TRUE)
    BY <1>3
  <2> DEFINE m == per_MB_historytable[mb]
  <2>2. /\ mb \in Blocks /\ Home(m, mb) /\ DOMAIN new_MBs \subseteq Blocks
        /\ mb \notin DOMAIN new_MBs => Untouched(m)
        /\ mb \in DOMAIN new_MBs => MB(m.last_addr) = mb /\ (Left(mb) > 0 => Ready(m))
    BY <1>1 DEF OffList, Blocks, IInv, RecordInv, TouchInv, Visited, HistoryInv, HomeInv, GoOnInv,
                Advances, Drawing
  <2>3. /\ Blocks' = Blocks
        /\ \A b \in Blocks : per_MB_historytable'[b] = IF b = mb THEN m ELSE per_MB_historytable[b]
    BY <1>3 DEF Blocks
  <2>4. pc' = "commit" /\ this'.mb = mb /\ ChosenOK(this', m)
    BY <2>1, <2>2 DEF Choose, ChosenOK, Home, Untouched
  <2>5. UNCHANGED <<new_MBs, assert_failed>> /\ m.num_accesses = Left(mb)
    BY <1>3 DEF UNCHANGED_but_MB, Left
  <2> HIDE DEF m
  <2> QED
    BY <1>1, <2>2, <2>3, <2>4, <2>5, TryKeepsHistory DEF Drawing, m
<1> QED
  BY <1>2, <1>3 DEF ForceMaxReuse

LEMMA ForceVisitedKeepsHistory == ASSUME IInv, HistoryInv, ForceVisited PROVE HistoryInv'
<1> DEFINE rest == {b \in DOMAIN new_MBs : Left(b) > 0}
           mb == CHOOSE b \in rest : \A o \in rest : b <= o
           reuse == is_mb_used(last_macroblock_list, mb)
<1>1. Looking
  BY DEF ForceVisited, Looking
<1>2. CASE rest = {}
  <2>1. Abort("1803")
    BY <1>2 DEF ForceVisited
  <2> QED  BY <2>1, AbortKeepsHistory
<1>3. CASE rest # {}
  <2>1. ContinueMB(mb, reuse, RepeatLast(mb, reuse))
    BY <1>3 DEF ForceVisited
  <2>2. rest \subseteq Nat
    BY DEF IInv, RecordInv
  <2>3. mb \in rest
    <3>1. \E b \in rest : \A o \in rest : b <= o
      <4> HIDE DEF rest
      <4> QED  BY <1>3, <2>2, LeastNatural
    <3> QED  BY <3>1
  <2>4. mb \in DOMAIN new_MBs /\ Left(mb) > 0
    BY <2>3
  <2> HIDE DEF mb, reuse
  <2>5. RepeatLast(mb, reuse) => \E r : RepeatLast(mb, r)
    OBVIOUS
  <2> QED
    BY <1>1, <2>1, <2>4, <2>5, ContinueKeepsHistory
<1> QED
  BY <1>2, <1>3

\* A first address that is replayed is the next of its macroblock, or the first.
LEMMA InitAccessKeepsHistory == ASSUME IInv, HistoryInv, InitAccess PROVE HistoryInv'
<1> DEFINE addr == Head(init_addrs)
<1>1. PICK mb : mb = MB(addr)
  OBVIOUS
<1> DEFINE m == per_MB_historytable[mb]
           d == addr - m.last_addr
           reuse == is_mb_used(last_macroblock_list, mb)
           rest == IF m.first_proxy_gen /\ m.first_N_deltas # << >> THEN Tail(m.first_N_deltas)
                   ELSE m.first_N_deltas
           m2 == [m EXCEPT !.first_proxy_gen = TRUE, !.first_N_deltas = rest]
<1>2. pc = "next" /\ gen_elems <= MAX_INIT_ELEMS /\ pc \in Drawing \ {"commit"} /\ Generating
  BY DEF InitAccess, Drawing, Generating
<1>3. CASE \E line \in {"1272", "422", "1282"} : Abort(line)
  BY <1>3, AbortKeepsHistory
<1>4. CASE ~ \E line \in {"1272", "422", "1282"} : Abort(line)
  <2>1. /\ init_addrs # << >>
        /\ per_MB_historytable' = [per_MB_historytable EXCEPT
             ![mb].first_proxy_gen = TRUE, ![mb].first_N_deltas = rest]
        /\ IF m.first_proxy_gen THEN Choose(mb, addr, reuse, d, FALSE)
           ELSE Choose(mb, addr, reuse, 0, TRUE)
        /\ UNCHANGED_but_MB
    BY <1>4, <1>1, Zenon DEF InitAccess
  <2>2. addr \in Int /\ mb \in Blocks
    <3>1. init_addrs \in Seq(Int) /\ \A i \in 1 .. Len(init_addrs) : MB(init_addrs[i]) \in Blocks
      BY DEF IInv, RecordInv
    <3>2. 1 \in 1 .. Len(init_addrs) /\ Head(init_addrs) = init_addrs[1]
      BY <2>1, <3>1
    <3> QED  BY <1>1, <2>1, <3>1, <3>2
  <2>3. m \in MacroBlocks /\ DOMAIN new_MBs \subseteq Blocks
    BY <2>2, BlockRecord DEF IInv, RecordInv
  <2>4. /\ mb \in DOMAIN new_MBs => m.first_proxy_gen /\ MB(m.last_addr) = mb
        /\ mb \notin DOMAIN new_MBs => Untouched(m)
    BY <1>2, <2>2 DEF IInv, TouchInv, Visited, HistoryInv, GoOnInv
  <2>5. per_MB_historytable'[mb] = m2
    BY <2>1, <2>2, <2>3 DEF Blocks, MacroBlocks
  <2>6. /\ m2.first_addr = m.first_addr /\ m2.saved_first_N_deltas = m.saved_first_N_deltas
        /\ m2.first_N_deltas = rest /\ m2.num_accesses = Left(mb) /\ m2.last_addr = m.last_addr
    BY <2>3 DEF MacroBlocks, Left
  <2> HIDE DEF m2, rest
  <2>7. /\ Blocks' = Blocks
        /\ \A b \in Blocks : per_MB_historytable'[b] = IF b = mb THEN m2 ELSE per_MB_historytable[b]
    BY <2>1, <2>5 DEF Blocks
  <2>8. UNCHANGED <<new_MBs, assert_failed>>
    BY <2>1 DEF UNCHANGED_but_MB
  <2>9. CASE m.first_proxy_gen
    <3>1. mb \in DOMAIN new_MBs /\ MB(m.last_addr) = mb
      BY <2>4, <2>9 DEF Untouched
    <3>2. Choose(mb, addr, reuse, d, FALSE)
      BY <2>1, <2>9, Zenon
    <3>3. addr = m.last_addr + d
      BY <2>2, <2>3 DEF MacroBlocks
    <3> HIDE DEF d, reuse
    <3>4. pc' = "commit" /\ this'.mb = mb /\ Advances(mb)' /\ ChosenOK(this', m2)
      BY <1>1, <2>6, <3>1, <3>2, <3>3 DEF Choose, Advances, ChosenOK
    <3> HIDE DEF m
    <3> QED
      BY <1>2, <2>2, <2>3, <2>6, <2>7, <2>8, <3>1, <3>4, TryKeepsHistory DEF Drawing, m
  <2>10. CASE ~ m.first_proxy_gen
    <3>1. mb \notin DOMAIN new_MBs /\ m2.first_N_deltas = m.saved_first_N_deltas
      BY <2>4, <2>6, <2>10 DEF Untouched, rest
    <3>2. Choose(mb, addr, reuse, 0, TRUE)
      BY <2>1, <2>10, Zenon
    <3> HIDE DEF reuse
    <3>3. pc' = "commit" /\ this'.mb = mb /\ ChosenOK(this', m2)
      BY <1>1, <2>6, <3>1, <3>2 DEF Choose, ChosenOK
    <3> HIDE DEF m
    <3> QED
      BY <1>2, <2>2, <2>3, <2>6, <2>7, <2>8, <3>1, <3>3, TryKeepsHistory DEF Drawing, m
  <2> QED  BY <2>9, <2>10
<1> QED
  BY <1>3, <1>4

\* Every step that selects an access keeps the invariant.
LEMMA SelectKeepsHistory == ASSUME IInv, HistoryInv, Select PROVE HistoryInv'
<1>1. CASE InitAccess
  BY <1>1, InitAccessKeepsHistory
<1>2. CASE PickReuse
  <2>1. pc \in Drawing \ {"commit"} /\ pc' \in Drawing \ {"commit"}
    BY <1>2 DEF PickReuse, Drawing
  <2> QED  BY <1>2, <2>1, MoveOnKeepsHistory DEF PickReuse, profile
<1>3. CASE PickFresh \/ FallbackFresh
  <2>1. Looking
    BY <1>3 DEF PickFresh, FallbackFresh, Looking
  <2>2. PICK mb \in PickableMBs : Fresh(mb) /\ TakeNewMB(mb)
    BY <1>3 DEF PickFresh, FallbackFresh
  <2> QED  BY <2>1, <2>2, PickableRecorded, TakeNewKeepsHistory DEF Fresh
<1>4. CASE PickEvicted
  <2>1. Looking /\ pc \in Drawing \ {"commit"}
    BY <1>4 DEF PickEvicted, Looking, Drawing
  <2>2. PICK mb \in DOMAIN new_MBs : Left(mb) > 0 /\ ContinueMB(mb, MAX_MB_REUSE, GoTo(pc))
    BY <1>4 DEF PickEvicted
  <2>3. GoTo(pc) => pc' \in Drawing \ {"commit"}
    BY <2>1 DEF GoTo
  <2> QED  BY <2>1, <2>2, <2>3, ContinueKeepsHistory
<1>5. CASE GiveUp \/ FallbackMiss
  <2>1. pc \in Drawing \ {"commit"} /\ pc' \in Drawing \ {"commit"}
    BY <1>5 DEF GiveUp, FallbackMiss, GoTo, Drawing
  <2> QED  BY <1>5, <2>1, MoveOnKeepsHistory DEF GiveUp, FallbackMiss, UNCHANGED_but_MB
<1>6. CASE PickLower
  BY <1>6, PickLowerKeepsHistory
<1>7. CASE FallbackHigher
  BY <1>7, FallbackHigherKeepsHistory
<1>8. CASE ForceMaxReuse
  BY <1>8, ForceMaxReuseKeepsHistory
<1>9. CASE ForceOnList
  <2>1. Looking
    BY <1>9 DEF ForceOnList, Looking
  <2>2. PICK p \in OnListCandidates : get_next_delta(last_macroblock_list[p + 1], p)
    BY <1>9 DEF ForceOnList
  <2> QED  BY <2>1, <2>2, ListedGenerated, NextDeltaKeepsHistory DEF OnListCandidates
<1>10. CASE ForceVisited
  BY <1>10, ForceVisitedKeepsHistory
<1> QED
  BY <1>1, <1>2, <1>3, <1>4, <1>5, <1>6, <1>7, <1>8, <1>9, <1>10 DEF Select

--------------------------------------------------------------------------------
(* Outputting an access *)

\* A macroblock that an access is output for; it then ends at the address output.
LEMMA OutputFields ==
  ASSUME NEW m \in MacroBlocks, NEW d \in Int, NEW first \in BOOLEAN, NEW addr
  PROVE  LET new == proxy_access(m, d, first, addr)
         IN  /\ new.first_addr = m.first_addr
             /\ new.saved_first_N_deltas = m.saved_first_N_deltas
             /\ new.first_N_deltas = m.first_N_deltas
             /\ new.last_addr = addr
             /\ first => new.last_N_deltas = m.last_N_deltas
             /\ ~ first => new.last_N_deltas # << >>
<1> DEFINE hist == IF first THEN m.last_N_deltas ELSE PushDelta(m.last_N_deltas, d)
           new == [m EXCEPT !.last_N_deltas = hist, !.last_addr = addr,
                            !.num_accesses = m.num_accesses - 1]
<1>1. ~ first => hist # << >>
  <2>1. ASSUME NEW s \in Seq(Int) PROVE Append(s, d) # << >>
    OBVIOUS
  <2>2. m.last_N_deltas \in Seq(Int)
    BY DEF MacroBlocks
  <2>3. Len(m.last_N_deltas) = MAX_DELTA => Tail(m.last_N_deltas) \in Seq(Int)
    <3>1. Len(m.last_N_deltas) = MAX_DELTA => m.last_N_deltas # << >>
      BY DeltaAssumption
    <3> QED  BY <2>2, <3>1, HeadTailProperties
  <2> QED  BY <2>1, <2>2, <2>3 DEF PushDelta
<1>2. proxy_access(m, d, first, addr) = new
  BY DEF proxy_access
<1> HIDE DEF hist
<1>3. /\ new.first_addr = m.first_addr /\ new.saved_first_N_deltas = m.saved_first_N_deltas
      /\ new.first_N_deltas = m.first_N_deltas /\ new.last_addr = addr /\ new.last_N_deltas = hist
  BY DEF MacroBlocks
<1> HIDE DEF new
<1> QED
  BY <1>1, <1>2, <1>3 DEF hist

\* An access that is output leaves its macroblock ready, unless it was the last one.
LEMMA CommitKeepsHistory == ASSUME IInv, HistoryInv, Commit PROVE HistoryInv'
<1>1. PICK mb : mb = this.mb
  OBVIOUS
<1> DEFINE old == per_MB_historytable[mb]
           m == proxy_access(old, this.delta, this.first, this.addr)
           known == mb \in DOMAIN new_MBs
           again == known /\ m.last_N_deltas # << >>
           m2 == IF again THEN reinit_MB_delta(m, mb) ELSE m
<1>2. /\ pc = "commit" /\ pc # "abort" /\ Generating
      /\ mb \in Blocks /\ this.delta \in Int /\ this.addr \in Int /\ this.first \in BOOLEAN
      /\ DOMAIN new_MBs \subseteq Blocks
  BY <1>1 DEF Commit, Generating, IInv, ChosenInv, RecordInv
<1>3. BlockOK(old) /\ old \in MacroBlocks /\ Home(old, mb) /\ ChosenOK(this, old)
  BY <1>1, <1>2 DEF IInv, RecordInv, HistoryInv, HomeInv, BlockOK
<1>4. CASE \E line \in {"570", "1839", "1884", "1924"} : Abort(line)
  BY <1>4, AbortKeepsHistory
<1>5. CASE Left(mb) # 0 /\ ~ \E line \in {"570", "1839", "1884", "1924"} : Abort(line)
  <2>1. Left(mb) \in Nat /\ Left(mb) > 0 /\ Left(mb) = old.num_accesses
    BY <1>3, <1>5 DEF MacroBlocks, Left
  <2>2. BlockOK(m) /\ m.num_accesses = Left(mb) - 1
    <3> HIDE DEF old
    <3>1. m.num_accesses = old.num_accesses - 1
      BY <1>3 DEF proxy_access, MacroBlocks
    <3>2. BlockOK(m)
      BY <1>2, <1>3, <2>1, OutputBlock
    <3> QED  BY <2>1, <3>1, <3>2
  <2>3. /\ m.first_addr = old.first_addr
        /\ m.saved_first_N_deltas = old.saved_first_N_deltas
        /\ m.first_N_deltas = old.first_N_deltas
        /\ m.last_addr = this.addr
        /\ this.first => m.last_N_deltas = old.last_N_deltas
        /\ ~ this.first => m.last_N_deltas # << >>
    <3> HIDE DEF old
    <3> QED  BY <1>2, <1>3, OutputFields
  <2>4. MB(m.last_addr) = mb /\ Home(m, mb)
    BY <1>1, <1>3, <2>3 DEF ChosenOK, Home
  <2>5. known => Ready(m) /\ m.saved_first_N_deltas # << >>
    <3> SUFFICES ASSUME known PROVE Ready(m) /\ m.saved_first_N_deltas # << >>
      OBVIOUS
    <3>1. old.saved_first_N_deltas # << >>
      BY <1>2, <2>1, StartsAgain
    <3>2. this.first => Ready(old)
      BY <1>1, <1>2, <2>1 DEF HistoryInv, GoOnInv, Advances
    <3> HIDE DEF m, old
    <3> QED  BY <1>2, <2>3, <3>1, <3>2 DEF Ready
  <2> HIDE DEF m, old
  <2>6. again => ReinitAssert(m, mb) = "none"
    BY <2>2, <2>4, <2>5, ReinitReady
  <2>7. /\ m2.first_addr = old.first_addr /\ m2.saved_first_N_deltas = old.saved_first_N_deltas
        /\ MB(m2.last_addr) = mb
        /\ known => Ready(m2)
    BY <2>2, <2>3, <2>4, <2>5, ReinitReady
  <2>8. m2.num_accesses = Left(mb) - 1
    BY <2>2, ReinitCounts DEF BlockOK
  <2>9. ~ known => m2 = m /\ this.first /\ m.first_N_deltas = m.saved_first_N_deltas
    BY <1>1, <1>3, <2>3 DEF ChosenOK
  <2>10. /\ per_MB_historytable' = [per_MB_historytable EXCEPT ![mb] = m2]
         /\ new_MBs' = [b \in DOMAIN new_MBs \cup {mb} |->
                          (IF b \in DOMAIN new_MBs THEN new_MBs[b] ELSE 0) + (IF b = mb THEN 1 ELSE 0)]
         /\ pc' = "next" /\ UNCHANGED assert_failed
    BY <1>1, <1>5, <2>6, Zenon DEF Commit, m, old
  <2> HIDE DEF m2
  <2>11. /\ Blocks' = Blocks
         /\ \A b \in Blocks : per_MB_historytable'[b] = IF b = mb THEN m2 ELSE per_MB_historytable[b]
         /\ \A b \in Blocks : Left(b)' = IF b = mb THEN Left(mb) - 1 ELSE Left(b)
    BY <2>8, <2>10 DEF Blocks, Left
  <2>12. \A b \in Blocks : /\ Generated(b) \in Nat
                           /\ Generated(b)' = Generated(b) + (IF b = mb THEN 1 ELSE 0)
    BY <1>2, <2>10 DEF Generated, HistoryInv, OnceInv
  <2>13. \A b \in Blocks : per_MB_historytable[b].saved_first_N_deltas = << >> =>
                             Left(b) + Generated(b) = 1
    BY <1>2 DEF HistoryInv, OnceInv
  <2>14. HomeInv' /\ ReinitSucceeds'
    BY <2>7, <2>10, <2>11 DEF HistoryInv, HomeInv, ReinitSucceeds, Home, old
  <2>15. OnceInv'
    <3>1. \A b \in DOMAIN new_MBs' : new_MBs'[b] \in Nat \ {0}
      BY <2>10 DEF HistoryInv, OnceInv
    <3>2. \A b \in Blocks : per_MB_historytable'[b].saved_first_N_deltas = << >> =>
                              Left(b)' + Generated(b)' = 1
      <4> SUFFICES ASSUME NEW b \in Blocks, per_MB_historytable'[b].saved_first_N_deltas = << >>
                   PROVE  Left(b)' + Generated(b)' = 1
        OBVIOUS
      <4>1. Left(b) + Generated(b) = 1
        BY <2>7, <2>11, <2>13 DEF old
      <4>2. Left(b) \in Nat
        BY BlockRecord DEF Left, MacroBlocks
      <4> QED  BY <2>11, <2>12, <4>1, <4>2
    <3> QED  BY <2>10, <2>11, <3>1, <3>2 DEF OnceInv
  <2>16. GoOnInv'
    <3> SUFFICES ASSUME NEW b \in DOMAIN new_MBs'
                 PROVE  /\ MB(per_MB_historytable'[b].last_addr) = b
                        /\ Left(b)' > 0 => Ready(per_MB_historytable'[b])
      BY DEF GoOnInv, Ready
    <3>1. CASE b = mb
      <4>1. CASE known
        BY <1>2, <2>7, <2>11, <3>1, <4>1
      <4>2. CASE ~ known
        <5>1. Left(mb)' = Left(mb) - 1
          BY <1>2, <2>11
        <5>2. m.saved_first_N_deltas = << >> => Left(mb) = 1
          <6>1. Generated(mb) = 0 /\ m.saved_first_N_deltas = per_MB_historytable[mb].saved_first_N_deltas
            BY <2>3, <4>2 DEF Generated, old
          <6>2. per_MB_historytable[mb].saved_first_N_deltas = << >> => Left(mb) + Generated(mb) = 1
            BY <1>2, <2>13
          <6> QED  BY <2>1, <6>1, <6>2
        <5>3. Left(mb)' > 0 => m2.first_N_deltas # << >>
          BY <2>1, <2>9, <4>2, <5>1, <5>2
        <5> QED  BY <1>2, <2>7, <2>11, <3>1, <5>3 DEF Ready
      <4> QED  BY <4>1, <4>2
    <3>2. CASE b # mb
      <4>1. b \in DOMAIN new_MBs /\ b \in Blocks
        BY <1>2, <2>10, <3>2
      <4>2. /\ MB(per_MB_historytable[b].last_addr) = b
            /\ Left(b) > 0 => Ready(per_MB_historytable[b])
        BY <1>1, <1>2, <3>2, <4>1 DEF HistoryInv, GoOnInv, Advances
      <4> QED  BY <2>11, <3>2, <4>1, <4>2
    <3> QED  BY <3>1, <3>2
  <2> QED
    BY <2>10, <2>14, <2>15, <2>16 DEF HistoryInv
<1>6. CASE Left(mb) = 0
  BY <1>1, <1>4, <1>6 DEF Commit
<1> QED
  BY <1>4, <1>5, <1>6

--------------------------------------------------------------------------------
(* Reading, preparing and clearing *)

\* A macroblock that is accessed a second time has its first delta saved.
LEMMA ReadKeepsHome ==
  ASSUME NEW m \in MacroBlocks, Untouched(m), NEW mb, Home(m, mb), NEW addr \in Int, MB(addr) = mb,
         m.saved_first_N_deltas = << >> => m.last_addr = m.first_addr
  PROVE  /\ Home(access_mb(m, addr), mb)
         /\ access_mb(m, addr).saved_first_N_deltas # << >>
<1> DEFINE d == addr - m.last_addr
           saved == KeepFirst(m, m.saved_first_N_deltas, d)
           new == access_mb(m, addr)
<1>1. /\ m.saved_first_N_deltas \in Seq(Int) /\ m.first_addr \in Int /\ m.last_addr \in Int
      /\ m.first_N_deltas = m.saved_first_N_deltas /\ d \in Int
  BY DEF MacroBlocks, Untouched
<1>2. new.first_addr = m.first_addr /\ new.saved_first_N_deltas = saved
  BY DEF access_mb, MacroBlocks
<1> HIDE DEF new
<1>3. ASSUME m.saved_first_N_deltas = << >> PROVE Home(new, mb) /\ new.saved_first_N_deltas # << >>
  <2>1. saved = <<d>> /\ m.first_addr + d = addr
    BY <1>1, <1>3, DeltaAssumption DEF KeepFirst
  <2> HIDE DEF d, saved
  <2>2. saved # << >> /\ Head(saved) = d
    BY <1>1, <2>1
  <2>3. MB(new.first_addr) = mb /\ MB(new.first_addr + Head(new.saved_first_N_deltas)) = mb
    <3>1. new.first_addr + Head(new.saved_first_N_deltas) = addr
      BY <1>2, <2>1, <2>2
    <3> QED  BY <1>2, <3>1 DEF Home
  <2>4. new.saved_first_N_deltas # << >>
    BY <1>2, <2>2
  <2> QED  BY <2>3, <2>4, Zenon DEF Home
<1>4. ASSUME m.saved_first_N_deltas # << >> PROVE Home(new, mb) /\ new.saved_first_N_deltas # << >>
  <2>1. saved # << >> /\ Head(saved) = Head(m.saved_first_N_deltas)
    <3>1. saved = m.saved_first_N_deltas \/ saved = Append(m.saved_first_N_deltas, d)
      BY DEF KeepFirst
    <3> HIDE DEF d, saved
    <3> DEFINE kept == m.saved_first_N_deltas
    <3>2. kept \in Seq(Int) /\ kept # << >> /\ Append(kept, d) # << >>
          /\ \A i \in 1 .. Len(kept) : Append(kept, d)[i] = kept[i]
      BY <1>1, <1>4, AppendProperties
    <3> HIDE DEF kept
    <3>3. Len(kept) \in Nat \ {0} /\ Head(kept) = kept[1] /\ Head(Append(kept, d)) = Append(kept, d)[1]
      BY <3>2
    <3>4. Head(Append(kept, d)) = Head(kept)
      BY <3>2, <3>3
    <3> QED  BY <3>1, <3>2, <3>4 DEF kept
  <2> HIDE DEF saved
  <2>2. /\ new.saved_first_N_deltas # << >> /\ new.first_addr = m.first_addr
        /\ Head(new.saved_first_N_deltas) = Head(m.saved_first_N_deltas)
    BY <1>2, <2>1
  <2>3. MB(m.first_addr) = mb /\ MB(m.first_addr + Head(m.saved_first_N_deltas)) = mb
    BY <1>4 DEF Home
  <2>4. MB(new.first_addr) = mb /\ MB(new.first_addr + Head(new.saved_first_N_deltas)) = mb
    BY <2>2, <2>3, Zenon
  <2> QED  BY <2>2, <2>4, Zenon DEF Home
<1> QED
  BY <1>3, <1>4 DEF new

LEMMA ReadKeepsHistory == ASSUME IInv, HistoryInv, ReadElement PROVE HistoryInv'
<1> DEFINE addr == trace[num_elems + 1]
           mb == MB(addr)
           m == per_MB_historytable[mb]
           new == IF mb \in Blocks THEN access_mb(m, addr) ELSE MACRO_BLOCK_LOC(addr)
<1>1. /\ pc = "profile" /\ pc' \in {"profile", "prepare"} /\ UNCHANGED <<new_MBs, assert_failed>>
      /\ mem_access(addr) /\ DOMAIN new_MBs = {}
  BY DEF ReadElement, generator, IInv, TouchInv
<1>2. addr \in Int
  <2>1. trace \in Seq(Nat) /\ num_elems \in 0 .. Len(trace) /\ num_elems < Len(trace)
    BY HaloAssumption DEF IInv, ControlInv, ReadElement
  <2>2. num_elems + 1 \in 1 .. Len(trace)
    BY <2>1
  <2> QED  BY <2>1, <2>2
<1> HIDE DEF addr
<1>3. /\ Blocks' = Blocks \cup {mb}
      /\ \A b \in Blocks' : per_MB_historytable'[b] = IF b = mb THEN new ELSE per_MB_historytable[b]
  <2>1. CASE mb \in Blocks
    BY <1>1, <2>1 DEF mem_access, Blocks
  <2>2. CASE mb \notin Blocks
    BY <1>1, <2>2 DEF mem_access, Blocks
  <2> QED  BY <2>1, <2>2
<1>4. /\ Home(new, mb)
      /\ new.saved_first_N_deltas = << >> => new.last_addr = new.first_addr /\ new.num_accesses = 1
  <2>1. CASE mb \in Blocks
    <3>1. /\ m \in MacroBlocks /\ Untouched(m) /\ Home(m, mb)
          /\ m.saved_first_N_deltas = << >> => m.last_addr = m.first_addr
      BY <1>1, <2>1, BlockRecord DEF IInv, TouchInv, Visited, HistoryInv, HomeInv, OnceInv
    <3> HIDE DEF m
    <3> QED  BY <1>2, <2>1, <3>1, ReadKeepsHome
  <2>2. CASE mb \notin Blocks
    BY <2>2 DEF MACRO_BLOCK_LOC, Home
  <2> QED  BY <2>1, <2>2
<1> HIDE DEF new, m, mb
<1>5. \A b \in Blocks' : Generated(b)' = 0
  BY <1>1 DEF Generated
<1>6. HomeInv' /\ ReinitSucceeds'
  BY <1>1, <1>3, <1>4 DEF HistoryInv, HomeInv, ReinitSucceeds
<1>7. \A b \in Blocks' : per_MB_historytable'[b].saved_first_N_deltas = << >> =>
        /\ per_MB_historytable'[b].last_addr = per_MB_historytable'[b].first_addr
        /\ Left(b)' + Generated(b)' = 1
  <2> SUFFICES ASSUME NEW b \in Blocks', per_MB_historytable'[b].saved_first_N_deltas = << >>
               PROVE  /\ per_MB_historytable'[b].last_addr = per_MB_historytable'[b].first_addr
                      /\ per_MB_historytable'[b].num_accesses = 1
    BY <1>5 DEF Left
  <2>1. CASE b = mb
    BY <1>3, <1>4, <2>1
  <2>2. CASE b # mb
    <3>1. b \in Blocks /\ per_MB_historytable'[b] = per_MB_historytable[b]
      BY <1>3, <2>2
    <3>2. Left(b) + Generated(b) = 1 /\ Generated(b) = 0 /\ Left(b) \in Nat
      BY <1>1, <3>1, BlockRecord DEF HistoryInv, OnceInv, Generated, Left, MacroBlocks
    <3>3. Left(b) = 1
      BY <3>2
    <3> QED  BY <1>1, <3>1, <3>3 DEF HistoryInv, OnceInv, Left
  <2> QED  BY <2>1, <2>2
<1>8. OnceInv'
  BY <1>1, <1>7 DEF OnceInv
<1>9. GoOnInv' /\ pc' # "commit"
  BY <1>1 DEF GoOnInv, Generating
<1> QED
  BY <1>6, <1>8, <1>9 DEF HistoryInv

LEMMA PrepareKeepsHistory == ASSUME IInv, HistoryInv, Prepare PROVE HistoryInv'
<1>1. /\ pc = "prepare" /\ pc' = "next" /\ UNCHANGED <<new_MBs, assert_failed>>
      /\ DOMAIN new_MBs = {}
      /\ Blocks' = Blocks
      /\ \A b \in Blocks : per_MB_historytable'[b] = reset(per_MB_historytable[b])
  BY DEF Prepare, generator, Blocks, IInv, TouchInv
<1>2. ASSUME NEW m \in MacroBlocks
      PROVE  /\ reset(m).first_addr = m.first_addr
             /\ reset(m).saved_first_N_deltas = m.saved_first_N_deltas
             /\ reset(m).num_accesses = m.num_accesses
  BY DEF reset, MacroBlocks
<1>3. HomeInv' /\ ReinitSucceeds'
  BY <1>1, <1>2, BlockRecord DEF HistoryInv, HomeInv, Home, ReinitSucceeds
<1>4. OnceInv'
  <2>1. \A b \in Blocks : /\ per_MB_historytable'[b].saved_first_N_deltas =
                               per_MB_historytable[b].saved_first_N_deltas
                          /\ Left(b)' = Left(b) /\ Generated(b)' = Generated(b)
    BY <1>1, <1>2, BlockRecord DEF Left, Generated
  <2> QED  BY <1>1, <2>1 DEF HistoryInv, OnceInv
<1>5. GoOnInv' /\ pc' # "commit"
  BY <1>1 DEF GoOnInv
<1> QED
  BY <1>3, <1>4, <1>5 DEF HistoryInv

\* Every step keeps the invariant.
LEMMA NextKeepsHistory == IInv /\ HistoryInv /\ [Next]_vars => HistoryInv'
<1> SUFFICES ASSUME IInv, HistoryInv, [Next]_vars PROVE HistoryInv'
  OBVIOUS
<1> USE DEF HistoryInv, HomeInv, OnceInv, GoOnInv, Generating, ReinitSucceeds, Blocks
<1>1. CASE EndOfTrace
  BY <1>1 DEF EndOfTrace, profile, generator, Left, Generated
<1>2. CASE PhaseClear
  BY <1>2 DEF PhaseClear, NoEntries
<1>3. CASE UNCHANGED vars
  BY <1>3 DEF vars, profile, generator, Left, Generated, Advances, ChosenOK
<1> QED
  BY <1>1, <1>2, <1>3, ReadKeepsHistory, PrepareKeepsHistory, SelectKeepsHistory, CommitKeepsHistory
  DEF Next, Step, Terminated, Select

LEMMA InitHistory == Init => HistoryInv
BY DEF Init, NoEntries, HistoryInv, HomeInv, OnceInv, GoOnInv, Generating, ReinitSucceeds, Blocks

\* Every state of the program satisfies HistoryInv: addresses, histories and what is left of them agree.
THEOREM HistoryIsKept == Spec => []HistoryInv
BY InitHistory, NextKeepsHistory, Invariance, PTL DEF Spec

--------------------------------------------------------------------------------
(* Theorems *)

\* No access is output outside its macroblock, nor at another delta than is recorded.
THEOREM AccessesStayConsistent == Spec => []AccessConsistent
<1>1. HistoryInv => AccessConsistent
  BY DEF HistoryInv, ChosenOK, AccessConsistent
<1> QED  BY <1>1, HistoryIsKept, PTL

\* A macroblock that has been generated and has accesses left has something to go on from.
THEOREM VisitedAlwaysGoOn == Spec => []VisitedCanGoOn
<1>1. IInv /\ HistoryInv => VisitedCanGoOn
  <2> SUFFICES ASSUME HistoryInv, pc = "next" PROVE VisitedCanGoOn
    BY DEF VisitedCanGoOn
  <2>1. Generating /\ \A mb : ~ Advances(mb)
    BY DEF Generating, Advances
  <2> QED  BY <2>1 DEF HistoryInv, GoOnInv, Ready, Left, VisitedCanGoOn
<1> QED  BY <1>1, Invariance, HistoryIsKept, PTL

\* The assertions of reinit_MB_delta, at 1090, 1100 and 1149, never fail.
THEOREM ReinitNeverFails == Spec => []ReinitSucceeds
<1>1. HistoryInv => ReinitSucceeds
  BY DEF HistoryInv
<1> QED  BY <1>1, HistoryIsKept, PTL

--------------------------------------------------------------------------------
(* What is left is worth what the phase is due *)

\* The first index of the phase, less one, and how many of its elements have been read.
Base == IF pc = "profile" THEN num_elems - (num_elems % PHASE_LEN) ELSE num_elems - PHASE_LEN
Recorded == num_elems - Base

\* The accesses left of each macroblock.
BlocksLeft == [mb \in DOMAIN per_MB_historytable |-> per_MB_historytable[mb].num_accesses]

Recording == pc \in {"profile", "prepare"}

\* The touches of a macroblock among the first n accesses of the phase.
EarlyTouches(mb, n) == {i \in Base + 1 .. Base + n : MB(trace[i]) = mb}

\* What all macroblocks, and all reuse distances, have left is what the phase has read less
\* what it has generated, or more: an access generated at a distance that is spent costs none.
SumsInv ==
  /\ IsFiniteSet(Blocks)
  /\ Recording \/ pc \in Drawing => SumFunction(BlocksLeft) = Recorded - gen_elems
  /\ Recording => SumFunction(MB_reuse) = Recorded
  /\ pc \in Drawing => SumFunction(unique_MB_reuse) >= Recorded - gen_elems
  /\ Recording \/ pc \in Drawing => \A mb \in Blocks : \E i \in 1 .. Len(unique_mbs) : unique_mbs[i] = mb

\* The first addresses are those of the phase, in order, and as many as have not been replayed;
\* as long as they are replayed, nothing else has been generated.
PrefixInv ==
  /\ Recording => Len(init_addrs) = IF Recorded <= MAX_INIT_ELEMS THEN Recorded ELSE MAX_INIT_ELEMS + 1
  /\ Recording => \A i \in 1 .. Len(init_addrs) : init_addrs[i] = trace[Base + i]
  /\ pc \in {"next", "commit"} /\ gen_elems <= MAX_INIT_ELEMS =>
       /\ \A mb \in Blocks : Generated(mb) = Cardinality(EarlyTouches(mb, gen_elems))
       /\ pc = "next" =>
            /\ Len(init_addrs) = MAX_INIT_ELEMS + 1 - gen_elems
            /\ \A i \in 1 .. Len(init_addrs) : init_addrs[i] = trace[Base + gen_elems + i]
       /\ pc = "commit" =>
            /\ this.mb = MB(trace[Base + gen_elems + 1])
            /\ Len(init_addrs) = MAX_INIT_ELEMS - gen_elems
            /\ \A i \in 1 .. Len(init_addrs) : init_addrs[i] = trace[Base + gen_elems + 1 + i]

FundInv ==
  /\ SumsInv
  /\ PrefixInv
  /\ pc = "commit" => Left(this.mb) > 0
  /\ NothingRunsOut

\* The quantities of the phase are numbers, and the share that is generated is well below its length.
LEMMA Numbers ==
  ASSUME IInv
  PROVE  /\ num_elems \in Nat /\ PHASE_LEN \in Nat \ {0} /\ MAX_INIT_ELEMS \in Nat
         /\ MAX_INIT_ELEMS < PHASE_LEN
         /\ trace \in Seq(Nat) /\ num_elems <= Len(trace)
         /\ gen_elems \in 0 .. GEN_LEN /\ GEN_LEN \in Nat
         /\ GEN_LEN > 0 => GEN_LEN + 4 <= PHASE_LEN
         /\ Base \in Int /\ Recorded \in Int /\ Base + Recorded = num_elems
<1>1. trace \in Seq(Nat) /\ num_elems \in 0 .. Len(trace)
  BY HaloAssumption DEF IInv, ControlInv
<1>2. num_elems \in Nat /\ num_elems <= Len(trace)
  BY <1>1
<1>3. PHASE_LEN \in Nat \ {0} /\ MAX_INIT_ELEMS \in Nat /\ MAX_INIT_ELEMS < PHASE_LEN
  BY HaloAssumption
<1>4. GEN_LEN \in Nat /\ (GEN_LEN > 0 => GEN_LEN + 4 <= PHASE_LEN)
  BY <1>3 DEF GEN_LEN
<1>5. num_elems % PHASE_LEN \in Int
  BY <1>2, <1>3
<1>6. Base \in Int
  BY <1>2, <1>3, <1>5 DEF Base
<1>7. gen_elems \in 0 .. GEN_LEN
  BY DEF IInv, ControlInv
<1> QED  BY <1>1, <1>2, <1>3, <1>4, <1>6, <1>7 DEF Recorded

\* The accesses left are natural numbers.
LEMMA LeftNat == ASSUME IInv PROVE \A mb \in Blocks : Left(mb) \in Nat /\ BlocksLeft[mb] = Left(mb)
BY BlockRecord DEF Left, MacroBlocks, BlocksLeft, Blocks

\* The reuse distances are as many numbers.
LEMMA ReuseFinite ==
  ASSUME IInv
  PROVE  /\ IsFiniteSet(0 .. MAX_MB_REUSE) /\ IsFiniteSet(DOMAIN unique_MB_reuse)
         /\ DOMAIN MB_reuse = 0 .. MAX_MB_REUSE
         /\ \A r \in 0 .. MAX_MB_REUSE : MB_reuse[r] \in Nat
<1>1. IsFiniteSet(0 .. MAX_MB_REUSE)
  BY HaloAssumption, FS_Interval, 0 \in Int, MAX_MB_REUSE \in Int
<1>2. DOMAIN unique_MB_reuse \subseteq 0 .. MAX_MB_REUSE /\ MB_reuse \in [0 .. MAX_MB_REUSE -> Nat]
  BY DEF IInv, RecordInv
<1> QED  BY <1>1, <1>2, FS_Subset

--------------------------------------------------------------------------------
(* Recording *)

\* Reading an element extends the phase and does not move it.
LEMMA ReadMovesOn ==
  ASSUME IInv, CountInv, ReadElement
  PROVE  /\ Recording /\ Recording' /\ gen_elems = 0 /\ gen_elems' = 0
         /\ Base' = Base /\ Recorded' = Recorded + 1 /\ Recorded \in 0 .. PHASE_LEN - 1
         /\ num_elems' = num_elems + 1 /\ trace' = trace /\ pc = "profile"
         /\ pc' = "prepare" => Recorded' = PHASE_LEN
<1>1. /\ num_elems \in Nat /\ PHASE_LEN \in Nat \ {0}
  BY Numbers
<1>2. /\ pc = "profile" /\ num_elems' = num_elems + 1 /\ trace' = trace /\ gen_elems' = gen_elems
      /\ pc' = IF (num_elems + 1) % PHASE_LEN = 0 THEN "prepare" ELSE "profile"
  BY DEF ReadElement, generator
<1>3. gen_elems = 0
  BY <1>2 DEF IInv, TouchInv
<1> DEFINE r == num_elems % PHASE_LEN
<1>4. /\ r \in 0 .. PHASE_LEN - 1
      /\ (num_elems + 1) % PHASE_LEN = IF r = PHASE_LEN - 1 THEN 0 ELSE r + 1
  BY <1>1, NextRemainder
<1>5. Base = num_elems - r
  BY <1>2 DEF Base
<1> HIDE DEF r
<1>6. Base' = Base /\ (pc' = "prepare" => r = PHASE_LEN - 1)
  <2>1. CASE r = PHASE_LEN - 1
    BY <1>1, <1>2, <1>4, <1>5, <2>1 DEF Base
  <2>2. CASE r # PHASE_LEN - 1
    BY <1>1, <1>2, <1>4, <1>5, <2>2 DEF Base
  <2> QED  BY <2>1, <2>2
<1> QED  BY <1>1, <1>2, <1>3, <1>4, <1>5, <1>6 DEF Recorded, Recording

\* An element that is read counts one for its macroblock and one for its reuse distance.
LEMMA ReadKeepsSums == ASSUME IInv, CountInv, FundInv, ReadElement PROVE SumsInv'
<1> DEFINE addr == trace[num_elems + 1]
           mb   == MB(addr)
           pos  == is_mb_used(last_macroblock_list, mb)
<1>1. /\ Recording /\ Recording' /\ gen_elems = 0 /\ gen_elems' = 0
      /\ Recorded' = Recorded + 1 /\ Recorded \in Int
  BY ReadMovesOn, Numbers
<1>2. mem_access(addr)
  BY DEF ReadElement
<1>3. /\ Blocks' = Blocks \cup {mb}
      /\ \A b \in Blocks' : per_MB_historytable'[b].num_accesses =
                              (IF b \in Blocks THEN Left(b) ELSE 0) + (IF b = mb THEN 1 ELSE 0)
  BY ReadCounts DEF ReadCounted
<1>4. IsFiniteSet(Blocks) /\ SumFunction(BlocksLeft) = Recorded /\ SumFunction(MB_reuse) = Recorded
      /\ \A b \in Blocks : \E i \in 1 .. Len(unique_mbs) : unique_mbs[i] = b
  BY <1>1, Numbers DEF FundInv, SumsInv
<1>5. IsFiniteSet(Blocks')
  BY <1>3, <1>4, FS_AddElement
<1>6. SumFunction(BlocksLeft') = Recorded + 1
  <2> DEFINE f == BlocksLeft
             g == BlocksLeft'
  <2>1. /\ DOMAIN f = Blocks /\ DOMAIN g = Blocks'
        /\ \A b \in Blocks : f[b] = Left(b) /\ f[b] \in Int
        /\ \A b \in Blocks' : g[b] = per_MB_historytable'[b].num_accesses
    <3>1. \A b \in Blocks : f[b] = Left(b) /\ f[b] \in Nat
      BY LeftNat
    <3>2. DOMAIN f = Blocks /\ DOMAIN g = Blocks' /\ \A b \in Blocks' : g[b] = per_MB_historytable'[b].num_accesses
      BY DEF BlocksLeft, Blocks
    <3> QED  BY <3>1, <3>2
  <2> HIDE DEF f, g, mb
  <2>2. DOMAIN g = DOMAIN f \cup {mb} /\ \A b \in DOMAIN f : b # mb => g[b] = f[b]
    BY <1>3, <2>1
  <2>3. g[mb] = (IF mb \in DOMAIN f THEN f[mb] ELSE 0) + 1
    BY <1>3, <2>1
  <2>4. SumFunction(g) = SumFunction(f) + 1
    <3>1. IsFiniteSet(DOMAIN f) /\ \A b \in DOMAIN f : f[b] \in Int
      BY <1>4, <2>1
    <3> QED  BY <2>2, <2>3, <3>1, SumCount, 1 \in Int
  <2> QED  BY <1>4, <2>4 DEF f, g
<1>7. SumFunction(MB_reuse') = Recorded + 1
  <2>1. pos \in 0 .. MAX_MB_REUSE /\ MB_reuse' = [MB_reuse EXCEPT ![pos] = @ + 1]
    <3>1. pos \in 0 .. MAX_MB_REUSE
      BY PositionOnList DEF IInv, ListInv
    <3> QED  BY <1>2, <3>1 DEF mem_access
  <2> HIDE DEF pos
  <2>2. /\ IsFiniteSet(DOMAIN MB_reuse) /\ DOMAIN MB_reuse = 0 .. MAX_MB_REUSE
        /\ \A r \in DOMAIN MB_reuse : MB_reuse[r] \in Int
    BY ReuseFinite
  <2>3. DOMAIN MB_reuse' = DOMAIN MB_reuse \cup {pos} /\ \A r \in DOMAIN MB_reuse : r # pos => MB_reuse'[r] = MB_reuse[r]
    BY <2>1, <2>2
  <2>4. MB_reuse'[pos] = (IF pos \in DOMAIN MB_reuse THEN MB_reuse[pos] ELSE 0) + 1
    BY <2>1, <2>2
  <2>5. SumFunction(MB_reuse') = SumFunction(MB_reuse) + 1
    BY <2>2, <2>3, <2>4, SumCount, 1 \in Int
  <2> QED  BY <1>4, <2>5
<1>8. \A b \in Blocks' : \E i \in 1 .. Len(unique_mbs') : unique_mbs'[i] = b
  <2>1. unique_mbs \in Seq(Blocks)
    BY DEF IInv, RecordInv
  <2>2. CASE mb \in Blocks
    <3>1. unique_mbs' = unique_mbs
      BY <1>2, <2>2 DEF mem_access, Blocks
    <3> QED  BY <1>3, <1>4, <2>2, <3>1
  <2>3. CASE mb \notin Blocks
    <3>1. unique_mbs' = Append(unique_mbs, mb)
      BY <1>2, <2>3 DEF mem_access, Blocks
    <3> HIDE DEF mb
    <3>2. /\ Len(unique_mbs') = Len(unique_mbs) + 1 /\ Len(unique_mbs) \in Nat
          /\ unique_mbs'[Len(unique_mbs) + 1] = mb
          /\ \A i \in 1 .. Len(unique_mbs) : unique_mbs'[i] = unique_mbs[i]
      BY <2>1, <3>1, AppendProperties, LenProperties
    <3>3. \A i \in 1 .. Len(unique_mbs) : i \in 1 .. Len(unique_mbs')
      BY <3>2
    <3>4. Len(unique_mbs) + 1 \in 1 .. Len(unique_mbs')
      BY <3>2
    <3> QED  BY <1>3, <1>4, <3>2, <3>3, <3>4
  <2> QED  BY <2>2, <2>3
<1> HIDE DEF mb
<1>9. pc' \notin Drawing
  BY <1>1 DEF Recording, Drawing
<1>10. SumFunction(BlocksLeft)' = Recorded' - gen_elems' /\ SumFunction(MB_reuse)' = Recorded'
  BY <1>1, <1>6, <1>7
<1> QED  BY <1>5, <1>8, <1>9, <1>10 DEF SumsInv

\* The first elements that are read are the first addresses.
LEMMA ReadKeepsPrefix == ASSUME IInv, CountInv, FundInv, ReadElement PROVE PrefixInv'
<1> DEFINE addr == trace[num_elems + 1]
<1>1. /\ Recording /\ Recording' /\ Base' = Base /\ Recorded' = Recorded + 1
      /\ Recorded \in 0 .. PHASE_LEN - 1 /\ trace' = trace /\ Base \in Int
      /\ Base + Recorded = num_elems /\ MAX_INIT_ELEMS \in Nat /\ num_elems \in Nat
      /\ PHASE_LEN \in Nat
  BY ReadMovesOn, Numbers
<1>2. /\ Len(init_addrs) = IF Recorded <= MAX_INIT_ELEMS THEN Recorded ELSE MAX_INIT_ELEMS + 1
      /\ \A i \in 1 .. Len(init_addrs) : init_addrs[i] = trace[Base + i]
      /\ init_addrs \in Seq(Int)
  BY <1>1 DEF FundInv, PrefixInv, IInv, RecordInv
<1>3. init_addrs' = IF Len(init_addrs) <= MAX_INIT_ELEMS THEN Append(init_addrs, addr) ELSE init_addrs
  BY DEF ReadElement, mem_access
<1>4. /\ Len(init_addrs') = IF Recorded + 1 <= MAX_INIT_ELEMS THEN Recorded + 1 ELSE MAX_INIT_ELEMS + 1
      /\ \A i \in 1 .. Len(init_addrs') : init_addrs'[i] = trace[Base + i]
  <2>1. CASE Recorded > MAX_INIT_ELEMS
    BY <1>1, <1>2, <1>3, <2>1
  <2>2. CASE Recorded <= MAX_INIT_ELEMS
    <3>1. Len(init_addrs) = Recorded /\ init_addrs' = Append(init_addrs, addr)
      BY <1>1, <1>2, <1>3, <2>2
    <3>2. /\ Len(init_addrs') = Recorded + 1 /\ init_addrs'[Recorded + 1] = addr
          /\ \A i \in 1 .. Recorded : init_addrs'[i] = init_addrs[i]
      <4> HIDE DEF addr
      <4> QED  BY <1>2, <3>1
    <3>3. addr = trace[Base + (Recorded + 1)]
      BY <1>1
    <3> HIDE DEF addr
    <3>4. \A i \in 1 .. Recorded + 1 : i = Recorded + 1 \/ i \in 1 .. Recorded
      BY <1>1
    <3>5. \A i \in 1 .. Recorded + 1 : init_addrs'[i] = trace[Base + i]
      BY <1>2, <3>1, <3>2, <3>3, <3>4
    <3>6. Len(init_addrs') = IF Recorded + 1 <= MAX_INIT_ELEMS THEN Recorded + 1 ELSE MAX_INIT_ELEMS + 1
      BY <1>1, <2>2, <3>2
    <3>7. 1 .. Len(init_addrs') = 1 .. Recorded + 1
      BY <3>2
    <3> QED  BY <3>5, <3>6, <3>7
  <2> QED  BY <1>1, <2>1, <2>2
<1>5. pc' \notin {"next", "commit"}
  BY <1>1 DEF Recording
<1> QED  BY <1>1, <1>4, <1>5 DEF PrefixInv

\* Reading an element keeps the invariant.
LEMMA ReadKeepsFunds == ASSUME IInv, CountInv, FundInv, ReadElement PROVE FundInv'
<1>1. assert_failed' = assert_failed /\ pc' # "commit"
  BY ReadMovesOn DEF ReadElement, Recording
<1> QED  BY <1>1, ReadKeepsSums, ReadKeepsPrefix DEF FundInv, NothingRunsOut

--------------------------------------------------------------------------------
(* Preparing *)

\* The reuse distances that are kept are worth what they were.
LEMMA PrepareKeepsFunds == ASSUME IInv, FundInv, Prepare PROVE FundInv'
<1>1. /\ pc = "prepare" /\ pc' = "next" /\ UNCHANGED <<input, MB_reuse, unique_mbs, init_addrs, assert_failed>>
      /\ unique_MB_reuse' = [r \in {q \in 0 .. MAX_MB_REUSE : MB_reuse[q] > 0} |-> MB_reuse[r]]
      /\ new_MBs' = new_MBs /\ gen_elems' = gen_elems
  BY DEF Prepare, generator
<1>2. /\ Recording /\ pc' \in Drawing /\ ~ Recording' /\ pc' # "commit" /\ gen_elems = 0 /\ DOMAIN new_MBs = {}
  BY <1>1 DEF Recording, Drawing, IInv, TouchInv
<1>3. /\ Base' = Base /\ Recorded' = Recorded /\ Recorded = PHASE_LEN /\ trace' = trace
      /\ MAX_INIT_ELEMS \in Nat /\ PHASE_LEN \in Nat /\ MAX_INIT_ELEMS < PHASE_LEN
  BY <1>1, Numbers DEF Base, Recorded, input
<1>4. /\ IsFiniteSet(Blocks) /\ SumFunction(BlocksLeft) = PHASE_LEN
      /\ SumFunction(MB_reuse) = PHASE_LEN
      /\ \A mb \in Blocks : \E i \in 1 .. Len(unique_mbs) : unique_mbs[i] = mb
  BY <1>2, <1>3 DEF FundInv, SumsInv
<1>5. Blocks' = Blocks /\ BlocksLeft' = BlocksLeft
  <2>1. SameCounts
    BY PrepareCounts
  <2> QED  BY <2>1 DEF SameCounts, BlocksLeft, Blocks
<1>6. SumFunction(unique_MB_reuse') = PHASE_LEN
  <2> DEFINE T == 0 .. MAX_MB_REUSE
             S == {q \in T : MB_reuse[q] > 0}
             f == MB_reuse
             g == unique_MB_reuse'
  <2>1. IsFiniteSet(T) /\ DOMAIN f = T /\ \A r \in T : f[r] \in Nat
    BY ReuseFinite
  <2>2. DOMAIN g = S /\ \A r \in S : g[r] = f[r]
    BY <1>1
  <2>3. S \in SUBSET T /\ \A r \in T \ S : f[r] = 0
    BY <2>1
  <2>4. IsFiniteSet(S) /\ \A r \in T : f[r] \in Int
    <3>1. IsFiniteSet(S)
      <4> HIDE DEF S, T
      <4> QED  BY <2>1, <2>3, FS_Subset
    <3> QED  BY <2>1, <3>1
  <2>5. SumFunction(g) = SumFunctionOnSet(g, S) /\ SumFunction(f) = SumFunctionOnSet(f, T)
    BY <2>1, <2>2 DEF SumFunction
  <2> HIDE DEF S, T, f, g
  <2>6. SumFunctionOnSet(g, S) = SumFunctionOnSet(f, S)
    BY <2>2, <2>4, SumSame
  <2>7. SumFunctionOnSet(f, S) = SumFunctionOnSet(f, T)
    BY <2>1, <2>3, <2>4, SumDropZeros
  <2> QED  BY <1>4, <2>5, <2>6, <2>7 DEF f, g
<1>7. SumsInv'
  <2>1. SumFunction(BlocksLeft)' = PHASE_LEN /\ SumFunction(unique_MB_reuse)' = PHASE_LEN
    BY <1>4, <1>5, <1>6
  <2> QED  BY <1>1, <1>2, <1>3, <1>4, <1>5, <2>1 DEF SumsInv
<1>8. PrefixInv'
  <2>1. \A mb : EarlyTouches(mb, 0)' = {} /\ Generated(mb)' = 0
    <3>1. 1 \in Int /\ Base' \in Int
      BY <1>3, Numbers
    <3> QED  BY <1>1, <1>2, <3>1 DEF EarlyTouches, Generated
  <2>2. \A mb : Generated(mb)' = Cardinality(EarlyTouches(mb, 0))'
    BY <2>1, FS_EmptySet
  <2>3. /\ Len(init_addrs) = MAX_INIT_ELEMS + 1 - 0
        /\ \A i \in 1 .. Len(init_addrs) : init_addrs[i] = trace[Base + 0 + i]
    BY <1>2, <1>3, Numbers DEF FundInv, PrefixInv
  <2> QED  BY <1>1, <1>2, <1>3, <2>2, <2>3 DEF PrefixInv
<1> QED  BY <1>1, <1>2, <1>7, <1>8 DEF FundInv, NothingRunsOut

--------------------------------------------------------------------------------
(* Selecting an access *)

\* Counting nothing keeps the sums.
LEMMA QuietKeepsSums ==
  ASSUME FundInv, Quiet
  PROVE  SumsInv' /\ Base' = Base /\ trace' = trace /\ gen_elems' = gen_elems /\ ~ Recording'
<1>1. Blocks' = Blocks /\ BlocksLeft' = BlocksLeft
  BY DEF Quiet, SameCounts, BlocksLeft, Blocks
<1>2. /\ pc \in Drawing /\ ~ Recording /\ ~ Recording' /\ pc' \in Drawing \cup {"abort"}
      /\ UNCHANGED <<trace, num_elems, unique_MB_reuse, unique_mbs, gen_elems>>
  BY DEF Quiet, Drawing, Recording, input
<1>3. Base' = Base
  BY <1>2 DEF Base, Drawing, Recording
<1>4. Recorded' = Recorded
  BY <1>2, <1>3 DEF Recorded
<1> QED  BY <1>1, <1>2, <1>3, <1>4 DEF FundInv, SumsInv

\* The asserts about what has run out.
OutLines == {"570", "1272", "1884", "1924"}

\* The access of a macroblock is chosen, or none is.
Picks(mb) ==
  /\ pc' = "commit" => this'.mb = mb
  /\ assert_failed' \notin OutLines

\* A new macroblock (get_new_MB) is the one chosen.
LEMMA TakeNewPicks ==
  ASSUME NothingRunsOut, NEW mb, TakeNewMB(mb) PROVE Picks(mb)
BY DEF TakeNewMB, Abort, Choose, UNCHANGED_but_MB, Picks, OutLines, NothingRunsOut

\* get_next_delta chooses the macroblock it is asked about.
LEMMA NextDeltaPicks ==
  ASSUME NothingRunsOut, NEW mb, NEW reuse, get_next_delta(mb, reuse) PROVE Picks(mb)
<1>1. CASE ReplayDelta(mb, reuse)
  BY <1>1 DEF ReplayDelta, Abort, Choose, UNCHANGED_but_MB, Picks, OutLines, NothingRunsOut
<1>2. CASE DrawDelta(mb, reuse)
  <2>1. this'.mb = mb /\ assert_failed' = assert_failed
    BY <1>2 DEF DrawDelta, Choose
  <2> QED  BY <2>1 DEF Picks, OutLines, NothingRunsOut
<1> QED  BY <1>1, <1>2 DEF get_next_delta

\* So does a visit that continues its history.
LEMMA ContinuePicks ==
  ASSUME NothingRunsOut, NEW mb, NEW reuse,
         NEW ACTION Otherwise, Otherwise => pc' # "commit" \/ this'.mb = mb,
         ContinueMB(mb, reuse, Otherwise)
  PROVE  Picks(mb)
<1> DEFINE m == per_MB_historytable[mb]
<1>1. CASE get_next_delta(mb, reuse)
  BY <1>1, NextDeltaPicks
<1>2. CASE Abort(ReinitAssert(m, mb))
  <2>1. ReinitAssert(m, mb) \notin OutLines
    BY DEF ReinitAssert, OutLines
  <2> HIDE DEF m
  <2> QED  BY <1>2, <2>1 DEF Abort, Picks
<1>3. CASE /\ IF StartsOver(m, mb) THEN Choose(mb, m.first_addr, reuse, 0, TRUE) ELSE Otherwise
           /\ UNCHANGED_but_MB
  <2>1. Choose(mb, m.first_addr, reuse, 0, TRUE) => this'.mb = mb
    BY DEF Choose
  <2> HIDE DEF m
  <2>3. pc' # "commit" \/ this'.mb = mb
    BY <1>3, <2>1, Zenon
  <2>2. assert_failed' = assert_failed
    BY <1>3 DEF UNCHANGED_but_MB
  <2> QED  BY <2>2, <2>3 DEF Picks, OutLines, NothingRunsOut
<1> QED  BY <1>1, <1>2, <1>3, Zenon DEF ContinueMB

\* What is chosen when the first addresses have been replayed has accesses left.
LEMMA LookKeepsFunds ==
  ASSUME IInv, FundInv, Select, ~ InitAccess
  PROVE  /\ gen_elems > MAX_INIT_ELEMS
         /\ (\E mb \in Blocks : Left(mb) > 0 /\ Picks(mb)) \/ (pc' # "commit" /\ assert_failed' \notin OutLines)
<1> DEFINE Goal == (\E mb \in Blocks : Left(mb) > 0 /\ Picks(mb)) \/ (pc' # "commit" /\ assert_failed' \notin OutLines)
<1> USE DEF FundInv
<1>1. Looking \/ PickReuse
  BY DEF Select, Looking, PickFresh, PickEvicted, GiveUp, PickLower,
         FallbackFresh, FallbackHigher, FallbackMiss, ForceMaxReuse, ForceOnList, ForceVisited
<1>2. gen_elems > MAX_INIT_ELEMS
  BY <1>1 DEF IInv, ControlInv, PickReuse
<1> SUFFICES Goal
  BY <1>2
<1>3. ASSUME pc' # "commit", assert_failed' = assert_failed PROVE Goal
  BY <1>3 DEF NothingRunsOut, OutLines
<1>4. CASE PickReuse
  BY <1>3, <1>4 DEF PickReuse
<1>5. CASE GiveUp \/ FallbackMiss
  BY <1>3, <1>5 DEF GiveUp, FallbackMiss, GoTo, UNCHANGED_but_MB
<1>6. ASSUME Looking, ~ PickReuse PROVE PickableMBs \subseteq Blocks /\ DOMAIN new_MBs \subseteq Blocks
  BY <1>6, PickableRecorded DEF IInv, RecordInv
<1>7. CASE PickFresh \/ FallbackFresh
  <2>1. PICK mb \in PickableMBs : Fresh(mb) /\ TakeNewMB(mb)
    BY <1>7 DEF PickFresh, FallbackFresh
  <2>2. Looking /\ ~ PickReuse
    BY <1>7 DEF PickFresh, FallbackFresh, Looking, PickReuse
  <2>3. mb \in Blocks /\ Left(mb) > 0 /\ Picks(mb)
    BY <1>6, <2>1, <2>2, TakeNewPicks DEF Fresh
  <2> QED  BY <2>3
<1>8. CASE PickEvicted
  <2>1. PICK mb \in PickableMBs : Left(mb) > 0 /\ ContinueMB(mb, MAX_MB_REUSE, GoTo(pc))
    BY <1>8 DEF PickEvicted
  <2>2. Looking /\ ~ PickReuse /\ pc # "commit"
    BY <1>8 DEF PickEvicted, Looking, PickReuse
  <2>3. GoTo(pc) => pc' # "commit" \/ this'.mb = mb
    BY <2>2 DEF GoTo
  <2>4. mb \in Blocks /\ Picks(mb)
    BY <1>6, <2>1, <2>2, <2>3, ContinuePicks
  <2> QED  BY <2>1, <2>4
<1>9. ASSUME NEW p \in 0 .. Len(last_macroblock_list) - 1, Looking
      PROVE  last_macroblock_list[p + 1] \in Blocks
  BY <1>9, ListedGenerated DEF IInv, RecordInv
<1>10. CASE PickLower
  <2> DEFINE mb == last_macroblock_list[temp_reuse + 1]
  <2>1. CASE GoTo("fallback") /\ UNCHANGED_but_MB
    BY <1>3, <2>1 DEF GoTo, UNCHANGED_but_MB
  <2>2. CASE Left(mb) > 0 /\ ContinueMB(mb, temp_reuse, GoTo("fallback"))
    <3>1. Looking /\ temp_reuse \in 0 .. Len(last_macroblock_list) - 1
      BY <1>10 DEF PickLower, IInv, ControlInv, ListInv, Looking
    <3>2. mb \in Blocks
      BY <1>9, <3>1
    <3> HIDE DEF mb
    <3>3. GoTo("fallback") => pc' # "commit" \/ this'.mb = mb
      BY DEF GoTo
    <3>4. Picks(mb)
      BY <2>2, <3>3, ContinuePicks
    <3> QED  BY <2>2, <3>2, <3>4
  <2> QED  BY <1>10, <2>1, <2>2 DEF PickLower
<1>11. ASSUME NEW mb, NEW reuse, RepeatLast(mb, reuse) PROVE pc' # "commit" \/ this'.mb = mb
  BY <1>11 DEF RepeatLast, Choose
<1>12. CASE FallbackHigher
  <2>1. Looking
    BY <1>12 DEF FallbackHigher, Looking
  <2>2. PICK p \in HigherReuse :
          ContinueMB(last_macroblock_list[p + 1], p, RepeatLast(last_macroblock_list[p + 1], temp_reuse))
    BY <1>12 DEF FallbackHigher
  <2> DEFINE mb == last_macroblock_list[p + 1]
  <2>3. p \in 0 .. Len(last_macroblock_list) - 1 /\ Left(mb) > 0
    <3>1. max_nonzero_reuse \in Nat /\ Len(last_macroblock_list) \in Nat
      BY <1>12, GreatestReuse DEF FallbackHigher, IInv, ListInv
    <3> QED  BY <2>2, <3>1 DEF HigherReuse
  <2>4. mb \in Blocks /\ ContinueMB(mb, p, RepeatLast(mb, temp_reuse))
    BY <1>9, <2>1, <2>2, <2>3
  <2>5. RepeatLast(mb, temp_reuse) => pc' # "commit" \/ this'.mb = mb
    BY <1>11
  <2> HIDE DEF mb
  <2>6. Picks(mb)
    BY <2>4, <2>5, ContinuePicks
  <2> QED  BY <2>3, <2>4, <2>6
<1>13. CASE ForceMaxReuse
  <2>1. CASE Abort("1716")
    BY <2>1 DEF Abort, OutLines
  <2>2. CASE /\ \E mb \in OffList :
                  Choose(mb, per_MB_historytable[mb].first_addr, MAX_MB_REUSE, 0, TRUE)
             /\ UNCHANGED_but_MB
    <3>1. PICK mb \in OffList : Choose(mb, per_MB_historytable[mb].first_addr, MAX_MB_REUSE, 0, TRUE)
      BY <2>2
    <3>2. this'.mb = mb /\ assert_failed' = assert_failed
      BY <2>2, <3>1 DEF Choose, UNCHANGED_but_MB
    <3>3. mb \in Blocks /\ Left(mb) > 0 /\ Picks(mb)
      BY <3>1, <3>2 DEF OffList, Blocks, Picks, NothingRunsOut, OutLines
    <3> QED  BY <3>3
  <2> QED  BY <1>13, <2>1, <2>2 DEF ForceMaxReuse
<1>14. CASE ForceOnList
  <2>1. PICK p \in OnListCandidates : get_next_delta(last_macroblock_list[p + 1], p)
    BY <1>14 DEF ForceOnList
  <2>2. p \in 0 .. Len(last_macroblock_list) - 1 /\ Left(last_macroblock_list[p + 1]) > 0 /\ Looking
    BY <1>14 DEF OnListCandidates, ForceOnList, Looking
  <2>3. Picks(last_macroblock_list[p + 1]) /\ last_macroblock_list[p + 1] \in Blocks
    BY <1>9, <2>1, <2>2, NextDeltaPicks
  <2> QED  BY <2>2, <2>3
<1>15. CASE ForceVisited
  <2> DEFINE rest == {b \in DOMAIN new_MBs : Left(b) > 0}
             mb == CHOOSE b \in rest : \A o \in rest : b <= o
             reuse == is_mb_used(last_macroblock_list, mb)
  <2>1. Looking /\ DOMAIN new_MBs \subseteq Blocks
    BY <1>15 DEF ForceVisited, Looking, IInv, RecordInv
  <2>2. CASE rest = {}
    <3>1. Abort("1803")
      BY <1>15, <2>2 DEF ForceVisited
    <3> QED  BY <3>1 DEF Abort, OutLines
  <2>3. CASE rest # {}
    <3>1. ContinueMB(mb, reuse, RepeatLast(mb, reuse))
      BY <1>15, <2>3 DEF ForceVisited
    <3>2. mb \in rest
      <4>1. rest \subseteq Nat
        BY <2>1 DEF IInv, RecordInv
      <4>2. \E b \in rest : \A o \in rest : b <= o
        <5> HIDE DEF rest
        <5> QED  BY <2>3, <4>1, LeastNatural
      <4> QED  BY <4>2
    <3>3. mb \in Blocks /\ Left(mb) > 0
      BY <2>1, <3>2
    <3>4. RepeatLast(mb, reuse) => pc' # "commit" \/ this'.mb = mb
      BY <1>11
    <3> HIDE DEF mb, reuse
    <3>5. Picks(mb)
      BY <3>1, <3>4, ContinuePicks
    <3> QED  BY <3>3, <3>5
  <2> QED  BY <2>2, <2>3
<1> QED  BY <1>2, <1>4, <1>5, <1>7, <1>8, <1>10, <1>12, <1>13, <1>14, <1>15 DEF Select

\* While accesses are generated the phase is complete.
LEMMA PhaseIsComplete ==
  ASSUME IInv, pc \in Drawing
  PROVE  /\ Base = num_elems - PHASE_LEN /\ Recorded = PHASE_LEN /\ Base + PHASE_LEN = num_elems
         /\ Base \in Int /\ PHASE_LEN \in Nat
         /\ Phase = Base + 1 .. num_elems /\ IsFiniteSet(Phase)
<1>1. Base = num_elems - PHASE_LEN /\ num_elems \in Nat /\ PHASE_LEN \in Nat
  BY Numbers DEF Base, Drawing
<1>2. Phase = Base + 1 .. num_elems
  BY <1>1 DEF Phase, Drawing
<1>3. IsFiniteSet(Base + 1 .. num_elems)
  <2>1. Base + 1 \in Int /\ num_elems \in Int
    BY <1>1
  <2> QED  BY <2>1, FS_Interval
<1> QED  BY <1>1, <1>2, <1>3 DEF Recorded

\* The next of the first addresses is an access that has not been generated.
LEMMA FirstAddressIsLeft ==
  ASSUME IInv, CountInv, FundInv, pc = "next", gen_elems < GEN_LEN, gen_elems <= MAX_INIT_ELEMS
  PROVE  /\ Len(init_addrs) = MAX_INIT_ELEMS + 1 - gen_elems /\ init_addrs # << >>
         /\ Head(init_addrs) = trace[Base + gen_elems + 1]
         /\ MB(Head(init_addrs)) \in Blocks
         /\ Left(MB(Head(init_addrs))) > 0
<1> DEFINE next == Base + gen_elems + 1
           mb   == MB(trace[next])
<1>1. /\ Base \in Int /\ gen_elems \in Nat /\ MAX_INIT_ELEMS \in Nat /\ num_elems \in Nat
      /\ next \in Base + 1 .. num_elems
      /\ Phase = Base + 1 .. num_elems /\ IsFiniteSet(Phase)
  <2>1. pc \in Drawing
    BY DEF Drawing
  <2>2. /\ Base \in Int /\ PHASE_LEN \in Nat /\ Base + PHASE_LEN = num_elems
        /\ Phase = Base + 1 .. num_elems /\ IsFiniteSet(Phase)
    BY <2>1, PhaseIsComplete
  <2>3. gen_elems \in Nat /\ MAX_INIT_ELEMS \in Nat /\ num_elems \in Nat /\ gen_elems + 4 < PHASE_LEN
    BY Numbers
  <2>4. next \in Base + 1 .. num_elems
    BY <2>2, <2>3
  <2> QED  BY <2>2, <2>3, <2>4
<1>2. /\ Len(init_addrs) = MAX_INIT_ELEMS + 1 - gen_elems
      /\ \A i \in 1 .. Len(init_addrs) : init_addrs[i] = trace[Base + gen_elems + i]
      /\ \A b \in Blocks : Generated(b) = Cardinality(EarlyTouches(b, gen_elems))
      /\ init_addrs \in Seq(Int)
  BY DEF FundInv, PrefixInv, IInv, RecordInv
<1>3. /\ Len(init_addrs) >= 1 /\ init_addrs # << >> /\ Head(init_addrs) = init_addrs[1]
  BY <1>1, <1>2
<1>4. Head(init_addrs) = trace[next]
  BY <1>1, <1>2, <1>3
<1> HIDE DEF next
<1>5. mb \in Blocks /\ Left(mb) + Generated(mb) = Cardinality(Touches(mb))
  BY <1>1 DEF CountInv, BudgetConserved, Blocks
<1> DEFINE early == EarlyTouches(mb, gen_elems)
<1>6. /\ early \cup {next} \subseteq Touches(mb) /\ next \notin early
      /\ IsFiniteSet(Touches(mb)) /\ IsFiniteSet(early)
  <2>1. early \cup {next} \subseteq Touches(mb) /\ next \notin early
    BY <1>1 DEF EarlyTouches, Touches, next
  <2>2. IsFiniteSet(Touches(mb))
    BY <1>1, FS_Subset DEF Touches
  <2> HIDE DEF early
  <2> QED  BY <2>1, <2>2, FS_Subset
<1> HIDE DEF early, mb
<1>7. Cardinality(early \cup {next}) = Cardinality(early) + 1
  BY <1>6, FS_AddElement
<1>8. Cardinality(early \cup {next}) <= Cardinality(Touches(mb))
  BY <1>6, FS_Subset
<1>9. Cardinality(early) \in Nat /\ Cardinality(Touches(mb)) \in Nat /\ Left(mb) \in Nat
  BY <1>5, <1>6, FS_CardinalityType, LeftNat
<1>10. Left(mb) > 0
  BY <1>2, <1>5, <1>7, <1>8, <1>9 DEF early
<1> QED  BY <1>2, <1>3, <1>4, <1>5, <1>10 DEF mb, next

\* The first addresses are replayed one after the other.
LEMMA InitAccessKeepsFunds == ASSUME IInv, CountInv, FundInv, InitAccess PROVE FundInv'
<1>0. PICK mb : mb = MB(Head(init_addrs))
  OBVIOUS
<1>1. pc = "next" /\ gen_elems < GEN_LEN /\ gen_elems <= MAX_INIT_ELEMS
  BY DEF InitAccess
<1>2. /\ Len(init_addrs) = MAX_INIT_ELEMS + 1 - gen_elems /\ init_addrs # << >>
      /\ mb = MB(trace[Base + gen_elems + 1]) /\ mb \in Blocks /\ Left(mb) > 0
  BY <1>0, <1>1, FirstAddressIsLeft
<1>3. Quiet
  BY InitAccessIsQuiet
<1>4. SumsInv' /\ Base' = Base /\ trace' = trace /\ gen_elems' = gen_elems /\ ~ Recording'
  BY <1>3, QuietKeepsSums
<1>5. CASE \E line \in {"422", "1282"} : Abort(line)
  <2>1. pc' = "abort" /\ assert_failed' \in {"422", "1282"}
    BY <1>5 DEF Abort
  <2> QED  BY <1>4, <2>1 DEF FundInv, PrefixInv, NothingRunsOut
<1>6. CASE ~ \E line \in {"422", "1282"} : Abort(line)
  <2>1. /\ pc' = "commit" /\ this'.mb = mb /\ init_addrs' = Tail(init_addrs)
        /\ assert_failed' = assert_failed
    <3>1. ASSUME NEW b, NEW addr, NEW reuse, NEW d, NEW first, Choose(b, addr, reuse, d, first)
          PROVE  pc' = "commit" /\ this'.mb = b
      BY <3>1 DEF Choose
    <3>2. /\ pc' = "commit" /\ this'.mb = MB(Head(init_addrs)) /\ init_addrs' = Tail(init_addrs)
          /\ assert_failed' = assert_failed
      BY <1>2, <1>6, <3>1 DEF InitAccess, UNCHANGED_but_MB
    <3> QED  BY <1>0, <3>2
  <2>2. Left(mb)' = Left(mb) /\ UNCHANGED new_MBs /\ Blocks' = Blocks
    BY <1>2, <1>3 DEF Quiet, SameCounts, Left
  <2>3. /\ Base \in Int /\ gen_elems \in Nat /\ MAX_INIT_ELEMS \in Nat /\ init_addrs \in Seq(Int)
        /\ \A i \in 1 .. Len(init_addrs) : init_addrs[i] = trace[Base + gen_elems + i]
        /\ \A b \in Blocks : Generated(b) = Cardinality(EarlyTouches(b, gen_elems))
    BY <1>1, Numbers DEF FundInv, PrefixInv, IInv, RecordInv
  <2>4. /\ Len(Tail(init_addrs)) = MAX_INIT_ELEMS - gen_elems
        /\ \A i \in 1 .. Len(Tail(init_addrs)) : Tail(init_addrs)[i] = trace[Base + gen_elems + 1 + i]
    <3>1. /\ Len(Tail(init_addrs)) = Len(init_addrs) - 1
          /\ \A i \in 1 .. Len(init_addrs) - 1 : Tail(init_addrs)[i] = init_addrs[i + 1]
      BY <1>2, <2>3
    <3>2. \A i \in 1 .. Len(init_addrs) - 1 : init_addrs[i + 1] = trace[Base + gen_elems + (i + 1)]
      BY <1>2, <2>3
    <3>3. \A i \in 1 .. Len(init_addrs) - 1 : Base + gen_elems + (i + 1) = Base + gen_elems + 1 + i
      BY <1>2, <2>3
    <3>4. Len(init_addrs) = MAX_INIT_ELEMS + 1 - gen_elems
      BY <1>2
    <3>5. Len(Tail(init_addrs)) = MAX_INIT_ELEMS - gen_elems
      BY <2>3, <3>1, <3>4
    <3>6. \A i \in 1 .. Len(init_addrs) - 1 : Tail(init_addrs)[i] = trace[Base + gen_elems + 1 + i]
      BY <3>1, <3>2, <3>3
    <3> QED  BY <3>1, <3>5, <3>6
  <2>5. \A b \in Blocks : /\ Generated(b)' = Generated(b)
                          /\ EarlyTouches(b, gen_elems)' = EarlyTouches(b, gen_elems)
    BY <1>4, <2>2 DEF Generated, EarlyTouches
  <2>6. PrefixInv'
    <3> QED  BY <1>2, <1>4, <2>1, <2>2, <2>3, <2>4, <2>5 DEF PrefixInv
  <2> QED  BY <1>2, <1>4, <2>1, <2>2, <2>6 DEF FundInv, NothingRunsOut, Left
<1> QED  BY <1>5, <1>6

\* Choosing the next access keeps the invariant: a macroblock is chosen only with accesses left.
LEMMA SelectKeepsFunds == ASSUME IInv, CountInv, FundInv, Select PROVE FundInv'
<1>1. CASE InitAccess
  BY <1>1, InitAccessKeepsFunds
<1>2. CASE ~ InitAccess
  <2>1. Quiet
    BY SelectIsQuiet
  <2>2. SumsInv' /\ gen_elems' = gen_elems /\ ~ Recording'
    BY <2>1, QuietKeepsSums
  <2>3. gen_elems > MAX_INIT_ELEMS /\ gen_elems \in Nat /\ MAX_INIT_ELEMS \in Nat
    BY <1>2, LookKeepsFunds, Numbers
  <2>4. PrefixInv'
    BY <2>2, <2>3 DEF PrefixInv
  <2>5. (pc' = "commit" => Left(this.mb)' > 0) /\ NothingRunsOut'
    <3>1. CASE pc' # "commit" /\ assert_failed' \notin OutLines
      BY <3>1 DEF OutLines, NothingRunsOut
    <3>2. CASE \E mb \in Blocks : Left(mb) > 0 /\ Picks(mb)
      <4>1. PICK mb \in Blocks : Left(mb) > 0 /\ Picks(mb)
        BY <3>2
      <4>2. Left(mb)' > 0
        BY <2>1, <4>1 DEF Quiet, SameCounts, Left
      <4> QED  BY <4>1, <4>2 DEF Picks, OutLines, NothingRunsOut, Left
    <3> QED  BY <1>2, <3>1, <3>2, LookKeepsFunds
  <2> QED  BY <2>2, <2>4, <2>5 DEF FundInv
<1> QED  BY <1>1, <1>2

--------------------------------------------------------------------------------
(* Outputting an access *)

\* Spending one of a set of weights takes no more than one from their sum.
LEMMA SpentOne ==
  ASSUME NEW ct, IsFiniteSet(DOMAIN ct), \A x \in DOMAIN ct : ct[x] \in Nat, NEW e
  PROVE  SumFunction(Spend(ct, {e})) \in Int /\ SumFunction(Spend(ct, {e})) >= SumFunction(ct) - 1
<1> DEFINE new == Spend(ct, {e})
<1>1. DOMAIN new = DOMAIN ct
  BY DEF Spend
<1>2. \A x \in DOMAIN ct : new[x] = IF x = e /\ ct[x] > 0 THEN ct[x] - 1 ELSE ct[x]
  BY DEF Spend
<1> HIDE DEF new
<1>3. \A x \in DOMAIN ct : ct[x] \in Int
  OBVIOUS
<1>4. CASE e \in DOMAIN ct /\ ct[e] > 0
  <2>1. DOMAIN new = DOMAIN ct \cup {e} /\ \A x \in DOMAIN ct : x # e => new[x] = ct[x]
    BY <1>1, <1>2, <1>4
  <2>2. new[e] = (IF e \in DOMAIN ct THEN ct[e] ELSE 0) + (0 - 1)
    BY <1>2, <1>3, <1>4
  <2>3. SumFunction(new) = SumFunction(ct) + (0 - 1) /\ SumFunction(ct) \in Int
    BY <1>3, <2>1, <2>2, SumCount, 0 - 1 \in Int
  <2> QED  BY <2>3 DEF new
<1>5. CASE ~ (e \in DOMAIN ct /\ ct[e] > 0)
  <2>1. \A x \in DOMAIN ct : new[x] = ct[x]
    BY <1>2, <1>5
  <2>2. SumFunction(new) = SumFunction(ct)
    BY <1>1, <2>1, SumSame DEF SumFunction
  <2>3. SumFunction(ct) \in Int
    BY <1>3, SumInt DEF SumFunction
  <2> QED  BY <2>2, <2>3 DEF new
<1> QED  BY <1>4, <1>5

\* The weights are natural numbers.
LEMMA WeightsNat ==
  ASSUME IInv, WeightsInSync, Generating
  PROVE  /\ \A r \in DOMAIN unique_MB_reuse : unique_MB_reuse[r] \in Nat
         /\ \A i \in 1 .. Len(unique_mbs) : unique_mbs[i] \in Blocks /\ unique_mb_ct[i] = Left(unique_mbs[i])
         /\ DOMAIN unique_mb_ct = 1 .. Len(unique_mbs) /\ DOMAIN unique_mbs = 1 .. Len(unique_mbs)
         /\ Len(unique_mbs) \in Nat
<1>1. /\ DOMAIN unique_MB_reuse \subseteq 0 .. MAX_MB_REUSE
      /\ MB_reuse \in [0 .. MAX_MB_REUSE -> Nat]
      /\ unique_mbs \in Seq(Blocks) /\ unique_mb_ct \in Seq(Int)
  BY DEF IInv, RecordInv
<1>2. \A i \in 1 .. Len(unique_mbs) : unique_mbs[i] \in Blocks
  BY <1>1, ElementOfSeq
<1> QED  BY <1>1, <1>2 DEF WeightsInSync

\* The reuse distances do not run out before the phase is over.
LEMMA ReuseIsLeft ==
  ASSUME IInv, FundInv, WeightsInSync, pc = "commit"
  PROVE  LET new == SumFunction(Spend(unique_MB_reuse, {this.reuse}))
         IN  new \in Int /\ new >= Recorded - (gen_elems + 1) /\ new # 0
<1> DEFINE new == SumFunction(Spend(unique_MB_reuse, {this.reuse}))
<1>1. Generating /\ pc \in Drawing /\ gen_elems < GEN_LEN
  BY DEF Generating, Drawing, IInv, ControlInv
<1>2. new \in Int /\ new >= SumFunction(unique_MB_reuse) - 1
  <2>1. IsFiniteSet(DOMAIN unique_MB_reuse) /\ \A r \in DOMAIN unique_MB_reuse : unique_MB_reuse[r] \in Nat
    BY <1>1, WeightsNat, ReuseFinite
  <2> QED  BY <2>1, SpentOne
<1>3. SumFunction(unique_MB_reuse) >= Recorded - gen_elems /\ SumFunction(unique_MB_reuse) \in Int
  <2>1. IsFiniteSet(DOMAIN unique_MB_reuse) /\ \A r \in DOMAIN unique_MB_reuse : unique_MB_reuse[r] \in Int
    BY <1>1, WeightsNat, ReuseFinite
  <2>2. SumFunction(unique_MB_reuse) \in Int
    BY <2>1, SumInt DEF SumFunction
  <2> QED  BY <1>1, <2>2 DEF FundInv, SumsInv
<1>4. /\ Recorded = PHASE_LEN /\ PHASE_LEN \in Nat /\ GEN_LEN \in Nat /\ gen_elems \in Nat
      /\ GEN_LEN + 4 <= PHASE_LEN
  BY <1>1, PhaseIsComplete, Numbers
<1> HIDE DEF new
<1>5. new >= Recorded - (gen_elems + 1) /\ new # 0
  BY <1>1, <1>2, <1>3, <1>4
<1> QED  BY <1>2, <1>5 DEF new

\* Nor do the macroblocks.
LEMMA BlocksAreLeft ==
  ASSUME IInv, FundInv, WeightsInSync, pc = "commit"
  PROVE  SumFunction(Spend(unique_mb_ct, {i \in DOMAIN unique_mbs : unique_mbs[i] = this.mb})) # 0
<1>0. PICK mb : mb = this.mb
  OBVIOUS
<1> DEFINE hits == {i \in DOMAIN unique_mbs : unique_mbs[i] = mb}
           new  == Spend(unique_mb_ct, hits)
           n    == Len(unique_mbs)
<1>1. Generating /\ pc \in Drawing /\ gen_elems < GEN_LEN /\ mb \in Blocks
  BY <1>0 DEF Generating, Drawing, IInv, ControlInv, ChosenInv
<1>2. /\ \A i \in 1 .. n : unique_mbs[i] \in Blocks /\ unique_mb_ct[i] = Left(unique_mbs[i])
      /\ DOMAIN unique_mb_ct = 1 .. n /\ DOMAIN unique_mbs = 1 .. n /\ n \in Nat
  BY <1>1, WeightsNat
<1>3. \A b \in Blocks : Left(b) \in Nat /\ BlocksLeft[b] = Left(b)
  BY LeftNat
<1>4. /\ DOMAIN new = 1 .. n
      /\ \A i \in 1 .. n : new[i] = IF unique_mbs[i] = mb /\ Left(unique_mbs[i]) > 0
                                     THEN Left(unique_mbs[i]) - 1 ELSE Left(unique_mbs[i])
  BY <1>2 DEF Spend
<1>5. \A i \in 1 .. n : new[i] \in Nat
  BY <1>2, <1>3, <1>4
<1>6. IsFiniteSet(1 .. n)
  BY <1>2, FS_Interval, 1 \in Int, n \in Int
<1> HIDE DEF new, hits, n
<1> SUFFICES ASSUME SumFunction(new) = 0 PROVE FALSE
  BY <1>0 DEF new, hits
<1>7. \A i \in 1 .. n : new[i] = 0
  <2>1. \A i \in 1 .. n : new[i] <= SumFunctionOnSet(new, 1 .. n)
    BY <1>5, <1>6, SumNat
  <2> QED  BY <1>4, <1>5, <2>1 DEF SumFunction
<1>8. \A b \in Blocks : IF b = mb THEN Left(b) <= 1 ELSE Left(b) = 0
  <2> SUFFICES ASSUME NEW b \in Blocks PROVE IF b = mb THEN Left(b) <= 1 ELSE Left(b) = 0
    OBVIOUS
  <2>1. PICK i \in 1 .. n : unique_mbs[i] = b
    BY <1>1 DEF FundInv, SumsInv, n
  <2> QED  BY <1>3, <1>4, <1>7, <2>1
<1>9. /\ IsFiniteSet(Blocks) /\ SumFunctionOnSet(BlocksLeft, Blocks) = PHASE_LEN - gen_elems
      /\ PHASE_LEN \in Nat /\ gen_elems \in Nat /\ PHASE_LEN - gen_elems > 1
  <2>1. /\ Recorded = PHASE_LEN /\ PHASE_LEN \in Nat /\ GEN_LEN \in Nat /\ gen_elems \in Nat
        /\ GEN_LEN + 4 <= PHASE_LEN
    BY <1>1, PhaseIsComplete, Numbers
  <2>2. IsFiniteSet(Blocks) /\ SumFunction(BlocksLeft) = PHASE_LEN - gen_elems
    BY <1>1, <2>1 DEF FundInv, SumsInv
  <2>3. DOMAIN BlocksLeft = Blocks
    BY DEF BlocksLeft, Blocks
  <2> QED  BY <1>1, <2>1, <2>2, <2>3 DEF SumFunction
<1>10. SumFunctionOnSet(BlocksLeft, Blocks) = BlocksLeft[mb] + SumFunctionOnSet(BlocksLeft, Blocks \ {mb})
  <2>1. \A b \in Blocks : BlocksLeft[b] \in Int
    BY <1>3
  <2> QED  BY <1>1, <1>9, <2>1, SumRemove
<1>11. SumFunctionOnSet(BlocksLeft, Blocks \ {mb}) = 0
  <2>1. IsFiniteSet(Blocks \ {mb}) /\ \A b \in Blocks \ {mb} : BlocksLeft[b] = 0
    BY <1>3, <1>8, <1>9, FS_Subset
  <2> QED  BY <2>1, SumZero
<1> QED  BY <1>1, <1>3, <1>8, <1>9, <1>10, <1>11

\* An access that is output is taken from both sums.
LEMMA CountedKeepsSums ==
  ASSUME IInv, FundInv, WeightsInSync, Counted
  PROVE  SumsInv' /\ Base' = Base /\ ~ Recording'
<1>0. PICK mb : mb = this.mb
  OBVIOUS
<1>1. /\ pc = "commit" /\ pc' = "next" /\ pc \in Drawing /\ pc' \in Drawing /\ ~ Recording'
      /\ gen_elems' = gen_elems + 1
      /\ UNCHANGED <<trace, num_elems, unique_mbs>>
      /\ mb \in Blocks /\ Left(mb) \in Nat /\ Blocks' = Blocks
      /\ \A b \in Blocks : per_MB_historytable'[b].num_accesses = IF b = mb THEN Left(mb) - 1 ELSE Left(b)
      /\ unique_MB_reuse' = Spend(unique_MB_reuse, {this.reuse})
  BY <1>0 DEF Counted, Drawing, Recording, input
<1>2. Base' = Base /\ Recorded' = Recorded /\ Recorded \in Int /\ gen_elems \in Int
  BY <1>1, Numbers DEF Base, Recorded
<1>3. IsFiniteSet(Blocks) /\ SumFunction(BlocksLeft) = Recorded - gen_elems
  BY <1>1 DEF FundInv, SumsInv
<1>4. SumFunction(BlocksLeft') = Recorded - (gen_elems + 1)
  <2> DEFINE f == BlocksLeft
             g == BlocksLeft'
  <2>1. /\ DOMAIN f = Blocks /\ DOMAIN g = Blocks
        /\ \A b \in Blocks : f[b] = Left(b) /\ f[b] \in Int
        /\ \A b \in Blocks : g[b] = IF b = mb THEN Left(mb) - 1 ELSE Left(b)
    <3>1. \A b \in Blocks : f[b] = Left(b) /\ f[b] \in Nat
      BY LeftNat
    <3>2. DOMAIN f = Blocks /\ DOMAIN g = Blocks' /\ \A b \in Blocks' : g[b] = per_MB_historytable'[b].num_accesses
      BY DEF BlocksLeft, Blocks
    <3> QED  BY <1>1, <3>1, <3>2
  <2> HIDE DEF f, g
  <2>2. DOMAIN g = DOMAIN f \cup {mb} /\ \A b \in DOMAIN f : b # mb => g[b] = f[b]
    BY <1>1, <2>1
  <2>3. g[mb] = (IF mb \in DOMAIN f THEN f[mb] ELSE 0) + (0 - 1)
    BY <1>1, <2>1
  <2>4. IsFiniteSet(DOMAIN f) /\ \A b \in DOMAIN f : f[b] \in Int
    BY <1>3, <2>1
  <2>5. SumFunction(g) = SumFunction(f) + (0 - 1)
    BY <2>2, <2>3, <2>4, SumCount, 0 - 1 \in Int
  <2> QED  BY <1>2, <1>3, <2>5 DEF f, g
<1>5. SumFunction(unique_MB_reuse') >= Recorded - (gen_elems + 1)
  BY <1>1, ReuseIsLeft
<1>6. \A b \in Blocks : \E i \in 1 .. Len(unique_mbs) : unique_mbs[i] = b
  BY <1>1 DEF FundInv, SumsInv
<1>7. /\ SumFunction(BlocksLeft)' = Recorded' - gen_elems'
      /\ SumFunction(unique_MB_reuse)' >= Recorded' - gen_elems'
  BY <1>1, <1>2, <1>4, <1>5
<1> QED  BY <1>1, <1>2, <1>3, <1>6, <1>7 DEF SumsInv

\* One more of the first touches has been generated.
LEMMA CountedKeepsPrefix ==
  ASSUME IInv, CountInv, FundInv, Counted, Base' = Base, ~ Recording',
         UNCHANGED init_addrs
  PROVE  PrefixInv'
<1>0. PICK mb : mb = this.mb
  OBVIOUS
<1>1. /\ pc = "commit" /\ pc' = "next" /\ gen_elems' = gen_elems + 1 /\ trace' = trace
      /\ Blocks' = Blocks
      /\ new_MBs' = [b \in DOMAIN new_MBs \cup {mb} |->
                       (IF b \in DOMAIN new_MBs THEN new_MBs[b] ELSE 0) + (IF b = mb THEN 1 ELSE 0)]
  BY <1>0 DEF Counted, input
<1>2. gen_elems \in Nat /\ MAX_INIT_ELEMS \in Nat /\ Base \in Int
  BY Numbers
<1> DEFINE next == Base + gen_elems + 1
<1>3. CASE gen_elems < MAX_INIT_ELEMS
  <2>1. /\ \A b \in Blocks : Generated(b) = Cardinality(EarlyTouches(b, gen_elems))
        /\ mb = MB(trace[next])
        /\ Len(init_addrs) = MAX_INIT_ELEMS - gen_elems
        /\ \A i \in 1 .. Len(init_addrs) : init_addrs[i] = trace[Base + gen_elems + 1 + i]
    BY <1>0, <1>1, <1>2, <1>3 DEF FundInv, PrefixInv
  <2>2. ASSUME NEW b \in Blocks
        PROVE  Generated(b)' = Cardinality(EarlyTouches(b, gen_elems)')
    <3>1. \A c \in DOMAIN new_MBs : new_MBs[c] \in Nat
      BY DEF CountInv
    <3>2. Generated(b)' = Generated(b) + (IF b = mb THEN 1 ELSE 0) /\ Generated(b) \in Nat
      BY <1>1, <3>1 DEF Generated
    <3> DEFINE early == EarlyTouches(b, gen_elems)
    <3>3. /\ EarlyTouches(b, gen_elems)' = IF b = mb THEN early \cup {next} ELSE early
          /\ next \notin early
      <4>1. EarlyTouches(b, gen_elems)' = {i \in Base + 1 .. next : MB(trace[i]) = b}
        BY <1>1, <1>2 DEF EarlyTouches
      <4>2. early = {i \in Base + 1 .. next - 1 : MB(trace[i]) = b}
        BY <1>2 DEF EarlyTouches
      <4>3. next \in Int /\ next >= Base + 1
        BY <1>2
      <4> HIDE DEF next, early
      <4>4. CASE b = mb
        BY <1>2, <2>1, <4>1, <4>2, <4>3, <4>4
      <4>5. CASE b # mb
        <5>1. \A i \in Base + 1 .. next : MB(trace[i]) = b => i \in Base + 1 .. next - 1
          BY <1>2, <2>1, <4>3, <4>5
        <5> QED  BY <1>2, <4>1, <4>2, <4>3, <4>5, <5>1
      <4> QED  BY <4>4, <4>5
    <3>4. IsFiniteSet(early)
      <4>1. Base + 1 \in Int /\ Base + gen_elems \in Int
        BY <1>2
      <4>2. IsFiniteSet(Base + 1 .. Base + gen_elems)
        BY <4>1, FS_Interval
      <4> QED  BY <4>2, FS_Subset DEF EarlyTouches
    <3> HIDE DEF early
    <3>5. Cardinality(early \cup {next}) = Cardinality(early) + 1
      BY <3>3, <3>4, FS_AddElement
    <3> QED  BY <2>1, <3>2, <3>3, <3>5 DEF early
  <2>3. \A i \in 1 .. Len(init_addrs) : init_addrs[i] = trace[Base + (gen_elems + 1) + i]
    BY <1>2, <2>1
  <2>4. /\ \A b \in Blocks' : Generated(b)' = Cardinality(EarlyTouches(b, gen_elems)')
        /\ Len(init_addrs') = MAX_INIT_ELEMS + 1 - gen_elems'
        /\ \A i \in 1 .. Len(init_addrs') : init_addrs'[i] = trace'[Base' + gen_elems' + i]
    BY <1>1, <1>2, <2>1, <2>2, <2>3
  <2> QED  BY <1>1, <2>4 DEF PrefixInv
<1>4. CASE gen_elems >= MAX_INIT_ELEMS
  <2>1. ~ (gen_elems' <= MAX_INIT_ELEMS)
    BY <1>1, <1>2, <1>4
  <2> QED  BY <2>1 DEF PrefixInv
<1> QED  BY <1>2, <1>3, <1>4

\* Generating the chosen access keeps the invariant.
LEMMA CommitKeepsFunds ==
  ASSUME IInv, CountInv, WeightsInSync, FundInv, Commit PROVE FundInv'
<1>1. pc = "commit" /\ Left(this.mb) # 0
  <2>1. pc = "commit"
    BY DEF Commit
  <2> QED  BY <2>1 DEF FundInv
<1> DEFINE mb    == this.mb
           m     == proxy_access(per_MB_historytable[mb], this.delta, this.first, this.addr)
<1>2. \/ Abort("1839") \/ Abort(ReinitAssert(m, mb))
      \/ UNCHANGED <<init_addrs, assert_failed>>
  BY <1>1, ReuseIsLeft, BlocksAreLeft DEF Commit
<1>3. ReinitAssert(m, mb) \notin OutLines
  BY DEF ReinitAssert, OutLines
<1> HIDE DEF m
<1>4. NothingRunsOut'
  BY <1>2, <1>3 DEF Abort, OutLines, NothingRunsOut, FundInv
<1>5. CASE Quiet /\ pc' = "abort"
  <2>1. SumsInv' /\ ~ Recording'
    BY <1>5, QuietKeepsSums
  <2>2. PrefixInv'
    BY <1>5, <2>1 DEF PrefixInv
  <2> QED  BY <1>4, <1>5, <2>1, <2>2 DEF FundInv
<1>6. CASE Counted
  <2>1. SumsInv' /\ Base' = Base /\ ~ Recording'
    BY <1>6, CountedKeepsSums
  <2>2. UNCHANGED init_addrs /\ pc' = "next"
    BY <1>2, <1>6 DEF Counted, Abort, profile
  <2>3. PrefixInv'
    BY <1>6, <2>1, <2>2, CountedKeepsPrefix
  <2> QED  BY <1>4, <2>1, <2>2, <2>3 DEF FundInv
<1> QED  BY <1>5, <1>6, CommitCounts

--------------------------------------------------------------------------------
(* The invariant, and what follows *)

\* The next phase starts with nothing recorded and nothing due.
LEMMA ClearKeepsFunds == ASSUME IInv, CountInv, FundInv, PhaseClear PROVE FundInv'
<1>1. /\ pc = "next" /\ pc' = "profile" /\ UNCHANGED <<trace, num_elems, assert_failed>>
      /\ per_MB_historytable' = NoEntries /\ init_addrs' = << >> /\ gen_elems' = 0
      /\ MB_reuse' = [r \in 0 .. MAX_MB_REUSE |-> 0]
  BY DEF PhaseClear, input
<1>2. num_elems \in Nat /\ num_elems % PHASE_LEN = 0 /\ MAX_INIT_ELEMS \in Nat
  BY <1>1, Numbers DEF CountInv, Drawing
<1>3. Recorded' = 0 /\ Recording' /\ pc' \notin Drawing
  BY <1>1, <1>2 DEF Recorded, Base, Recording, Drawing
<1>4. Blocks' = {} /\ DOMAIN BlocksLeft' = {} /\ DOMAIN MB_reuse' = 0 .. MAX_MB_REUSE
  BY <1>1 DEF Blocks, NoEntries, BlocksLeft
<1>5. SumFunction(BlocksLeft') = 0
  BY <1>4, SumEmpty DEF SumFunction
<1>6. SumFunction(MB_reuse') = 0
  <2>1. IsFiniteSet(0 .. MAX_MB_REUSE) /\ \A r \in 0 .. MAX_MB_REUSE : MB_reuse'[r] = 0
    BY <1>1, ReuseFinite
  <2>2. SumFunctionOnSet(MB_reuse', 0 .. MAX_MB_REUSE) = 0
    BY <2>1, SumZero
  <2> QED  BY <1>4, <2>2 DEF SumFunction
<1>7. SumsInv'
  <2>1. IsFiniteSet(Blocks')
    BY <1>4, FS_EmptySet
  <2>2. SumFunction(BlocksLeft)' = Recorded' - gen_elems' /\ SumFunction(MB_reuse)' = Recorded'
    BY <1>1, <1>3, <1>5, <1>6
  <2> QED  BY <1>3, <1>4, <2>1, <2>2 DEF SumsInv
<1>8. PrefixInv'
  BY <1>1, <1>2, <1>3 DEF PrefixInv
<1> QED  BY <1>1, <1>7, <1>8 DEF FundInv, NothingRunsOut

\* So does the first phase.
LEMMA InitFunds == Init => FundInv
<1> SUFFICES ASSUME Init PROVE FundInv
  OBVIOUS
<1>1. /\ pc = "profile" /\ num_elems = 0 /\ num_elems % PHASE_LEN = 0 /\ MAX_INIT_ELEMS \in Nat
      /\ Blocks = {} /\ DOMAIN BlocksLeft = {} /\ DOMAIN MB_reuse = 0 .. MAX_MB_REUSE
      /\ \A r \in 0 .. MAX_MB_REUSE : MB_reuse[r] = 0
      /\ init_addrs = << >> /\ gen_elems = 0 /\ assert_failed = "none"
  BY HaloAssumption DEF Init, NoEntries, Blocks, BlocksLeft
<1>2. Recorded = 0 /\ Recording /\ pc \notin Drawing
  BY <1>1 DEF Recorded, Base, Recording, Drawing
<1>3. SumFunction(BlocksLeft) = 0
  BY <1>1, SumEmpty DEF SumFunction
<1>4. SumFunction(MB_reuse) = 0
  <2>1. IsFiniteSet(0 .. MAX_MB_REUSE)
    BY ReuseFinite, InitIInv
  <2>2. SumFunctionOnSet(MB_reuse, 0 .. MAX_MB_REUSE) = 0
    BY <1>1, <2>1, SumZero
  <2> QED  BY <1>1, <2>2 DEF SumFunction
<1>5. SumsInv
  BY <1>1, <1>2, <1>3, <1>4, FS_EmptySet DEF SumsInv
<1>6. PrefixInv
  BY <1>1, <1>2 DEF PrefixInv
<1> QED  BY <1>1, <1>5, <1>6 DEF FundInv, NothingRunsOut

\* Every step keeps the invariant.
LEMMA NextKeepsFunds ==
  IInv /\ CountInv /\ WeightsInSync /\ FundInv /\ [Next]_vars => FundInv'
<1> SUFFICES ASSUME IInv, CountInv, WeightsInSync, FundInv, [Next]_vars PROVE FundInv'
  OBVIOUS
<1>1. CASE EndOfTrace
  <2>1. /\ pc' = "done" /\ UNCHANGED <<per_MB_historytable, assert_failed>>
    BY <1>1 DEF EndOfTrace, profile
  <2> QED  BY <2>1 DEF FundInv, SumsInv, PrefixInv, Recording, Drawing, Blocks, NothingRunsOut
<1>2. CASE UNCHANGED vars
  BY <1>2 DEF vars, input, profile, generator, FundInv, SumsInv, PrefixInv, Recording, Recorded, Base,
              Blocks, BlocksLeft, NothingRunsOut, Left, Generated, EarlyTouches
<1> QED
  BY <1>1, <1>2, ReadKeepsFunds, PrepareKeepsFunds, SelectKeepsFunds, CommitKeepsFunds, ClearKeepsFunds
  DEF Next, Step, Terminated, Select

\* What is left adds up to what the phase is due, and the first addresses are the phase's.
THEOREM FundsAreKept == Spec => []FundInv
<1>1. Spec => []CountInv
  BY Invariance, InitConserves, NextConserves, PTL DEF Spec
<1> QED  BY <1>1, Invariance, WeightsStayInSync, InitFunds, NextKeepsFunds, PTL DEF Spec

\* The assertions at 570, 1272, 1884 and 1924 never fail: the accesses of a macroblock, the
\* first addresses, the reuse distances and the macroblocks last for the share of the phase.
THEOREM NothingEverRunsOut == Spec => []NothingRunsOut
<1>1. FundInv => NothingRunsOut
  BY DEF FundInv
<1> QED  BY <1>1, FundsAreKept, PTL

\* While the phase is due an access, some macroblock has one left.
THEOREM AccessesAreLeft == Spec => []EnoughAccessesLeft
<1>1. IInv /\ FundInv => EnoughAccessesLeft
  <2> SUFFICES ASSUME IInv, FundInv PROVE EnoughAccessesLeft
    OBVIOUS
  <2> DEFINE left == [mb \in DOMAIN per_MB_historytable |-> per_MB_historytable[mb].num_accesses]
  <2>1. \A mb \in DOMAIN left : left[mb] \in Nat
    BY LeftNat DEF Left, Blocks
  <2>2. gen_elems \in 0 .. PHASE_LEN \div 5
    BY Numbers DEF GEN_LEN
  <2>3. ASSUME pc \notin {"profile", "done", "abort"}, gen_elems < PHASE_LEN \div 5
        PROVE  \E mb \in DOMAIN left : left[mb] > 0
    <3>1. Recording \/ pc \in Drawing
      BY <2>3 DEF IInv, ControlInv, Recording, Drawing
    <3>2. /\ gen_elems < GEN_LEN /\ GEN_LEN \in Nat /\ gen_elems \in Nat /\ PHASE_LEN \in Nat
          /\ GEN_LEN + 4 <= PHASE_LEN /\ Recorded = PHASE_LEN
      <4>1. gen_elems < GEN_LEN
        BY <2>3 DEF GEN_LEN
      <4>2. GEN_LEN \in Nat /\ gen_elems \in Nat /\ PHASE_LEN \in Nat /\ GEN_LEN + 4 <= PHASE_LEN
        BY <4>1, Numbers
      <4>3. num_elems \in Nat
        BY Numbers
      <4>4. Recorded = PHASE_LEN
        BY <2>3, <4>2, <4>3 DEF Base, Recorded
      <4> QED  BY <4>1, <4>2, <4>4
    <3>3. IsFiniteSet(Blocks) /\ SumFunctionOnSet(BlocksLeft, Blocks) = PHASE_LEN - gen_elems
      BY <3>1, <3>2 DEF FundInv, SumsInv, SumFunction, BlocksLeft, Blocks
    <3>4. CASE \A mb \in Blocks : BlocksLeft[mb] = 0
      <4>1. SumFunctionOnSet(BlocksLeft, Blocks) = 0
        BY <3>3, <3>4, SumZero
      <4> QED  BY <3>2, <3>3, <4>1
    <3>5. CASE \E mb \in Blocks : BlocksLeft[mb] # 0
      BY <2>1, <3>5 DEF BlocksLeft, Blocks
    <3> QED  BY <3>4, <3>5
  <2> QED  BY <2>1, <2>2, <2>3 DEF EnoughAccessesLeft, Budget!EnoughLeft
<1> QED  BY <1>1, Invariance, FundsAreKept, PTL

================================================================================
