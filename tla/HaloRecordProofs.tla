--------------------------- MODULE HaloRecordProofs ---------------------------
(***************************************************************************)
(* Theorems about what HaloLocality records of a phase and generates again *)
(* from it, for every value of its constants:                              *)
(*   - while no macroblock can leave the list, new ones are due only as    *)
(*     long as there are some;                                             *)
(*   - the reuse distances measured are those of their definition;         *)
(*   - the first deltas of a macroblock stay in it;                        *)
(*   - cascading the delta tables loses no prediction;                     *)
(*   - the first addresses of a phase are replayed as they were recorded;  *)
(*   - the delta tables count, for every history of deltas, what follows   *)
(*     it in the phase.                                                    *)
(***************************************************************************)
EXTENDS HaloProofs

--------------------------------------------------------------------------------
(* What update_mb_reuse_list makes of the list *)

\* A macroblock that is found is moved to the front; one that is not found is put in
\* front, and the oldest leaves a full list.
LEMMA MovedToFront ==
  ASSUME NEW S, NEW list \in Seq(S), NEW mb \in S, Len(list) <= MAX_MB_REUSE
  PROVE  LET pos == is_mb_used(list, mb)
             n   == Len(list)
             new == update_mb_reuse_list(list, mb)
         IN  /\ pos < n =>
                  /\ Len(new) = n
                  /\ \A i \in 1 .. n : new[i] = IF i = 1 THEN mb
                                                ELSE IF i <= pos + 1 THEN list[i - 1] ELSE list[i]
             /\ pos >= n =>
                  /\ Len(new) = IF n = MAX_MB_REUSE THEN n ELSE n + 1
                  /\ \A i \in 1 .. Len(new) : new[i] = IF i = 1 THEN mb ELSE list[i - 1]
<1> USE HaloAssumption
<1>0. PICK n : n = Len(list)
  OBVIOUS
<1>1. PICK pos : pos = is_mb_used(list, mb)
  OBVIOUS
<1>2. n \in Nat /\ n <= MAX_MB_REUSE /\ pos \in 0 .. MAX_MB_REUSE /\ MAX_MB_REUSE \in Nat \ {0}
  BY <1>0, <1>1, PositionOnList
<1>3. PICK new : new = update_mb_reuse_list(list, mb)
  OBVIOUS
<1>4. /\ <<mb>> \in Seq(S) /\ Len(<<mb>>) = 1 /\ <<mb>>[1] = mb
  OBVIOUS
<1>8. ASSUME NEW a \in Seq(S), NEW b \in Seq(S)
      PROVE  /\ a \o b \in Seq(S) /\ Len(a \o b) = Len(a) + Len(b)
             /\ \A i \in 1 .. Len(a) + Len(b) : (a \o b)[i] = IF i <= Len(a) THEN a[i] ELSE b[i - Len(a)]
  BY ConcatProperties
<1>5. ASSUME NEW kept \in Seq(S), new = <<mb>> \o kept
      PROVE  /\ Len(new) = Len(kept) + 1 /\ Len(kept) \in Nat
             /\ \A i \in 1 .. Len(kept) + 1 : new[i] = IF i = 1 THEN mb ELSE kept[i - 1]
  <2>1. /\ Len(new) = 1 + Len(kept) /\ Len(kept) \in Nat
        /\ \A i \in 1 .. 1 + Len(kept) : new[i] = IF i <= 1 THEN mb ELSE kept[i - 1]
    BY <1>4, <1>5, ConcatProperties
  <2> QED  BY <2>1
<1>6. CASE pos < n
  <2> DEFINE a == SubSeq(list, 1, pos)
             b == SubSeq(list, pos + 2, n)
  <2>1. /\ a \in Seq(S) /\ Len(a) = pos /\ \A i \in 1 .. pos : a[i] = list[i]
    <3>1. \A i \in 1 .. pos : list[i] \in S
      BY <1>0, <1>2, <1>6, ElementOfSeq
    <3> QED  BY <1>0, <1>2, <1>6, <3>1, SubSeqProperties
  <2>2. /\ b \in Seq(S) /\ Len(b) = n - pos - 1 /\ \A i \in 1 .. n - pos - 1 : b[i] = list[pos + 1 + i]
    <3>1. \A i \in pos + 2 .. n : list[i] \in S
      BY <1>0, <1>2, <1>6, ElementOfSeq
    <3>2. /\ b \in Seq(S)
          /\ Len(b) = IF pos + 2 <= n THEN n - (pos + 2) + 1 ELSE 0
          /\ \A i \in 1 .. n - (pos + 2) + 1 : b[i] = list[(pos + 2) + i - 1]
      BY <1>0, <1>2, <1>6, <3>1, SubSeqProperties
    <3> HIDE DEF b
    <3> QED  BY <1>2, <1>6, <3>2
  <2> HIDE DEF a, b
  <2>3. /\ a \o b \in Seq(S) /\ Len(a \o b) = Len(a) + Len(b)
        /\ \A i \in 1 .. Len(a) + Len(b) : (a \o b)[i] = IF i <= Len(a) THEN a[i] ELSE b[i - Len(a)]
    BY <1>8, <2>1, <2>2, Zenon
  <2>4. new = <<mb>> \o (IF Len(a \o b) = MAX_MB_REUSE THEN SubSeq(a \o b, 1, Len(a \o b) - 1) ELSE a \o b)
    <3>1. is_mb_used(list, mb) < Len(list)
      BY <1>0, <1>1, <1>6
    <3> QED  BY <1>0, <1>1, <1>3, <3>1, Zenon DEF update_mb_reuse_list, a, b
  <2>5. Len(a \o b) = n - 1 /\ n - 1 < MAX_MB_REUSE
    BY <1>2, <1>6, <2>1, <2>2, <2>3
  <2>6. new = <<mb>> \o (a \o b)
    BY <1>2, <2>4, <2>5
  <2>7. Len(new) = n /\ \A i \in 1 .. n : new[i] = IF i = 1 THEN mb ELSE (a \o b)[i - 1]
    BY <1>2, <1>5, <2>3, <2>5, <2>6
  <2>8. ASSUME NEW i \in 1 .. n, i # 1 PROVE (a \o b)[i - 1] = IF i <= pos + 1 THEN list[i - 1] ELSE list[i]
    <3>1. i - 1 \in 1 .. Len(a) + Len(b)
      BY <1>2, <1>6, <2>1, <2>2, <2>8
    <3>2. CASE i <= pos + 1
      BY <1>2, <1>6, <2>1, <2>3, <2>8, <3>1, <3>2
    <3>3. CASE i > pos + 1
      <4>1. i - 1 - pos \in 1 .. n - pos - 1 /\ pos + 1 + (i - 1 - pos) = i /\ ~ (i - 1 <= pos)
        BY <1>2, <1>6, <2>8, <3>3
      <4>2. b[i - 1 - pos] = list[i]
        BY <2>2, <4>1
      <4>3. (a \o b)[i - 1] = b[i - 1 - pos]
        BY <2>1, <2>3, <3>1, <4>1
      <4> QED  BY <1>2, <3>3, <4>2, <4>3
    <3>4. i <= pos + 1 \/ i > pos + 1
      BY <1>2
    <3> QED  BY <3>2, <3>3, <3>4, Zenon
  <2>9. Len(new) = n /\ \A i \in 1 .. n : new[i] = IF i = 1 THEN mb
                                                ELSE IF i <= pos + 1 THEN list[i - 1] ELSE list[i]
    BY <2>7, <2>8
  <2>10. ~ (pos >= n)
    BY <1>2, <1>6
  <2> HIDE <1>6
  <2> QED  BY <1>0, <1>1, <1>3, <2>9, <2>10, Zenon
<1>7. CASE pos >= n
  <2> DEFINE kept == IF n = MAX_MB_REUSE THEN SubSeq(list, 1, n - 1) ELSE list
  <2>0. ~ (is_mb_used(list, mb) < Len(list))
    BY <1>0, <1>1, <1>2, <1>7
  <2>1. new = <<mb>> \o kept
    <3>1. new = <<mb>> \o (IF Len(list) = MAX_MB_REUSE THEN SubSeq(list, 1, Len(list) - 1) ELSE list)
      BY <1>3, <2>0, Zenon DEF update_mb_reuse_list
    <3> QED  BY <1>0, <3>1
  <2>2. /\ kept \in Seq(S) /\ Len(kept) = IF n = MAX_MB_REUSE THEN n - 1 ELSE n
        /\ \A i \in 1 .. Len(kept) : kept[i] = list[i]
    <3>1. CASE n = MAX_MB_REUSE
      <4>1. \A i \in 1 .. n - 1 : list[i] \in S
        BY <1>0, <1>2, ElementOfSeq
      <4>2. /\ SubSeq(list, 1, n - 1) \in Seq(S)
            /\ Len(SubSeq(list, 1, n - 1)) = IF 1 <= n - 1 THEN (n - 1) - 1 + 1 ELSE 0
            /\ \A i \in 1 .. (n - 1) - 1 + 1 : SubSeq(list, 1, n - 1)[i] = list[1 + i - 1]
        BY <1>0, <1>2, <4>1, SubSeqProperties
      <4>3. kept = SubSeq(list, 1, n - 1)
        BY <3>1
      <4> HIDE DEF kept
      <4> QED  BY <1>2, <3>1, <4>2, <4>3
    <3>2. CASE n # MAX_MB_REUSE
      BY <1>0, <3>2
    <3> QED  BY <3>1, <3>2
  <2> HIDE DEF kept
  <2>3. Len(new) = Len(kept) + 1 /\ \A i \in 1 .. Len(kept) + 1 : new[i] = IF i = 1 THEN mb ELSE kept[i - 1]
    BY <1>5, <2>1, <2>2
  <2>4. Len(new) = IF n = MAX_MB_REUSE THEN n ELSE n + 1
    BY <1>2, <2>2, <2>3
  <2>5. \A i \in 1 .. Len(new) : i # 1 => i - 1 \in 1 .. Len(kept)
    BY <1>2, <2>2, <2>3
  <2>6. \A i \in 1 .. Len(new) : new[i] = IF i = 1 THEN mb ELSE list[i - 1]
    BY <2>2, <2>3, <2>5
  <2> QED  BY <1>0, <1>1, <1>2, <1>3, <1>7, <2>4, <2>6
<1> QED  BY <1>2, <1>6, <1>7

\* The macroblocks of S are all on the list.
AllListed(list, S) == \A mb \in S : \E i \in 1 .. Len(list) : list[i] = mb

\* No macroblock leaves the list as long as there are no more of them than it holds.
LEMMA NoneLeaves ==
  ASSUME NEW S, IsFiniteSet(S), Cardinality(S) <= MAX_MB_REUSE,
         NEW list \in Seq(S), Len(list) <= MAX_MB_REUSE, NoRepeats(list),
         NEW mb \in S, NEW T \in SUBSET S, AllListed(list, T)
  PROVE  AllListed(update_mb_reuse_list(list, mb), T \cup {mb})
<1> USE HaloAssumption
<1>0. PICK n : n = Len(list)
  OBVIOUS
<1>1. PICK pos : pos = is_mb_used(list, mb)
  OBVIOUS
<1>2. PICK new : new = update_mb_reuse_list(list, mb)
  OBVIOUS
<1>3. /\ n \in Nat /\ n <= MAX_MB_REUSE /\ pos \in 0 .. MAX_MB_REUSE
      /\ pos < n => list[pos + 1] = mb
      /\ pos >= n => \A i \in 1 .. n : list[i] # mb
  <2>1. pos # MAX_MB_REUSE => pos < n /\ list[pos + 1] = mb
    BY <1>0, <1>1, PositionOnList
  <2>2. n \in Nat /\ n <= MAX_MB_REUSE /\ pos \in 0 .. MAX_MB_REUSE
    BY <1>0, <1>1, PositionOnList
  <2>3. (\E i \in 1 .. n : list[i] = mb) => pos # MAX_MB_REUSE
    BY <1>0, <1>1, PositionOnList
  <2> QED  BY <2>1, <2>2, <2>3
<1>4. CASE pos < n
  <2>1. Len(new) = n /\ \A i \in 1 .. n : new[i] = IF i = 1 THEN mb
                                                ELSE IF i <= pos + 1 THEN list[i - 1] ELSE list[i]
    BY <1>0, <1>1, <1>2, <1>4, MovedToFront
  <2>2. 1 \in 1 .. n /\ new[1] = mb
    BY <1>3, <1>4, <2>1
  <2>3. ASSUME NEW b \in T PROVE \E i \in 1 .. n : new[i] = b
    <3>1. PICK i \in 1 .. n : list[i] = b
      BY <1>0 DEF AllListed
    <3>2. CASE i <= pos
      <4>1. i + 1 \in 1 .. n /\ i + 1 # 1 /\ i + 1 <= pos + 1 /\ (i + 1) - 1 = i
        BY <1>3, <1>4, <3>2
      <4>2. new[i + 1] = list[(i + 1) - 1]
        BY <2>1, <4>1
      <4>3. new[i + 1] = b
        BY <3>1, <4>1, <4>2
      <4> QED  BY <4>1, <4>3
    <3>3. CASE i = pos + 1
      BY <1>3, <1>4, <2>2, <3>1, <3>3
    <3>4. CASE i > pos + 1
      BY <1>3, <2>1, <3>1, <3>4
    <3> QED  BY <1>3, <3>2, <3>3, <3>4
  <2> QED  BY <1>2, <2>1, <2>2, <2>3 DEF AllListed
<1>5. CASE pos >= n
  <2>1. n < MAX_MB_REUSE
    <3> DEFINE R == S \ {mb}
    <3>1. IsFiniteSet(R) /\ Cardinality(R) = Cardinality(S) - 1 /\ Cardinality(S) \in Nat
      BY FS_RemoveElement, FS_CardinalityType
    <3>2. list \in [1 .. n -> R]
      BY <1>0, <1>3, <1>5
    <3>3. list \in Injection(1 .. n, R)
      BY <1>0, <3>2 DEF Injection, IsInjective, NoRepeats
    <3> HIDE DEF R
    <3>4. Cardinality(1 .. n) <= Cardinality(R)
      BY <3>1, <3>3, FS_Injection
    <3>5. Cardinality(1 .. n) = n
      BY <1>3, FS_Interval, 1 \in Int, n \in Int
    <3> QED  BY <1>3, <3>1, <3>4, <3>5
  <2>2. Len(new) = n + 1 /\ \A i \in 1 .. Len(new) : new[i] = IF i = 1 THEN mb ELSE list[i - 1]
    BY <1>0, <1>1, <1>2, <1>3, <1>5, <2>1, MovedToFront
  <2>3. 1 \in 1 .. n + 1 /\ \A i \in 1 .. n : i + 1 \in 1 .. n + 1 /\ i + 1 # 1 /\ (i + 1) - 1 = i
    BY <1>3
  <2>4. new[1] = mb /\ \A i \in 1 .. n : new[i + 1] = list[i]
    BY <2>2, <2>3
  <2> QED  BY <1>0, <1>2, <2>2, <2>3, <2>4 DEF AllListed
<1> QED  BY <1>3, <1>4, <1>5

--------------------------------------------------------------------------------
(* When the list holds all macroblocks of the phase *)

\* There are no more macroblocks than the list holds.
Few == Cardinality(Blocks) <= MAX_MB_REUSE

\* Then those touched, and those generated, are all on the list: an access is recorded, or
\* generated, at the maximal reuse distance only when it is the first of its macroblock.
FewInv ==
  /\ Few /\ Recording =>
       /\ AllListed(last_macroblock_list, Blocks)
       /\ MB_reuse[MAX_MB_REUSE] <= Cardinality(Blocks)
  /\ Few /\ pc \in Drawing =>
       /\ AllListed(last_macroblock_list, DOMAIN new_MBs)
       /\ MB_reuse[MAX_MB_REUSE] <= Cardinality(Blocks \ DOMAIN new_MBs)

\* An element that is read is the first of its macroblock, or its macroblock is listed.
LEMMA ReadKeepsFew == ASSUME IInv, CountInv, FundInv, FewInv, ReadElement PROVE FewInv'
<1>0. PICK mb : mb = MB(trace[num_elems + 1])
  OBVIOUS
<1>1. PICK pos : pos = is_mb_used(last_macroblock_list, mb)
  OBVIOUS
<1>2. /\ Recording /\ pc' \in {"profile", "prepare"} /\ assert_failed' = assert_failed
      /\ pc' \notin Drawing /\ pc # "abort"
  BY DEF ReadElement, Recording, Drawing
<1>3. /\ MB_reuse' = [MB_reuse EXCEPT ![pos] = @ + 1]
      /\ last_macroblock_list' = update_mb_reuse_list(last_macroblock_list, mb)
  BY <1>0, <1>1 DEF ReadElement, mem_access
<1>4. Blocks' = Blocks \cup {mb} /\ IsFiniteSet(Blocks) /\ IsFiniteSet(Blocks')
  <2>1. Blocks' = Blocks \cup {mb} /\ IsFiniteSet(Blocks)
    BY <1>0, ReadCounts DEF ReadCounted, FundInv, SumsInv
  <2> QED  BY <2>1, FS_AddElement
<1>5. /\ last_macroblock_list \in Seq(Blocks) /\ Len(last_macroblock_list) <= MAX_MB_REUSE
      /\ NoRepeats(last_macroblock_list) /\ MB_reuse \in [0 .. MAX_MB_REUSE -> Nat]
      /\ MAX_MB_REUSE \in Nat \ {0}
  BY HaloAssumption DEF IInv, ListInv, RecordInv
<1>6. ASSUME Few'
      PROVE  /\ AllListed(last_macroblock_list', Blocks')
             /\ MB_reuse'[MAX_MB_REUSE] <= Cardinality(Blocks')
  <2>1. Cardinality(Blocks') <= MAX_MB_REUSE
    BY <1>6 DEF Few
  <2>2. Cardinality(Blocks) <= Cardinality(Blocks') /\ Cardinality(Blocks) \in Nat
          /\ Cardinality(Blocks') \in Nat
    BY <1>4, FS_Subset, FS_CardinalityType
  <2>3. Few
    BY <1>5, <2>1, <2>2 DEF Few
  <2>4. AllListed(last_macroblock_list, Blocks) /\ MB_reuse[MAX_MB_REUSE] <= Cardinality(Blocks)
    BY <1>2, <2>3 DEF FewInv
  <2>5. AllListed(last_macroblock_list', Blocks')
    <3>1. last_macroblock_list \in Seq(Blocks')
      BY <1>4, <1>5
    <3>2. PICK S : S = Blocks'
      OBVIOUS
    <3>3. AllListed(update_mb_reuse_list(last_macroblock_list, mb), Blocks \cup {mb})
      BY <1>4, <1>5, <2>1, <2>4, <3>1, <3>2, NoneLeaves
    <3> QED  BY <1>3, <1>4, <3>3
  <2>6. MB_reuse'[MAX_MB_REUSE] <= Cardinality(Blocks')
    <3>1. CASE mb \in Blocks
      <4>1. pos # MAX_MB_REUSE
        BY <1>1, <1>5, <2>4, <3>1, PositionOnList DEF AllListed
      <4>2. MB_reuse'[MAX_MB_REUSE] = MB_reuse[MAX_MB_REUSE] /\ MB_reuse[MAX_MB_REUSE] \in Nat
        BY <1>3, <1>5, <4>1
      <4> QED  BY <2>2, <2>4, <4>2
    <3>2. CASE mb \notin Blocks
      <4>1. Cardinality(Blocks') = Cardinality(Blocks) + 1
        BY <1>4, <3>2, FS_AddElement
      <4>2. MB_reuse'[MAX_MB_REUSE] \in {MB_reuse[MAX_MB_REUSE], MB_reuse[MAX_MB_REUSE] + 1}
            /\ MB_reuse[MAX_MB_REUSE] \in Nat
        BY <1>3, <1>5
      <4> QED  BY <2>2, <2>4, <4>1, <4>2
    <3> QED  BY <3>1, <3>2
  <2> QED  BY <2>5, <2>6
<1> QED  BY <1>2, <1>6 DEF FewInv

\* print_locality_info and prep4proxygen empty the list before anything is generated.
LEMMA PrepareKeepsFew == ASSUME IInv, CountInv, FundInv, FewInv, Prepare PROVE FewInv'
<1>1. /\ pc = "prepare" /\ pc' = "next" /\ ~ Recording' /\ Recording
      /\ UNCHANGED <<MB_reuse, new_MBs, assert_failed>>
  BY DEF Prepare, Recording, generator
<1>2. Blocks' = Blocks
  BY PrepareCounts DEF SameCounts
<1>3. DOMAIN new_MBs = {}
  BY <1>1 DEF IInv, TouchInv
<1>4. Blocks \ DOMAIN new_MBs = Blocks
  BY <1>3
<1>5. Few' = Few
  BY <1>1, <1>2 DEF Few
<1> QED  BY <1>1, <1>2, <1>3, <1>4, <1>5 DEF FewInv, AllListed

\* Which assertions can fail while an access is selected, InitAccess and ForceMaxReuse aside.
OtherLines == {"422", "935", "1090", "1100", "1149", "1272", "1334", "1803"}
FailsElsewhere == assert_failed' = assert_failed \/ assert_failed' \in OtherLines

\* A visit that continues the history of a macroblock fails none but those of its helpers.
LEMMA ContinueFailsElsewhere ==
  ASSUME NEW mb, NEW reuse, NEW ACTION Otherwise,
         ContinueMB(mb, reuse, Otherwise) \/ get_next_delta(mb, reuse) \/ TakeNewMB(mb)
  PROVE  FailsElsewhere
<1> DEFINE m == per_MB_historytable[mb]
<1>1. CASE TakeNewMB(mb)
  BY <1>1 DEF TakeNewMB, Abort, UNCHANGED_but_MB, FailsElsewhere, OtherLines
<1>2. CASE get_next_delta(mb, reuse)
  <2>1. CASE ReplayDelta(mb, reuse)
    BY <2>1 DEF ReplayDelta, Abort, UNCHANGED_but_MB, FailsElsewhere, OtherLines
  <2>2. CASE DrawDelta(mb, reuse)
    <3>1. assert_failed' = assert_failed
      BY <2>2 DEF DrawDelta
    <3> QED  BY <3>1 DEF FailsElsewhere
  <2> QED  BY <1>2, <2>1, <2>2 DEF get_next_delta
<1>3. CASE Abort(ReinitAssert(m, mb)) /\ ReinitAssert(m, mb) # "none"
  <2>1. ReinitAssert(m, mb) \in OtherLines \cup {"none"}
    BY DEF ReinitAssert, OtherLines
  <2> HIDE DEF m
  <2> QED  BY <1>3, <2>1 DEF Abort, FailsElsewhere
<1>4. CASE UNCHANGED_but_MB
  BY <1>4 DEF UNCHANGED_but_MB, FailsElsewhere
<1> QED  BY <1>1, <1>2, <1>3, <1>4, Zenon DEF ContinueMB

\* Only ForceMaxReuse fails the assertion at 1716, only InitAccess that at 1282.
LEMMA SelectFailsElsewhere ==
  ASSUME Select
  PROVE  \/ FailsElsewhere
         \/ InitAccess /\ assert_failed' = "1282"
         \/ ForceMaxReuse /\ assert_failed' = "1716"
<1>1. ASSUME UNCHANGED assert_failed PROVE FailsElsewhere
  BY <1>1 DEF FailsElsewhere
<1>2. CASE InitAccess
  BY <1>2 DEF InitAccess, Abort, UNCHANGED_but_MB, FailsElsewhere, OtherLines
<1>3. CASE PickReuse \/ GiveUp \/ FallbackMiss
  BY <1>1, <1>3 DEF PickReuse, GiveUp, FallbackMiss, UNCHANGED_but_MB
<1>4. CASE PickFresh \/ FallbackFresh
  BY <1>4, ContinueFailsElsewhere DEF PickFresh, FallbackFresh
<1>5. CASE PickEvicted
  <2>1. PICK mb \in PickableMBs : ContinueMB(mb, MAX_MB_REUSE, GoTo(pc))
    BY <1>5 DEF PickEvicted
  <2> QED  BY <2>1, ContinueFailsElsewhere
<1>6. CASE PickLower
  <2> DEFINE mb == last_macroblock_list[temp_reuse + 1]
  <2>1. CASE UNCHANGED_but_MB
    BY <1>1, <2>1 DEF UNCHANGED_but_MB
  <2>2. CASE ContinueMB(mb, temp_reuse, GoTo("fallback"))
    <3> HIDE DEF mb
    <3> QED  BY <2>2, ContinueFailsElsewhere
  <2> QED  BY <1>6, <2>1, <2>2 DEF PickLower
<1>7. CASE FallbackHigher
  <2>1. PICK p : ContinueMB(last_macroblock_list[p + 1], p, RepeatLast(last_macroblock_list[p + 1], temp_reuse))
    BY <1>7 DEF FallbackHigher
  <2> DEFINE mb == last_macroblock_list[p + 1]
  <2>2. ContinueMB(mb, p, RepeatLast(mb, temp_reuse))
    BY <2>1
  <2> HIDE DEF mb
  <2> QED  BY <2>2, ContinueFailsElsewhere
<1>8. CASE ForceOnList
  BY <1>8, ContinueFailsElsewhere DEF ForceOnList
<1>9. CASE ForceVisited
  <2>1. CASE Abort("1803")
    BY <2>1 DEF Abort, FailsElsewhere, OtherLines
  <2>2. CASE \E mb, reuse : ContinueMB(mb, reuse, RepeatLast(mb, reuse))
    <3>1. PICK mb, reuse : ContinueMB(mb, reuse, RepeatLast(mb, reuse))
      BY <2>2
    <3> QED  BY <3>1, ContinueFailsElsewhere
  <2> QED  BY <1>9, <2>1, <2>2, Zenon DEF ForceVisited
<1>10. CASE ForceMaxReuse
  BY <1>1, <1>10 DEF ForceMaxReuse, Abort, UNCHANGED_but_MB
<1> QED  BY <1>2, <1>3, <1>4, <1>5, <1>6, <1>7, <1>8, <1>9, <1>10 DEF Select

\* A macroblock that has not been generated is off the list and has accesses left.
LEMMA FreshIsOffList ==
  ASSUME IInv, CountInv, pc \in Drawing, NEW mb \in Blocks \ DOMAIN new_MBs
  PROVE  mb \in OffList
<1>1. last_macroblock_list \in Seq(Blocks) /\ Len(last_macroblock_list) <= MAX_MB_REUSE
      /\ \A i \in 1 .. Len(last_macroblock_list) : last_macroblock_list[i] \in DOMAIN new_MBs
  BY DEF IInv, ListInv, Drawing, Generating
<1>2. is_mb_used(last_macroblock_list, mb) = MAX_MB_REUSE
  <2> SUFFICES ASSUME is_mb_used(last_macroblock_list, mb) # MAX_MB_REUSE PROVE FALSE
    OBVIOUS
  <2> DEFINE pos == is_mb_used(last_macroblock_list, mb)
  <2>1. pos \in 0 .. MAX_MB_REUSE /\ pos < Len(last_macroblock_list) /\ last_macroblock_list[pos + 1] = mb
    BY <1>1, PositionOnList
  <2> HIDE DEF pos
  <2>2. pos + 1 \in 1 .. Len(last_macroblock_list)
    BY <1>1, <2>1, HaloAssumption
  <2> QED  BY <1>1, <2>1, <2>2
<1>3. Left(mb) = Cardinality(Touches(mb)) /\ \E i \in Phase : MB(trace[i]) = mb
  <2>1. Left(mb) + Generated(mb) = Cardinality(Touches(mb)) /\ \E i \in Phase : MB(trace[i]) = mb
    BY DEF CountInv, BudgetConserved, Blocks, Drawing
  <2>2. Generated(mb) = 0 /\ Left(mb) \in Nat
    BY LeftNat DEF Generated
  <2> QED  BY <2>1, <2>2
<1>4. IsFiniteSet(Touches(mb)) /\ Touches(mb) # {}
  <2>1. IsFiniteSet(Phase)
    BY PhaseIsComplete
  <2> QED  BY <1>3, <2>1, FS_Subset DEF Touches
<1>5. Cardinality(Touches(mb)) \in Nat /\ Cardinality(Touches(mb)) # 0
  BY <1>4, FS_CardinalityType, FS_EmptySet
<1> QED  BY <1>2, <1>3, <1>5 DEF OffList, OnList, Blocks

\* Choosing an access changes none of it.
LEMMA SelectKeepsFew == ASSUME IInv, FewInv, Select PROVE FewInv'
<1>1. Quiet
  BY SelectIsQuiet
<1>2. /\ Blocks' = Blocks /\ pc \in Drawing /\ pc' \in Drawing \cup {"abort"}
      /\ UNCHANGED <<last_macroblock_list, MB_reuse, new_MBs>>
  BY <1>1 DEF Quiet, SameCounts
<1>3. Few' = Few /\ ~ Recording'
  BY <1>2 DEF Few, Recording, Drawing
<1> QED  BY <1>2, <1>3 DEF FewInv

\* A new macroblock is generated at the maximal distance and stays on the list.
LEMMA CountedKeepsFew ==
  ASSUME IInv, FundInv, FewInv, Counted PROVE FewInv'
<1>0. PICK mb : mb = this.mb
  OBVIOUS
<1>1. /\ pc = "commit" /\ pc' = "next" /\ mb \in Blocks /\ Blocks' = Blocks
      /\ DOMAIN new_MBs' = DOMAIN new_MBs \cup {mb}
      /\ MB_reuse' = [MB_reuse EXCEPT ![this.reuse] = IF @ > 0 THEN @ - 1 ELSE @]
      /\ last_macroblock_list' = update_mb_reuse_list(last_macroblock_list, mb)
  BY <1>0 DEF Counted
<1>2. pc \in Drawing /\ pc' \in Drawing /\ ~ Recording' /\ Few' = Few
  BY <1>1 DEF Drawing, Recording, Few
<1>3. /\ last_macroblock_list \in Seq(Blocks) /\ Len(last_macroblock_list) <= MAX_MB_REUSE
      /\ NoRepeats(last_macroblock_list) /\ MB_reuse \in [0 .. MAX_MB_REUSE -> Nat]
      /\ MAX_MB_REUSE \in Nat \ {0} /\ DOMAIN new_MBs \subseteq Blocks /\ IsFiniteSet(Blocks)
      /\ mb \in DOMAIN new_MBs \/ this.reuse = MAX_MB_REUSE
  BY <1>0, <1>1, HaloAssumption DEF IInv, ListInv, RecordInv, ChosenInv, FundInv, SumsInv
<1>4. ASSUME Few
      PROVE  /\ AllListed(last_macroblock_list', DOMAIN new_MBs')
             /\ MB_reuse'[MAX_MB_REUSE] <= Cardinality(Blocks \ DOMAIN new_MBs')
  <2>1. /\ AllListed(last_macroblock_list, DOMAIN new_MBs)
        /\ MB_reuse[MAX_MB_REUSE] <= Cardinality(Blocks \ DOMAIN new_MBs)
    BY <1>2, <1>4 DEF FewInv
  <2>2. AllListed(update_mb_reuse_list(last_macroblock_list, mb), DOMAIN new_MBs \cup {mb})
    BY <1>1, <1>3, <1>4, <2>1, NoneLeaves DEF Few
  <2> DEFINE rest == Blocks \ DOMAIN new_MBs
  <2>3. /\ Blocks \ DOMAIN new_MBs' = rest \ {mb} /\ IsFiniteSet(rest)
        /\ Cardinality(rest) \in Nat /\ MB_reuse[MAX_MB_REUSE] \in Nat
    BY <1>1, <1>3, FS_Subset, FS_CardinalityType
  <2>4. Cardinality(rest \ {mb}) = IF mb \in rest THEN Cardinality(rest) - 1 ELSE Cardinality(rest)
    BY <2>3, FS_RemoveElement
  <2>5. MB_reuse'[MAX_MB_REUSE] <= Cardinality(rest \ {mb})
    <3>1. CASE mb \in rest
      <4>1. this.reuse = MAX_MB_REUSE
        BY <1>3, <3>1
      <4>2. MB_reuse'[MAX_MB_REUSE] = IF MB_reuse[MAX_MB_REUSE] > 0 THEN MB_reuse[MAX_MB_REUSE] - 1
                                      ELSE MB_reuse[MAX_MB_REUSE]
        BY <1>1, <1>3, <4>1
      <4>3. Cardinality(rest) # 0
        BY <2>3, <3>1, FS_EmptySet
      <4> HIDE DEF rest
      <4> QED  BY <2>1, <2>3, <2>4, <3>1, <4>2, <4>3 DEF rest
    <3>2. CASE mb \notin rest
      <4>1. MB_reuse'[MAX_MB_REUSE] <= MB_reuse[MAX_MB_REUSE] /\ MB_reuse'[MAX_MB_REUSE] \in Int
        BY <1>1, <1>3
      <4> QED  BY <2>1, <2>3, <2>4, <3>2, <4>1
    <3> QED  BY <3>1, <3>2
  <2> QED  BY <1>1, <2>2, <2>3, <2>5
<1> QED  BY <1>1, <1>2, <1>4 DEF FewInv

\* Generating the chosen access keeps the invariant.
LEMMA CommitKeepsFew == ASSUME IInv, FundInv, FewInv, Commit PROVE FewInv'
<1>1. CASE Quiet /\ pc' = "abort"
  <2>1. pc' \notin Drawing /\ ~ Recording'
    BY <1>1 DEF Drawing, Recording
  <2> QED  BY <2>1 DEF FewInv
<1> QED  BY <1>1, CountedKeepsFew, CommitCounts

\* The next phase starts with no macroblock and an empty list.
LEMMA ClearKeepsFew == ASSUME IInv, FewInv, PhaseClear PROVE FewInv'
<1>1. /\ pc = "next" /\ pc' = "profile"
      /\ per_MB_historytable' = NoEntries /\ MB_reuse' = [r \in 0 .. MAX_MB_REUSE |-> 0]
  BY DEF PhaseClear
<1>2. Blocks' = {} /\ pc' \notin Drawing
  BY <1>1 DEF Blocks, NoEntries, Drawing
<1>3. MB_reuse'[MAX_MB_REUSE] = 0 /\ Cardinality(Blocks') = 0
  BY <1>1, <1>2, HaloAssumption, FS_EmptySet
<1> QED  BY <1>2, <1>3 DEF FewInv, AllListed

\* So does the first.
LEMMA InitFew == Init => FewInv
<1> SUFFICES ASSUME Init PROVE FewInv
  OBVIOUS
<1>1. Blocks = {} /\ pc \notin Drawing /\ MB_reuse[MAX_MB_REUSE] = 0
  BY HaloAssumption DEF Init, Blocks, NoEntries, Drawing
<1>2. Cardinality(Blocks) = 0
  BY <1>1, FS_EmptySet
<1> QED  BY <1>1, <1>2 DEF FewInv, AllListed

\* Every step keeps the invariant.
LEMMA NextKeepsFew == IInv /\ CountInv /\ FundInv /\ FewInv /\ [Next]_vars => FewInv'
<1> SUFFICES ASSUME IInv, CountInv, FundInv, FewInv, [Next]_vars PROVE FewInv'
  OBVIOUS
<1>1. CASE EndOfTrace
  <2>1. pc = "profile" /\ pc' = "done"
    BY <1>1 DEF EndOfTrace
  <2> QED  BY <2>1 DEF FewInv, Recording, Drawing
<1>2. CASE UNCHANGED vars
  BY <1>2 DEF vars, profile, generator, FewInv, Few, Blocks, Recording
<1> QED
  BY <1>1, <1>2, ReadKeepsFew, PrepareKeepsFew, SelectKeepsFew, CommitKeepsFew, ClearKeepsFew
  DEF Next, Step, Terminated, Select

\* As long as no macroblock can leave the list, the touched ones are on it and what is due at
\* the maximal distance is covered by the others.
THEOREM FewStayListed == Spec => []FewInv
<1>1. Spec => []CountInv
  BY Invariance, InitConserves, NextConserves, PTL DEF Spec
<1> QED  BY <1>1, Invariance, FundsAreKept, InitFew, NextKeepsFew, PTL DEF Spec

\* What is due at the maximal distance is covered by macroblocks not generated yet.
THEOREM NewBlocksStayFunded == Spec => []NewBlocksFunded
<1>1. FewInv => NewBlocksFunded
  BY DEF FewInv, NewBlocksFunded, Few, Blocks, Generating, Drawing
<1> QED  BY <1>1, FewStayListed, PTL

\* What is due at the maximal distance is due of macroblocks not generated yet: the forced
\* tries have one to find.
LEMMA FewFindOne == ASSUME IInv, CountInv, FewInv, Few PROVE NewBlockAvailable
<1> SUFFICES ASSUME pc = "forced", MB_reuse[MAX_MB_REUSE] > 0 PROVE OffList # {}
  BY DEF NewBlockAvailable
<1>1. pc \in Drawing /\ MB_reuse[MAX_MB_REUSE] <= Cardinality(Blocks \ DOMAIN new_MBs)
  BY DEF FewInv, Drawing
<1>2. MB_reuse[MAX_MB_REUSE] \in Nat
  BY HaloAssumption DEF IInv, RecordInv
<1>3. Blocks \ DOMAIN new_MBs # {}
  <2> SUFFICES ASSUME Blocks \ DOMAIN new_MBs = {} PROVE FALSE
    OBVIOUS
  <2>1. Cardinality(Blocks \ DOMAIN new_MBs) = 0
    BY FS_EmptySet
  <2> QED  BY <1>1, <1>2, <2>1
<1> QED  BY <1>1, <1>3, FreshIsOffList

\* In a phase with no more macroblocks than the list holds, the tries that end in the
\* assert(0) at 1716 have a macroblock to find whenever they are made: it takes bad luck
\* for them to miss.  (With more macroblocks there may be none: see halo_forced_abort.)
THEOREM NewBlocksAreThere ==
  Spec => [](Cardinality(DOMAIN per_MB_historytable) <= MAX_MB_REUSE => NewBlockAvailable)
<1>1. IInv /\ CountInv /\ FewInv =>
        (Cardinality(DOMAIN per_MB_historytable) <= MAX_MB_REUSE => NewBlockAvailable)
  BY FewFindOne DEF Few, Blocks
<1>2. Spec => []CountInv
  BY Invariance, InitConserves, NextConserves, PTL DEF Spec
<1> QED  BY <1>1, <1>2, FewStayListed, Invariance, PTL

--------------------------------------------------------------------------------
(* The list measures reuse distances *)

\* The macroblocks of the accesses t[j] that follow access i, j in P.
Following(t, P, i) == {MB(t[j]) : j \in {k \in P : k > i}}

\* The elements before position p of the list.
Front(list, p) == {list[q] : q \in 1 .. p - 1}

\* A macroblock on the list has been followed by those before it on the list, and no others.
Stacked(list, t, P) ==
  \A p \in 1 .. Len(list) : \E i \in P :
    MB(t[i]) = list[p] /\ Following(t, P, i) = Front(list, p)

\* Access i is the last of its macroblock, and has been followed by all those on the full list.
PushedOut(list, t, P, i) ==
  /\ Len(list) = MAX_MB_REUSE
  /\ MB(t[i]) \notin Following(t, P, i)
  /\ Front(list, Len(list) + 1) \subseteq Following(t, P, i)

\* A macroblock that has been touched is on the list, or has been pushed out of it.
ListedOrOut(list, t, P) ==
  \A j \in P :
    \/ \E p \in 1 .. Len(list) : list[p] = MB(t[j])
    \/ \E i \in P : MB(t[i]) = MB(t[j]) /\ PushedOut(list, t, P, i)

\* ReuseDistance for the accesses t[j], j in P.
Distance(t, P, i) ==
  LET before == {j \in P : j < i /\ MB(t[j]) = MB(t[i])}
      since  == {j \in P : j < i /\ \A b \in before : b < j}
      others == {MB(t[j]) : j \in since}
  IN  IF before = {} \/ Cardinality(others) >= MAX_MB_REUSE THEN MAX_MB_REUSE
      ELSE Cardinality(others)

\* The list measures the accesses of P, all of them earlier than the next.
Measures(S, list, t, P, next) ==
  /\ IsFiniteSet(S) /\ list \in Seq(S) /\ Len(list) <= MAX_MB_REUSE /\ NoRepeats(list)
  /\ P \subseteq Int /\ next \in Int /\ \A j \in P : j < next
  /\ \A j \in P \cup {next} : MB(t[j]) \in S
  /\ Stacked(list, t, P)
  /\ ListedOrOut(list, t, P)

\* The front of a list that repeats nothing has as many elements as positions.
LEMMA FrontCounts ==
  ASSUME NEW S, NEW list \in Seq(S), NoRepeats(list), NEW p \in 1 .. Len(list) + 1
  PROVE  IsFiniteSet(Front(list, p)) /\ Cardinality(Front(list, p)) = p - 1
<1> DEFINE f == [q \in 1 .. p - 1 |-> list[q]]
<1>1. p - 1 \in Nat /\ p - 1 <= Len(list) /\ Len(list) \in Nat
  OBVIOUS
<1>2. IsFiniteSet(1 .. p - 1) /\ Cardinality(1 .. p - 1) = p - 1
  <2>1. 1 \in Int /\ p - 1 \in Int
    BY <1>1
  <2>2. IsFiniteSet(1 .. p - 1) /\ Cardinality(1 .. p - 1) = IF 1 > p - 1 THEN 0 ELSE (p - 1) - 1 + 1
    BY <2>1, FS_Interval
  <2> QED  BY <1>1, <2>2
<1>3. f \in Surjection(1 .. p - 1, Front(list, p)) /\ f \in Injection(1 .. p - 1, Front(list, p))
  <2>1. f \in [1 .. p - 1 -> Front(list, p)]
    BY DEF Front
  <2>2. \A e \in Front(list, p) : \E q \in 1 .. p - 1 : f[q] = e
    BY DEF Front
  <2>3. IsInjective(f)
    BY <1>1 DEF IsInjective, NoRepeats
  <2> HIDE DEF f
  <2> QED  BY <2>1, <2>2, <2>3 DEF Surjection, Injection
<1> HIDE DEF f
<1>4. ExistsBijection(1 .. p - 1, Front(list, p))
  BY <1>3 DEF ExistsBijection, Bijection
<1> QED  BY <1>2, <1>4, FS_Bijection

\* The position of the next access's macroblock on the list is its reuse distance.
LEMMA PositionIsDistance ==
  ASSUME NEW S, NEW list, NEW t, NEW P, NEW next, Measures(S, list, t, P, next)
  PROVE  Distance(t, P \cup {next}, next) = is_mb_used(list, MB(t[next]))
<1> USE HaloAssumption
<1>asm. /\ list \in Seq(S) /\ Len(list) <= MAX_MB_REUSE /\ NoRepeats(list)
        /\ P \subseteq Int /\ next \in Int /\ \A j \in P : j < next
  BY DEF Measures
<1>set. /\ IsFiniteSet(S) /\ MB(t[next]) \in S /\ \A j \in P : MB(t[j]) \in S
  BY DEF Measures
<1>acc. Stacked(list, t, P) /\ ListedOrOut(list, t, P)
  BY DEF Measures
<1> USE <1>asm
<1>0. PICK mb : mb = MB(t[next])
  OBVIOUS
<1>1. PICK n : n = Len(list)
  OBVIOUS
<1>2. PICK pos : pos = is_mb_used(list, mb)
  OBVIOUS
<1>3. /\ n \in Nat /\ n <= MAX_MB_REUSE /\ pos \in 0 .. MAX_MB_REUSE /\ MAX_MB_REUSE \in Nat \ {0}
      /\ pos # MAX_MB_REUSE => pos < n /\ list[pos + 1] = mb
      /\ (\E i \in 1 .. n : list[i] = mb) => pos # MAX_MB_REUSE
  BY <1>1, <1>2, PositionOnList
<1> DEFINE before == {j \in P : MB(t[j]) = mb}
           since  == {j \in P : \A b \in before : b < j}
           others == {MB(t[j]) : j \in since}
<1>4. Distance(t, P \cup {next}, next) =
        IF before = {} \/ Cardinality(others) >= MAX_MB_REUSE THEN MAX_MB_REUSE
        ELSE Cardinality(others)
  <2>0. (\A j \in P : j < next) /\ ~ (next < next)
    OBVIOUS
  <2>1. before = {j \in P \cup {next} : j < next /\ MB(t[j]) = MB(t[next])}
    BY <1>0, <2>0, Zenon
  <2>2. since = {j \in P \cup {next} : j < next /\ \A b \in before : b < j}
    BY <2>0, Zenon
  <2> HIDE DEF before, since
  <2> QED  BY <2>1, <2>2 DEF Distance
<1>5. ASSUME NEW i \in before, mb \notin Following(t, P, i)
      PROVE  others = Following(t, P, i)
  <2>1. \A b \in before : ~ (b > i)
    BY <1>5 DEF Following
  <2>2. since = {k \in P : k > i}
    <3>1. \A b \in before : b <= i
      BY <2>1
    <3>2. ASSUME NEW k \in P PROVE (\A b \in before : b < k) <=> k > i
      BY <3>1
    <3> HIDE DEF before
    <3> QED  BY <3>2
  <2> HIDE DEF since
  <2> QED  BY <2>2 DEF Following
<1>6. CASE pos # MAX_MB_REUSE
  <2>1. pos + 1 \in 1 .. n /\ list[pos + 1] = mb
    BY <1>3, <1>6
  <2>2. PICK i \in P : MB(t[i]) = mb /\ Following(t, P, i) = Front(list, pos + 1)
    BY <1>acc, <1>1, <2>1 DEF Stacked
  <2>3. mb \notin Front(list, pos + 1)
    <3>1. \A q \in 1 .. pos : q \in 1 .. n /\ q # pos + 1
      BY <1>3, <2>1
    <3>2. \A q \in 1 .. pos : list[q] # mb
      BY <1>1, <2>1, <3>1 DEF NoRepeats
    <3>3. (pos + 1) - 1 = pos
      BY <1>3
    <3> QED  BY <3>2, <3>3 DEF Front
  <2>4. i \in before /\ others = Front(list, pos + 1)
    BY <1>5, <2>2, <2>3
  <2>5. pos + 1 \in 1 .. n + 1
    BY <1>3, <2>1
  <2>6. Cardinality(Front(list, pos + 1)) = pos
    BY <1>1, <1>3, <2>5, FrontCounts
  <2> HIDE DEF before, others
  <2> QED  BY <1>0, <1>2, <1>3, <1>4, <1>6, <2>4, <2>6
<1>7. CASE pos = MAX_MB_REUSE
  <2>1. CASE before = {}
    <3> HIDE DEF before, others
    <3> QED  BY <1>0, <1>2, <1>4, <1>7, <2>1
  <2>2. CASE before # {}
    <3>1. PICK j \in P : MB(t[j]) = mb
      BY <2>2
    <3>2. PICK i \in P : MB(t[i]) = mb /\ PushedOut(list, t, P, i)
      BY <1>acc, <1>1, <1>3, <1>7, <3>1 DEF ListedOrOut
    <3>3. others = Following(t, P, i) /\ Front(list, n + 1) \subseteq others /\ n = MAX_MB_REUSE
      BY <1>1, <1>5, <3>2 DEF PushedOut
    <3>4. IsFiniteSet(others)
      <4>1. Following(t, P, i) \subseteq S
        BY <1>set DEF Following
      <4> QED  BY <1>set, <3>3, <4>1, FS_Subset
    <3> HIDE DEF before, others, since
    <3>5. n + 1 \in 1 .. n + 1
      BY <1>3
    <3>6. Cardinality(Front(list, n + 1)) = n
      BY <1>1, <1>3, <3>5, FrontCounts
    <3>7. Cardinality(others) >= MAX_MB_REUSE
      <4>1. Cardinality(Front(list, n + 1)) <= Cardinality(others) /\ Cardinality(others) \in Nat
        BY <3>3, <3>4, FS_Subset, FS_CardinalityType
      <4> QED  BY <1>3, <3>3, <3>6, <4>1
    <3> QED  BY <1>0, <1>2, <1>4, <1>7, <3>7
  <2> QED  BY <2>1, <2>2
<1> QED  BY <1>6, <1>7

\* The list goes on measuring when the next access is put on it.
LEMMA NextIsStacked ==
  ASSUME NEW S, NEW list, NEW t, NEW P, NEW next, Measures(S, list, t, P, next)
  PROVE  /\ Stacked(update_mb_reuse_list(list, MB(t[next])), t, P \cup {next})
         /\ ListedOrOut(update_mb_reuse_list(list, MB(t[next])), t, P \cup {next})
<1> USE HaloAssumption
<1>asm. /\ list \in Seq(S) /\ Len(list) <= MAX_MB_REUSE /\ NoRepeats(list)
        /\ P \subseteq Int /\ next \in Int /\ \A j \in P : j < next
  BY DEF Measures
<1>set. /\ IsFiniteSet(S) /\ MB(t[next]) \in S /\ \A j \in P : MB(t[j]) \in S
  BY DEF Measures
<1>acc. Stacked(list, t, P) /\ ListedOrOut(list, t, P)
  BY DEF Measures
<1> USE <1>asm
<1>0. PICK mb : mb = MB(t[next])
  OBVIOUS
<1>1. PICK n : n = Len(list)
  OBVIOUS
<1>2. PICK pos : pos = is_mb_used(list, mb)
  OBVIOUS
<1>3. PICK new : new = update_mb_reuse_list(list, mb)
  OBVIOUS
<1>4. PICK Q : Q = P \cup {next}
  OBVIOUS
<1>5. /\ n \in Nat /\ n <= MAX_MB_REUSE /\ pos \in 0 .. MAX_MB_REUSE /\ MAX_MB_REUSE \in Nat \ {0}
      /\ pos < n => list[pos + 1] = mb
      /\ pos >= n => \A i \in 1 .. n : list[i] # mb
  <2>1. pos # MAX_MB_REUSE => pos < n /\ list[pos + 1] = mb
    BY <1>1, <1>2, PositionOnList
  <2>2. n \in Nat /\ n <= MAX_MB_REUSE /\ pos \in 0 .. MAX_MB_REUSE
    BY <1>1, <1>2, PositionOnList
  <2>3. (\E i \in 1 .. n : list[i] = mb) => pos # MAX_MB_REUSE
    BY <1>1, <1>2, PositionOnList
  <2> QED  BY <2>1, <2>2, <2>3
<1>6. mb \in S
  BY <1>0, <1>set
<1>7. Following(t, Q, next) = {} /\ \A i \in P : Following(t, Q, i) = Following(t, P, i) \cup {mb}
  <2>0. (\A j \in P : j < next /\ next > j /\ ~ (j > next)) /\ ~ (next > next)
    OBVIOUS
  <2>1. {k \in Q : k > next} = {}
    BY <1>4, <2>0, Zenon
  <2>2. ASSUME NEW i \in P PROVE {k \in Q : k > i} = {k \in P : k > i} \cup {next}
    BY <1>4, <2>0, Zenon
  <2>3. ASSUME NEW i \in P PROVE Following(t, Q, i) = Following(t, P, i) \cup {mb}
    BY <1>0, <2>2 DEF Following
  <2> QED  BY <2>1, <2>3 DEF Following
<1>8. Front(new, 1) = {}
  BY DEF Front
<1>9. CASE pos < n
  <2>1. Len(new) = n /\ \A i \in 1 .. n : new[i] = IF i = 1 THEN mb
                                                ELSE IF i <= pos + 1 THEN list[i - 1] ELSE list[i]
    BY <1>1, <1>2, <1>3, <1>6, <1>9, MovedToFront
  <2>2. ASSUME NEW p \in 2 .. pos + 1 PROVE Front(new, p) = Front(list, p - 1) \cup {mb} /\ new[p] = list[p - 1]
    <3>1. 1 \in 1 .. p - 1 /\ p \in 1 .. n /\ p # 1 /\ p <= pos + 1
      BY <1>5, <1>9
    <3>2. \A q \in 1 .. p - 1 : new[q] = IF q = 1 THEN mb ELSE list[q - 1]
      BY <1>5, <1>9, <2>1
    <3>3. \A q \in 1 .. p - 1 : q # 1 => q - 1 \in 1 .. (p - 1) - 1
      OBVIOUS
    <3>4. \A q \in 1 .. (p - 1) - 1 : q + 1 \in 1 .. p - 1 /\ q + 1 # 1 /\ (q + 1) - 1 = q
      OBVIOUS
    <3>5. new[1] = mb /\ \A q \in 1 .. (p - 1) - 1 : new[q + 1] = list[q]
      BY <3>1, <3>2, <3>4
    <3>6. Front(new, p) \subseteq Front(list, p - 1) \cup {mb}
      BY <3>2, <3>3 DEF Front
    <3>7. Front(list, p - 1) \cup {mb} \subseteq Front(new, p)
      BY <3>1, <3>4, <3>5 DEF Front
    <3> QED  BY <2>1, <3>1, <3>6, <3>7
  <2>3. ASSUME NEW p \in pos + 2 .. n + 1 PROVE Front(new, p) = Front(list, p)
    <3>1. 1 \in 1 .. p - 1 /\ \A q \in 1 .. p - 1 : q \in 1 .. n
      BY <1>5, <1>9
    <3>2. \A q \in 1 .. p - 1 : new[q] = IF q = 1 THEN mb ELSE IF q <= pos + 1 THEN list[q - 1] ELSE list[q]
      BY <2>1, <3>1
    <3>3. pos + 1 \in 1 .. p - 1 /\ list[pos + 1] = mb
      BY <1>5, <1>9
    <3>4. \A q \in 1 .. p - 1 : q # 1 => q - 1 \in 1 .. p - 1
      BY <1>5
    <3>5. Front(new, p) \subseteq Front(list, p)
      <4>1. \A q \in 1 .. p - 1 : \E r \in 1 .. p - 1 : new[q] = list[r]
        BY <3>2, <3>3, <3>4
      <4> QED  BY <4>1 DEF Front
    <3>6. \A q \in 1 .. p - 1 : \E r \in 1 .. p - 1 : list[q] = new[r]
      <4> SUFFICES ASSUME NEW q \in 1 .. p - 1 PROVE \E r \in 1 .. p - 1 : list[q] = new[r]
        OBVIOUS
      <4>1. CASE q <= pos
        <5>1. q + 1 \in 1 .. p - 1 /\ q + 1 # 1 /\ q + 1 <= pos + 1 /\ (q + 1) - 1 = q
          BY <1>5, <4>1
        <5>2. new[q + 1] = list[(q + 1) - 1]
          BY <3>2, <5>1
        <5>3. new[q + 1] = list[q]
          BY <5>1, <5>2
        <5> QED  BY <5>1, <5>3
      <4>2. CASE q = pos + 1
        <5>1. new[1] = mb
          BY <3>1, <3>2
        <5> QED  BY <3>1, <3>3, <4>2, <5>1
      <4>3. CASE q > pos + 1
        <5>1. q # 1 /\ ~ (q <= pos + 1)
          BY <1>5, <4>3
        <5> QED  BY <3>2, <5>1
      <4>4. q <= pos \/ q = pos + 1 \/ q > pos + 1
        BY <1>5
      <4> QED  BY <4>1, <4>2, <4>3, <4>4, Zenon
    <3>7. Front(list, p) \subseteq Front(new, p)
      BY <3>6 DEF Front
    <3> QED  BY <3>5, <3>7
  <2>4. Stacked(new, t, Q)
    <3> SUFFICES ASSUME NEW p \in 1 .. n
                 PROVE  \E i \in Q : MB(t[i]) = new[p] /\ Following(t, Q, i) = Front(new, p)
      BY <1>acc, <2>1 DEF Stacked
    <3>1. CASE p = 1
      BY <1>0, <1>4, <1>7, <1>8, <2>1, <3>1
    <3>2. CASE p \in 2 .. pos + 1
      <4>1. p - 1 \in 1 .. n
        BY <1>5, <1>9, <3>2
      <4>2. PICK i \in P : MB(t[i]) = list[p - 1] /\ Following(t, P, i) = Front(list, p - 1)
        BY <1>acc, <1>1, <4>1 DEF Stacked
      <4>3. MB(t[i]) = new[p] /\ Following(t, Q, i) = Front(new, p) /\ i \in Q
        BY <1>4, <1>7, <2>2, <3>2, <4>2
      <4> QED  BY <4>3
    <3>3. CASE p \in pos + 2 .. n
      <4>1. PICK i \in P : MB(t[i]) = list[p] /\ Following(t, P, i) = Front(list, p)
        BY <1>acc, <1>1 DEF Stacked
      <4>2. p \in pos + 2 .. n + 1 /\ p # 1 /\ ~ (p <= pos + 1) /\ pos + 1 \in 1 .. p - 1
        BY <1>5, <1>9, <3>3
      <4>3. new[p] = list[p]
        BY <2>1, <4>2
      <4>4. mb \in Front(list, p)
        BY <1>5, <1>9, <4>2 DEF Front
      <4>5. Following(t, Q, i) = Front(new, p) /\ i \in Q
        <5>1. Front(new, p) = Front(list, p)
          BY <2>3, <4>2
        <5>2. Following(t, Q, i) = Front(list, p) \cup {mb}
          BY <1>7, <4>1
        <5> QED  BY <1>4, <4>4, <5>1, <5>2
      <4> QED  BY <4>1, <4>3, <4>5
    <3>4. p = 1 \/ p \in 2 .. pos + 1 \/ p \in pos + 2 .. n
      BY <1>5
    <3> QED  BY <3>1, <3>2, <3>3, <3>4, Zenon
  <2>5. Front(new, n + 1) = Front(list, n + 1)
    <3>1. n + 1 \in pos + 2 .. n + 1
      BY <1>5, <1>9
    <3> QED  BY <2>3, <3>1
  <2>6. ASSUME NEW b PROVE (\E p \in 1 .. n : list[p] = b) <=> (\E p \in 1 .. n : new[p] = b)
    <3>1. (n + 1) - 1 = n
      BY <1>5
    <3>2. Front(list, n + 1) = {list[q] : q \in 1 .. n} /\ Front(new, n + 1) = {new[q] : q \in 1 .. n}
      BY <3>1 DEF Front
    <3>3. b \in {list[q] : q \in 1 .. n} <=> b \in {new[q] : q \in 1 .. n}
      BY <2>5, <3>2
    <3> QED  BY <3>3
  <2>7. ListedOrOut(new, t, Q)
    <3> SUFFICES ASSUME NEW j \in Q, ~ \E p \in 1 .. n : new[p] = MB(t[j])
                 PROVE  \E i \in Q : MB(t[i]) = MB(t[j]) /\ PushedOut(new, t, Q, i)
      BY <1>acc, <2>1 DEF ListedOrOut
    <3>1. MB(t[j]) # mb
      <4>1. 1 \in 1 .. n /\ new[1] = mb
        BY <1>5, <1>9, <2>1
      <4> QED  BY <4>1
    <3>2. j \in P /\ ~ \E p \in 1 .. n : list[p] = MB(t[j])
      BY <1>0, <1>4, <2>6, <3>1
    <3>3. PICK i \in P : MB(t[i]) = MB(t[j]) /\ PushedOut(list, t, P, i)
      BY <1>acc, <1>1, <3>2 DEF ListedOrOut
    <3>4. PushedOut(new, t, Q, i)
      BY <1>1, <1>7, <2>1, <2>5, <3>1, <3>3 DEF PushedOut
    <3> QED  BY <1>4, <3>3, <3>4
  <2> QED  BY <1>0, <1>3, <1>4, <2>4, <2>7
<1>10. CASE pos >= n
  <2>1. /\ Len(new) = IF n = MAX_MB_REUSE THEN n ELSE n + 1
        /\ \A i \in 1 .. Len(new) : new[i] = IF i = 1 THEN mb ELSE list[i - 1]
    BY <1>1, <1>2, <1>3, <1>6, <1>10, MovedToFront
  <2>2. PICK l : l = Len(new)
    OBVIOUS
  <2>3. l \in Nat \ {0} /\ l <= n + 1 /\ l - 1 <= n /\ new[1] = mb /\ 1 \in 1 .. l
    <3>1. l = IF n = MAX_MB_REUSE THEN n ELSE n + 1
      BY <2>1, <2>2
    <3>2. l \in Nat \ {0} /\ l <= n + 1 /\ l - 1 <= n /\ 1 \in 1 .. l
      BY <1>5, <3>1
    <3>3. new[1] = mb
      BY <2>1, <2>2, <3>2
    <3> QED  BY <3>2, <3>3
  <2>4. ASSUME NEW p \in 2 .. l + 1 PROVE Front(new, p) = Front(list, p - 1) \cup {mb}
    <3>1. 1 \in 1 .. p - 1 /\ \A q \in 1 .. p - 1 : q \in 1 .. l /\ (q # 1 => q - 1 \in 1 .. (p - 1) - 1)
      BY <2>3
    <3>2. \A q \in 1 .. p - 1 : new[q] = IF q = 1 THEN mb ELSE list[q - 1]
      BY <2>1, <2>2, <3>1
    <3>4. \A q \in 1 .. (p - 1) - 1 : q + 1 \in 1 .. p - 1 /\ q + 1 # 1 /\ (q + 1) - 1 = q
      OBVIOUS
    <3>5. \A q \in 1 .. (p - 1) - 1 : new[q + 1] = list[q]
      BY <3>2, <3>4
    <3>6. Front(new, p) \subseteq Front(list, p - 1) \cup {mb}
      BY <3>1, <3>2 DEF Front
    <3>7. Front(list, p - 1) \cup {mb} \subseteq Front(new, p)
      BY <2>3, <3>1, <3>4, <3>5 DEF Front
    <3> QED  BY <3>6, <3>7
  <2>5. Stacked(new, t, Q)
    <3> SUFFICES ASSUME NEW p \in 1 .. l
                 PROVE  \E i \in Q : MB(t[i]) = new[p] /\ Following(t, Q, i) = Front(new, p)
      BY <1>acc, <2>2 DEF Stacked
    <3>1. CASE p = 1
      BY <1>0, <1>4, <1>7, <1>8, <2>3, <3>1
    <3>2. CASE p # 1
      <4>1. p - 1 \in 1 .. n /\ p \in 2 .. l + 1
        BY <1>5, <2>3, <3>2
      <4>2. PICK i \in P : MB(t[i]) = list[p - 1] /\ Following(t, P, i) = Front(list, p - 1)
        BY <1>acc, <1>1, <4>1 DEF Stacked
      <4>3. new[p] = list[p - 1]
        BY <2>1, <2>2, <3>2
      <4>4. Following(t, Q, i) = Front(new, p) /\ i \in Q
        BY <1>4, <1>7, <2>4, <4>1, <4>2
      <4> QED  BY <4>2, <4>3, <4>4
    <3> QED  BY <3>1, <3>2
  <2>6. ListedOrOut(new, t, Q)
    <3> SUFFICES ASSUME NEW j \in Q, ~ \E p \in 1 .. l : new[p] = MB(t[j])
                 PROVE  \E i \in Q : MB(t[i]) = MB(t[j]) /\ PushedOut(new, t, Q, i)
      BY <1>acc, <2>2 DEF ListedOrOut
    <3>1. MB(t[j]) # mb /\ j \in P
      BY <1>0, <1>4, <2>3
    <3>2. Front(new, l + 1) = Front(list, l) \cup {mb}
      <4>1. l + 1 \in 2 .. l + 1 /\ (l + 1) - 1 = l
        BY <2>3
      <4>2. Front(new, l + 1) = Front(list, (l + 1) - 1) \cup {mb}
        BY <2>4, <4>1
      <4> QED  BY <4>1, <4>2
    <3>3. ASSUME NEW p \in 1 .. n, list[p] = MB(t[j]) PROVE p = n /\ n = MAX_MB_REUSE
      <4>1. CASE p + 1 \in 1 .. l
        <5>1. p + 1 # 1 /\ (p + 1) - 1 = p
          BY <3>3
        <5>2. new[p + 1] = list[(p + 1) - 1]
          BY <2>1, <2>2, <4>1, <5>1
        <5> QED  BY <3>3, <4>1, <5>1, <5>2
      <4>2. CASE p + 1 \notin 1 .. l
        BY <1>5, <2>1, <2>2, <4>2
      <4> QED  BY <4>1, <4>2
    <3>4. CASE \E p \in 1 .. n : list[p] = MB(t[j])
      <4>1. n \in 1 .. n /\ list[n] = MB(t[j]) /\ n = MAX_MB_REUSE /\ l = n
        BY <1>5, <2>1, <2>2, <3>3, <3>4
      <4>2. PICK i \in P : MB(t[i]) = list[n] /\ Following(t, P, i) = Front(list, n)
        BY <1>acc, <1>1, <4>1 DEF Stacked
      <4>3. list[n] \notin Front(list, n)
        <5>1. \A q \in 1 .. n - 1 : q \in 1 .. n /\ q # n
          BY <1>5
        <5>2. \A q \in 1 .. n - 1 : list[q] # list[n]
          BY <1>1, <4>1, <5>1 DEF NoRepeats
        <5> QED  BY <5>2 DEF Front
      <4>4. PushedOut(new, t, Q, i)
        BY <1>7, <2>2, <3>1, <3>2, <4>1, <4>2, <4>3 DEF PushedOut
      <4> QED  BY <1>4, <4>1, <4>2, <4>4
    <3>5. CASE ~ \E p \in 1 .. n : list[p] = MB(t[j])
      <4>1. PICK i \in P : MB(t[i]) = MB(t[j]) /\ PushedOut(list, t, P, i)
        BY <1>acc, <1>1, <3>1, <3>5 DEF ListedOrOut
      <4>2. n = MAX_MB_REUSE /\ l = n /\ Front(list, n + 1) \subseteq Following(t, P, i)
            /\ MB(t[i]) \notin Following(t, P, i)
        BY <1>1, <2>1, <2>2, <4>1 DEF PushedOut
      <4>3. Front(list, n) \subseteq Front(list, n + 1)
        <5>1. \A q \in 1 .. n - 1 : q \in 1 .. (n + 1) - 1
          BY <1>5
        <5> QED  BY <5>1 DEF Front
      <4>4. PushedOut(new, t, Q, i)
        BY <1>7, <2>2, <3>1, <3>2, <4>1, <4>2, <4>3 DEF PushedOut
      <4> QED  BY <1>4, <4>1, <4>4
    <3> QED  BY <3>4, <3>5
  <2> QED  BY <1>0, <1>3, <1>4, <2>5, <2>6
<1> QED  BY <1>5, <1>9, <1>10

\* The list measures the accesses of the phase read so far, and MB_reuse has counted them.
ReuseInv ==
  Recording =>
    /\ Stacked(last_macroblock_list, trace, Phase)
    /\ ListedOrOut(last_macroblock_list, trace, Phase)
    /\ \A r \in 0 .. MAX_MB_REUSE : MB_reuse[r] = Cardinality({i \in Phase : ReuseDistance(i) = r})

\* The reuse distance of an access of the phase.
LEMMA DistanceInPhase == ASSUME NEW i PROVE ReuseDistance(i) = Distance(trace, Phase, i)
BY DEF ReuseDistance, Distance

\* The reuse distance of an access does not depend on later ones.
LEMMA DistanceIsSettled ==
  ASSUME NEW t, NEW P, P \subseteq Int, NEW next \in Int, NEW i \in P, i < next
  PROVE  Distance(t, P \cup {next}, i) = Distance(t, P, i)
<1>0. ~ (next < i)
  OBVIOUS
<1> DEFINE before(Q) == {j \in Q : j < i /\ MB(t[j]) = MB(t[i])}
           since(Q)  == {j \in Q : j < i /\ \A b \in before(Q) : b < j}
<1>1. before(P \cup {next}) = before(P)
  BY <1>0
<1> HIDE DEF before
<1>2. since(P \cup {next}) = since(P)
  BY <1>0, <1>1
<1> HIDE DEF since
<1>3. \A Q : Distance(t, Q, i) =
        IF before(Q) = {} \/ Cardinality({MB(t[j]) : j \in since(Q)}) >= MAX_MB_REUSE THEN MAX_MB_REUSE
        ELSE Cardinality({MB(t[j]) : j \in since(Q)})
  BY DEF Distance, before, since
<1> QED  BY <1>1, <1>2, <1>3

\* check_addr_reuse counts the reuse distance of the element that is read.
LEMMA ReadKeepsReuse == ASSUME IInv, CountInv, FundInv, ReuseInv, ReadElement PROVE ReuseInv'
<1>0. PICK next : next = num_elems + 1
  OBVIOUS
<1>1. PICK list : list = last_macroblock_list
  OBVIOUS
<1>2. PICK P : P = Phase
  OBVIOUS
<1>3. PICK mb : mb = MB(trace[next])
  OBVIOUS
<1>4. PICK pos : pos = is_mb_used(list, mb)
  OBVIOUS
<1>5. /\ Recording /\ trace' = trace
      /\ MB_reuse' = [MB_reuse EXCEPT ![pos] = @ + 1]
      /\ last_macroblock_list' = update_mb_reuse_list(list, mb)
  BY <1>0, <1>1, <1>3, <1>4 DEF ReadElement, mem_access, Recording
<1>6. /\ Phase' = P \cup {next} /\ next \notin P /\ IsFiniteSet(P) /\ P \subseteq Int
      /\ next \in Int /\ \A j \in P : j < next
  <2>1. /\ num_elems \in Nat /\ Phase \subseteq Int /\ \A j \in Phase : j <= num_elems
    <3>1. num_elems \in Nat /\ PHASE_LEN \in Nat \ {0}
      BY Numbers
    <3>2. num_elems - PHASE_LEN \in Int /\ num_elems - (num_elems % PHASE_LEN) \in Int
      BY <3>1
    <3> QED  BY <3>1, <3>2 DEF Phase
  <2> QED  BY <1>0, <1>2, <2>1, ReadExtendsPhase
<1>7. /\ Blocks' = Blocks \cup {mb} /\ IsFiniteSet(Blocks \cup {mb})
      /\ \A j \in P : MB(trace[j]) \in Blocks
  <2>1. Blocks' = Blocks \cup {mb} /\ IsFiniteSet(Blocks)
    BY <1>0, <1>3, ReadCounts DEF ReadCounted, FundInv, SumsInv
  <2>2. Blocks = {MB(trace[j]) : j \in P}
    BY <1>2, <1>5 DEF CountInv, BudgetConserved, Blocks, Recording
  <2> QED  BY <2>1, <2>2, FS_AddElement
<1>8. PICK S : S = Blocks \cup {mb}
  OBVIOUS
<1>9. /\ list \in Seq(S) /\ Len(list) <= MAX_MB_REUSE /\ NoRepeats(list) /\ IsFiniteSet(S)
      /\ mb \in S /\ \A j \in P : MB(trace[j]) \in S
      /\ MB_reuse \in [0 .. MAX_MB_REUSE -> Nat]
  BY <1>1, <1>7, <1>8 DEF IInv, ListInv, RecordInv
<1>10. /\ Stacked(list, trace, P) /\ ListedOrOut(list, trace, P)
       /\ \A r \in 0 .. MAX_MB_REUSE : MB_reuse[r] = Cardinality({i \in P : Distance(trace, P, i) = r})
  BY <1>1, <1>2, <1>5, DistanceInPhase DEF ReuseInv
<1>11. Measures(S, list, trace, P, next)
  BY <1>3, <1>6, <1>9, <1>10 DEF Measures
<1>12. /\ Stacked(update_mb_reuse_list(list, mb), trace, P \cup {next})
       /\ ListedOrOut(update_mb_reuse_list(list, mb), trace, P \cup {next})
       /\ Distance(trace, P \cup {next}, next) = pos
  <2>1. \A t : Measures(S, list, t, P, next) =>
          Distance(t, P \cup {next}, next) = is_mb_used(list, MB(t[next]))
    BY PositionIsDistance
  <2> QED  BY <1>3, <1>4, <1>11, <2>1, NextIsStacked
<1>13. ASSUME NEW r \in 0 .. MAX_MB_REUSE
       PROVE  MB_reuse'[r] = Cardinality({i \in P \cup {next} : Distance(trace, P \cup {next}, i) = r})
  <2> DEFINE old == {i \in P : Distance(trace, P, i) = r}
             new == {i \in P \cup {next} : Distance(trace, P \cup {next}, i) = r}
  <2>1. \A i \in P : Distance(trace, P \cup {next}, i) = Distance(trace, P, i)
    BY <1>6, DistanceIsSettled
  <2>2. IsFiniteSet(old) /\ next \notin old
    BY <1>6, FS_Subset
  <2>3. CASE r = pos
    <3>1. new = old \cup {next}
      BY <1>12, <2>1, <2>3
    <3> HIDE DEF old, new
    <3>2. Cardinality(new) = Cardinality(old) + 1
      BY <2>2, <3>1, FS_AddElement
    <3>3. MB_reuse'[r] = MB_reuse[r] + 1
      BY <1>5, <1>9, <2>3
    <3> QED  BY <1>10, <3>2, <3>3 DEF old, new
  <2>4. CASE r # pos
    <3>1. new = old
      BY <1>12, <2>1, <2>4
    <3> HIDE DEF old, new
    <3>2. MB_reuse'[r] = MB_reuse[r]
      BY <1>5, <1>9, <2>4
    <3> QED  BY <1>10, <3>1, <3>2 DEF old, new
  <2> QED  BY <2>3, <2>4
<1>14. \A i : ReuseDistance(i)' = Distance(trace, P \cup {next}, i)
  BY <1>5, <1>6 DEF ReuseDistance, Distance
<1> QED  BY <1>5, <1>6, <1>12, <1>13, <1>14 DEF ReuseInv

\* Each phase starts with an empty list and nothing counted.
LEMMA EmptyReuse ==
  ASSUME Phase = {}, last_macroblock_list = << >>, \A r \in 0 .. MAX_MB_REUSE : MB_reuse[r] = 0
  PROVE  ReuseInv
<1>1. \A r : {i \in Phase : ReuseDistance(i) = r} = {}
  OBVIOUS
<1> QED  BY <1>1, FS_EmptySet DEF ReuseInv, Stacked, ListedOrOut

\* Every step keeps the invariant.
LEMMA NextKeepsReuse == IInv /\ CountInv /\ FundInv /\ ReuseInv /\ [Next]_vars => ReuseInv'
<1> SUFFICES ASSUME IInv, CountInv, FundInv, ReuseInv, [Next]_vars PROVE ReuseInv'
  OBVIOUS
<1>1. CASE EndOfTrace \/ Prepare
  BY <1>1 DEF EndOfTrace, Prepare, ReuseInv, Recording
<1>2. CASE Select \/ Commit
  <2>1. pc' \in Drawing \cup {"abort"}
    BY <1>2, SelectIsQuiet, CommitCounts DEF Quiet, Counted, Drawing
  <2> QED  BY <2>1 DEF ReuseInv, Recording, Drawing
<1>3. CASE PhaseClear
  <2>1. /\ pc = "next" /\ pc' = "profile" /\ UNCHANGED <<trace, num_elems>>
        /\ last_macroblock_list' = << >> /\ MB_reuse' = [r \in 0 .. MAX_MB_REUSE |-> 0]
    BY <1>3 DEF PhaseClear, input
  <2>2. num_elems \in Nat /\ num_elems % PHASE_LEN = 0
    BY <2>1, Numbers DEF CountInv, Drawing
  <2>3. Phase' = {}
    BY <2>1, <2>2 DEF Phase
  <2>4. \A r : {i \in Phase' : ReuseDistance(i)' = r} = {}
    BY <2>3
  <2>5. \A r \in 0 .. MAX_MB_REUSE : MB_reuse'[r] = 0
    BY <2>1
  <2>6. /\ Stacked(last_macroblock_list', trace', Phase')
        /\ ListedOrOut(last_macroblock_list', trace', Phase')
    BY <2>1, <2>3 DEF Stacked, ListedOrOut
  <2>7. \A r \in 0 .. MAX_MB_REUSE : MB_reuse'[r] = Cardinality({i \in Phase' : ReuseDistance(i)' = r})
    <3>1. Cardinality({}) = 0
      BY FS_EmptySet
    <3> QED  BY <2>4, <2>5, <3>1
  <2> QED  BY <2>6, <2>7 DEF ReuseInv
<1>4. CASE UNCHANGED vars
  <2>1. UNCHANGED <<trace, num_elems, pc, last_macroblock_list, MB_reuse>>
    BY <1>4 DEF vars, input, profile
  <2>2. Phase' = Phase
    BY <2>1 DEF Phase
  <2>3. \A i : ReuseDistance(i)' = ReuseDistance(i)
    BY <2>1, <2>2 DEF ReuseDistance
  <2> QED  BY <2>1, <2>2, <2>3 DEF ReuseInv, Recording
<1> QED  BY <1>1, <1>2, <1>3, <1>4, ReadKeepsReuse DEF Next, Step, Terminated, Select

\* Before anything is read nothing is counted.
LEMMA InitReuse == Init => ReuseInv
<1> SUFFICES ASSUME Init PROVE ReuseInv
  OBVIOUS
<1>1. num_elems = 0 /\ num_elems % PHASE_LEN = 0 /\ pc = "profile"
  BY HaloAssumption DEF Init
<1>2. Phase = {}
  BY <1>1 DEF Phase
<1> QED  BY <1>2, EmptyReuse DEF Init

\* The bounded list yields the reuse distance of every access, as it is defined
\* (check_addr_reuse).
THEOREM ReuseIsMeasured == Spec => []ReuseIsDistinctBlocksBetween
<1>1. Spec => []CountInv
  BY Invariance, InitConserves, NextConserves, PTL DEF Spec
<1>2. ReuseInv => ReuseIsDistinctBlocksBetween
  BY DEF ReuseInv, ReuseIsDistinctBlocksBetween, Recording
<1> QED  BY <1>1, <1>2, Invariance, FundsAreKept, InitReuse, NextKeepsReuse, PTL DEF Spec

--------------------------------------------------------------------------------
(* The first deltas of a macroblock stay in it *)

\* From addr the deltas ds lead to end without leaving macroblock mb, by the addresses of path.
Leads(path, addr, ds, mb, end) ==
  /\ path \in Seq(Int)
  /\ Len(path) = Len(ds) + 1 /\ path[1] = addr /\ path[Len(path)] = end
  /\ \A i \in 1 .. Len(ds) : path[i + 1] = path[i] + ds[i]
  /\ \A i \in 1 .. Len(path) : MB(path[i]) = mb

FitsTo(addr, ds, mb, end) == \E path : Leads(path, addr, ds, mb, end)

Fits(addr, ds, mb) == \E end : FitsTo(addr, ds, mb, end)

\* No deltas lead nowhere.
LEMMA NoDeltasFit ==
  ASSUME NEW addr \in Int, NEW mb, MB(addr) = mb
  PROVE  FitsTo(addr, << >>, mb, addr) /\ Fits(addr, << >>, mb)
<1>1. Leads(<<addr>>, addr, << >>, mb, addr)
  BY DEF Leads
<1> QED  BY <1>1 DEF FitsTo, Fits

\* One more delta that stays in the macroblock.
LEMMA OneMoreFits ==
  ASSUME NEW addr, NEW ds \in Seq(Int), NEW mb, NEW end \in Int, FitsTo(addr, ds, mb, end),
         NEW d \in Int, MB(end + d) = mb
  PROVE  FitsTo(addr, Append(ds, d), mb, end + d)
<1>1. PICK path : Leads(path, addr, ds, mb, end)
  BY DEF FitsTo
<1>2. PICK n : n = Len(ds)
  OBVIOUS
<1>3. /\ n \in Nat /\ path \in Seq(Int) /\ Len(path) = n + 1 /\ path[1] = addr /\ path[n + 1] = end
      /\ \A i \in 1 .. n : path[i + 1] = path[i] + ds[i]
      /\ \A i \in 1 .. n + 1 : MB(path[i]) = mb
  BY <1>1, <1>2 DEF Leads
<1>4. PICK longer : longer = Append(path, end + d)
  OBVIOUS
<1>5. PICK more : more = Append(ds, d)
  OBVIOUS
<1>6. /\ longer \in Seq(Int) /\ Len(longer) = n + 2 /\ longer[n + 2] = end + d
      /\ \A i \in 1 .. n + 1 : longer[i] = path[i]
  <2>1. /\ Append(path, end + d) \in Seq(Int) /\ Len(Append(path, end + d)) = Len(path) + 1
        /\ \A i \in 1 .. Len(path) : Append(path, end + d)[i] = path[i]
        /\ Append(path, end + d)[Len(path) + 1] = end + d
    BY <1>3, AppendProperties
  <2>2. (n + 1) + 1 = n + 2
    BY <1>3
  <2> QED  BY <1>3, <1>4, <2>1, <2>2
<1>7. Len(more) = n + 1 /\ more[n + 1] = d /\ \A i \in 1 .. n : more[i] = ds[i]
  BY <1>2, <1>5, AppendProperties
<1>8. \A i \in 1 .. n + 1 : longer[i + 1] = longer[i] + more[i]
  <2> SUFFICES ASSUME NEW i \in 1 .. n + 1 PROVE longer[i + 1] = longer[i] + more[i]
    OBVIOUS
  <2>1. CASE i = n + 1
    <3>1. i + 1 = n + 2
      BY <1>3, <2>1
    <3> QED  BY <1>3, <1>6, <1>7, <2>1, <3>1
  <2>2. CASE i \in 1 .. n
    <3>1. i + 1 \in 1 .. n + 1
      BY <1>3, <2>2
    <3> QED  BY <1>3, <1>6, <1>7, <2>2, <3>1
  <2> QED  BY <1>3, <2>1, <2>2
<1>9. longer[1] = addr /\ \A i \in 1 .. n + 2 : MB(longer[i]) = mb
  <2>1. 1 \in 1 .. n + 1 /\ \A i \in 1 .. n + 2 : i \in 1 .. n + 1 \/ i = n + 2
    BY <1>3
  <2> QED  BY <1>3, <1>6, <2>1
<1>10. n + 2 = (n + 1) + 1
  BY <1>3
<1>11. Leads(longer, addr, more, mb, end + d)
  BY <1>6, <1>7, <1>8, <1>9, <1>10 DEF Leads
<1> QED  BY <1>5, <1>11 DEF FitsTo

\* The first of the deltas stays in the macroblock, and the others go on from there.
LEMMA FirstDeltaFits ==
  ASSUME NEW addr, NEW ds \in Seq(Int), ds # << >>, NEW mb, Fits(addr, ds, mb)
  PROVE  MB(addr + Head(ds)) = mb /\ Fits(addr + Head(ds), Tail(ds), mb)
<1>1. PICK end, path : Leads(path, addr, ds, mb, end)
  BY DEF Fits, FitsTo
<1>2. PICK n : n = Len(ds)
  OBVIOUS
<1>3. /\ n \in Nat \ {0} /\ path \in Seq(Int) /\ Len(path) = n + 1 /\ path[1] = addr /\ path[n + 1] = end
      /\ \A i \in 1 .. n : path[i + 1] = path[i] + ds[i]
      /\ \A i \in 1 .. n + 1 : MB(path[i]) = mb
  BY <1>1, <1>2 DEF Leads
<1>4. Head(ds) = ds[1] /\ Tail(ds) \in Seq(Int) /\ Len(Tail(ds)) = n - 1
      /\ \A i \in 1 .. n - 1 : Tail(ds)[i] = ds[i + 1]
  BY <1>2, <1>3
<1>5. PICK next : next = addr + Head(ds)
  OBVIOUS
<1>6. path[2] = next /\ MB(next) = mb
  <2>1. 1 \in 1 .. n /\ 1 + 1 = 2 /\ 2 \in 1 .. n + 1
    BY <1>3
  <2>2. path[1 + 1] = path[1] + ds[1]
    BY <1>3, <2>1
  <2> QED  BY <1>3, <1>4, <1>5, <2>1, <2>2
<1>7. PICK shorter : shorter = Tail(path)
  OBVIOUS
<1>8. shorter \in Seq(Int) /\ Len(shorter) = n /\ \A i \in 1 .. n : shorter[i] = path[i + 1]
  BY <1>3, <1>7
<1>9. PICK less : less = Tail(ds)
  OBVIOUS
<1>10. shorter[1] = next /\ shorter[n] = end /\ \A i \in 1 .. n : MB(shorter[i]) = mb
  <2>1. 1 \in 1 .. n /\ n \in 1 .. n /\ 1 + 1 = 2 /\ \A i \in 1 .. n : i + 1 \in 1 .. n + 1
    BY <1>3
  <2> QED  BY <1>3, <1>6, <1>8, <2>1
<1>11. \A i \in 1 .. n - 1 : shorter[i + 1] = shorter[i] + less[i]
  <2> SUFFICES ASSUME NEW i \in 1 .. n - 1 PROVE shorter[i + 1] = shorter[i] + less[i]
    OBVIOUS
  <2>1. i \in 1 .. n /\ i + 1 \in 1 .. n
    BY <1>3
  <2>2. path[(i + 1) + 1] = path[i + 1] + ds[i + 1]
    BY <1>3, <2>1
  <2> QED  BY <1>4, <1>8, <1>9, <2>1, <2>2
<1>12. (n - 1) + 1 = n
  BY <1>3
<1>13. Leads(shorter, next, less, mb, end)
  BY <1>4, <1>8, <1>9, <1>10, <1>11, <1>12 DEF Leads
<1> QED  BY <1>5, <1>6, <1>9, <1>13 DEF FitsTo, Fits

--------------------------------------------------------------------------------
(* The inductive invariant *)

\* What is recorded of a macroblock fits: its first deltas go on from its first address.
FirstFits(m, mb) == Fits(m.first_addr, m.saved_first_N_deltas, mb)

\* What is left of them goes on from its last address.
RestFits(m, mb) == Fits(m.last_addr, m.first_N_deltas, mb)

\* While a phase is recorded the first deltas lead to the last address until they are complete;
\* the first access of the phase to a macroblock was at its first address.
FirstInv ==
  /\ \A mb \in Blocks : FirstFits(per_MB_historytable[mb], mb)
  /\ Recording =>
       \A mb \in Blocks :
         LET m == per_MB_historytable[mb]
         IN  Len(m.saved_first_N_deltas) < MAX_DELTA =>
               FitsTo(m.first_addr, m.saved_first_N_deltas, mb, m.last_addr)
  /\ Recording \/ pc \in Drawing =>
       \A mb \in Blocks, i \in Phase :
         MB(trace[i]) = mb /\ (\A j \in Phase : j < i => MB(trace[j]) # mb) =>
           trace[i] = per_MB_historytable[mb].first_addr

\* As long as no macroblock can leave the list, what a generated macroblock has left of its
\* first deltas goes on from where it is, or from the access that is chosen.
ReplayInv ==
  /\ Few /\ pc \in Drawing =>
       /\ \A mb \in DOMAIN new_MBs :
            (pc = "commit" => mb # this.mb) => RestFits(per_MB_historytable[mb], mb)
       /\ pc = "commit" => Fits(this.addr, per_MB_historytable[this.mb].first_N_deltas, this.mb)
  /\ assert_failed = "935" => pc = "abort" /\ ~ Few

FitInv == FirstInv /\ ReplayInv

\* A failed assertion changes nothing; the one at 935 fails only with too many macroblocks.
LEMMA AbortKeepsFit ==
  ASSUME FitInv, NEW line, line # "935" \/ ~ Few, Abort(line) PROVE FitInv'
<1>1. pc' = "abort" /\ assert_failed' = line /\ UNCHANGED per_MB_historytable
  BY DEF Abort, profile
<1>2. Blocks' = Blocks /\ (Few' <=> Few) /\ ~ Recording' /\ pc' \notin Drawing
  BY <1>1 DEF Blocks, Few, Recording, Drawing
<1>3. FirstInv'
  BY <1>1, <1>2 DEF FitInv, FirstInv
<1>4. ReplayInv'
  BY <1>1, <1>2 DEF ReplayInv
<1> QED  BY <1>3, <1>4 DEF FitInv

\* Trying a macroblock keeps the invariant if what it has left fits.
LEMMA TryKeepsFit ==
  ASSUME FitInv, pc \in Drawing \ {"commit"}, pc' \in Drawing,
         NEW mb \in Blocks, NEW m,
         Blocks' = Blocks,
         \A b \in Blocks : per_MB_historytable'[b] = IF b = mb THEN m ELSE per_MB_historytable[b],
         UNCHANGED <<trace, num_elems, new_MBs>>, assert_failed' = assert_failed,
         DOMAIN new_MBs \subseteq Blocks,
         m.first_addr = per_MB_historytable[mb].first_addr,
         m.saved_first_N_deltas = per_MB_historytable[mb].saved_first_N_deltas,
         Few /\ pc' # "commit" => RestFits(m, mb),
         pc' = "commit" => this'.mb = mb,
         Few /\ pc' = "commit" => Fits(this'.addr, m.first_N_deltas, mb)
  PROVE  FitInv'
<1>1. (Few' <=> Few) /\ ~ Recording' /\ Phase' = Phase
  BY DEF Few, Recording, Phase, Drawing
<1>2. FirstInv'
  <2>1. \A b \in Blocks : FirstFits(per_MB_historytable'[b], b)
    BY DEF FitInv, FirstInv, FirstFits
  <2>2. \A b \in Blocks, i \in Phase :
          MB(trace[i]) = b /\ (\A j \in Phase : j < i => MB(trace[j]) # b) =>
            trace[i] = per_MB_historytable'[b].first_addr
    BY DEF FitInv, FirstInv
  <2> QED  BY <1>1, <2>1, <2>2 DEF FirstInv
<1>3. ReplayInv'
  <2>1. assert_failed' # "935"
    BY DEF FitInv, ReplayInv, Drawing
  <2>2. ASSUME Few, NEW b \in DOMAIN new_MBs, pc' = "commit" => b # this'.mb
        PROVE  RestFits(per_MB_historytable'[b], b)
    <3>1. CASE b = mb
      BY <2>2, <3>1
    <3>2. CASE b # mb
      <4>1. RestFits(per_MB_historytable[b], b)
        BY <2>2 DEF FitInv, ReplayInv
      <4> QED  BY <3>2, <4>1
    <3> QED  BY <3>1, <3>2
  <2>3. ASSUME Few, pc' = "commit"
        PROVE  Fits(this'.addr, per_MB_historytable'[this'.mb].first_N_deltas, this'.mb)
    BY <2>3
  <2> QED  BY <1>1, <2>1, <2>2, <2>3 DEF ReplayInv
<1> QED  BY <1>2, <1>3 DEF FitInv

\* Moving on to another case changes no macroblock.
LEMMA MoveOnKeepsFit ==
  ASSUME FitInv, pc \in Drawing \ {"commit"}, pc' \in Drawing \ {"commit"},
         UNCHANGED <<trace, num_elems, per_MB_historytable, new_MBs, assert_failed>>
  PROVE  FitInv'
<1>1. (Few' <=> Few) /\ ~ Recording' /\ Phase' = Phase /\ Blocks' = Blocks
  BY DEF Few, Recording, Phase, Drawing, Blocks
<1>2. FirstInv'
  BY <1>1 DEF FitInv, FirstInv
<1>3. ReplayInv'
  BY <1>1 DEF FitInv, ReplayInv, Drawing
<1> QED  BY <1>2, <1>3 DEF FitInv

--------------------------------------------------------------------------------
(* Selecting an access *)

\* Giving a macroblock a history again leaves it with deltas that fit.
LEMMA ReinitFits ==
  ASSUME NEW m \in MacroBlocks, NEW mb
  PROVE  LET new == reinit_MB_delta(m, mb)
         IN  /\ new.first_addr = m.first_addr
             /\ new.saved_first_N_deltas = m.saved_first_N_deltas
             /\ StartsOver(m, mb) =>
                  new.last_addr = m.first_addr /\ new.first_N_deltas = m.saved_first_N_deltas
             /\ ~ StartsOver(m, mb) =>
                  new.last_addr = m.last_addr /\ new.first_N_deltas = m.first_N_deltas
<1>1. StartsOver(m, mb) => m.first_N_deltas = << >>
  BY DEF StartsOver
<1>2. CASE StartsOver(m, mb)
  <2> DEFINE new == [m EXCEPT !.first_N_deltas = m.saved_first_N_deltas,
                              !.last_N_deltas = << >>, !.last_addr = m.first_addr]
  <2>1. reinit_MB_delta(m, mb) = new
    BY <1>1, <1>2 DEF reinit_MB_delta, reinit_first_addr
  <2>2. /\ new.first_addr = m.first_addr /\ new.last_addr = m.first_addr
        /\ new.saved_first_N_deltas = m.saved_first_N_deltas
        /\ new.first_N_deltas = m.saved_first_N_deltas
    BY DEF MacroBlocks
  <2> HIDE DEF new
  <2> QED  BY <1>2, <2>1, <2>2
<1>3. CASE ~ StartsOver(m, mb)
  <2>1. PICK new : new = reinit_MB_delta(m, mb)
    OBVIOUS
  <2>2. new = m \/ \E hist : new = [m EXCEPT !.last_N_deltas = hist]
    BY <1>3, <2>1 DEF reinit_MB_delta
  <2>3. /\ new.first_addr = m.first_addr /\ new.last_addr = m.last_addr
        /\ new.saved_first_N_deltas = m.saved_first_N_deltas /\ new.first_N_deltas = m.first_N_deltas
    BY <2>2 DEF MacroBlocks
  <2> QED  BY <1>3, <2>1, <2>3
<1> QED  BY <1>2, <1>3

\* An access with a delta leads to an address from which what is left fits.
LEMMA NextDeltaKeepsFit ==
  ASSUME IInv, HistoryInv, FitInv, Looking, NEW mb \in DOMAIN new_MBs, NEW reuse,
         get_next_delta(mb, reuse)
  PROVE  FitInv'
<1>0. PICK m : m = per_MB_historytable[mb]
  OBVIOUS
<1>1. /\ mb \in Blocks /\ m \in MacroBlocks /\ DOMAIN new_MBs \subseteq Blocks
      /\ pc \in Drawing \ {"commit"}
  BY <1>0, BlockRecord DEF IInv, RecordInv, Looking, Drawing
<1>2. m.first_N_deltas \in Seq(Int) /\ m.last_addr \in Int
  BY <1>1 DEF MacroBlocks
<1>3. Few => RestFits(m, mb)
  BY <1>0, <1>1 DEF FitInv, ReplayInv
<1>4. CASE ReplayDelta(mb, reuse)
  <2> DEFINE d == Head(m.first_N_deltas)
             m2 == [m EXCEPT !.first_N_deltas = Tail(m.first_N_deltas)]
  <2>1. m.first_N_deltas # << >>
    BY <1>0, <1>4 DEF ReplayDelta
  <2>2. Few => MB(m.last_addr + d) = mb /\ Fits(m.last_addr + d, Tail(m.first_N_deltas), mb)
    BY <1>2, <1>3, <2>1, FirstDeltaFits DEF RestFits
  <2>3. CASE MB(m.last_addr + d) # mb
    <3>1. Abort("935")
      BY <1>0, <1>4, <2>3 DEF ReplayDelta
    <3> QED  BY <2>2, <2>3, <3>1, AbortKeepsFit
  <2>4. CASE MB(m.last_addr + d) = mb
    <3>1. /\ per_MB_historytable' = [per_MB_historytable EXCEPT ![mb] = m2]
          /\ Choose(mb, m.last_addr + d, reuse, d, FALSE)
          /\ UNCHANGED_but_MB
      BY <1>0, <1>4, <2>4 DEF ReplayDelta
    <3>2. /\ m2.first_addr = m.first_addr /\ m2.saved_first_N_deltas = m.saved_first_N_deltas
          /\ m2.first_N_deltas = Tail(m.first_N_deltas)
      BY <1>1 DEF MacroBlocks
    <3> HIDE DEF m2
    <3>3. /\ Blocks' = Blocks
          /\ \A b \in Blocks : per_MB_historytable'[b] = IF b = mb THEN m2 ELSE per_MB_historytable[b]
      BY <3>1 DEF Blocks
    <3> HIDE DEF d
    <3>4. pc' = "commit" /\ this'.mb = mb /\ this'.addr = m.last_addr + d
      BY <3>1 DEF Choose
    <3>5. Few => Fits(this'.addr, m2.first_N_deltas, mb)
      BY <2>2, <3>2, <3>4
    <3> QED
      BY <1>0, <1>1, <3>1, <3>2, <3>3, <3>4, <3>5, TryKeepsFit DEF UNCHANGED_but_MB, input, Drawing
  <2> QED  BY <2>3, <2>4
<1>5. CASE DrawDelta(mb, reuse)
  <2>1. PICK draw \in RandomDraws(mb, m) \cup ForcedDraws(mb, m) :
          Choose(mb, m.last_addr + draw[2], reuse, draw[2], FALSE)
    BY <1>0, <1>5 DEF DrawDelta
  <2>2. MB(m.last_addr + draw[2]) = mb /\ draw[2] \in Int
    BY DrawnStays, DrawnDelta DEF IInv
  <2>3. /\ UNCHANGED <<trace, num_elems, per_MB_historytable, new_MBs, assert_failed>>
        /\ m.first_N_deltas = << >>
    BY <1>0, <1>5 DEF DrawDelta, input
  <2>4. pc' = "commit" /\ this'.mb = mb /\ this'.addr = m.last_addr + draw[2]
    BY <2>1 DEF Choose
  <2>5. Fits(this'.addr, m.first_N_deltas, mb)
    <3>1. m.last_addr + draw[2] \in Int
      BY <1>2, <2>2
    <3> QED  BY <2>2, <2>3, <2>4, <3>1, NoDeltasFit
  <2>6. /\ Blocks' = Blocks
        /\ \A b \in Blocks : per_MB_historytable'[b] = IF b = mb THEN m ELSE per_MB_historytable[b]
    BY <1>0, <2>3 DEF Blocks
  <2> QED
    BY <1>0, <1>1, <2>3, <2>4, <2>5, <2>6, TryKeepsFit DEF Drawing
<1> QED  BY <1>4, <1>5 DEF get_next_delta

\* Trying a generated macroblock: its next delta, its first address again, or what
\* Otherwise does, which chooses its last address or moves on.
LEMMA ContinueKeepsFit ==
  ASSUME IInv, HistoryInv, FitInv, Looking, NEW mb \in DOMAIN new_MBs, NEW reuse,
         NEW ACTION Otherwise,
         Otherwise => \/ pc' \in Drawing \ {"commit"}
                      \/ \E r : RepeatLast(mb, r),
         ContinueMB(mb, reuse, Otherwise)
  PROVE  FitInv'
<1>0. PICK m : m = per_MB_historytable[mb]
  OBVIOUS
<1>1. /\ mb \in Blocks /\ m \in MacroBlocks /\ DOMAIN new_MBs \subseteq Blocks
      /\ pc \in Drawing \ {"commit"}
  BY <1>0, BlockRecord DEF IInv, RecordInv, Looking, Drawing
<1>2. (Few => RestFits(m, mb)) /\ FirstFits(m, mb)
  BY <1>0, <1>1 DEF FitInv, ReplayInv, FirstInv
<1>3. CASE get_next_delta(mb, reuse)
  BY <1>3, NextDeltaKeepsFit
<1>4. CASE Abort(ReinitAssert(m, mb)) /\ ReinitAssert(m, mb) # "none"
  <2>1. ReinitAssert(m, mb) # "935"
    BY DEF ReinitAssert
  <2> QED  BY <1>4, <2>1, AbortKeepsFit
<1>5. CASE /\ per_MB_historytable' = [per_MB_historytable EXCEPT ![mb] = reinit_MB_delta(m, mb)]
           /\ IF StartsOver(m, mb) THEN Choose(mb, m.first_addr, reuse, 0, TRUE) ELSE Otherwise
           /\ UNCHANGED_but_MB
  <2>1. PICK m2 : m2 = reinit_MB_delta(m, mb)
    OBVIOUS
  <2>2. /\ m2.first_addr = m.first_addr /\ m2.saved_first_N_deltas = m.saved_first_N_deltas
        /\ StartsOver(m, mb) => m2.last_addr = m.first_addr /\ m2.first_N_deltas = m.saved_first_N_deltas
        /\ ~ StartsOver(m, mb) => m2.last_addr = m.last_addr /\ m2.first_N_deltas = m.first_N_deltas
    BY <1>1, <2>1, ReinitFits
  <2>3. Few => RestFits(m2, mb)
    BY <1>2, <2>2 DEF RestFits, FirstFits
  <2>4. /\ Blocks' = Blocks
        /\ \A b \in Blocks : per_MB_historytable'[b] = IF b = mb THEN m2 ELSE per_MB_historytable[b]
    BY <1>5, <2>1 DEF Blocks
  <2>5. ASSUME NEW addr, NEW r, Choose(mb, addr, r, 0, TRUE)
        PROVE  pc' = "commit" /\ this'.mb = mb /\ this'.addr = addr
    BY <2>5 DEF Choose
  <2>6. \/ pc' \in Drawing \ {"commit"}
        \/ pc' = "commit" /\ this'.mb = mb /\ this'.addr = m2.last_addr
    <3>1. CASE StartsOver(m, mb)
      <4>1. Choose(mb, m.first_addr, reuse, 0, TRUE)
        BY <1>5, <3>1, Zenon
      <4> QED  BY <2>2, <2>5, <3>1, <4>1
    <3>2. CASE ~ StartsOver(m, mb)
      <4>1. Otherwise
        BY <1>5, <3>2, Zenon
      <4>2. CASE \E r : RepeatLast(mb, r)
        <5>1. PICK r : Choose(mb, m.last_addr, r, 0, TRUE)
          BY <1>0, <4>2 DEF RepeatLast
        <5> QED  BY <2>2, <2>5, <3>2, <5>1
      <4> QED  BY <4>1, <4>2
    <3> QED  BY <3>1, <3>2
  <2>7. /\ pc' \in Drawing
        /\ Few /\ pc' # "commit" => RestFits(m2, mb)
        /\ pc' = "commit" => this'.mb = mb
        /\ Few /\ pc' = "commit" => Fits(this'.addr, m2.first_N_deltas, mb)
    BY <2>3, <2>6 DEF Drawing, RestFits
  <2>8. UNCHANGED <<trace, num_elems, new_MBs>> /\ assert_failed' = assert_failed
    BY <1>5 DEF UNCHANGED_but_MB, input
  <2> QED  BY <1>0, <1>1, <2>2, <2>4, <2>7, <2>8, TryKeepsFit
<1> QED  BY <1>0, <1>3, <1>4, <1>5, Zenon DEF ContinueMB

\* A macroblock that has not been generated is entered at its first address.
LEMMA EnterKeepsFit ==
  ASSUME IInv, FitInv, pc \in Drawing \ {"commit"}, NEW mb \in Blocks, mb \notin DOMAIN new_MBs,
         NEW m, m.first_addr = per_MB_historytable[mb].first_addr,
         m.saved_first_N_deltas = per_MB_historytable[mb].saved_first_N_deltas,
         m.first_N_deltas = m.saved_first_N_deltas,
         Blocks' = Blocks,
         \A b \in Blocks : per_MB_historytable'[b] = IF b = mb THEN m ELSE per_MB_historytable[b],
         NEW reuse, Choose(mb, m.first_addr, reuse, 0, TRUE),
         UNCHANGED_but_MB
  PROVE  FitInv'
<1>1. pc' = "commit" /\ this'.mb = mb /\ this'.addr = m.first_addr
  BY DEF Choose
<1>2. FirstFits(per_MB_historytable[mb], mb) /\ DOMAIN new_MBs \subseteq Blocks
  BY DEF FitInv, FirstInv, IInv, RecordInv
<1>3. Fits(this'.addr, m.first_N_deltas, mb)
  BY <1>1, <1>2 DEF FirstFits
<1>4. UNCHANGED <<trace, num_elems, new_MBs>> /\ assert_failed' = assert_failed
  BY DEF UNCHANGED_but_MB, input
<1> QED  BY <1>1, <1>2, <1>3, <1>4, TryKeepsFit DEF Drawing

\* A new macroblock starts with its first deltas.
LEMMA TakeNewKeepsFit ==
  ASSUME IInv, FitInv, Looking, NEW mb \in Blocks, mb \notin DOMAIN new_MBs, TakeNewMB(mb)
  PROVE  FitInv'
<1>0. PICK m : m = per_MB_historytable[mb]
  OBVIOUS
<1>1. /\ m \in MacroBlocks /\ Untouched(m) /\ pc \in Drawing \ {"commit"}
  BY <1>0, BlockRecord DEF IInv, TouchInv, Visited, Looking, Drawing
<1> DEFINE m2 == [m EXCEPT !.first_proxy_gen = TRUE]
<1>2. /\ per_MB_historytable' = [per_MB_historytable EXCEPT ![mb] = m2]
      /\ Choose(mb, m.first_addr, MAX_MB_REUSE, 0, TRUE)
      /\ UNCHANGED_but_MB
  BY <1>0, <1>1, Zenon DEF TakeNewMB, Untouched
<1>3. /\ m2.first_addr = m.first_addr /\ m2.saved_first_N_deltas = m.saved_first_N_deltas
      /\ m2.first_N_deltas = m2.saved_first_N_deltas
  BY <1>1 DEF MacroBlocks, Untouched
<1> HIDE DEF m2
<1>4. /\ Blocks' = Blocks
      /\ \A b \in Blocks : per_MB_historytable'[b] = IF b = mb THEN m2 ELSE per_MB_historytable[b]
  BY <1>2 DEF Blocks
<1>5. Choose(mb, m2.first_addr, MAX_MB_REUSE, 0, TRUE)
  BY <1>2, <1>3
<1> QED  BY <1>0, <1>1, <1>2, <1>3, <1>4, <1>5, EnterKeepsFit

\* With few macroblocks those generated are on the list, so case 9 takes one that is not.
LEMMA ForceMaxReuseKeepsFit == ASSUME IInv, FewInv, FitInv, ForceMaxReuse PROVE FitInv'
<1>1. pc \in Drawing \ {"commit"}
  BY DEF ForceMaxReuse, Drawing
<1>2. CASE Abort("1716")
  BY <1>2, AbortKeepsFit
<1>3. CASE /\ \E mb \in OffList :
                Choose(mb, per_MB_historytable[mb].first_addr, MAX_MB_REUSE, 0, TRUE)
           /\ UNCHANGED per_MB_historytable
           /\ UNCHANGED_but_MB
  <2>1. PICK mb \in OffList :
          Choose(mb, per_MB_historytable[mb].first_addr, MAX_MB_REUSE, 0, TRUE)
    BY <1>3
  <2>2. PICK m : m = per_MB_historytable[mb]
    OBVIOUS
  <2>3. /\ mb \in Blocks /\ Blocks' = Blocks /\ DOMAIN new_MBs \subseteq Blocks
        /\ \A b \in Blocks : per_MB_historytable'[b] = IF b = mb THEN m ELSE per_MB_historytable[b]
    BY <1>3, <2>2 DEF Blocks, OffList, IInv, RecordInv
  <2>4. CASE mb \notin DOMAIN new_MBs
    <3>1. Untouched(m)
      BY <1>1, <2>2, <2>3, <2>4 DEF IInv, TouchInv, Visited, Drawing
    <3> QED  BY <1>1, <1>3, <2>1, <2>2, <2>3, <2>4, <3>1, EnterKeepsFit DEF Untouched
  <2>5. CASE mb \in DOMAIN new_MBs
    <3>1. ~ Few
      <4> SUFFICES ASSUME Few PROVE FALSE
        OBVIOUS
      <4>1. AllListed(last_macroblock_list, DOMAIN new_MBs)
        BY <1>1 DEF FewInv
      <4>2. last_macroblock_list \in Seq(Blocks) /\ Len(last_macroblock_list) <= MAX_MB_REUSE
        BY DEF IInv, ListInv
      <4>3. OnList(mb)
        BY <2>5, <4>1, <4>2, PositionOnList DEF AllListed, OnList
      <4> QED  BY <4>3 DEF OffList
    <3>2. pc' = "commit" /\ this'.mb = mb
      BY <2>1 DEF Choose
    <3>3. UNCHANGED <<trace, num_elems, new_MBs>> /\ assert_failed' = assert_failed
      BY <1>3 DEF UNCHANGED_but_MB, input
    <3> QED  BY <1>1, <2>2, <2>3, <3>1, <3>2, <3>3, TryKeepsFit DEF Drawing
  <2> QED  BY <2>4, <2>5
<1> QED  BY <1>2, <1>3 DEF ForceMaxReuse

\* The last resort continues a macroblock that has been generated.
LEMMA ForceVisitedKeepsFit == ASSUME IInv, HistoryInv, FitInv, ForceVisited PROVE FitInv'
<1> DEFINE rest == {b \in DOMAIN new_MBs : Left(b) > 0}
           mb == CHOOSE b \in rest : \A o \in rest : b <= o
           reuse == is_mb_used(last_macroblock_list, mb)
<1>1. Looking
  BY DEF ForceVisited, Looking
<1>2. CASE rest = {}
  <2>1. Abort("1803")
    BY <1>2 DEF ForceVisited
  <2> QED  BY <2>1, AbortKeepsFit
<1>3. CASE rest # {}
  <2>1. ContinueMB(mb, reuse, RepeatLast(mb, reuse))
    BY <1>3 DEF ForceVisited
  <2>2. mb \in rest
    <3>1. rest \subseteq Nat
      BY DEF IInv, RecordInv
    <3>2. \E b \in rest : \A o \in rest : b <= o
      <4> HIDE DEF rest
      <4> QED  BY <1>3, <3>1, LeastNatural
    <3> QED  BY <3>2
  <2>3. mb \in DOMAIN new_MBs
    BY <2>2
  <2> HIDE DEF mb, reuse
  <2>4. RepeatLast(mb, reuse) => \E r : RepeatLast(mb, r)
    OBVIOUS
  <2> QED  BY <1>1, <2>1, <2>3, <2>4, ContinueKeepsFit
<1> QED  BY <1>2, <1>3

\* So do the cases that take a macroblock from the list.
LEMMA ListedKeepsFit ==
  ASSUME IInv, HistoryInv, FitInv, PickLower \/ FallbackHigher \/ ForceOnList PROVE FitInv'
<1>1. Looking /\ pc \in Drawing \ {"commit"}
  BY DEF PickLower, FallbackHigher, ForceOnList, Looking, Drawing
<1>2. CASE PickLower
  <2>1. PICK mb : mb = last_macroblock_list[temp_reuse + 1]
    OBVIOUS
  <2>2. mb \in DOMAIN new_MBs
    <3>1. temp_reuse \in 0 .. Len(last_macroblock_list) - 1
      BY <1>2 DEF PickLower, IInv, ControlInv, ListInv
    <3> QED  BY <1>1, <2>1, <3>1, ListedGenerated
  <2>3. GoTo("fallback") => pc' \in Drawing \ {"commit"}
    BY DEF GoTo, Drawing
  <2>4. CASE ContinueMB(mb, temp_reuse, GoTo("fallback"))
    BY <1>1, <2>2, <2>3, <2>4, ContinueKeepsFit
  <2>5. CASE GoTo("fallback") /\ UNCHANGED per_MB_historytable /\ UNCHANGED_but_MB
    BY <1>1, <2>3, <2>5, MoveOnKeepsFit DEF UNCHANGED_but_MB, input
  <2> QED  BY <1>2, <2>1, <2>4, <2>5, Zenon DEF PickLower
<1>3. CASE FallbackHigher
  <2>1. PICK p \in HigherReuse :
          ContinueMB(last_macroblock_list[p + 1], p, RepeatLast(last_macroblock_list[p + 1], temp_reuse))
    BY <1>3 DEF FallbackHigher
  <2>2. p \in 0 .. Len(last_macroblock_list) - 1
    <3>1. max_nonzero_reuse \in Nat /\ Len(last_macroblock_list) \in Nat
      BY <1>3, GreatestReuse DEF FallbackHigher, IInv, ListInv
    <3> QED  BY <3>1 DEF HigherReuse
  <2>3. PICK mb : mb = last_macroblock_list[p + 1]
    OBVIOUS
  <2>4. mb \in DOMAIN new_MBs /\ ContinueMB(mb, p, RepeatLast(mb, temp_reuse))
    BY <1>1, <2>1, <2>2, <2>3, ListedGenerated
  <2>5. RepeatLast(mb, temp_reuse) => \E r : RepeatLast(mb, r)
    OBVIOUS
  <2> QED  BY <1>1, <2>4, <2>5, ContinueKeepsFit
<1>4. CASE ForceOnList
  <2>1. PICK p \in OnListCandidates : get_next_delta(last_macroblock_list[p + 1], p)
    BY <1>4 DEF ForceOnList
  <2> QED  BY <1>1, <2>1, ListedGenerated, NextDeltaKeepsFit DEF OnListCandidates
<1> QED  BY <1>2, <1>3, <1>4

\* The first address that is generated of a macroblock is its own first address.
LEMMA FirstIsFirst ==
  ASSUME IInv, CountInv, FundInv, FitInv, pc = "next", gen_elems < GEN_LEN, gen_elems <= MAX_INIT_ELEMS,
         MB(Head(init_addrs)) \notin DOMAIN new_MBs
  PROVE  Head(init_addrs) = per_MB_historytable[MB(Head(init_addrs))].first_addr
<1>0. PICK next : next = Base + gen_elems + 1
  OBVIOUS
<1>1. Head(init_addrs) = trace[next] /\ MB(trace[next]) \in Blocks
  BY <1>0, FirstAddressIsLeft
<1>2. PICK mb : mb = MB(trace[next])
  OBVIOUS
<1>3. /\ Base \in Int /\ gen_elems \in Nat /\ next \in Phase /\ Phase = Base + 1 .. num_elems
      /\ pc \in Drawing /\ num_elems \in Nat
  <2>1. pc \in Drawing
    BY DEF Drawing
  <2>2. Base \in Int /\ PHASE_LEN \in Nat /\ Base + PHASE_LEN = num_elems /\ Phase = Base + 1 .. num_elems
    BY <2>1, PhaseIsComplete
  <2>3. gen_elems \in Nat /\ num_elems \in Nat /\ gen_elems + 4 < PHASE_LEN
    BY Numbers
  <2> QED  BY <1>0, <2>1, <2>2, <2>3
<1>4. EarlyTouches(mb, gen_elems) = {}
  <2>1. Generated(mb) = 0 /\ Generated(mb) = Cardinality(EarlyTouches(mb, gen_elems))
    BY <1>1, <1>2 DEF Generated, FundInv, PrefixInv
  <2>2. IsFiniteSet(EarlyTouches(mb, gen_elems))
    <3>1. Base + 1 \in Int /\ Base + gen_elems \in Int
      BY <1>3
    <3>2. IsFiniteSet(Base + 1 .. Base + gen_elems)
      BY <3>1, FS_Interval
    <3> QED  BY <3>2, FS_Subset DEF EarlyTouches
  <2> QED  BY <2>1, <2>2, FS_EmptySet
<1>5. \A j \in Phase : j < next => MB(trace[j]) # mb
  <2>1. \A j \in Phase : j < next => j \in Base + 1 .. Base + gen_elems
    BY <1>0, <1>3
  <2> QED  BY <1>4, <2>1 DEF EarlyTouches
<1> QED  BY <1>1, <1>2, <1>3, <1>5 DEF FitInv, FirstInv

\* A first address that is replayed goes on with the first deltas of its macroblock.
LEMMA InitAccessKeepsFit ==
  ASSUME IInv, CountInv, FundInv, FitInv, InitAccess PROVE FitInv'
<1>0. PICK addr : addr = Head(init_addrs)
  OBVIOUS
<1>1. PICK mb : mb = MB(addr)
  OBVIOUS
<1>2. PICK m : m = per_MB_historytable[mb]
  OBVIOUS
<1>3. PICK reuse : reuse = is_mb_used(last_macroblock_list, mb)
  OBVIOUS
<1>4. PICK d : d = addr - m.last_addr
  OBVIOUS
<1>5. PICK rest : rest = IF m.first_proxy_gen /\ m.first_N_deltas # << >> THEN Tail(m.first_N_deltas)
                         ELSE m.first_N_deltas
  OBVIOUS
<1>6. /\ pc = "next" /\ gen_elems < GEN_LEN /\ gen_elems <= MAX_INIT_ELEMS /\ pc \in Drawing \ {"commit"}
      /\ Generating
  BY DEF InitAccess, Drawing, Generating
<1>7. CASE \E line \in {"1272", "422", "1282"} : Abort(line)
  BY <1>7, AbortKeepsFit
<1>8. CASE ~ \E line \in {"1272", "422", "1282"} : Abort(line)
  <2>1. init_addrs # << >> /\ mb \in Blocks
    BY <1>0, <1>1, <1>6, FirstAddressIsLeft
  <2>2. /\ ~ (m.first_proxy_gen /\ m.first_N_deltas # << >> /\ d # Head(m.first_N_deltas))
        /\ per_MB_historytable' = [per_MB_historytable EXCEPT
             ![mb].first_proxy_gen = TRUE, ![mb].first_N_deltas = rest]
        /\ IF m.first_proxy_gen THEN Choose(mb, addr, reuse, d, FALSE)
           ELSE Choose(mb, addr, reuse, 0, TRUE)
        /\ UNCHANGED_but_MB
    BY <1>0, <1>1, <1>2, <1>3, <1>4, <1>5, <1>8, <2>1, Zenon DEF InitAccess
  <2>3. /\ m \in MacroBlocks /\ DOMAIN new_MBs \subseteq Blocks
        /\ addr \in Int /\ m.last_addr \in Int /\ m.first_N_deltas \in Seq(Int)
    <3>1. init_addrs \in Seq(Int)
      BY DEF IInv, RecordInv
    <3>2. m \in MacroBlocks /\ DOMAIN new_MBs \subseteq Blocks
      BY <1>2, <2>1, BlockRecord DEF IInv, RecordInv
    <3> QED  BY <1>0, <2>1, <3>1, <3>2 DEF MacroBlocks
  <2>4. /\ mb \in DOMAIN new_MBs => m.first_proxy_gen
        /\ mb \notin DOMAIN new_MBs => Untouched(m)
    BY <1>2, <1>6, <2>1 DEF IInv, TouchInv, Visited
  <2>5. PICK m2 : m2 = [m EXCEPT !.first_proxy_gen = TRUE, !.first_N_deltas = rest]
    OBVIOUS
  <2>6. per_MB_historytable'[mb] = m2
    BY <1>2, <2>1, <2>2, <2>3, <2>5 DEF Blocks, MacroBlocks
  <2>7. /\ m2.first_addr = m.first_addr /\ m2.saved_first_N_deltas = m.saved_first_N_deltas
        /\ m2.first_N_deltas = rest
    BY <2>3, <2>5 DEF MacroBlocks
  <2>8. /\ Blocks' = Blocks
        /\ \A b \in Blocks : per_MB_historytable'[b] = IF b = mb THEN m2 ELSE per_MB_historytable[b]
    BY <2>2, <2>6 DEF Blocks
  <2>9. UNCHANGED <<trace, num_elems, new_MBs>> /\ assert_failed' = assert_failed
    BY <2>2 DEF UNCHANGED_but_MB, input
  <2>10. pc' = "commit" /\ this'.mb = mb /\ this'.addr = addr
    <3>1. ASSUME NEW delta, NEW first, Choose(mb, addr, reuse, delta, first)
          PROVE  pc' = "commit" /\ this'.mb = mb /\ this'.addr = addr
      BY <3>1 DEF Choose
    <3> QED  BY <2>2, <3>1
  <2>11. Few => Fits(addr, rest, mb)
    <3> SUFFICES ASSUME Few PROVE Fits(addr, rest, mb)
      OBVIOUS
    <3>1. CASE mb \notin DOMAIN new_MBs
      <4>1. rest = m.saved_first_N_deltas
        BY <1>5, <2>4, <3>1 DEF Untouched
      <4>2. addr = m.first_addr
        BY <1>0, <1>1, <1>2, <1>6, <3>1, FirstIsFirst
      <4>3. FirstFits(m, mb)
        BY <1>2, <2>1 DEF FitInv, FirstInv
      <4> QED  BY <4>1, <4>2, <4>3 DEF FirstFits
    <3>2. CASE mb \in DOMAIN new_MBs
      <4>1. RestFits(m, mb)
        BY <1>2, <1>6, <3>2 DEF FitInv, ReplayInv
      <4>2. CASE m.first_N_deltas # << >>
        <5>1. d = Head(m.first_N_deltas) /\ rest = Tail(m.first_N_deltas)
          BY <1>5, <2>2, <2>4, <3>2, <4>2
        <5>2. m.last_addr + d = addr
          BY <1>4, <2>3
        <5> QED  BY <2>3, <4>1, <4>2, <5>1, <5>2, FirstDeltaFits DEF RestFits
      <4>3. CASE m.first_N_deltas = << >>
        <5>1. rest = << >>
          BY <1>5, <4>3
        <5> QED  BY <1>1, <2>3, <5>1, NoDeltasFit
      <4> QED  BY <4>2, <4>3
    <3> QED  BY <3>1, <3>2
  <2> QED
    BY <1>2, <1>6, <2>1, <2>3, <2>7, <2>8, <2>9, <2>10, <2>11, TryKeepsFit DEF Drawing
<1> QED  BY <1>7, <1>8

\* Every step that selects an access keeps the invariant.
LEMMA SelectKeepsFit ==
  ASSUME IInv, HistoryInv, CountInv, FundInv, FewInv, FitInv, Select PROVE FitInv'
<1>1. CASE InitAccess
  BY <1>1, InitAccessKeepsFit
<1>2. CASE PickReuse
  <2>1. pc \in Drawing \ {"commit"} /\ pc' \in Drawing \ {"commit"}
    BY <1>2 DEF PickReuse, Drawing
  <2> QED  BY <1>2, <2>1, MoveOnKeepsFit DEF PickReuse, profile, input
<1>3. CASE PickFresh \/ FallbackFresh
  <2>1. Looking
    BY <1>3 DEF PickFresh, FallbackFresh, Looking
  <2>2. PICK mb \in PickableMBs : Fresh(mb) /\ TakeNewMB(mb)
    BY <1>3 DEF PickFresh, FallbackFresh
  <2> QED  BY <2>1, <2>2, PickableRecorded, TakeNewKeepsFit DEF Fresh
<1>4. CASE PickEvicted
  <2>1. Looking /\ pc \in Drawing \ {"commit"}
    BY <1>4 DEF PickEvicted, Looking, Drawing
  <2>2. PICK mb \in DOMAIN new_MBs : ContinueMB(mb, MAX_MB_REUSE, GoTo(pc))
    BY <1>4 DEF PickEvicted
  <2>3. GoTo(pc) => pc' \in Drawing \ {"commit"}
    BY <2>1 DEF GoTo
  <2> QED  BY <2>1, <2>2, <2>3, ContinueKeepsFit
<1>5. CASE GiveUp \/ FallbackMiss
  <2>1. pc \in Drawing \ {"commit"} /\ pc' \in Drawing \ {"commit"}
    BY <1>5 DEF GiveUp, FallbackMiss, GoTo, Drawing
  <2> QED  BY <1>5, <2>1, MoveOnKeepsFit DEF GiveUp, FallbackMiss, UNCHANGED_but_MB, input
<1>6. CASE PickLower \/ FallbackHigher \/ ForceOnList
  BY <1>6, ListedKeepsFit
<1>7. CASE ForceMaxReuse
  BY <1>7, ForceMaxReuseKeepsFit
<1>8. CASE ForceVisited
  BY <1>8, ForceVisitedKeepsFit
<1> QED  BY <1>1, <1>2, <1>3, <1>4, <1>5, <1>6, <1>7, <1>8 DEF Select

--------------------------------------------------------------------------------
(* Outputting, reading, preparing and clearing *)

\* The access that is output is where its macroblock goes on from.
LEMMA CommitKeepsFit == ASSUME IInv, FitInv, Commit PROVE FitInv'
<1>0. PICK mb : mb = this.mb
  OBVIOUS
<1>1. PICK old : old = per_MB_historytable[mb]
  OBVIOUS
<1>2. PICK m : m = proxy_access(old, this.delta, this.first, this.addr)
  OBVIOUS
<1>3. PICK m2 : m2 = IF mb \in DOMAIN new_MBs /\ m.last_N_deltas # << >> THEN reinit_MB_delta(m, mb) ELSE m
  OBVIOUS
<1>4. /\ pc = "commit" /\ pc \in Drawing
      /\ mb \in Blocks /\ this.delta \in Int /\ this.addr \in Int /\ this.first \in BOOLEAN
      /\ old \in MacroBlocks /\ BlockOK(old)
  BY <1>0, <1>1, BlockRecord DEF Commit, Drawing, IInv, ChosenInv, RecordInv
<1>5. CASE \E line : line # "935" /\ Abort(line)
  BY <1>5, AbortKeepsFit
<1>6. CASE ~ \E line : line # "935" /\ Abort(line)
  <2>1. \A b, n : ReinitAssert(n, b) # "935"
    BY DEF ReinitAssert
  <2>2. /\ Left(mb) # 0
        /\ per_MB_historytable' = [per_MB_historytable EXCEPT ![mb] = m2]
        /\ DOMAIN new_MBs' = DOMAIN new_MBs \cup {mb}
        /\ pc' = "next" /\ UNCHANGED <<input, assert_failed>>
    BY <1>0, <1>1, <1>2, <1>3, <1>6, <2>1 DEF Commit
  <2>3. Left(mb) = old.num_accesses
    BY <1>1 DEF Left
  <2>4. m \in MacroBlocks
    BY <1>2, <1>4, <2>2, <2>3, OutputBlock DEF BlockOK
  <2>5. /\ m.first_addr = old.first_addr /\ m.saved_first_N_deltas = old.saved_first_N_deltas
        /\ m.first_N_deltas = old.first_N_deltas /\ m.last_addr = this.addr
    BY <1>2, <1>4, OutputFields
  <2>6. FirstFits(old, mb) /\ (Few => Fits(this.addr, old.first_N_deltas, mb))
    BY <1>0, <1>1, <1>4 DEF FitInv, FirstInv, ReplayInv
  <2>7. /\ m2.first_addr = old.first_addr /\ m2.saved_first_N_deltas = old.saved_first_N_deltas
        /\ Few => RestFits(m2, mb)
    <3>1. PICK new : new = reinit_MB_delta(m, mb)
      OBVIOUS
    <3>2. /\ new.first_addr = m.first_addr /\ new.saved_first_N_deltas = m.saved_first_N_deltas
          /\ \/ new.last_addr = m.first_addr /\ new.first_N_deltas = m.saved_first_N_deltas
             \/ new.last_addr = m.last_addr /\ new.first_N_deltas = m.first_N_deltas
      BY <2>4, <3>1, ReinitFits
    <3>3. m2 = new \/ m2 = m
      BY <1>3, <3>1
    <3> QED  BY <2>5, <2>6, <3>2, <3>3 DEF RestFits, FirstFits
  <2>8. /\ Blocks' = Blocks
        /\ \A b \in Blocks : per_MB_historytable'[b] = IF b = mb THEN m2 ELSE per_MB_historytable[b]
    BY <2>2 DEF Blocks
  <2>9. (Few' <=> Few) /\ ~ Recording' /\ Phase' = Phase /\ trace' = trace
    BY <1>4, <2>2, <2>8 DEF Few, Recording, Phase, input
  <2>10. FirstInv'
    <3>1. \A b \in Blocks : FirstFits(per_MB_historytable'[b], b)
      BY <1>1, <2>7, <2>8 DEF FitInv, FirstInv, FirstFits
    <3>2. \A b \in Blocks, i \in Phase :
            MB(trace[i]) = b /\ (\A j \in Phase : j < i => MB(trace[j]) # b) =>
              trace[i] = per_MB_historytable'[b].first_addr
      BY <1>1, <1>4, <2>7, <2>8 DEF FitInv, FirstInv
    <3> QED  BY <2>8, <2>9, <3>1, <3>2 DEF FirstInv
  <2>11. ReplayInv'
    <3>1. assert_failed' # "935"
      BY <1>4, <2>2 DEF FitInv, ReplayInv
    <3>2. ASSUME Few, NEW b \in DOMAIN new_MBs' PROVE RestFits(per_MB_historytable'[b], b)
      <4>1. CASE b = mb
        BY <1>4, <2>7, <2>8, <3>2, <4>1
      <4>2. CASE b # mb
        <5>1. b \in DOMAIN new_MBs /\ b \in Blocks
          BY <2>2, <3>2, <4>2 DEF IInv, RecordInv
        <5>2. RestFits(per_MB_historytable[b], b)
          BY <1>0, <1>4, <3>2, <4>2, <5>1 DEF FitInv, ReplayInv
        <5> QED  BY <2>8, <4>2, <5>1, <5>2
      <4> QED  BY <4>1, <4>2
    <3> QED  BY <2>2, <2>9, <3>1, <3>2 DEF ReplayInv
  <2> QED  BY <2>10, <2>11 DEF FitInv
<1> QED  BY <1>5, <1>6

\* An access that is recorded adds the delta that leads to it.
LEMMA AccessFits ==
  ASSUME NEW m \in MacroBlocks, Untouched(m), NEW mb, NEW addr \in Int, MB(addr) = mb,
         FirstFits(m, mb), Len(m.saved_first_N_deltas) <= MAX_DELTA,
         Len(m.saved_first_N_deltas) < MAX_DELTA =>
           FitsTo(m.first_addr, m.saved_first_N_deltas, mb, m.last_addr)
  PROVE  LET new == access_mb(m, addr)
         IN  /\ new.first_addr = m.first_addr
             /\ FirstFits(new, mb)
             /\ Len(new.saved_first_N_deltas) < MAX_DELTA =>
                  FitsTo(new.first_addr, new.saved_first_N_deltas, mb, new.last_addr)
<1>1. PICK d : d = addr - m.last_addr
  OBVIOUS
<1>2. PICK saved : saved = m.saved_first_N_deltas
  OBVIOUS
<1>3. PICK new : new = access_mb(m, addr)
  OBVIOUS
<1>4. /\ saved \in Seq(Int) /\ m.last_addr \in Int /\ d \in Int /\ m.last_addr + d = addr
      /\ m.first_N_deltas = saved /\ m.first_addr \in Int /\ Len(saved) \in Nat /\ MAX_DELTA \in Nat
  BY <1>1, <1>2, DeltaAssumption DEF MacroBlocks, Untouched
<1>5. /\ new.first_addr = m.first_addr /\ new.last_addr = addr
      /\ new.saved_first_N_deltas = IF Len(saved) < MAX_DELTA THEN Append(saved, d) ELSE saved
  <2>1. PICK first : first = KeepFirst(m, m.first_N_deltas, d)
    OBVIOUS
  <2>2. PICK kept : kept = KeepFirst(m, saved, d)
    OBVIOUS
  <2>3. PICK hist : hist = PushDelta(m.last_N_deltas, d)
    OBVIOUS
  <2>4. new = [m EXCEPT !.first_N_deltas = first, !.saved_first_N_deltas = kept,
                        !.last_N_deltas = hist, !.last_addr = addr, !.num_accesses = m.num_accesses + 1]
    BY <1>1, <1>2, <1>3, <2>1, <2>2, <2>3 DEF access_mb
  <2>5. new.first_addr = m.first_addr /\ new.last_addr = addr /\ new.saved_first_N_deltas = kept
    BY <2>4 DEF MacroBlocks
  <2> QED  BY <1>4, <2>2, <2>5 DEF KeepFirst
<1>6. CASE Len(saved) < MAX_DELTA
  <2>1. FitsTo(m.first_addr, Append(saved, d), mb, addr)
    <3>1. FitsTo(m.first_addr, saved, mb, m.last_addr)
      BY <1>2, <1>6
    <3>2. MB(m.last_addr + d) = mb
      BY <1>4
    <3>3. FitsTo(m.first_addr, Append(saved, d), mb, m.last_addr + d)
      BY <1>4, <3>1, <3>2, OneMoreFits
    <3> QED  BY <1>4, <3>3
  <2> QED  BY <1>3, <1>5, <1>6, <2>1 DEF FirstFits, Fits
<1>7. CASE ~ (Len(saved) < MAX_DELTA)
  BY <1>2, <1>3, <1>5, <1>7 DEF FirstFits
<1> QED  BY <1>6, <1>7

\* Reading an element records a delta that stays in its macroblock.
LEMMA ReadKeepsFit == ASSUME IInv, CountInv, FitInv, ReadElement PROVE FitInv'
<1>0. PICK next : next = num_elems + 1
  OBVIOUS
<1>1. PICK addr : addr = trace[next]
  OBVIOUS
<1>2. PICK mb : mb = MB(addr)
  OBVIOUS
<1>3. /\ pc = "profile" /\ pc' \in {"profile", "prepare"} /\ UNCHANGED <<trace, new_MBs, assert_failed>>
      /\ mem_access(addr) /\ Recording /\ Recording' /\ pc' \notin Drawing
  BY <1>0, <1>1 DEF ReadElement, generator, Recording, Drawing
<1>4. addr \in Int /\ num_elems \in Nat
  <2>1. trace \in Seq(Nat) /\ num_elems \in 0 .. Len(trace) /\ num_elems < Len(trace)
    BY HaloAssumption DEF IInv, ControlInv, ReadElement
  <2> QED  BY <1>0, <1>1, <2>1
<1>5. PICK m : m = per_MB_historytable[mb]
  OBVIOUS
<1>6. PICK new : new = IF mb \in Blocks THEN access_mb(m, addr) ELSE MACRO_BLOCK_LOC(addr)
  OBVIOUS
<1>7. /\ Blocks' = Blocks \cup {mb}
      /\ \A b \in Blocks' : per_MB_historytable'[b] = IF b = mb THEN new ELSE per_MB_historytable[b]
  <2>1. CASE mb \in Blocks
    BY <1>2, <1>3, <1>5, <1>6, <2>1 DEF mem_access, Blocks
  <2>2. CASE mb \notin Blocks
    BY <1>2, <1>3, <1>5, <1>6, <2>2 DEF mem_access, Blocks
  <2> QED  BY <2>1, <2>2
<1>8. /\ FirstFits(new, mb)
      /\ Len(new.saved_first_N_deltas) < MAX_DELTA =>
           FitsTo(new.first_addr, new.saved_first_N_deltas, mb, new.last_addr)
      /\ new.first_addr = IF mb \in Blocks THEN m.first_addr ELSE addr
  <2>1. CASE mb \in Blocks
    <3>1. m \in MacroBlocks /\ Untouched(m) /\ Len(m.saved_first_N_deltas) <= MAX_DELTA
      BY <1>3, <1>5, <2>1, BlockRecord DEF IInv, RecordInv, BlockOK, TouchInv, Visited
    <3>2. /\ FirstFits(m, mb)
          /\ Len(m.saved_first_N_deltas) < MAX_DELTA =>
               FitsTo(m.first_addr, m.saved_first_N_deltas, mb, m.last_addr)
      BY <1>3, <1>5, <2>1 DEF FitInv, FirstInv
    <3> QED  BY <1>2, <1>4, <1>6, <2>1, <3>1, <3>2, AccessFits
  <2>2. CASE mb \notin Blocks
    <3>1. new = MACRO_BLOCK_LOC(addr)
      BY <1>6, <2>2
    <3>2. new.first_addr = addr /\ new.last_addr = addr /\ new.saved_first_N_deltas = << >>
      BY <3>1 DEF MACRO_BLOCK_LOC
    <3> QED  BY <1>2, <1>4, <2>2, <3>2, NoDeltasFit DEF FirstFits
  <2> QED  BY <2>1, <2>2
<1>9. PICK P : P = Phase
  OBVIOUS
<1>10. Phase' = P \cup {next} /\ next \notin P /\ Blocks = {MB(trace[i]) : i \in P} /\ \A j \in P : j < next
  <2>1. Blocks = {MB(trace[i]) : i \in Phase}
    BY <1>3 DEF CountInv, BudgetConserved, Blocks
  <2>2. \A j \in Phase : j <= num_elems /\ j \in Int
    <3>1. num_elems - PHASE_LEN \in Int /\ num_elems - (num_elems % PHASE_LEN) \in Int
      BY Numbers
    <3> QED  BY <1>4, <3>1 DEF Phase
  <2> QED  BY <1>0, <1>4, <1>9, <2>1, <2>2, ReadExtendsPhase
<1>11. FirstInv'
  <2>1. \A b \in Blocks' : FirstFits(per_MB_historytable'[b], b)
    BY <1>7, <1>8 DEF FitInv, FirstInv
  <2>2. ASSUME NEW b \in Blocks', Len(per_MB_historytable'[b].saved_first_N_deltas) < MAX_DELTA
        PROVE  FitsTo(per_MB_historytable'[b].first_addr, per_MB_historytable'[b].saved_first_N_deltas, b,
                      per_MB_historytable'[b].last_addr)
    BY <1>3, <1>7, <1>8, <2>2 DEF FitInv, FirstInv
  <2>3. ASSUME NEW b \in Blocks', NEW i \in P \cup {next}, MB(trace[i]) = b,
               \A j \in P \cup {next} : j < i => MB(trace[j]) # b
        PROVE  trace[i] = per_MB_historytable'[b].first_addr
    <3>1. CASE b \in Blocks
      <4>1. i \in P
        <5> SUFFICES ASSUME i = next PROVE FALSE
          BY <2>3
        <5>1. PICK j \in P : MB(trace[j]) = b
          BY <1>10, <3>1
        <5> QED  BY <1>10, <2>3, <5>1
      <4>2. trace[i] = per_MB_historytable[b].first_addr
        BY <1>3, <1>9, <2>3, <3>1, <4>1 DEF FitInv, FirstInv
      <4> QED  BY <1>5, <1>7, <1>8, <2>3, <3>1, <4>2
    <3>2. CASE b \notin Blocks
      <4>1. b = mb /\ i = next
        BY <1>7, <1>10, <2>3, <3>2
      <4> QED  BY <1>1, <1>7, <1>8, <2>3, <3>2, <4>1
    <3> QED  BY <3>1, <3>2
  <2> QED  BY <1>3, <1>10, <2>1, <2>2, <2>3 DEF FirstInv
<1>12. ReplayInv'
  BY <1>3 DEF FitInv, ReplayInv
<1> QED  BY <1>11, <1>12 DEF FitInv

\* Preparing leaves what was recorded.
LEMMA PrepareKeepsFit == ASSUME IInv, FitInv, Prepare PROVE FitInv'
<1>1. /\ pc = "prepare" /\ pc' = "next" /\ UNCHANGED <<input, new_MBs, assert_failed>>
      /\ DOMAIN new_MBs = {}
      /\ Blocks' = Blocks
      /\ \A b \in Blocks : per_MB_historytable'[b] = reset(per_MB_historytable[b])
  BY DEF Prepare, generator, Blocks, IInv, TouchInv
<1>2. \A b \in Blocks : /\ per_MB_historytable'[b].first_addr = per_MB_historytable[b].first_addr
                        /\ per_MB_historytable'[b].saved_first_N_deltas =
                             per_MB_historytable[b].saved_first_N_deltas
  BY <1>1, BlockRecord DEF reset, MacroBlocks
<1>3. Phase' = Phase /\ trace' = trace /\ Recording /\ ~ Recording'
  BY <1>1 DEF Phase, input, Recording
<1>4. FirstInv'
  BY <1>1, <1>2, <1>3 DEF FitInv, FirstInv, FirstFits
<1>5. ReplayInv'
  BY <1>1 DEF FitInv, ReplayInv
<1> QED  BY <1>4, <1>5 DEF FitInv

\* Every step keeps the invariant.
LEMMA NextKeepsFit ==
  IInv /\ CountInv /\ HistoryInv /\ FundInv /\ FewInv /\ FitInv /\ [Next]_vars => FitInv'
<1> SUFFICES ASSUME IInv, CountInv, HistoryInv, FundInv, FewInv, FitInv, [Next]_vars PROVE FitInv'
  OBVIOUS
<1>1. CASE EndOfTrace
  <2>1. pc = "profile" /\ pc' = "done" /\ UNCHANGED <<per_MB_historytable, assert_failed>>
    BY <1>1 DEF EndOfTrace, profile
  <2> QED  BY <2>1 DEF FitInv, FirstInv, ReplayInv, Recording, Drawing, Blocks
<1>2. CASE PhaseClear
  <2>1. pc = "next" /\ pc' = "profile" /\ UNCHANGED assert_failed /\ Blocks' = {}
    BY <1>2 DEF PhaseClear, Blocks, NoEntries
  <2> QED  BY <2>1 DEF FitInv, FirstInv, ReplayInv, Drawing
<1>3. CASE UNCHANGED vars
  <2>1. /\ UNCHANGED <<trace, num_elems, per_MB_historytable, new_MBs, pc, assert_failed, this>>
    BY <1>3 DEF vars, input, profile, generator
  <2>2. Phase' = Phase /\ Blocks' = Blocks
    BY <2>1 DEF Phase, Blocks
  <2> QED  BY <2>1, <2>2 DEF FitInv, FirstInv, ReplayInv, Few, Recording
<1> QED
  BY <1>1, <1>2, <1>3, ReadKeepsFit, PrepareKeepsFit, SelectKeepsFit, CommitKeepsFit
  DEF Next, Step, Terminated, Select

\* Before anything is read there is no macroblock.
LEMMA InitFit == Init => FitInv
BY DEF Init, NoEntries, FitInv, FirstInv, ReplayInv, Blocks, Drawing

\* The first deltas of the macroblocks, as far as they are left, stay within them.
THEOREM DeltasStayFit == Spec => []FitInv
<1>1. Spec => []CountInv
  BY Invariance, InitConserves, NextConserves, PTL DEF Spec
<1> QED
  BY <1>1, Invariance, HistoryIsKept, FundsAreKept, FewStayListed, InitFit, NextKeepsFit, PTL DEF Spec

\* The assertion of get_next_delta at 935 fails only in a phase with more macroblocks than the
\* list holds (where the run halo_replay_abort finds it failing).
THEOREM ReplayStays ==
  Spec => [](Cardinality(DOMAIN per_MB_historytable) <= MAX_MB_REUSE => ReplayStaysInBlock)
<1>1. FitInv => (Cardinality(DOMAIN per_MB_historytable) <= MAX_MB_REUSE => ReplayStaysInBlock)
  BY DEF FitInv, ReplayInv, Few, Blocks, ReplayStaysInBlock
<1> QED  BY <1>1, DeltasStayFit, PTL

--------------------------------------------------------------------------------
(* Cascading the tables loses no prediction *)

\* The deltas that have followed a recorded history.
Followers(tables, k) == DOMAIN tables[k].next_deltas

\* Every suffix of a recorded history is recorded, with the followers of the history and maybe others.
Closed(tables) ==
  \A k \in DOMAIN tables :
    /\ Followers(tables, k) # {}
    /\ \A n \in 1 .. Len(k) :
         /\ Suffix(k, n) \in DOMAIN tables
         /\ Followers(tables, k) \subseteq Followers(tables, Suffix(k, n))

\* The longest suffix kept of a history: it has all its followers, and one only if a suffix has one only.
Predicts(tables, k, s) ==
  /\ tables[s].valid
  /\ \A n \in 1 .. Len(k) : tables[Suffix(k, n)].valid => n <= Len(s)
  /\ Followers(tables, k) \subseteq Followers(tables, s)
  /\ (\E n \in 1 .. Len(k) : access_full_perc(tables[Suffix(k, n)])) => access_full_perc(tables[s])

\* Of a history of more than one delta such a suffix is kept, and its own suffixes are all recorded.
Cascaded(tables) ==
  \A k \in DOMAIN tables :
    /\ \A n \in 1 .. Len(k) : Suffix(k, n) \in DOMAIN tables
    /\ Len(k) > 1 => \E n \in 1 .. Len(k) : Predicts(tables, k, Suffix(k, n))

CascadeInv ==
  /\ Recording => Closed(global_delta_tables)
  /\ pc \in Drawing => Cascaded(global_delta_tables)

\* The elements of a suffix.
LEMMA SuffixElements ==
  ASSUME NEW S, NEW hist \in Seq(S), NEW l \in 1 .. Len(hist)
  PROVE  /\ Suffix(hist, l) \in Seq(S) /\ Len(Suffix(hist, l)) = l
         /\ \A q \in 1 .. l : Suffix(hist, l)[q] = hist[Len(hist) - l + q]
<1>1. PICK n : n = Len(hist)
  OBVIOUS
<1>2. n \in Nat /\ l \in 1 .. n
  BY <1>1
<1>3. \A q \in n - l + 1 .. n : hist[q] \in S
  BY <1>1, <1>2
<1>4. n - l + 1 \in Int /\ n - l + 1 <= n /\ n - (n - l + 1) + 1 = l
  BY <1>2
<1>5. /\ SubSeq(hist, n - l + 1, n) \in Seq(S)
      /\ Len(SubSeq(hist, n - l + 1, n)) = IF n - l + 1 <= n THEN n - (n - l + 1) + 1 ELSE 0
      /\ \A q \in 1 .. n - (n - l + 1) + 1 : SubSeq(hist, n - l + 1, n)[q] = hist[(n - l + 1) + q - 1]
  BY <1>2, <1>3, <1>4, SubSeqProperties
<1>6. \A q \in 1 .. l : (n - l + 1) + q - 1 = n - l + q
  BY <1>2
<1>7. \A q \in 1 .. l : SubSeq(hist, n - l + 1, n)[q] = hist[n - l + q]
  BY <1>4, <1>5, <1>6
<1> QED  BY <1>1, <1>4, <1>5, <1>7 DEF Suffix

\* A suffix of a suffix is a suffix.
LEMMA SuffixOfSuffix ==
  ASSUME NEW hist \in Seq(Int), NEW i \in 1 .. Len(hist), NEW j \in 1 .. i
  PROVE  Suffix(Suffix(hist, i), j) = Suffix(hist, j)
<1>1. PICK n : n = Len(hist)
  OBVIOUS
<1>2. n \in Nat /\ i \in 1 .. n /\ j \in 1 .. n
  BY <1>1
<1>3. PICK s : s = Suffix(hist, i)
  OBVIOUS
<1>4. s \in Seq(Int) /\ Len(s) = i /\ \A q \in 1 .. i : s[q] = hist[n - i + q]
  BY <1>1, <1>3, SuffixElements
<1>5. /\ Suffix(s, j) \in Seq(Int) /\ Len(Suffix(s, j)) = j
      /\ \A q \in 1 .. j : Suffix(s, j)[q] = s[i - j + q]
  <2>1. s \in Seq(Int) /\ j \in 1 .. Len(s) /\ Len(s) = i
    BY <1>4
  <2>2. /\ Suffix(s, j) \in Seq(Int) /\ Len(Suffix(s, j)) = j
        /\ \A q \in 1 .. j : Suffix(s, j)[q] = s[Len(s) - j + q]
    BY <2>1, SuffixElements
  <2> QED  BY <2>1, <2>2
<1>6. /\ Suffix(hist, j) \in Seq(Int) /\ Len(Suffix(hist, j)) = j
      /\ \A q \in 1 .. j : Suffix(hist, j)[q] = hist[n - j + q]
  BY <1>1, <1>2, SuffixElements
<1>7. \A q \in 1 .. j : Suffix(s, j)[q] = Suffix(hist, j)[q]
  <2> SUFFICES ASSUME NEW q \in 1 .. j PROVE Suffix(s, j)[q] = Suffix(hist, j)[q]
    OBVIOUS
  <2>1. i - j + q \in 1 .. i /\ n - i + (i - j + q) = n - j + q
    BY <1>2
  <2>2. s[i - j + q] = hist[n - j + q]
    BY <1>4, <2>1
  <2> QED  BY <1>5, <1>6, <2>2
<1> QED  BY <1>3, <1>5, <1>6, <1>7, SeqEqual

\* Tables new have follower nd more than tables at the histories of keys.
FollowersAdded(new, tables, keys, nd) ==
  /\ DOMAIN new = DOMAIN tables \cup keys
  /\ \A k \in DOMAIN new :
       Followers(new, k) = (IF k \in DOMAIN tables THEN Followers(tables, k) ELSE {})
                           \cup (IF k \in keys THEN {nd} ELSE {})

\* Counting a follower adds it to the suffixes of the history, and records them.
LEMMA UpdatedFollowers ==
  ASSUME NEW tables, NEW hist, NEW nd, \A k \in DOMAIN tables : EntryOK(tables[k])
  PROVE  FollowersAdded(update_tables(tables, hist, nd), tables, {Suffix(hist, i) : i \in 1 .. Len(hist)}, nd)
<1>1. PICK keys : keys = {Suffix(hist, i) : i \in 1 .. Len(hist)}
  OBVIOUS
<1>2. PICK new : new = update_tables(tables, hist, nd)
  OBVIOUS
<1>3. ASSUME NEW e, DOMAIN e = {"next_deltas", "valid", "most_freq_foll"}
      PROVE  DOMAIN access(e, nd).next_deltas = DOMAIN e.next_deltas \cup {nd}
  <2>1. PICK f : f = [d \in DOMAIN e.next_deltas \cup {nd} |-> Followed(e, d) + (IF d = nd THEN 1 ELSE 0)]
    OBVIOUS
  <2>2. access(e, nd) = [e EXCEPT !.next_deltas = f]
    BY <2>1 DEF access
  <2>3. access(e, nd).next_deltas = f /\ DOMAIN f = DOMAIN e.next_deltas \cup {nd}
    BY <1>3, <2>1, <2>2
  <2> QED  BY <2>3
<1>4. DOMAIN DELTA_ENTRY = {"next_deltas", "valid", "most_freq_foll"} /\ DOMAIN DELTA_ENTRY.next_deltas = {}
  BY DEF DELTA_ENTRY
<1>5. /\ DOMAIN new = DOMAIN tables \cup keys
      /\ \A k \in DOMAIN new :
           new[k] = IF k \notin keys THEN tables[k]
                    ELSE access(IF k \in DOMAIN tables THEN tables[k] ELSE DELTA_ENTRY, nd)
  BY <1>1, <1>2 DEF update_tables
<1>6. ASSUME NEW k \in DOMAIN new
      PROVE  Followers(new, k) = (IF k \in DOMAIN tables THEN Followers(tables, k) ELSE {})
                                 \cup (IF k \in keys THEN {nd} ELSE {})
  <2>1. CASE k \notin keys
    BY <1>5, <1>6, <2>1 DEF Followers
  <2>2. CASE k \in keys /\ k \in DOMAIN tables
    <3>1. new[k] = access(tables[k], nd) /\ DOMAIN tables[k] = {"next_deltas", "valid", "most_freq_foll"}
      BY <1>5, <1>6, <2>2 DEF EntryOK
    <3> QED  BY <1>3, <2>2, <3>1 DEF Followers
  <2>3. CASE k \in keys /\ k \notin DOMAIN tables
    <3>1. new[k] = access(DELTA_ENTRY, nd)
      BY <1>5, <1>6, <2>3
    <3> QED  BY <1>3, <1>4, <2>3, <3>1 DEF Followers
  <2> QED  BY <2>1, <2>2, <2>3
<1> QED  BY <1>1, <1>2, <1>5, <1>6 DEF FollowersAdded

\* So the tables stay closed.
LEMMA UpdateKeepsClosed ==
  ASSUME NEW tables, Closed(tables), NEW hist \in Seq(Int), NEW nd,
         \A k \in DOMAIN tables : k \in Seq(Int) /\ EntryOK(tables[k])
  PROVE  Closed(update_tables(tables, hist, nd))
<1>1. PICK keys : keys = {Suffix(hist, i) : i \in 1 .. Len(hist)}
  OBVIOUS
<1>2. PICK new : new = update_tables(tables, hist, nd)
  OBVIOUS
<1>3. /\ DOMAIN new = DOMAIN tables \cup keys
      /\ \A k \in DOMAIN new :
           Followers(new, k) = (IF k \in DOMAIN tables THEN Followers(tables, k) ELSE {})
                               \cup (IF k \in keys THEN {nd} ELSE {})
  <2>1. \A k \in DOMAIN tables : EntryOK(tables[k])
    OBVIOUS
  <2>2. FollowersAdded(new, tables, keys, nd)
    BY <1>1, <1>2, <2>1, UpdatedFollowers
  <2> QED  BY <2>2 DEF FollowersAdded
<1>4. ASSUME NEW k \in keys, NEW n \in 1 .. Len(k) PROVE Suffix(k, n) \in keys
  <2>1. PICK i \in 1 .. Len(hist) : k = Suffix(hist, i)
    BY <1>1
  <2>2. Len(k) = i
    BY <2>1, SuffixElements
  <2>3. n \in 1 .. i /\ n \in 1 .. Len(hist)
    BY <2>2
  <2>4. Suffix(k, n) = Suffix(hist, n)
    BY <2>1, <2>3, SuffixOfSuffix
  <2> QED  BY <1>1, <2>3, <2>4
<1>5. ASSUME NEW k \in DOMAIN new PROVE Followers(new, k) # {}
  <2>1. k \in DOMAIN tables => Followers(tables, k) # {}
    BY DEF Closed
  <2> QED  BY <1>3, <2>1
<1>6. ASSUME NEW k \in DOMAIN new, NEW n \in 1 .. Len(k)
      PROVE  Suffix(k, n) \in DOMAIN new /\ Followers(new, k) \subseteq Followers(new, Suffix(k, n))
  <2>1. PICK s : s = Suffix(k, n)
    OBVIOUS
  <2>2. k \in DOMAIN tables => s \in DOMAIN tables /\ Followers(tables, k) \subseteq Followers(tables, s)
    BY <2>1 DEF Closed
  <2>3. k \in keys => s \in keys
    BY <1>4, <2>1
  <2>4. s \in DOMAIN new
    BY <1>3, <2>2, <2>3
  <2>5. /\ Followers(new, k) = (IF k \in DOMAIN tables THEN Followers(tables, k) ELSE {})
                               \cup (IF k \in keys THEN {nd} ELSE {})
        /\ Followers(new, s) = (IF s \in DOMAIN tables THEN Followers(tables, s) ELSE {})
                               \cup (IF s \in keys THEN {nd} ELSE {})
    BY <1>3, <2>4
  <2> QED  BY <2>1, <2>2, <2>3, <2>4, <2>5
<1> QED  BY <1>2, <1>5, <1>6 DEF Closed

\* Cascading keeps of every history but the shortest the longest suffix that is needed.
LEMMA CascadeIsSound ==
  ASSUME NEW tables, Closed(tables), \A k \in DOMAIN tables : k \in Seq(Int) /\ EntryOK(tables[k])
  PROVE  Cascaded(manage_cascaded_tables(tables))
<1>1. PICK new : new = manage_cascaded_tables(tables)
  OBVIOUS
<1>2. /\ DOMAIN new = DOMAIN tables
      /\ \A k \in DOMAIN new : /\ new[k].valid = Keeps(tables, k)
                               /\ new[k].next_deltas = tables[k].next_deltas
  <2>1. ASSUME NEW e, EntryOK(e), NEW v, NEW d
        PROVE  /\ [e EXCEPT !.valid = v, !.most_freq_foll = d].valid = v
               /\ [e EXCEPT !.valid = v, !.most_freq_foll = d].next_deltas = e.next_deltas
    BY <2>1 DEF EntryOK
  <2>2. DOMAIN new = DOMAIN tables
    BY <1>1 DEF manage_cascaded_tables
  <2>3. ASSUME NEW k \in DOMAIN new
        PROVE  new[k].valid = Keeps(tables, k) /\ new[k].next_deltas = tables[k].next_deltas
    <3>1. PICK v : v = Keeps(tables, k)
      OBVIOUS
    <3>2. PICK d : d = MostFrequent(tables[k])
      OBVIOUS
    <3>3. new[k] = [tables[k] EXCEPT !.valid = v, !.most_freq_foll = d]
      BY <1>1, <2>2, <2>3, <3>1, <3>2 DEF manage_cascaded_tables
    <3> QED  BY <2>1, <2>2, <2>3, <3>1, <3>3
  <2> QED  BY <2>2, <2>3
<1>3. \A k \in DOMAIN new : /\ Followers(new, k) = Followers(tables, k)
                            /\ access_full_perc(new[k]) <=> access_full_perc(tables[k])
  BY <1>2 DEF Followers, access_full_perc
<1>4. ASSUME NEW k \in DOMAIN new, NEW n \in 1 .. Len(k) PROVE Suffix(k, n) \in DOMAIN new
  BY <1>2 DEF Closed
<1>5. ASSUME NEW k \in DOMAIN new, Len(k) > 1 PROVE \E n \in 1 .. Len(k) : Predicts(new, k, Suffix(k, n))
  <2>1. PICK len : len = Len(k)
    OBVIOUS
  <2>2. k \in Seq(Int) /\ len \in Nat /\ len > 1
    BY <1>2, <1>5, <2>1
  <2>3. PICK full : full = {n \in 1 .. len : access_full_perc(tables[Suffix(k, n)])}
    OBVIOUS
  <2>4. \A n \in 1 .. len : /\ Suffix(k, n) \in DOMAIN new /\ Suffix(k, n) \in Seq(Int) /\ Len(Suffix(k, n)) = n
                            /\ \A j \in 1 .. n : Suffix(Suffix(k, n), j) = Suffix(k, j)
    BY <1>4, <2>1, <2>2, SuffixElements, SuffixOfSuffix
  <2>5. ASSUME NEW n \in 1 .. len
        PROVE  new[Suffix(k, n)].valid <=> IF n = 1 THEN 1 \in full ELSE \A j \in 1 .. n - 1 : j \notin full
    <3>1. PICK s : s = Suffix(k, n)
      OBVIOUS
    <3>2. /\ s \in DOMAIN new /\ Len(s) = n /\ \A j \in 1 .. n : Suffix(s, j) = Suffix(k, j)
      BY <2>4, <3>1
    <3>3. new[s].valid = Keeps(tables, s)
      BY <1>2, <3>2
    <3>4. CASE n = 1
      <4>1. Keeps(tables, s) <=> access_full_perc(tables[s])
        BY <3>2, <3>4 DEF Keeps
      <4> QED  BY <2>2, <2>3, <3>1, <3>3, <3>4, <4>1
    <3>5. CASE n # 1
      <4>1. Keeps(tables, s) <=> ~ \E j \in 1 .. n - 1 : access_full_perc(tables[Suffix(s, j)])
        BY <3>2, <3>5 DEF Keeps
      <4>2. \A j \in 1 .. n - 1 : j \in 1 .. n /\ j \in 1 .. len
        BY <2>2
      <4>3. \A j \in 1 .. n - 1 : access_full_perc(tables[Suffix(s, j)]) <=> j \in full
        BY <2>3, <3>2, <4>2
      <4> QED  BY <3>1, <3>3, <3>5, <4>1, <4>3
    <3> QED  BY <3>4, <3>5
  <2>6. ASSUME NEW n \in 1 .. len PROVE Followers(new, k) \subseteq Followers(new, Suffix(k, n))
    <3>1. Suffix(k, n) \in DOMAIN new
      BY <2>4
    <3>2. Followers(tables, k) \subseteq Followers(tables, Suffix(k, n))
      BY <1>2, <2>1 DEF Closed
    <3> QED  BY <1>3, <3>1, <3>2
  <2>7. CASE full = {}
    <3>1. len \in 1 .. len /\ Len(Suffix(k, len)) = len
      BY <2>2, <2>4
    <3>2. new[Suffix(k, len)].valid
      BY <2>2, <2>5, <2>7, <3>1
    <3>3. \A n \in 1 .. len : ~ access_full_perc(new[Suffix(k, n)])
      BY <1>3, <2>3, <2>4, <2>7
    <3>4. \A n \in 1 .. len : n <= len
      BY <2>2
    <3>5. Predicts(new, k, Suffix(k, len))
      BY <2>1, <2>6, <3>1, <3>2, <3>3, <3>4 DEF Predicts
    <3> QED  BY <2>1, <3>1, <3>5
  <2>8. CASE full # {}
    <3>1. PICK least \in full : \A j \in full : least <= j
      <4>1. full \subseteq Nat
        BY <2>3
      <4> QED  BY <2>8, <4>1, LeastNatural
    <3>2. least \in 1 .. len /\ Len(Suffix(k, least)) = least /\ Suffix(k, least) \in DOMAIN new
      BY <2>3, <2>4
    <3>3. access_full_perc(new[Suffix(k, least)])
      BY <1>3, <2>3, <3>1, <3>2
    <3>4. new[Suffix(k, least)].valid
      <4>1. \A j \in 1 .. least - 1 : j \notin full
        BY <3>1, <3>2
      <4> QED  BY <2>5, <3>1, <3>2, <4>1
    <3>5. ASSUME NEW n \in 1 .. len, new[Suffix(k, n)].valid PROVE n <= least
      <4> SUFFICES ASSUME n > least PROVE FALSE
        BY <3>2
      <4>1. n # 1 /\ least \in 1 .. n - 1
        BY <3>2
      <4> QED  BY <2>5, <3>1, <3>5, <4>1
    <3>6. Predicts(new, k, Suffix(k, least))
      BY <2>1, <2>6, <3>2, <3>3, <3>4, <3>5 DEF Predicts
    <3> QED  BY <2>1, <3>2, <3>6
  <2> QED  BY <2>7, <2>8
<1> QED  BY <1>1, <1>4, <1>5 DEF Cascaded

--------------------------------------------------------------------------------
(* Drawing and clearing *)

\* At most a drawn delta is taken out of the tables.
Drawn ==
  \/ global_delta_tables' = global_delta_tables
  \/ \E k \in DOMAIN global_delta_tables : \E nd :
       global_delta_tables' = update_proxy(global_delta_tables, k, nd)

\* A failed assertion draws nothing.
LEMMA AbortDraws == ASSUME NEW line, Abort(line) PROVE Drawn
BY DEF Abort, Drawn, profile

\* Getting a delta draws at most that one.
LEMMA NextDeltaDraws == ASSUME IInv, NEW mb, NEW reuse, get_next_delta(mb, reuse) PROVE Drawn
<1>1. CASE ReplayDelta(mb, reuse)
  BY <1>1, AbortDraws DEF ReplayDelta, UNCHANGED_but_MB, Drawn
<1>2. CASE DrawDelta(mb, reuse)
  <2>1. PICK m : m = per_MB_historytable[mb]
    OBVIOUS
  <2>2. PICK draw \in RandomDraws(mb, m) \cup ForcedDraws(mb, m) :
          global_delta_tables' = update_proxy(global_delta_tables, Suffix(m.last_N_deltas, draw[1]), draw[2])
    BY <1>2, <2>1 DEF DrawDelta
  <2>3. Suffix(m.last_N_deltas, draw[1]) \in DOMAIN global_delta_tables
    BY DrawnDelta DEF Usable, IInv
  <2> QED  BY <2>2, <2>3 DEF Drawn
<1> QED  BY <1>1, <1>2 DEF get_next_delta

\* Continuing a macroblock draws at most one.
LEMMA ContinueDraws ==
  ASSUME IInv, NEW mb, NEW reuse, NEW ACTION Otherwise, ContinueMB(mb, reuse, Otherwise) PROVE Drawn
<1>1. CASE get_next_delta(mb, reuse)
  BY <1>1, NextDeltaDraws
<1>2. CASE \E line : Abort(line)
  BY <1>2, AbortDraws
<1>3. CASE UNCHANGED_but_MB
  BY <1>3 DEF UNCHANGED_but_MB, Drawn
<1> QED  BY <1>1, <1>2, <1>3, Zenon DEF ContinueMB

\* Selecting an access draws at most one delta.
LEMMA SelectDraws == ASSUME IInv, Select PROVE Drawn
<1>1. CASE UNCHANGED_but_MB \/ UNCHANGED global_delta_tables
  BY <1>1 DEF UNCHANGED_but_MB, Drawn
<1>2. CASE InitAccess
  BY <1>1, <1>2, AbortDraws, Zenon DEF InitAccess
<1>3. CASE PickReuse
  BY <1>1, <1>3 DEF PickReuse, profile
<1>4. CASE PickFresh \/ FallbackFresh
  BY <1>1, <1>4, AbortDraws DEF PickFresh, FallbackFresh, TakeNewMB
<1>5. CASE PickEvicted
  BY <1>5, ContinueDraws DEF PickEvicted
<1>6. CASE GiveUp \/ FallbackMiss
  BY <1>1, <1>6 DEF GiveUp, FallbackMiss
<1>7. CASE PickLower
  BY <1>1, <1>7, ContinueDraws, Zenon DEF PickLower
<1>8. CASE FallbackHigher
  BY <1>8, ContinueDraws, Zenon DEF FallbackHigher
<1>9. CASE ForceMaxReuse
  BY <1>1, <1>9, AbortDraws DEF ForceMaxReuse
<1>10. CASE ForceOnList
  BY <1>10, NextDeltaDraws DEF ForceOnList
<1>11. CASE ForceVisited
  BY <1>11, AbortDraws, ContinueDraws, Zenon DEF ForceVisited
<1> QED  BY <1>2, <1>3, <1>4, <1>5, <1>6, <1>7, <1>8, <1>9, <1>10, <1>11 DEF Select

\* Taking a drawn delta out changes no history, no set of followers and no choice of what is kept.
LEMMA DrawnKeepsCascaded ==
  ASSUME IInv, Cascaded(global_delta_tables), Drawn PROVE Cascaded(global_delta_tables')
<1>1. PICK old : old = global_delta_tables
  OBVIOUS
<1>2. PICK new : new = global_delta_tables'
  OBVIOUS
<1>3. \A k \in DOMAIN old : EntryOK(old[k])
  BY <1>1 DEF IInv, TablesInv
<1>4. /\ DOMAIN new = DOMAIN old
      /\ \A k \in DOMAIN old : new[k].valid = old[k].valid /\ Followers(new, k) = Followers(old, k)
  <2>1. CASE new = old
    BY <2>1
  <2>2. CASE \E k \in DOMAIN old : \E nd : new = update_proxy(old, k, nd)
    <3>0. PICK h \in DOMAIN old : \E nd : new = update_proxy(old, h, nd)
      BY <2>2
    <3>1. PICK nd : new = update_proxy(old, h, nd)
      BY <3>0
    <3>2. PICK e : e = old[h]
      OBVIOUS
    <3>3. PICK f : f = [e.next_deltas EXCEPT ![nd] = IF @ > 0 THEN @ - 1 ELSE @]
      OBVIOUS
    <3>4. new = [old EXCEPT ![h] = [e EXCEPT !.next_deltas = f]]
      BY <3>1, <3>2, <3>3, Zenon DEF update_proxy
    <3>5. DOMAIN f = DOMAIN e.next_deltas
      BY <3>3
    <3>6. DOMAIN e = {"next_deltas", "valid", "most_freq_foll"}
      BY <1>3, <3>2 DEF EntryOK
    <3>7. [e EXCEPT !.next_deltas = f].valid = e.valid /\ [e EXCEPT !.next_deltas = f].next_deltas = f
      BY <3>6
    <3> QED  BY <3>2, <3>4, <3>5, <3>7 DEF Followers
  <2> QED  BY <1>1, <1>2, <2>1, <2>2 DEF Drawn
<1>5. \A k \in DOMAIN old : access_full_perc(new[k]) <=> access_full_perc(old[k])
  BY <1>4 DEF Followers, access_full_perc
<1>6. Cascaded(old)
  BY <1>1
<1>7. ASSUME NEW k \in DOMAIN old, NEW n \in 1 .. Len(k), Predicts(old, k, Suffix(k, n))
      PROVE  Predicts(new, k, Suffix(k, n))
  <2>1. \A i \in 1 .. Len(k) : Suffix(k, i) \in DOMAIN old
    BY <1>6 DEF Cascaded
  <2>2. PICK s : s = Suffix(k, n)
    OBVIOUS
  <2>3. Predicts(old, k, s) /\ s \in DOMAIN old
    BY <1>7, <2>1, <2>2
  <2> QED  BY <1>4, <1>5, <2>1, <2>2, <2>3 DEF Predicts
<1> QED  BY <1>2, <1>4, <1>6, <1>7 DEF Cascaded

\* Every step keeps the tables.
LEMMA NextCascades == IInv /\ CascadeInv /\ [Next]_vars => CascadeInv'
<1> SUFFICES ASSUME IInv, CascadeInv, [Next]_vars PROVE CascadeInv'
  OBVIOUS
<1>0. \A k \in DOMAIN global_delta_tables : k \in Seq(Int) /\ EntryOK(global_delta_tables[k])
  BY DEF IInv, TablesInv
<1>1. CASE ReadElement
  <2>1. PICK addr : addr = trace[num_elems + 1]
    OBVIOUS
  <2>2. PICK mb : mb = MB(addr)
    OBVIOUS
  <2>3. PICK hist : hist = per_MB_historytable[mb].last_N_deltas
    OBVIOUS
  <2>4. /\ pc = "profile" /\ pc' \in {"profile", "prepare"}
        /\ IF mb \in Blocks
           THEN global_delta_tables' =
                  update_tables(global_delta_tables, hist, addr - per_MB_historytable[mb].last_addr)
           ELSE UNCHANGED global_delta_tables
    BY <1>1, <2>1, <2>2, <2>3 DEF ReadElement, mem_access, Blocks
  <2>5. Closed(global_delta_tables)
    BY <2>4 DEF CascadeInv, Recording
  <2>6. mb \in Blocks => hist \in Seq(Int)
    BY <2>3, BlockRecord DEF MacroBlocks
  <2>7. Closed(global_delta_tables')
    BY <1>0, <2>4, <2>5, <2>6, UpdateKeepsClosed
  <2> QED  BY <2>4, <2>7 DEF CascadeInv, Drawing
<1>2. CASE Prepare
  <2>1. pc = "prepare" /\ pc' = "next" /\ global_delta_tables' = manage_cascaded_tables(global_delta_tables)
    BY <1>2 DEF Prepare
  <2>2. Closed(global_delta_tables)
    BY <2>1 DEF CascadeInv, Recording
  <2>3. Cascaded(global_delta_tables')
    BY <1>0, <2>1, <2>2, CascadeIsSound
  <2> QED  BY <2>1, <2>3 DEF CascadeInv, Recording
<1>3. ASSUME pc \in Drawing, Drawn, ~ Recording' PROVE CascadeInv'
  BY <1>3, DrawnKeepsCascaded DEF CascadeInv
<1>4. CASE Select
  <2>1. pc \in Drawing /\ pc' \in Drawing \cup {"abort"}
    BY <1>4, SelectIsQuiet DEF Quiet
  <2> QED  BY <1>3, <1>4, <2>1, SelectDraws DEF Recording, Drawing
<1>5. CASE Commit
  <2>1. pc = "commit" /\ pc' \in {"next", "abort"} /\ UNCHANGED global_delta_tables
    BY <1>5 DEF Commit, Abort, profile
  <2> QED  BY <1>3, <2>1 DEF Recording, Drawing, Drawn
<1>6. CASE PhaseClear
  <2>1. pc' = "profile" /\ DOMAIN global_delta_tables' = {}
    BY <1>6 DEF PhaseClear, NoEntries
  <2> QED  BY <2>1 DEF CascadeInv, Closed, Drawing
<1>7. CASE EndOfTrace
  BY <1>7 DEF EndOfTrace, CascadeInv, Recording, Drawing
<1>8. CASE UNCHANGED vars
  BY <1>8 DEF CascadeInv, Recording, vars, profile
<1> QED  BY <1>1, <1>2, <1>4, <1>5, <1>6, <1>7, <1>8 DEF Next, Step, Terminated, Select

\* Before anything is read the tables are empty.
LEMMA InitCascades == Init => CascadeInv
BY DEF Init, NoEntries, CascadeInv, Closed, Recording, Drawing

\* Cascading loses no prediction: of every recorded history of more than one delta the longest
\* suffix that manage_cascaded_tables keeps has all its followers, and predicts the next delta if
\* any suffix does.
THEOREM PredictionsAreKept == Spec => []CascadeKeepsPredictions
<1>1. Spec => [](IInv /\ CascadeInv)
  BY Invariance, InitCascades, NextCascades, PTL DEF Spec
<1>2. IInv /\ CascadeInv => CascadeKeepsPredictions
  <2> SUFFICES ASSUME IInv, CascadeInv, pc = "next", gen_elems = 0,
                      NEW k \in DOMAIN global_delta_tables, Len(k) > 1
               PROVE  LET suffixes == {Suffix(k, n) : n \in 1 .. Len(k)}
                      IN  \E s \in suffixes :
                            /\ global_delta_tables[s].valid
                            /\ \A o \in suffixes : global_delta_tables[o].valid => Len(o) <= Len(s)
                            /\ DOMAIN global_delta_tables[k].next_deltas
                                 \subseteq DOMAIN global_delta_tables[s].next_deltas
                            /\ (\E o \in suffixes : access_full_perc(global_delta_tables[o]))
                                 => access_full_perc(global_delta_tables[s])
    BY Zenon DEF CascadeKeepsPredictions
  <2>1. k \in Seq(Int)
    BY DEF IInv, TablesInv
  <2>2. PICK n \in 1 .. Len(k) : Predicts(global_delta_tables, k, Suffix(k, n))
    BY DEF CascadeInv, Drawing, Cascaded
  <2>3. \A i \in 1 .. Len(k) : Len(Suffix(k, i)) = i
    BY <2>1, SuffixElements
  <2> QED  BY <2>2, <2>3 DEF Predicts, Followers
<1> QED  BY <1>1, <1>2, PTL

--------------------------------------------------------------------------------
(* The addresses of a macroblock, and the deltas between them *)

\* The n deltas between consecutive addresses of a, from the one at lo on.
Deltas(a, lo, n) == [q \in 1 .. n |-> a[lo + q] - a[lo + q - 1]]

Lesser(x, y) == IF x <= y THEN x ELSE y

\* The history after the first g addresses, and the first deltas that are still to come then.
History(a, g) == Deltas(a, g - Lesser(g - 1, MAX_DELTA), Lesser(g - 1, MAX_DELTA))
Rest(a, g) == Deltas(a, g, Lesser(Len(a) - 1, MAX_DELTA) - (g - 1))

\* Entry e counts d.
Counts(tables, k, d) == k \in DOMAIN tables /\ Followed(tables[k], d) > 0

\* a are the addresses of macroblock mb in the phase, in order.
Addresses(a, mb) ==
  /\ a \in Seq(Int) /\ a \in Seq(Int) /\ a # << >>
  /\ \A i \in 1 .. Len(a) : MB(a[i]) = mb
  /\ Len(a) = Left(mb) + Generated(mb)
  /\ per_MB_historytable[mb].first_addr = a[1]
  /\ per_MB_historytable[mb].saved_first_N_deltas = Rest(a, 1)

\* Access n of the phase is the next one of its macroblock.
InOrder(A, n) ==
  LET mb == MB(trace[Base + n])
      r  == Cardinality(EarlyTouches(mb, n))
  IN  r \in 1 .. Len(A[mb]) /\ A[mb][r] = trace[Base + n]

\* What followed the histories of a is counted for all their suffixes.
Tabled(tables, a) ==
  \A g \in 2 .. Len(a) - 1 : \A n \in 1 .. Lesser(g - 1, MAX_DELTA) :
    Counts(tables, Deltas(a, g - n, n), a[g + 1] - a[g])

\* After the first g addresses of a.
After(a, g, m) == m.last_addr = a[g] /\ m.last_N_deltas = History(a, g)

WhileRecording(a, mb) == After(a, Len(a), per_MB_historytable[mb])

WhileReplaying(a, mb) ==
  LET m == per_MB_historytable[mb]
      g == Generated(mb)
      chosen == pc = "commit" /\ mb = this.mb
  IN  /\ g = 0 => m.last_N_deltas = << >>
      /\ g > 0 /\ Left(mb) > 0 => After(a, g, m)
      /\ ~ chosen /\ g > 0 /\ Left(mb) > 0 => m.first_N_deltas = Rest(a, g)
      /\ chosen => /\ this.addr = a[g + 1] /\ m.first_N_deltas = Rest(a, g + 1)
                   /\ this.first = (g = 0)
                   /\ g > 0 => this.delta = a[g + 1] - a[g]

\* The accesses of the phase are replayed as they were recorded.
Replaying == pc \in {"next", "commit"} /\ gen_elems <= MAX_INIT_ELEMS

Replays(A) ==
  /\ \A mb \in Blocks : Addresses(A[mb], mb) /\ Tabled(global_delta_tables, A[mb])
  /\ \A n \in 1 .. Recorded : InOrder(A, n)
  /\ Recording => \A mb \in Blocks : WhileRecording(A[mb], mb)
  /\ Replaying => \A mb \in Blocks : WhileReplaying(A[mb], mb)

\* The deltas of n + 1 addresses are n integers.
LEMMA DeltasAreSeq ==
  ASSUME NEW a \in Seq(Int), NEW lo \in Nat \ {0}, NEW n \in Nat, lo + n <= Len(a)
  PROVE  /\ Deltas(a, lo, n) \in Seq(Int) /\ Len(Deltas(a, lo, n)) = n
         /\ \A q \in 1 .. n : Deltas(a, lo, n)[q] = a[lo + q] - a[lo + q - 1]
<1>1. \A q \in 1 .. n : a[lo + q] - a[lo + q - 1] \in Int
  <2> SUFFICES ASSUME NEW q \in 1 .. n PROVE a[lo + q] - a[lo + q - 1] \in Int
    OBVIOUS
  <2>1. lo + q \in 1 .. Len(a) /\ lo + q - 1 \in 1 .. Len(a)
    OBVIOUS
  <2>2. a[lo + q] \in Int /\ a[lo + q - 1] \in Int
    BY <2>1
  <2> QED  BY <2>2
<1>2. Deltas(a, lo, n) \in [1 .. n -> Int]
  BY <1>1 DEF Deltas
<1> QED  BY <1>2, IsASeq DEF Deltas

\* They are the only sequence with these elements.
LEMMA DeltasAre ==
  ASSUME NEW a \in Seq(Int), NEW lo \in Nat \ {0}, NEW n \in Nat, lo + n <= Len(a),
         NEW h \in Seq(Int), Len(h) = n, \A q \in 1 .. n : h[q] = a[lo + q] - a[lo + q - 1]
  PROVE  h = Deltas(a, lo, n)
<1>1. PICK k : k = Deltas(a, lo, n)
  OBVIOUS
<1>2. k \in Seq(Int) /\ Len(k) = n /\ \A q \in 1 .. n : k[q] = a[lo + q] - a[lo + q - 1]
  <2>1. /\ Deltas(a, lo, n) \in Seq(Int) /\ Len(Deltas(a, lo, n)) = n
        /\ \A q \in 1 .. n : Deltas(a, lo, n)[q] = a[lo + q] - a[lo + q - 1]
    BY DeltasAreSeq
  <2> QED  BY <1>1, <2>1
<1>3. \A q \in 1 .. Len(h) : h[q] = k[q]
  BY <1>2
<1>4. h = k
  BY <1>2, <1>3, SeqEqual
<1> QED  BY <1>1, <1>4

\* One address has no deltas.
LEMMA NoDeltas ==
  ASSUME NEW a, NEW lo, NEW n \in Int, n <= 0 PROVE Deltas(a, lo, n) = << >>
<1>1. 1 .. n = {}
  OBVIOUS
<1>2. PICK h : h = Deltas(a, lo, n)
  OBVIOUS
<1>3. h = [q \in 1 .. 0 |-> a[lo + q] - a[lo + q - 1]]
  BY <1>1, <1>2 DEF Deltas
<1>4. h \in [1 .. 0 -> Int]
  BY <1>3
<1>5. h \in Seq(Int) /\ Len(h) = 0
  BY <1>4, IsASeq
<1>6. h = << >>
  BY <1>5, EmptySeq
<1> QED  BY <1>2, <1>6

\* A suffix of them.
LEMMA SuffixOfDeltas ==
  ASSUME NEW a \in Seq(Int), NEW lo \in Nat \ {0}, NEW n \in Nat, lo + n <= Len(a), NEW k \in 1 .. n
  PROVE  Suffix(Deltas(a, lo, n), k) = Deltas(a, lo + n - k, k)
<1>1. PICK h : h = Deltas(a, lo, n)
  OBVIOUS
<1>2. h \in Seq(Int) /\ Len(h) = n /\ \A q \in 1 .. n : h[q] = a[lo + q] - a[lo + q - 1]
  BY <1>1, DeltasAreSeq
<1>3. PICK s : s = Suffix(h, k)
  OBVIOUS
<1>4. s \in Seq(Int) /\ Len(s) = k /\ \A q \in 1 .. k : s[q] = h[n - k + q]
  <2>1. h \in Seq(Int) /\ k \in 1 .. Len(h)
    BY <1>2
  <2>2. /\ Suffix(h, k) \in Seq(Int) /\ Len(Suffix(h, k)) = k
        /\ \A q \in 1 .. k : Suffix(h, k)[q] = h[Len(h) - k + q]
    BY <2>1, SuffixElements
  <2> QED  BY <1>2, <1>3, <2>2
<1>5. PICK from : from = lo + n - k
  OBVIOUS
<1>6. \A q \in 1 .. k : s[q] = a[from + q] - a[from + q - 1]
  <2> SUFFICES ASSUME NEW q \in 1 .. k PROVE s[q] = a[from + q] - a[from + q - 1]
    OBVIOUS
  <2>1. n - k + q \in 1 .. n /\ lo + (n - k + q) = from + q /\ lo + (n - k + q) - 1 = from + q - 1
    BY <1>5
  <2>2. h[n - k + q] = a[lo + (n - k + q)] - a[lo + (n - k + q) - 1]
    BY <1>2, <2>1
  <2> QED  BY <1>4, <2>1, <2>2
<1>7. from \in Nat \ {0} /\ k \in Nat /\ from + k <= Len(a)
  BY <1>5
<1>8. s = Deltas(a, from, k)
  BY <1>4, <1>6, <1>7, DeltasAre
<1> QED  BY <1>1, <1>3, <1>5, <1>8

\* One more of them.
LEMMA OneMoreDelta ==
  ASSUME NEW a \in Seq(Int), NEW lo \in Nat \ {0}, NEW n \in Nat, lo + n + 1 <= Len(a)
  PROVE  Append(Deltas(a, lo, n), a[lo + n + 1] - a[lo + n]) = Deltas(a, lo, n + 1)
<1>1. PICK h : h = Deltas(a, lo, n)
  OBVIOUS
<1>2. h \in Seq(Int) /\ Len(h) = n /\ \A q \in 1 .. n : h[q] = a[lo + q] - a[lo + q - 1]
  <2>1. lo + n <= Len(a)
    OBVIOUS
  <2> QED  BY <1>1, <2>1, DeltasAreSeq
<1>3. PICK d : d = a[lo + n + 1] - a[lo + n]
  OBVIOUS
<1>4. d \in Int
  <2>1. lo + n + 1 \in 1 .. Len(a) /\ lo + n \in 1 .. Len(a)
    OBVIOUS
  <2>2. a[lo + n + 1] \in Int /\ a[lo + n] \in Int
    BY <2>1
  <2> QED  BY <1>3, <2>2
<1>5. PICK s : s = Append(h, d)
  OBVIOUS
<1>6. s \in Seq(Int) /\ Len(s) = n + 1 /\ s[n + 1] = d /\ \A q \in 1 .. n : s[q] = h[q]
  BY <1>2, <1>4, <1>5, AppendProperties
<1>7. \A q \in 1 .. n + 1 : s[q] = a[lo + q] - a[lo + q - 1]
  <2> SUFFICES ASSUME NEW q \in 1 .. n + 1 PROVE s[q] = a[lo + q] - a[lo + q - 1]
    OBVIOUS
  <2>1. CASE q = n + 1
    <3>1. lo + q = lo + n + 1 /\ lo + q - 1 = lo + n
      BY <2>1
    <3> QED  BY <1>3, <1>6, <2>1, <3>1
  <2>2. CASE q \in 1 .. n
    BY <1>2, <1>6, <2>2
  <2> QED  BY <2>1, <2>2
<1>8. n + 1 \in Nat /\ lo + (n + 1) <= Len(a)
  OBVIOUS
<1>9. s = Deltas(a, lo, n + 1)
  BY <1>6, <1>7, <1>8, DeltasAre
<1> QED  BY <1>1, <1>3, <1>5, <1>9

\* The first of them, and the others.
LEMMA FirstOfDeltas ==
  ASSUME NEW a \in Seq(Int), NEW lo \in Nat \ {0}, NEW n \in Nat \ {0}, lo + n <= Len(a)
  PROVE  /\ Deltas(a, lo, n) # << >>
         /\ Head(Deltas(a, lo, n)) = a[lo + 1] - a[lo]
         /\ Tail(Deltas(a, lo, n)) = Deltas(a, lo + 1, n - 1)
<1>1. PICK h : h = Deltas(a, lo, n)
  OBVIOUS
<1>2. h \in Seq(Int) /\ Len(h) = n /\ \A q \in 1 .. n : h[q] = a[lo + q] - a[lo + q - 1]
  <2>1. n \in Nat
    OBVIOUS
  <2> QED  BY <1>1, <2>1, DeltasAreSeq
<1>3. h # << >> /\ Head(h) = h[1]
  BY <1>2
<1>4. h[1] = a[lo + 1] - a[lo]
  <2>1. 1 \in 1 .. n /\ lo + 1 - 1 = lo
    OBVIOUS
  <2> QED  BY <1>2, <2>1
<1>5. PICK s : s = Tail(h)
  OBVIOUS
<1>6. s \in Seq(Int) /\ Len(s) = n - 1 /\ \A q \in 1 .. n - 1 : s[q] = h[q + 1]
  BY <1>2, <1>3, <1>5
<1>7. \A q \in 1 .. n - 1 : s[q] = a[(lo + 1) + q] - a[(lo + 1) + q - 1]
  <2> SUFFICES ASSUME NEW q \in 1 .. n - 1 PROVE s[q] = a[(lo + 1) + q] - a[(lo + 1) + q - 1]
    OBVIOUS
  <2>1. q + 1 \in 1 .. n /\ lo + (q + 1) = (lo + 1) + q /\ lo + (q + 1) - 1 = (lo + 1) + q - 1
    OBVIOUS
  <2>2. h[q + 1] = a[lo + (q + 1)] - a[lo + (q + 1) - 1]
    BY <1>2, <2>1
  <2> QED  BY <1>6, <2>1, <2>2
<1>8. lo + 1 \in Nat \ {0} /\ n - 1 \in Nat /\ (lo + 1) + (n - 1) <= Len(a)
  OBVIOUS
<1>9. s = Deltas(a, lo + 1, n - 1)
  BY <1>6, <1>7, <1>8, DeltasAre
<1> QED  BY <1>1, <1>3, <1>4, <1>5, <1>9

\* An address that is appended leaves them as they are.
LEMMA DeltasOfLonger ==
  ASSUME NEW a \in Seq(Int), NEW x \in Int, NEW lo \in Nat \ {0}, NEW n \in Int, lo + n <= Len(a)
  PROVE  Deltas(Append(a, x), lo, n) = Deltas(a, lo, n)
<1>1. CASE n <= 0
  BY <1>1, NoDeltas
<1>2. CASE n > 0
  <2>0. PICK b : b = Append(a, x)
    OBVIOUS
  <2>1. b \in Seq(Int) /\ Len(b) = Len(a) + 1 /\ \A i \in 1 .. Len(a) : b[i] = a[i]
    BY <2>0, AppendProperties
  <2>2. n \in Nat /\ lo + n <= Len(b)
    BY <1>2, <2>1
  <2>3. PICK h : h = Deltas(a, lo, n)
    OBVIOUS
  <2>4. h \in Seq(Int) /\ Len(h) = n /\ \A q \in 1 .. n : h[q] = a[lo + q] - a[lo + q - 1]
    BY <2>2, <2>3, DeltasAreSeq
  <2>5. \A q \in 1 .. n : h[q] = b[lo + q] - b[lo + q - 1]
    <3> SUFFICES ASSUME NEW q \in 1 .. n PROVE h[q] = b[lo + q] - b[lo + q - 1]
      OBVIOUS
    <3>1. lo + q \in 1 .. Len(a) /\ lo + q - 1 \in 1 .. Len(a)
      OBVIOUS
    <3> QED  BY <2>1, <2>4, <3>1
  <2>6. h = Deltas(b, lo, n)
    BY <2>1, <2>2, <2>4, <2>5, DeltasAre
  <2> QED  BY <2>0, <2>3, <2>6
<1> QED  BY <1>1, <1>2

\* A history is the last deltas, MAX_DELTA at most.
LEMMA HistoryIsDeltas ==
  ASSUME NEW a \in Seq(Int), NEW g \in 1 .. Len(a)
  PROVE  LET n == Lesser(g - 1, MAX_DELTA)
         IN  /\ n \in 0 .. MAX_DELTA /\ n \in 0 .. g - 1 /\ (n = g - 1 \/ n = MAX_DELTA)
             /\ History(a, g) = Deltas(a, g - n, n) /\ g - n \in Nat \ {0}
             /\ History(a, g) \in Seq(Int) /\ Len(History(a, g)) = n
<1>1. PICK n : n = Lesser(g - 1, MAX_DELTA)
  OBVIOUS
<1>2. n \in 0 .. MAX_DELTA /\ n \in 0 .. g - 1 /\ (n = g - 1 \/ n = MAX_DELTA)
  BY <1>1, DeltaAssumption DEF Lesser
<1>3. PICK h : h = Deltas(a, g - n, n)
  OBVIOUS
<1>4. g - n \in Nat \ {0} /\ n \in Nat /\ (g - n) + n <= Len(a)
  BY <1>2
<1>5. h \in Seq(Int) /\ Len(h) = n
  BY <1>3, <1>4, DeltasAreSeq
<1>6. h = History(a, g)
  BY <1>1, <1>3 DEF History
<1> QED  BY <1>1, <1>2, <1>3, <1>4, <1>5, <1>6

\* The history after an access is that before it and the delta that led to it.
LEMMA NextHistory ==
  ASSUME NEW a \in Seq(Int), NEW g \in 1 .. Len(a) - 1
  PROVE  PushDelta(History(a, g), a[g + 1] - a[g]) = History(a, g + 1)
<1>1. PICK md : md = MAX_DELTA
  OBVIOUS
<1>2. md \in Nat \ {0} /\ g \in Nat \ {0} /\ g + 1 <= Len(a)
  BY <1>1, DeltaAssumption
<1>3. PICK n : n = Lesser(g - 1, md)
  OBVIOUS
<1>4. n \in Nat /\ n <= md /\ n <= g - 1 /\ (n = g - 1 \/ n = md)
  BY <1>2, <1>3 DEF Lesser
<1>5. PICK d : d = a[g + 1] - a[g]
  OBVIOUS
<1>6. PICK h : h = Deltas(a, g - n, n)
  OBVIOUS
<1>7. g - n \in Nat \ {0} /\ (g - n) + n = g /\ (g - n) + n + 1 <= Len(a)
  BY <1>2, <1>4
<1>8. h \in Seq(Int) /\ Len(h) = n
  <2>1. (g - n) + n <= Len(a)
    BY <1>2, <1>7
  <2> QED  BY <1>4, <1>6, <1>7, <2>1, DeltasAreSeq
<1>9. h = History(a, g)
  BY <1>1, <1>3, <1>6 DEF History
<1> SUFFICES PushDelta(h, d) = History(a, g + 1)
  BY <1>5, <1>9
<1>10. CASE n < md
  <2>1. PushDelta(h, d) = Append(h, d)
    BY <1>1, <1>8, <1>10 DEF PushDelta
  <2>2. Append(h, a[(g - n) + n + 1] - a[(g - n) + n]) = Deltas(a, g - n, n + 1)
    BY <1>4, <1>6, <1>7, OneMoreDelta
  <2>3. Lesser((g + 1) - 1, md) = n + 1 /\ (g + 1) - (n + 1) = g - n
    BY <1>2, <1>4, <1>10 DEF Lesser
  <2>4. History(a, g + 1) = Deltas(a, g - n, n + 1)
    BY <1>1, <2>3 DEF History
  <2> QED  BY <1>5, <1>7, <2>1, <2>2, <2>4
<1>11. CASE n = md
  <2>1. PushDelta(h, d) = Append(Tail(h), d)
    BY <1>1, <1>8, <1>11 DEF PushDelta
  <2>2. Tail(h) = Deltas(a, (g - n) + 1, n - 1)
    <3>1. n \in Nat \ {0} /\ (g - n) + n <= Len(a)
      BY <1>2, <1>7, <1>11
    <3> QED  BY <1>6, <1>7, <3>1, FirstOfDeltas
  <2>3. PICK lo : lo = (g - n) + 1
    OBVIOUS
  <2>4. /\ lo \in Nat \ {0} /\ n - 1 \in Nat /\ lo + (n - 1) = g /\ lo + (n - 1) + 1 = g + 1
        /\ lo + (n - 1) + 1 <= Len(a) /\ (n - 1) + 1 = n
    BY <1>2, <1>4, <1>11, <2>3
  <2>5. Append(Deltas(a, lo, n - 1), a[lo + (n - 1) + 1] - a[lo + (n - 1)]) = Deltas(a, lo, (n - 1) + 1)
    BY <2>4, OneMoreDelta
  <2>6. Lesser((g + 1) - 1, md) = n /\ (g + 1) - n = lo
    BY <1>2, <1>4, <1>11, <2>3 DEF Lesser
  <2>7. History(a, g + 1) = Deltas(a, lo, n)
    BY <1>1, <2>6 DEF History
  <2> QED  BY <1>5, <2>1, <2>2, <2>3, <2>4, <2>5, <2>7
<1> QED  BY <1>2, <1>4, <1>10, <1>11

\* The first deltas are replayed one by one; when they are used up and there is one more address,
\* MAX_DELTA of them have been replayed.
LEMMA NextRest ==
  ASSUME NEW a \in Seq(Int), NEW g \in 1 .. Len(a) - 1
  PROVE  /\ Rest(a, g) # << >> => /\ Head(Rest(a, g)) = a[g + 1] - a[g]
                                  /\ Tail(Rest(a, g)) = Rest(a, g + 1)
         /\ Rest(a, g) = << >> => Rest(a, g + 1) = << >> /\ MAX_DELTA <= g - 1
<1>1. PICK md : md = MAX_DELTA
  OBVIOUS
<1>2. md \in Nat \ {0} /\ g \in Nat \ {0} /\ Len(a) \in Nat /\ g + 1 <= Len(a)
  BY <1>1, DeltaAssumption
<1>3. PICK n : n = Lesser(Len(a) - 1, md)
  OBVIOUS
<1>4. n \in Nat /\ n <= md /\ n <= Len(a) - 1 /\ (n = Len(a) - 1 \/ n = md)
  BY <1>2, <1>3 DEF Lesser
<1>5. Rest(a, g) = Deltas(a, g, n - (g - 1)) /\ Rest(a, g + 1) = Deltas(a, g + 1, n - ((g + 1) - 1))
  BY <1>1, <1>3 DEF Rest
<1>6. CASE n - (g - 1) <= 0
  <2>1. n - (g - 1) \in Int /\ n - ((g + 1) - 1) \in Int /\ n - ((g + 1) - 1) <= 0
    BY <1>2, <1>4, <1>6
  <2>2. Rest(a, g) = << >> /\ Rest(a, g + 1) = << >>
    BY <1>5, <1>6, <2>1, NoDeltas
  <2>3. md <= g - 1
    BY <1>2, <1>4, <1>6
  <2> QED  BY <1>1, <2>2, <2>3
<1>7. CASE ~ (n - (g - 1) <= 0)
  <2>1. PICK r : r = n - (g - 1)
    OBVIOUS
  <2>2. r \in Nat \ {0} /\ g + r <= Len(a) /\ n - ((g + 1) - 1) = r - 1
    BY <1>2, <1>4, <1>7, <2>1
  <2>3. /\ Deltas(a, g, r) # << >> /\ Head(Deltas(a, g, r)) = a[g + 1] - a[g]
        /\ Tail(Deltas(a, g, r)) = Deltas(a, g + 1, r - 1)
    BY <1>2, <2>2, FirstOfDeltas
  <2> QED  BY <1>5, <2>1, <2>2, <2>3
<1> QED  BY <1>6, <1>7

--------------------------------------------------------------------------------
(* Recording *)

\* The tables count with natural numbers.
TabNat(tables) ==
  \A k \in DOMAIN tables : \A d \in DOMAIN tables[k].next_deltas : tables[k].next_deltas[d] \in Nat

\* Counting a follower takes no count away, and counts it for all suffixes of the history.
LEMMA UpdatedCounts ==
  ASSUME NEW tables, \A k \in DOMAIN tables : EntryOK(tables[k]), TabNat(tables), NEW hist, NEW nd
  PROVE  LET new == update_tables(tables, hist, nd)
         IN  /\ TabNat(new)
             /\ \A k, d : Counts(tables, k, d) => Counts(new, k, d)
             /\ \A n \in 1 .. Len(hist) : Counts(new, Suffix(hist, n), nd)
<1>1. PICK keys : keys = {Suffix(hist, i) : i \in 1 .. Len(hist)}
  OBVIOUS
<1>2. PICK new : new = update_tables(tables, hist, nd)
  OBVIOUS
<1>3. /\ DOMAIN new = DOMAIN tables \cup keys
      /\ \A k \in DOMAIN new :
           new[k] = IF k \notin keys THEN tables[k]
                    ELSE access(IF k \in DOMAIN tables THEN tables[k] ELSE DELTA_ENTRY, nd)
  BY <1>1, <1>2 DEF update_tables
<1>4. ASSUME NEW e, DOMAIN e = {"next_deltas", "valid", "most_freq_foll"},
             \A d \in DOMAIN e.next_deltas : e.next_deltas[d] \in Nat
      PROVE  /\ \A d \in DOMAIN access(e, nd).next_deltas : access(e, nd).next_deltas[d] \in Nat
             /\ \A d : Followed(e, d) > 0 => Followed(access(e, nd), d) > 0
             /\ Followed(access(e, nd), nd) > 0
  <2>1. PICK f : f = [d \in DOMAIN e.next_deltas \cup {nd} |-> Followed(e, d) + (IF d = nd THEN 1 ELSE 0)]
    OBVIOUS
  <2>2. access(e, nd) = [e EXCEPT !.next_deltas = f]
    BY <2>1 DEF access
  <2>3. access(e, nd).next_deltas = f
    BY <1>4, <2>2
  <2>4. \A d : Followed(e, d) \in Nat
    BY <1>4 DEF Followed
  <2>5. /\ DOMAIN f = DOMAIN e.next_deltas \cup {nd}
        /\ \A d \in DOMAIN f : f[d] = Followed(e, d) + (IF d = nd THEN 1 ELSE 0)
    BY <2>1
  <2>6. \A d \in DOMAIN f : f[d] \in Nat /\ f[d] >= Followed(e, d)
    BY <2>4, <2>5
  <2>7. f[nd] > 0
    BY <2>4, <2>5
  <2>8. \A d : Followed(e, d) > 0 => d \in DOMAIN f
    BY <2>5 DEF Followed
  <2>9. \A d : Followed(access(e, nd), d) = IF d \in DOMAIN f THEN f[d] ELSE 0
    BY <2>3 DEF Followed
  <2>10. ASSUME NEW d, Followed(e, d) > 0 PROVE Followed(access(e, nd), d) > 0
    BY <2>4, <2>6, <2>8, <2>9, <2>10
  <2>11. Followed(access(e, nd), nd) > 0
    BY <2>5, <2>7, <2>9
  <2> QED  BY <2>3, <2>6, <2>10, <2>11
<1>5. /\ DOMAIN DELTA_ENTRY = {"next_deltas", "valid", "most_freq_foll"}
      /\ DOMAIN DELTA_ENTRY.next_deltas = {}
  BY DEF DELTA_ENTRY
<1>6. ASSUME NEW k \in keys
      PROVE  /\ k \in DOMAIN new
             /\ \A d \in DOMAIN new[k].next_deltas : new[k].next_deltas[d] \in Nat
             /\ k \in DOMAIN tables => \A d : Followed(tables[k], d) > 0 => Followed(new[k], d) > 0
             /\ Followed(new[k], nd) > 0
  <2>1. PICK e : e = IF k \in DOMAIN tables THEN tables[k] ELSE DELTA_ENTRY
    OBVIOUS
  <2>2. /\ DOMAIN e = {"next_deltas", "valid", "most_freq_foll"}
        /\ \A d \in DOMAIN e.next_deltas : e.next_deltas[d] \in Nat
    BY <1>5, <2>1 DEF EntryOK, TabNat
  <2>3. k \in DOMAIN new /\ new[k] = access(e, nd)
    BY <1>3, <2>1
  <2> QED  BY <1>4, <2>1, <2>2, <2>3
<1>7. \A k \in DOMAIN tables \ keys : k \in DOMAIN new /\ new[k] = tables[k]
  BY <1>3
<1>8. TabNat(new)
  BY <1>3, <1>6, <1>7 DEF TabNat
<1>9. \A k, d : Counts(tables, k, d) => Counts(new, k, d)
  BY <1>6, <1>7 DEF Counts
<1>10. \A n \in 1 .. Len(hist) : Counts(new, Suffix(hist, n), nd)
  BY <1>1, <1>6 DEF Counts
<1> QED  BY <1>2, <1>8, <1>9, <1>10

\* The histories of a longer list of addresses are counted when the last one is.
LEMMA GrownTabled ==
  ASSUME NEW a \in Seq(Int), a # << >>, NEW x \in Int, NEW tables, NEW new, Tabled(tables, a),
         \A k, d : Counts(tables, k, d) => Counts(new, k, d),
         \A n \in 1 .. Len(History(a, Len(a))) : Counts(new, Suffix(History(a, Len(a)), n), x - a[Len(a)])
  PROVE  Tabled(new, Append(a, x))
<1>0. PICK b : b = Append(a, x)
  OBVIOUS
<1>1. PICK len : len = Len(a)
  OBVIOUS
<1>2. /\ len \in Nat \ {0} /\ b \in Seq(Int) /\ Len(b) = len + 1 /\ b[len + 1] = x
      /\ \A i \in 1 .. len : b[i] = a[i]
  BY <1>0, <1>1, AppendProperties
<1>3. \A lo \in Nat \ {0}, n \in Int : lo + n <= len => Deltas(b, lo, n) = Deltas(a, lo, n)
  BY <1>0, <1>1, DeltasOfLonger
<1>4. ASSUME NEW g \in 2 .. len, NEW n \in 1 .. Lesser(g - 1, MAX_DELTA)
      PROVE  Counts(new, Deltas(b, g - n, n), b[g + 1] - b[g])
  <2>1. n \in Nat \ {0} /\ n <= g - 1 /\ g - n \in Nat \ {0} /\ (g - n) + n = g
    BY DeltaAssumption DEF Lesser
  <2>2. Deltas(b, g - n, n) = Deltas(a, g - n, n)
    BY <1>3, <2>1
  <2>3. CASE g # len
    <3>1. g \in 2 .. len - 1 /\ g \in 1 .. len /\ g + 1 \in 1 .. len
      BY <1>2, <2>3
    <3>2. Counts(tables, Deltas(a, g - n, n), a[g + 1] - a[g])
      BY <1>1, <3>1 DEF Tabled
    <3> QED  BY <1>2, <2>2, <3>1, <3>2
  <2>4. CASE g = len
    <3>1. PICK h : h = History(a, g)
      OBVIOUS
    <3>2. PICK all : all = Lesser(g - 1, MAX_DELTA)
      OBVIOUS
    <3>3. /\ all \in 0 .. g - 1 /\ h = Deltas(a, g - all, all) /\ g - all \in Nat \ {0} /\ Len(h) = all
      <4>1. g \in 1 .. Len(a)
        BY <1>1, <1>2
      <4> QED  BY <3>1, <3>2, <4>1, HistoryIsDeltas
    <3>4. n \in 1 .. all /\ all \in Nat /\ (g - all) + all <= Len(a) /\ (g - all) + all - n = g - n
      <4>1. n \in 1 .. all
        BY <3>2
      <4>2. all \in Nat /\ g \in Nat /\ g <= Len(a)
        BY <1>1, <1>2, <3>3
      <4> QED  BY <4>1, <4>2
    <3>5. Suffix(h, n) = Deltas(a, g - n, n)
      BY <3>3, <3>4, SuffixOfDeltas
    <3>6. Counts(new, Suffix(h, n), x - a[len])
      BY <1>1, <2>4, <3>1, <3>3, <3>4
    <3>7. b[g + 1] - b[g] = x - a[len]
      BY <1>2, <2>4
    <3> QED  BY <2>2, <3>5, <3>6, <3>7
  <2> QED  BY <2>3, <2>4
<1>5. Len(b) - 1 = len
  BY <1>2
<1> QED  BY <1>0, <1>4, <1>5 DEF Tabled

\* A macroblock is recorded with one more of its addresses.
LEMMA GrownBlock ==
  ASSUME NEW a \in Seq(Int), a # << >>, NEW x \in Int, NEW m \in MacroBlocks, Untouched(m),
         After(a, Len(a), m), m.saved_first_N_deltas = Rest(a, 1)
  PROVE  LET b == Append(a, x)
             new == access_mb(m, x)
         IN  /\ After(b, Len(b), new) /\ new.saved_first_N_deltas = Rest(b, 1)
             /\ new.first_addr = m.first_addr
<1>0. PICK b : b = Append(a, x)
  OBVIOUS
<1>1. PICK len : len = Len(a)
  OBVIOUS
<1>2. /\ len \in Nat \ {0} /\ b \in Seq(Int) /\ Len(b) = len + 1 /\ b[len + 1] = x
      /\ \A i \in 1 .. len : b[i] = a[i]
  BY <1>0, <1>1, AppendProperties
<1>3. \A lo \in Nat \ {0}, n \in Int : lo + n <= len => Deltas(b, lo, n) = Deltas(a, lo, n)
  BY <1>0, <1>1, DeltasOfLonger
<1>4. PICK d : d = x - m.last_addr
  OBVIOUS
<1>5. m.last_addr = a[len] /\ m.last_N_deltas = History(a, len) /\ d = b[len + 1] - b[len]
  BY <1>1, <1>2, <1>4 DEF After
<1>6. PICK saved : saved = m.saved_first_N_deltas
  OBVIOUS
<1>7. PICK new : new = access_mb(m, x)
  OBVIOUS
<1>8. /\ new.first_addr = m.first_addr /\ new.last_addr = x
      /\ new.last_N_deltas = PushDelta(m.last_N_deltas, d)
      /\ new.saved_first_N_deltas = IF Len(saved) < MAX_DELTA THEN Append(saved, d) ELSE saved
  <2>1. PICK first : first = KeepFirst(m, m.first_N_deltas, d)
    OBVIOUS
  <2>2. PICK kept : kept = KeepFirst(m, saved, d)
    OBVIOUS
  <2>3. PICK hist : hist = PushDelta(m.last_N_deltas, d)
    OBVIOUS
  <2>4. new = [m EXCEPT !.first_N_deltas = first, !.saved_first_N_deltas = kept,
                        !.last_N_deltas = hist, !.last_addr = x, !.num_accesses = m.num_accesses + 1]
    BY <1>4, <1>6, <1>7, <2>1, <2>2, <2>3 DEF access_mb
  <2>5. /\ new.first_addr = m.first_addr /\ new.last_addr = x /\ new.saved_first_N_deltas = kept
        /\ new.last_N_deltas = hist
    BY <2>4 DEF MacroBlocks
  <2>6. m.first_N_deltas = saved
    BY <1>6 DEF Untouched
  <2> QED  BY <2>2, <2>3, <2>5, <2>6 DEF KeepFirst
<1>9. new.last_N_deltas = History(b, len + 1)
  <2>1. History(b, len) = History(a, len)
    <3>1. PICK n : n = Lesser(len - 1, MAX_DELTA)
      OBVIOUS
    <3>2. n \in 0 .. len - 1
      BY <1>2, <3>1, DeltaAssumption DEF Lesser
    <3>3. len - n \in Nat \ {0} /\ n \in Int /\ (len - n) + n <= len
      BY <1>2, <3>2
    <3>4. Deltas(b, len - n, n) = Deltas(a, len - n, n)
      BY <1>3, <3>3
    <3> QED  BY <3>1, <3>4 DEF History
  <2>2. len \in 1 .. Len(b) - 1
    BY <1>2
  <2>3. PushDelta(History(b, len), b[len + 1] - b[len]) = History(b, len + 1)
    BY <1>2, <2>2, NextHistory
  <2> QED  BY <1>5, <1>8, <2>1, <2>3
<1>10. new.saved_first_N_deltas = Rest(b, 1)
  <2>0. PICK md : md = MAX_DELTA
    OBVIOUS
  <2>1. PICK n : n = Lesser(len - 1, md)
    OBVIOUS
  <2>2. md \in Nat \ {0} /\ n \in Nat /\ n <= len - 1 /\ n <= md /\ (n = len - 1 \/ n = md)
    BY <1>2, <2>0, <2>1, DeltaAssumption DEF Lesser
  <2>3. saved = Deltas(a, 1, n) /\ saved = Deltas(b, 1, n) /\ Len(saved) = n
    <3>1. n - (1 - 1) = n /\ 1 + n <= len /\ n \in Int
      BY <1>2, <2>2
    <3>2. saved = Deltas(a, 1, n)
      BY <1>1, <1>6, <2>0, <2>1, <3>1 DEF Rest
    <3>3. Deltas(b, 1, n) = Deltas(a, 1, n)
      BY <1>3, <3>1
    <3>4. Len(Deltas(a, 1, n)) = n
      BY <1>1, <2>2, <3>1, DeltasAreSeq
    <3> QED  BY <3>2, <3>3, <3>4
  <2>4. Rest(b, 1) = Deltas(b, 1, Lesser(len, md) - (1 - 1))
    <3>1. Len(b) - 1 = len
      BY <1>2
    <3> QED  BY <2>0, <3>1 DEF Rest
  <2>5. CASE n < md
    <3>1. Lesser(len, md) - (1 - 1) = n + 1 /\ n = len - 1 /\ 1 + n = len /\ 1 + n + 1 = len + 1
          /\ 1 + n + 1 <= Len(b)
      BY <1>2, <2>2, <2>5 DEF Lesser
    <3>2. Append(Deltas(b, 1, n), b[1 + n + 1] - b[1 + n]) = Deltas(b, 1, n + 1)
      <4>1. b \in Seq(Int) /\ 1 \in Nat \ {0} /\ n \in Nat /\ 1 + n + 1 <= Len(b)
        BY <1>2, <2>2, <3>1
      <4> QED  BY <4>1, OneMoreDelta, Zenon
    <3> QED  BY <1>5, <1>8, <2>0, <2>3, <2>4, <2>5, <3>1, <3>2
  <2>6. CASE n = md
    <3>1. Lesser(len, md) - (1 - 1) = n
      BY <1>2, <2>2, <2>6 DEF Lesser
    <3> QED  BY <1>8, <2>0, <2>2, <2>3, <2>4, <2>6, <3>1
  <2> QED  BY <2>2, <2>5, <2>6
<1>11. After(b, Len(b), new)
  BY <1>2, <1>8, <1>9 DEF After
<1> QED  BY <1>0, <1>7, <1>8, <1>10, <1>11

\* A macroblock that is recorded with its first address.
LEMMA NewBlock ==
  ASSUME NEW x \in Int, NEW tables
  PROVE  LET a == <<x>>
             m == MACRO_BLOCK_LOC(x)
         IN  /\ After(a, Len(a), m) /\ m.saved_first_N_deltas = Rest(a, 1) /\ m.first_addr = a[1]
             /\ Tabled(tables, a)
<1>1. PICK a : a = <<x>>
  OBVIOUS
<1>2. PICK m : m = MACRO_BLOCK_LOC(x)
  OBVIOUS
<1>3. a[1] = x /\ Len(a) = 1
  BY <1>1
<1>4. m.last_addr = x /\ m.first_addr = x /\ m.last_N_deltas = << >> /\ m.saved_first_N_deltas = << >>
  BY <1>2 DEF MACRO_BLOCK_LOC
<1>5. Lesser(1 - 1, MAX_DELTA) = 0
  BY DeltaAssumption DEF Lesser
<1>6. History(a, 1) = << >>
  <2>1. Deltas(a, 1 - 0, 0) = << >>
    BY NoDeltas, 0 \in Int
  <2> QED  BY <1>5, <2>1 DEF History
<1>7. Rest(a, 1) = << >>
  <2>1. 0 - (1 - 1) \in Int /\ 0 - (1 - 1) <= 0
    OBVIOUS
  <2>2. Deltas(a, 1, 0 - (1 - 1)) = << >>
    BY <2>1, NoDeltas
  <2> QED  BY <1>3, <1>5, <2>2 DEF Rest
<1>8. Tabled(tables, a)
  <2>1. 2 .. Len(a) - 1 = {}
    BY <1>3
  <2> QED  BY <2>1 DEF Tabled
<1> QED  BY <1>1, <1>2, <1>3, <1>4, <1>6, <1>7, <1>8 DEF After

\* What counts more counts all that is counted.
LEMMA MoreTabled ==
  ASSUME NEW a, NEW tables, NEW new, Tabled(tables, a), \A k, d : Counts(tables, k, d) => Counts(new, k, d)
  PROVE  Tabled(new, a)
BY DEF Tabled

\* B are the addresses A and the one that is read next.
ReadOn(A, B) ==
  LET addr == trace[num_elems + 1]
      mb   == MB(addr)
  IN  /\ B[mb] = IF mb \in Blocks THEN Append(A[mb], addr) ELSE <<addr>>
      /\ \A b \in Blocks : b # mb => B[b] = A[b]

\* Reading an element appends its address to those of its macroblock.
LEMMA ReadReplays ==
  ASSUME IInv, CountInv, ReadElement, TabNat(global_delta_tables), NEW A, Replays(A)
  PROVE  TabNat(global_delta_tables') /\ \E B : ReadOn(A, B) /\ Replays(B)'
<1>0. PICK next : next = num_elems + 1
  OBVIOUS
<1>1. PICK addr : addr = trace[next]
  OBVIOUS
<1>2. PICK mb : mb = MB(addr)
  OBVIOUS
<1>3. PICK m : m = per_MB_historytable[mb]
  OBVIOUS
<1>4. /\ Recording /\ Recording' /\ pc = "profile" /\ ~ Replaying'
      /\ trace' = trace /\ Base' = Base /\ Recorded' = Recorded + 1 /\ Recorded \in Nat /\ Base \in Int
      /\ num_elems' = next /\ Base + Recorded + 1 = next
      /\ mem_access(addr) /\ UNCHANGED new_MBs
  <2>1. /\ Recording /\ Recording' /\ pc = "profile" /\ trace' = trace /\ Base' = Base
        /\ Recorded' = Recorded + 1 /\ Recorded \in 0 .. PHASE_LEN - 1 /\ num_elems' = num_elems + 1
    BY ReadMovesOn
  <2>2. Base \in Int /\ Base + Recorded = num_elems /\ PHASE_LEN \in Nat
    BY Numbers
  <2>3. ~ Replaying'
    BY <2>1 DEF Recording, Replaying
  <2>4. mem_access(addr) /\ UNCHANGED new_MBs
    BY <1>0, <1>1 DEF ReadElement, generator
  <2> QED  BY <1>0, <2>1, <2>2, <2>3, <2>4
<1>5. addr \in Int
  <2>1. trace \in Seq(Nat) /\ num_elems \in 0 .. Len(trace) /\ num_elems < Len(trace)
    BY HaloAssumption DEF IInv, ControlInv, ReadElement
  <2> QED  BY <1>0, <1>1, <2>1
<1>6. PICK new : new = IF mb \in Blocks THEN access_mb(m, addr) ELSE MACRO_BLOCK_LOC(addr)
  OBVIOUS
<1>7. /\ Blocks' = Blocks \cup {mb}
      /\ \A b \in Blocks' : per_MB_historytable'[b] = IF b = mb THEN new ELSE per_MB_historytable[b]
  <2>1. CASE mb \in Blocks
    BY <1>2, <1>3, <1>4, <1>6, <2>1 DEF mem_access, Blocks
  <2>2. CASE mb \notin Blocks
    BY <1>2, <1>3, <1>4, <1>6, <2>2 DEF mem_access, Blocks
  <2> QED  BY <2>1, <2>2
<1>8. PICK tables : tables = global_delta_tables
  OBVIOUS
<1>9. PICK more : more = global_delta_tables'
  OBVIOUS
<1>10. more = IF mb \in Blocks THEN update_tables(tables, m.last_N_deltas, addr - m.last_addr) ELSE tables
  BY <1>2, <1>3, <1>4, <1>8, <1>9 DEF mem_access, Blocks
<1>11. /\ TabNat(more)
       /\ \A k, d : Counts(tables, k, d) => Counts(more, k, d)
       /\ mb \in Blocks => \A n \in 1 .. Len(m.last_N_deltas) :
                             Counts(more, Suffix(m.last_N_deltas, n), addr - m.last_addr)
  <2>1. TabNat(tables) /\ \A k \in DOMAIN tables : EntryOK(tables[k])
    BY <1>8 DEF IInv, TablesInv
  <2>2. CASE mb \in Blocks
    BY <1>10, <2>1, <2>2, UpdatedCounts
  <2>3. CASE mb \notin Blocks
    BY <1>10, <2>1, <2>3
  <2> QED  BY <2>2, <2>3
<1>12. \A b \in Blocks : Addresses(A[b], b) /\ Tabled(tables, A[b]) /\ WhileRecording(A[b], b)
  BY <1>4, <1>8 DEF Replays
<1>13. PICK a : a = IF mb \in Blocks THEN Append(A[mb], addr) ELSE <<addr>>
  OBVIOUS
<1>14. /\ a \in Seq(Int) /\ a # << >> /\ a[Len(a)] = addr /\ Len(a) \in Nat \ {0}
       /\ \A i \in 1 .. Len(a) : MB(a[i]) = mb
       /\ mb \in Blocks => /\ A[mb] \in Seq(Int) /\ Len(a) = Len(A[mb]) + 1
                           /\ \A i \in 1 .. Len(A[mb]) : a[i] = A[mb][i]
       /\ mb \notin Blocks => Len(a) = 1
  <2>1. CASE mb \in Blocks
    <3>1. PICK old : old = A[mb]
      OBVIOUS
    <3>2. old \in Seq(Int) /\ \A i \in 1 .. Len(old) : MB(old[i]) = mb
      BY <1>12, <2>1, <3>1 DEF Addresses
    <3>3. /\ a \in Seq(Int) /\ Len(a) = Len(old) + 1 /\ a[Len(old) + 1] = addr
          /\ \A i \in 1 .. Len(old) : a[i] = old[i]
      BY <1>5, <1>13, <2>1, <3>1, <3>2, AppendProperties
    <3>4. Len(old) \in Nat /\ \A i \in 1 .. Len(old) + 1 : i \in 1 .. Len(old) \/ i = Len(old) + 1
      BY <3>2
    <3>5. a # << >>
      BY <3>3, <3>4
    <3> QED  BY <1>2, <2>1, <3>1, <3>2, <3>3, <3>4, <3>5
  <2>2. CASE mb \notin Blocks
    <3>1. a = <<addr>>
      BY <1>13, <2>2
    <3>2. a \in Seq(Int) /\ a # << >> /\ Len(a) = 1 /\ a[1] = addr
      BY <1>5, <3>1
    <3> QED  BY <1>2, <2>2, <3>2
  <2> QED  BY <2>1, <2>2
<1>15. /\ After(a, Len(a), new) /\ new.saved_first_N_deltas = Rest(a, 1) /\ new.first_addr = a[1]
       /\ Tabled(more, a)
  <2>1. CASE mb \in Blocks
    <3>1. PICK old : old = A[mb]
      OBVIOUS
    <3>2. /\ old \in Seq(Int) /\ old # << >> /\ m.first_addr = old[1] /\ m.saved_first_N_deltas = Rest(old, 1)
          /\ Tabled(tables, old) /\ After(old, Len(old), m)
      BY <1>3, <1>12, <2>1, <3>1 DEF Addresses, WhileRecording
    <3>3. m \in MacroBlocks /\ Untouched(m)
      BY <1>3, <1>4, <2>1, BlockRecord DEF IInv, TouchInv, Visited
    <3>4. a = Append(old, addr) /\ new = access_mb(m, addr)
      BY <1>6, <1>13, <2>1, <3>1
    <3>5. /\ After(a, Len(a), new) /\ new.saved_first_N_deltas = Rest(a, 1) /\ new.first_addr = m.first_addr
      BY <1>5, <3>2, <3>3, <3>4, GrownBlock
    <3>6. 1 \in 1 .. Len(old)
      BY <3>2
    <3>7. new.first_addr = a[1]
      BY <1>14, <2>1, <3>1, <3>2, <3>5, <3>6
    <3>8. \A n \in 1 .. Len(History(old, Len(old))) :
            Counts(more, Suffix(History(old, Len(old)), n), addr - old[Len(old)])
      BY <1>11, <2>1, <3>2 DEF After
    <3>9. Tabled(more, a)
      BY <1>5, <1>11, <3>2, <3>4, <3>8, GrownTabled
    <3> QED  BY <3>5, <3>7, <3>9
  <2>2. CASE mb \notin Blocks
    BY <1>5, <1>6, <1>13, <2>2, NewBlock
  <2> QED  BY <2>1, <2>2
<1>16. PICK B : B = [b \in Blocks \cup {mb} |-> IF b = mb THEN a ELSE A[b]]
  OBVIOUS
<1>17. /\ B[mb] = a
       /\ \A b \in Blocks' : b # mb => b \in Blocks /\ B[b] = A[b]
       /\ \A b \in Blocks : /\ Len(A[b]) <= Len(B[b]) /\ Len(A[b]) \in Nat /\ Len(B[b]) \in Nat
                            /\ \A i \in 1 .. Len(A[b]) : B[b][i] = A[b][i]
  <2>1. B[mb] = a /\ \A b \in Blocks : b # mb => B[b] = A[b]
    BY <1>16
  <2>2. \A b \in Blocks : Len(A[b]) \in Nat
    BY <1>12 DEF Addresses
  <2>3. \A b \in Blocks' : b # mb => b \in Blocks
    BY <1>7
  <2>4. ASSUME NEW b \in Blocks
        PROVE  /\ Len(A[b]) <= Len(B[b]) /\ Len(A[b]) \in Nat /\ Len(B[b]) \in Nat
               /\ \A i \in 1 .. Len(A[b]) : B[b][i] = A[b][i]
    <3>1. CASE b = mb
      <4>1. B[b] = a /\ Len(a) \in Nat /\ Len(a) = Len(A[b]) + 1 /\ \A i \in 1 .. Len(A[b]) : a[i] = A[b][i]
        BY <1>14, <2>1, <3>1
      <4> QED  BY <2>2, <4>1
    <3>2. CASE b # mb
      <4>1. B[b] = A[b]
        BY <2>1, <3>2
      <4> QED  BY <2>2, <4>1
    <3> QED  BY <3>1, <3>2
  <2> QED  BY <2>1, <2>3, <2>4
<1>18. \A b \in Blocks' : Generated(b) = 0 /\ Generated(b)' = 0
  <2>1. DOMAIN new_MBs = {}
    BY <1>4 DEF IInv, TouchInv
  <2> QED  BY <1>4, <2>1 DEF Generated
<1>19. \A b \in Blocks' : Left(b)' = (IF b \in Blocks THEN Left(b) ELSE 0) + (IF b = mb THEN 1 ELSE 0)
  BY <1>0, <1>1, <1>2, ReadCounts DEF ReadCounted, Left
<1>20. ASSUME NEW b \in Blocks'
       PROVE  Addresses(B[b], b)' /\ Tabled(more, B[b]) /\ WhileRecording(B[b], b)'
  <2>1. CASE b = mb
    <3>1. per_MB_historytable'[b] = new /\ B[b] = a
      BY <1>7, <1>17, <2>1
    <3>2. Len(a) = Left(b)' + Generated(b)'
      <4>1. Left(b)' = (IF mb \in Blocks THEN Left(mb) ELSE 0) + 1
        BY <1>19, <2>1
      <4>2. mb \in Blocks => Left(mb) + 0 = Len(A[mb]) /\ Left(mb) \in Nat
        BY <1>7, <1>12, <1>18, LeftNat DEF Addresses
      <4> QED  BY <1>14, <1>18, <4>1, <4>2
    <3> QED  BY <1>14, <1>15, <2>1, <3>1, <3>2 DEF Addresses, WhileRecording
  <2>2. CASE b # mb
    <3>1. b \in Blocks /\ B[b] = A[b] /\ per_MB_historytable'[b] = per_MB_historytable[b]
      BY <1>7, <1>17, <2>2
    <3>2. Left(b)' = Left(b) /\ Generated(b)' = Generated(b)
      BY <1>18, <3>1 DEF Left
    <3>3. Tabled(more, A[b])
      BY <1>11, <1>12, <3>1, MoreTabled
    <3> QED  BY <1>12, <3>1, <3>2, <3>3 DEF Addresses, WhileRecording
  <2> QED  BY <2>1, <2>2
<1>21. ASSUME NEW n \in 1 .. Recorded + 1 PROVE InOrder(B, n)'
  <2>1. \A b : EarlyTouches(b, n)' = EarlyTouches(b, n)
    BY <1>4 DEF EarlyTouches
  <2>2. CASE n \in 1 .. Recorded
    <3>1. PICK b : b = MB(trace[Base + n])
      OBVIOUS
    <3>2. PICK r : r = Cardinality(EarlyTouches(b, n))
      OBVIOUS
    <3>3. r \in 1 .. Len(A[b]) /\ A[b][r] = trace[Base + n]
      BY <2>2, <3>1, <3>2 DEF Replays, InOrder
    <3>4. b \in Blocks
      <4>1. Base + n \in Phase
        <5>1. Phase = Base + 1 .. num_elems
          BY <1>4 DEF Phase, Base
        <5>2. Base + Recorded = num_elems
          BY Numbers
        <5> QED  BY <1>4, <2>2, <5>1, <5>2
      <4> QED  BY <1>4, <3>1, <4>1 DEF CountInv, BudgetConserved, Blocks
    <3>5. r \in 1 .. Len(B[b]) /\ B[b][r] = trace[Base + n]
      BY <1>17, <3>3, <3>4
    <3> QED  BY <1>4, <2>1, <3>1, <3>2, <3>5 DEF InOrder
  <2>3. CASE n = Recorded + 1
    <3>1. Base + n = next
      BY <1>4, <2>3
    <3>2. EarlyTouches(mb, n)' = Touches(mb)'
      <4>1. Phase' = Base' + 1 .. num_elems'
        BY <1>4 DEF Phase, Base, Recording
      <4>2. num_elems' = Base' + n
        BY <1>4, <3>1
      <4> QED  BY <4>1, <4>2 DEF EarlyTouches, Touches
    <3>3. Cardinality(Touches(mb))' = Left(mb)' + Generated(mb)'
      <4>1. CountInv'
        BY ReadConserves
      <4>2. pc' # "abort" /\ mb \in Blocks'
        BY <1>4, <1>7 DEF Recording
      <4> QED  BY <4>1, <4>2 DEF CountInv, BudgetConserved, Blocks
    <3>4. Len(a) = Left(mb)' + Generated(mb)'
      BY <1>7, <1>17, <1>20 DEF Addresses
    <3>5. Cardinality(EarlyTouches(mb, n))' = Len(a)
      BY <3>2, <3>3, <3>4
    <3>6. MB(trace'[Base' + n]) = mb /\ trace'[Base' + n] = addr
      BY <1>1, <1>2, <1>4, <3>1
    <3>7. Len(a) \in 1 .. Len(a)
      BY <1>14
    <3> QED  BY <1>14, <1>17, <3>5, <3>6, <3>7 DEF InOrder
  <2> QED  BY <1>4, <2>2, <2>3
<1>22. Replays(B)'
  BY <1>4, <1>9, <1>20, <1>21 DEF Replays
<1>23. ReadOn(A, B)
  BY <1>0, <1>1, <1>2, <1>13, <1>16, <1>17 DEF ReadOn
<1> QED  BY <1>9, <1>11, <1>22, <1>23

--------------------------------------------------------------------------------
(* Replaying *)

\* As long as the phase stays the same, the order of its accesses does.
LEMMA InOrderStays ==
  ASSUME NEW A, Base' = Base, trace' = trace, Recorded' = Recorded, \A n \in 1 .. Recorded : InOrder(A, n)
  PROVE  \A n \in 1 .. Recorded' : InOrder(A, n)'
<1> SUFFICES ASSUME NEW n \in 1 .. Recorded PROVE InOrder(A, n)'
  OBVIOUS
<1>1. \A b : EarlyTouches(b, n)' = EarlyTouches(b, n)
  BY DEF EarlyTouches
<1> QED  BY <1>1 DEF InOrder

\* The addresses of a macroblock stay its addresses when an access moves from those that are left
\* to those that have been generated, or none does.
LEMMA AddressesStay ==
  ASSUME NEW a, NEW mb, Addresses(a, mb), Left(mb)' + Generated(mb)' = Left(mb) + Generated(mb),
         per_MB_historytable'[mb].first_addr = per_MB_historytable[mb].first_addr,
         per_MB_historytable'[mb].saved_first_N_deltas = per_MB_historytable[mb].saved_first_N_deltas
  PROVE  Addresses(a, mb)'
BY DEF Addresses

\* When the phase has been recorded nothing has been replayed.
LEMMA PrepareReplays ==
  ASSUME IInv, CountInv, Prepare, NEW A, Replays(A)
  PROVE  Replays(A)' /\ assert_failed' = assert_failed
<1>1. /\ pc = "prepare" /\ pc' = "next" /\ trace' = trace /\ num_elems' = num_elems /\ new_MBs' = new_MBs
      /\ Recording /\ ~ Recording' /\ assert_failed' = assert_failed
      /\ global_delta_tables' = manage_cascaded_tables(global_delta_tables)
      /\ per_MB_historytable' = [b \in Blocks |-> reset(per_MB_historytable[b])]
  BY DEF Prepare, Recording, input, generator, Blocks
<1>2. Base' = Base /\ Recorded' = Recorded
  BY <1>1 DEF Base, Recorded
<1>3. \A b : Generated(b) = 0 /\ Generated(b)' = 0
  BY <1>1 DEF IInv, TouchInv, Generated
<1>4. Blocks' = Blocks
  BY <1>1 DEF Blocks
<1>5. ASSUME NEW b \in Blocks
      PROVE  LET m == per_MB_historytable[b] new == per_MB_historytable'[b]
             IN  /\ new.first_addr = m.first_addr /\ new.saved_first_N_deltas = m.saved_first_N_deltas
                 /\ new.num_accesses = m.num_accesses /\ new.last_N_deltas = << >>
  <2>1. PICK m : m = per_MB_historytable[b]
    OBVIOUS
  <2>2. m \in MacroBlocks
    BY <2>1, BlockRecord
  <2>3. per_MB_historytable'[b] = [m EXCEPT !.last_N_deltas = << >>, !.last_addr = 0]
    BY <1>1, <2>1 DEF reset
  <2> QED  BY <2>1, <2>2, <2>3 DEF MacroBlocks
<1>6. ASSUME NEW k, NEW d, Counts(global_delta_tables, k, d) PROVE Counts(global_delta_tables', k, d)
  <2>1. k \in DOMAIN global_delta_tables /\ EntryOK(global_delta_tables[k])
    BY <1>6 DEF Counts, IInv, TablesInv
  <2>2. PICK e : e = global_delta_tables[k]
    OBVIOUS
  <2>3. PICK v : v = Keeps(global_delta_tables, k)
    OBVIOUS
  <2>4. PICK f : f = MostFrequent(e)
    OBVIOUS
  <2>5. /\ k \in DOMAIN global_delta_tables'
        /\ global_delta_tables'[k] = [e EXCEPT !.valid = v, !.most_freq_foll = f]
    BY <1>1, <2>1, <2>2, <2>3, <2>4 DEF manage_cascaded_tables
  <2>6. global_delta_tables'[k].next_deltas = e.next_deltas
    BY <2>1, <2>2, <2>5 DEF EntryOK
  <2> QED  BY <1>6, <2>2, <2>5, <2>6 DEF Counts, Followed
<1>7. ASSUME NEW b \in Blocks
      PROVE  Addresses(A[b], b)' /\ Tabled(global_delta_tables, A[b])' /\ WhileReplaying(A[b], b)'
  <2>1. Addresses(A[b], b) /\ Tabled(global_delta_tables, A[b])
    BY DEF Replays
  <2>2. Left(b)' + Generated(b)' = Left(b) + Generated(b)
    BY <1>3, <1>5 DEF Left
  <2>3. Addresses(A[b], b)'
    BY <1>5, <2>1, <2>2, AddressesStay
  <2>4. Tabled(global_delta_tables, A[b])'
    BY <1>6, <2>1 DEF Tabled
  <2>5. pc' # "commit" /\ ~ (Generated(b)' > 0) /\ per_MB_historytable'[b].last_N_deltas = << >>
    BY <1>1, <1>3, <1>5
  <2>6. WhileReplaying(A[b], b)'
    BY <2>5 DEF WhileReplaying
  <2> QED  BY <2>3, <2>4, <2>6
<1>8. \A n \in 1 .. Recorded' : InOrder(A, n)'
  BY <1>1, <1>2, InOrderStays DEF Replays
<1> QED  BY <1>1, <1>4, <1>7, <1>8 DEF Replays

\* The first address that is next is the next one of its macroblock.
LEMMA NextInOrder ==
  ASSUME IInv, CountInv, FundInv, pc = "next", gen_elems < GEN_LEN, gen_elems <= MAX_INIT_ELEMS,
         NEW A, Replays(A)
  PROVE  LET addr == Head(init_addrs)
             mb   == MB(addr)
         IN  /\ init_addrs # << >> /\ mb \in Blocks /\ Left(mb) > 0
             /\ Generated(mb) \in Nat /\ Generated(mb) + 1 \in 1 .. Len(A[mb])
             /\ A[mb][Generated(mb) + 1] = addr
<1>0. PICK addr : addr = Head(init_addrs)
  OBVIOUS
<1>1. PICK mb : mb = MB(addr)
  OBVIOUS
<1>2. PICK n : n = gen_elems + 1
  OBVIOUS
<1>3. PICK next : next = Base + n
  OBVIOUS
<1>4. /\ init_addrs # << >> /\ addr = trace[Base + gen_elems + 1] /\ mb \in Blocks /\ Left(mb) > 0
  BY <1>0, <1>1, FirstAddressIsLeft
<1>5. gen_elems \in Nat /\ Base \in Int /\ n \in 1 .. Recorded /\ Base + gen_elems + 1 = next
  <2>1. gen_elems \in Nat /\ Base \in Int /\ MAX_INIT_ELEMS \in Nat /\ MAX_INIT_ELEMS < PHASE_LEN
    BY Numbers
  <2>2. Recorded = PHASE_LEN /\ PHASE_LEN \in Nat
    BY PhaseIsComplete DEF Drawing
  <2> QED  BY <1>2, <1>3, <2>1, <2>2
<1>6. addr = trace[next] /\ MB(trace[next]) = mb
  BY <1>1, <1>4, <1>5
<1>7. PICK early : early = EarlyTouches(mb, gen_elems)
  OBVIOUS
<1>8. EarlyTouches(mb, n) = early \cup {next} /\ next \notin early /\ IsFiniteSet(early)
  <2>1. EarlyTouches(mb, n) = {i \in Base + 1 .. next : MB(trace[i]) = mb}
    BY <1>3 DEF EarlyTouches
  <2>2. early = {i \in Base + 1 .. next - 1 : MB(trace[i]) = mb}
    <3>1. Base + gen_elems = next - 1
      BY <1>5
    <3> QED  BY <1>7, <3>1 DEF EarlyTouches
  <2>3. next \in Int /\ Base + 1 \in Int /\ next - 1 \in Int /\ next >= Base + 1
    BY <1>5
  <2>4. IsFiniteSet(Base + 1 .. next - 1)
    BY <2>3, FS_Interval
  <2>5. IsFiniteSet(early)
    BY <2>2, <2>4, FS_Subset
  <2> QED  BY <1>6, <2>1, <2>2, <2>3, <2>5
<1>9. Cardinality(early \cup {next}) = Cardinality(early) + 1 /\ Cardinality(early) \in Nat
  BY <1>8, FS_AddElement, FS_CardinalityType
<1>10. Generated(mb) = Cardinality(early)
  BY <1>4, <1>7 DEF FundInv, PrefixInv
<1>11. Cardinality(EarlyTouches(mb, n)) = Generated(mb) + 1 /\ Generated(mb) \in Nat
  BY <1>8, <1>9, <1>10
<1>12. InOrder(A, n)
  BY <1>5 DEF Replays
<1>13. Generated(mb) + 1 \in 1 .. Len(A[mb]) /\ A[mb][Generated(mb) + 1] = addr
  BY <1>3, <1>6, <1>11, <1>12 DEF InOrder
<1> QED  BY <1>0, <1>1, <1>4, <1>11, <1>13

\* A first address that is generated again meets the delta that was recorded for it.
LEMMA InitAccessReplays ==
  ASSUME IInv, CountInv, FundInv, HistoryInv, PrefixMeetsRecord, InitAccess, NEW A, Replays(A)
  PROVE  PrefixMeetsRecord' /\ (pc' = "abort" \/ Replays(A)')
<1>0. PICK addr : addr = Head(init_addrs)
  OBVIOUS
<1>1. PICK mb : mb = MB(addr)
  OBVIOUS
<1>2. PICK m : m = per_MB_historytable[mb]
  OBVIOUS
<1>3. PICK reuse : reuse = is_mb_used(last_macroblock_list, mb)
  OBVIOUS
<1>4. PICK d : d = addr - m.last_addr
  OBVIOUS
<1>5. PICK rest : rest = IF m.first_proxy_gen /\ m.first_N_deltas # << >> THEN Tail(m.first_N_deltas)
                         ELSE m.first_N_deltas
  OBVIOUS
<1>6. PICK a : a = A[mb]
  OBVIOUS
<1>7. PICK g : g = Generated(mb)
  OBVIOUS
<1>8. /\ pc = "next" /\ gen_elems < GEN_LEN /\ gen_elems <= MAX_INIT_ELEMS
      /\ Replaying /\ Generating /\ ~ Recording
  BY DEF InitAccess, Replaying, Recording, Generating
<1>9. /\ init_addrs # << >> /\ mb \in Blocks /\ Left(mb) > 0 /\ g \in Nat /\ g + 1 \in 1 .. Len(a)
      /\ a[g + 1] = addr
  BY <1>0, <1>1, <1>6, <1>7, <1>8, NextInOrder
<1>10. a \in Seq(Int) /\ WhileReplaying(a, mb)
  BY <1>6, <1>8, <1>9 DEF Replays, Addresses
<1>11. /\ g = 0 => Untouched(m)
       /\ g > 0 => m.first_proxy_gen
  <2>1. mb \in DOMAIN new_MBs => g > 0
    BY <1>7 DEF Generated, HistoryInv, OnceInv
  <2>2. mb \notin DOMAIN new_MBs => g = 0
    BY <1>7 DEF Generated
  <2>3. Visited = DOMAIN new_MBs
    BY <1>8 DEF Visited
  <2> QED  BY <1>2, <1>8, <1>9, <2>1, <2>2, <2>3 DEF IInv, TouchInv
<1>12. /\ g = 0 => rest = Rest(a, 1) /\ ~ m.first_proxy_gen
       /\ g > 0 => /\ d = a[g + 1] - a[g] /\ rest = Rest(a, g + 1)
                   /\ m.first_N_deltas # << >> => d = Head(m.first_N_deltas)
  <2>1. CASE g = 0
    <3>1. m.saved_first_N_deltas = Rest(a, 1)
      BY <1>2, <1>6, <1>9 DEF Replays, Addresses
    <3> QED  BY <1>5, <1>11, <2>1, <3>1 DEF Untouched
  <2>2. CASE g > 0
    <3>1. m.last_addr = a[g] /\ m.first_N_deltas = Rest(a, g)
      BY <1>2, <1>7, <1>8, <1>9, <1>10, <2>2 DEF WhileReplaying, After
    <3>2. g \in 1 .. Len(a) - 1
      BY <1>9, <1>10, <2>2
    <3>3. /\ Rest(a, g) # << >> => /\ Head(Rest(a, g)) = a[g + 1] - a[g]
                                   /\ Tail(Rest(a, g)) = Rest(a, g + 1)
          /\ Rest(a, g) = << >> => Rest(a, g + 1) = << >>
      BY <1>10, <3>2, NextRest
    <3>4. d = a[g + 1] - a[g]
      BY <1>4, <1>9, <3>1
    <3>5. CASE m.first_N_deltas # << >>
      <4>1. rest = Tail(m.first_N_deltas) /\ g # 0
        BY <1>5, <1>11, <2>2, <3>5
      <4>2. Rest(a, g) # << >>
        BY <3>1, <3>5
      <4>3. rest = Rest(a, g + 1) /\ d = Head(m.first_N_deltas)
        BY <3>1, <3>3, <3>4, <4>1, <4>2
      <4> QED  BY <3>4, <4>1, <4>3
    <3>6. CASE m.first_N_deltas = << >>
      BY <1>5, <2>2, <3>1, <3>3, <3>4, <3>6
    <3> QED  BY <3>5, <3>6
  <2> QED  BY <1>9, <2>1, <2>2
<1>13. ~ (m.first_proxy_gen /\ m.first_N_deltas # << >> /\ d # Head(m.first_N_deltas))
  BY <1>9, <1>12
<1>14. CASE \E line \in {"1272", "422"} : Abort(line)
  <2>1. pc' = "abort" /\ assert_failed' \in {"1272", "422"}
    BY <1>14 DEF Abort
  <2> QED  BY <2>1 DEF PrefixMeetsRecord
<1>15. CASE ~ \E line \in {"1272", "422"} : Abort(line)
  <2>1. /\ per_MB_historytable' = [per_MB_historytable EXCEPT
             ![mb].first_proxy_gen = TRUE, ![mb].first_N_deltas = rest]
        /\ IF m.first_proxy_gen THEN Choose(mb, addr, reuse, d, FALSE)
           ELSE Choose(mb, addr, reuse, 0, TRUE)
        /\ UNCHANGED_but_MB
    BY <1>0, <1>1, <1>2, <1>3, <1>4, <1>5, <1>13, <1>15, Zenon DEF InitAccess
  <2>2. m \in MacroBlocks
    BY <1>2, <1>9, BlockRecord
  <2>3. PICK new : new = [m EXCEPT !.first_proxy_gen = TRUE, !.first_N_deltas = rest]
    OBVIOUS
  <2>4. per_MB_historytable'[mb] = new
    BY <1>2, <1>9, <2>1, <2>2, <2>3 DEF Blocks, MacroBlocks
  <2>5. /\ new.first_addr = m.first_addr /\ new.saved_first_N_deltas = m.saved_first_N_deltas
        /\ new.first_N_deltas = rest /\ new.last_addr = m.last_addr
        /\ new.last_N_deltas = m.last_N_deltas /\ new.num_accesses = m.num_accesses
    BY <2>2, <2>3 DEF MacroBlocks
  <2>6. /\ Blocks' = Blocks
        /\ \A b \in Blocks : per_MB_historytable'[b] = IF b = mb THEN new ELSE per_MB_historytable[b]
    BY <2>1, <2>4 DEF Blocks
  <2>7. /\ trace' = trace /\ num_elems' = num_elems /\ new_MBs' = new_MBs /\ gen_elems' = gen_elems
        /\ assert_failed' = assert_failed /\ global_delta_tables' = global_delta_tables
    BY <2>1 DEF UNCHANGED_but_MB, input
  <2>8. /\ pc' = "commit" /\ this'.mb = mb /\ this'.addr = addr
        /\ g = 0 => this'.first = TRUE
        /\ g > 0 => this'.first = FALSE /\ this'.delta = d
    <3>1. ASSUME NEW delta, NEW first, Choose(mb, addr, reuse, delta, first)
          PROVE  /\ pc' = "commit" /\ this'.mb = mb /\ this'.addr = addr
                 /\ this'.first = first /\ this'.delta = delta
      BY <3>1 DEF Choose
    <3> QED  BY <1>9, <1>11, <1>12, <2>1, <3>1
  <2>9. Base' = Base /\ Recorded' = Recorded /\ ~ Recording' /\ (\A b : Generated(b)' = Generated(b))
    BY <1>8, <2>7, <2>8 DEF Base, Recorded, Recording, Generated
  <2>10. ASSUME NEW b \in Blocks
         PROVE  Addresses(A[b], b)' /\ Tabled(global_delta_tables, A[b])' /\ WhileReplaying(A[b], b)'
    <3>1. Addresses(A[b], b) /\ Tabled(global_delta_tables, A[b]) /\ WhileReplaying(A[b], b)
      BY <1>8 DEF Replays
    <3>2. Left(b)' = Left(b)
      BY <1>2, <2>5, <2>6 DEF Left
    <3>3. Addresses(A[b], b)'
      BY <1>2, <2>5, <2>6, <2>9, <3>1, <3>2, AddressesStay
    <3>4. Tabled(global_delta_tables, A[b])'
      BY <2>7, <3>1
    <3>5. CASE b # mb
      <4>1. /\ per_MB_historytable'[b] = per_MB_historytable[b] /\ b # this'.mb /\ pc # "commit"
            /\ Generated(b)' = Generated(b)
        BY <1>8, <2>6, <2>8, <2>9, <3>5
      <4>2. WhileReplaying(A[b], b)'
        BY <3>1, <3>2, <4>1 DEF WhileReplaying, After
      <4> QED  BY <3>3, <3>4, <4>2
    <3>6. CASE b = mb
      <4>1. per_MB_historytable'[mb] = new
        BY <2>4
      <4>2. /\ g = 0 => m.last_N_deltas = << >>
            /\ g > 0 => m.last_addr = a[g] /\ m.last_N_deltas = History(a, g)
        BY <1>2, <1>7, <1>9, <1>10 DEF WhileReplaying, After
      <4>3. /\ g = 0 => new.last_N_deltas = << >>
            /\ g > 0 => After(a, g, new)
            /\ this'.addr = a[g + 1] /\ new.first_N_deltas = Rest(a, g + 1)
            /\ this'.first = (g = 0)
            /\ g > 0 => this'.delta = a[g + 1] - a[g]
        <5>1. this'.addr = a[g + 1] /\ new.first_N_deltas = rest
          BY <1>9, <2>5, <2>8
        <5>2. CASE g = 0
          <6>1. rest = Rest(a, g + 1) /\ new.last_N_deltas = << >> /\ this'.first = TRUE
            BY <1>12, <2>5, <2>8, <4>2, <5>2
          <6>2. ~ (g > 0) /\ (this'.first = (g = 0))
            <7>1. (g = 0) = TRUE /\ ~ (g > 0)
              BY <5>2
            <7> QED  BY <6>1, <7>1
          <6> QED  BY <5>1, <6>1, <6>2, Zenon
        <5>3. CASE g > 0
          <6>1. /\ rest = Rest(a, g + 1) /\ this'.first = FALSE /\ this'.delta = a[g + 1] - a[g]
                /\ new.last_addr = a[g] /\ new.last_N_deltas = History(a, g) /\ g # 0
            BY <1>9, <1>12, <2>5, <2>8, <4>2, <5>3
          <6> QED  BY <5>1, <6>1 DEF After
        <5> QED  BY <1>9, <5>2, <5>3
      <4>4. Generated(mb)' = g /\ pc' = "commit" /\ this'.mb = mb
        BY <1>7, <2>8, <2>9
      <4>5. WhileReplaying(a, mb)'
        BY <4>1, <4>3, <4>4 DEF WhileReplaying
      <4> QED  BY <1>6, <3>3, <3>4, <3>6, <4>5
    <3> QED  BY <3>3, <3>4, <3>5, <3>6
  <2>11. \A n \in 1 .. Recorded' : InOrder(A, n)'
    BY <2>7, <2>9, InOrderStays DEF Replays
  <2> QED  BY <2>6, <2>7, <2>9, <2>10, <2>11 DEF Replays, PrefixMeetsRecord
<1> QED  BY <1>14, <1>15

\* A history that has been recorded with what followed it can be continued, unless it is too short
\* for a suffix of it to be kept.
LEMMA HistoryContinues ==
  ASSUME TablesInv, Cascaded(global_delta_tables), NEW a \in Seq(Int), Tabled(global_delta_tables, a),
         NEW mb, \A i \in 1 .. Len(a) : MB(a[i]) = mb, NEW g \in 2 .. Len(a) - 1,
         Len(History(a, g)) > 1, NEW m, m.last_addr = a[g]
  PROVE  Continues(History(a, g), m, mb)
<1>1. PICK h : h = History(a, g)
  OBVIOUS
<1>2. PICK n : n = Lesser(g - 1, MAX_DELTA)
  OBVIOUS
<1>3. /\ h = Deltas(a, g - n, n) /\ Len(h) = n /\ n \in 0 .. g - 1 /\ g - n \in Nat \ {0} /\ h \in Seq(Int)
  <2>1. g \in 1 .. Len(a)
    OBVIOUS
  <2> QED  BY <1>1, <1>2, <2>1, HistoryIsDeltas
<1>4. n > 1 /\ n \in Nat
  BY <1>1, <1>3
<1>5. PICK d : d = a[g + 1] - a[g]
  OBVIOUS
<1>6. \A i \in 1 .. n : Counts(global_delta_tables, Suffix(h, i), d)
  <2> SUFFICES ASSUME NEW i \in 1 .. n PROVE Counts(global_delta_tables, Suffix(h, i), d)
    OBVIOUS
  <2>1. i \in 1 .. Lesser(g - 1, MAX_DELTA)
    BY <1>2
  <2>2. Counts(global_delta_tables, Deltas(a, g - i, i), d)
    BY <1>5, <2>1 DEF Tabled
  <2>3. PICK lo : lo = g - n
    OBVIOUS
  <2>4. lo \in Nat \ {0} /\ n \in Nat /\ lo + n <= Len(a) /\ lo + n - i = g - i /\ i \in 1 .. n
    <3>1. lo \in Nat \ {0} /\ n \in Nat /\ i \in 1 .. n
      BY <1>3, <1>4, <2>3
    <3>2. g \in Int /\ lo = g - n /\ g <= Len(a) /\ Len(a) \in Int
      BY <2>3
    <3> QED  BY <3>1, <3>2
  <2>5. Suffix(Deltas(a, lo, n), i) = Deltas(a, lo + n - i, i)
    BY <2>4, SuffixOfDeltas
  <2>6. Suffix(h, i) = Deltas(a, g - i, i)
    BY <1>3, <2>3, <2>4, <2>5
  <2> QED  BY <2>2, <2>6
<1>7. Suffix(h, n) = h
  <2>1. n \in 1 .. Len(h)
    BY <1>3, <1>4
  <2>2. PICK s : s = Suffix(h, n)
    OBVIOUS
  <2>3. s \in Seq(Int) /\ Len(s) = n /\ \A q \in 1 .. n : s[q] = h[Len(h) - n + q]
    BY <1>3, <2>1, <2>2, SuffixElements
  <2>4. \A q \in 1 .. n : n - n + q = q
    BY <1>4
  <2>5. \A q \in 1 .. n : s[q] = h[n - n + q]
    BY <1>3, <2>3
  <2>6. s = h
    <3>1. \A q \in 1 .. Len(s) : s[q] = h[q]
      BY <2>3, <2>4, <2>5
    <3> QED  BY <1>3, <2>3, <3>1, SeqEqual
  <2> QED  BY <2>2, <2>6
<1>8. h \in DOMAIN global_delta_tables
  <2>1. n \in 1 .. n
    BY <1>4
  <2>2. Counts(global_delta_tables, h, d)
    BY <1>6, <1>7, <2>1
  <2> QED  BY <2>2 DEF Counts
<1>9. PICK i \in 1 .. n : Predicts(global_delta_tables, h, Suffix(h, i))
  BY <1>3, <1>4, <1>8 DEF Cascaded
<1>10. PICK k : k = Suffix(h, i)
  OBVIOUS
<1>11. /\ k \in DOMAIN global_delta_tables /\ global_delta_tables[k].valid
       /\ Followed(global_delta_tables[k], d) > 0
  BY <1>6, <1>9, <1>10 DEF Counts, Predicts
<1>12. MB(m.last_addr + d) = mb
  <2>1. g + 1 \in 1 .. Len(a) /\ g \in 1 .. Len(a)
    OBVIOUS
  <2>2. a[g + 1] \in Int /\ a[g] \in Int /\ MB(a[g + 1]) = mb
    BY <2>1
  <2>3. m.last_addr + d = a[g + 1]
    BY <1>5, <2>2
  <2> QED  BY <2>2, <2>3
<1>13. is_any_delta_valid(global_delta_tables[k], m.last_addr, mb)
  <2>1. PICK e : e = global_delta_tables[k]
    OBVIOUS
  <2>2. d \in DOMAIN e.next_deltas /\ e.next_deltas[d] > 0
    BY <1>11, <2>1 DEF Followed
  <2>3. d \in LiveFollowers(e, m.last_addr, mb)
    BY <1>12, <2>2 DEF LiveFollowers
  <2> QED  BY <2>1, <2>3 DEF is_any_delta_valid
<1>14. i \in 1 .. Len(h)
  BY <1>3
<1> QED  BY <1>1, <1>10, <1>11, <1>13, <1>14 DEF Continues

\* A macroblock that can go on from its whole history keeps it.
LEMMA ReinitKeepsAll ==
  ASSUME NEW m \in MacroBlocks, NEW mb, m.last_N_deltas # << >>, Continues(m.last_N_deltas, m, mb)
  PROVE  reinit_MB_delta(m, mb) = m
<1>1. PICK h : h = m.last_N_deltas
  OBVIOUS
<1>2. PICK n : n = Len(h)
  OBVIOUS
<1>3. h \in Seq(Int) /\ n \in Nat \ {0} /\ n \in 1 .. n
  BY <1>1, <1>2 DEF MacroBlocks
<1>4. SubSeq(h, 1, n) = h
  BY <1>2, <1>3
<1>5. Continues(SubSeq(h, 1, n), m, mb)
  BY <1>1, <1>4
<1>6. CASE m.first_N_deltas # << >>
  BY <1>6 DEF reinit_MB_delta
<1>7. CASE m.first_N_deltas = << >>
  <2>1. ~ StartsOver(m, mb)
    BY <1>1, <1>2, <1>3, <1>5 DEF StartsOver
  <2>2. PICK kept : kept = CHOOSE i \in 1 .. n : /\ Continues(SubSeq(h, 1, i), m, mb)
                                                /\ \A l \in i + 1 .. n : ~ Continues(SubSeq(h, 1, l), m, mb)
    OBVIOUS
  <2>3. n + 1 .. n = {}
    BY <1>3
  <2>4. /\ kept \in 1 .. n
        /\ \A l \in kept + 1 .. n : ~ Continues(SubSeq(h, 1, l), m, mb)
    BY <1>3, <1>5, <2>2, <2>3
  <2>5. kept = n
    <3>1. n \notin kept + 1 .. n
      BY <1>5, <2>4
    <3> QED  BY <1>3, <2>4, <3>1
  <2>6. reinit_MB_delta(m, mb) = [m EXCEPT !.last_N_deltas = SubSeq(@, 1, kept)]
    BY <1>1, <1>2, <1>7, <2>1, <2>2 DEF reinit_MB_delta
  <2>7. reinit_MB_delta(m, mb) = [m EXCEPT !.last_N_deltas = h]
    BY <1>1, <1>4, <2>5, <2>6
  <2> QED  BY <1>1, <2>7 DEF MacroBlocks
<1> QED  BY <1>6, <1>7

\* Generating a first address leaves its macroblock as it was when that address was recorded.
LEMMA CommitReplays ==
  ASSUME IInv, CountInv, FundInv, HistoryInv, CascadeInv, MAX_DELTA > 1, PrefixMeetsRecord, Commit, Replaying,
         NEW A, Replays(A)
  PROVE  PrefixMeetsRecord' /\ (pc' = "abort" \/ Replays(A)')
<1>0. PICK mb : mb = this.mb
  OBVIOUS
<1>1. PICK old : old = per_MB_historytable[mb]
  OBVIOUS
<1>2. PICK m : m = proxy_access(old, this.delta, this.first, this.addr)
  OBVIOUS
<1>3. PICK m2 : m2 = IF mb \in DOMAIN new_MBs /\ m.last_N_deltas # << >> THEN reinit_MB_delta(m, mb) ELSE m
  OBVIOUS
<1>4. /\ pc = "commit" /\ pc \in Drawing /\ ~ Recording /\ Left(mb) > 0
      /\ mb \in Blocks /\ this.delta \in Int /\ this.addr \in Int /\ this.first \in BOOLEAN
      /\ old \in MacroBlocks /\ BlockOK(old)
  BY <1>0, <1>1, BlockRecord DEF Commit, Drawing, Recording, IInv, ChosenInv, RecordInv, FundInv
<1>5. CASE \E line : line # "1282" /\ Abort(line)
  BY <1>5 DEF Abort, PrefixMeetsRecord
<1>6. CASE ~ \E line : line # "1282" /\ Abort(line)
  <2>1. \A b, n : ReinitAssert(n, b) # "1282"
    BY DEF ReinitAssert
  <2>2. /\ Left(mb) # 0
        /\ per_MB_historytable' = [per_MB_historytable EXCEPT ![mb] = m2]
        /\ pc' = "next" /\ UNCHANGED <<input, assert_failed, global_delta_tables>>
    BY <1>0, <1>1, <1>2, <1>3, <1>6, <2>1 DEF Commit
  <2>3. Counted
    <3>1. pc' # "abort"
      BY <2>2
    <3> QED  BY <3>1, CommitCounts
  <2>4. /\ Blocks' = Blocks
        /\ \A b \in Blocks : Left(b)' = IF b = mb THEN Left(mb) - 1 ELSE Left(b)
        /\ Left(mb) \in Nat \ {0}
        /\ new_MBs' = [b \in DOMAIN new_MBs \cup {mb} |->
                         (IF b \in DOMAIN new_MBs THEN new_MBs[b] ELSE 0) + (IF b = mb THEN 1 ELSE 0)]
    BY <1>0, <2>3 DEF Counted, Left
  <2>5. \A b : Generated(b)' = Generated(b) + (IF b = mb THEN 1 ELSE 0) /\ Generated(b) \in Nat
    BY <2>4 DEF Generated, CountInv
  <2>6. PICK g : g = Generated(mb)
    OBVIOUS
  <2>7. PICK a : a = A[mb]
    OBVIOUS
  <2>8. /\ a \in Seq(Int) /\ \A i \in 1 .. Len(a) : MB(a[i]) = mb
        /\ Len(a) = Left(mb) + g /\ Addresses(a, mb)
        /\ Tabled(global_delta_tables, a) /\ WhileReplaying(a, mb)
    BY <1>4, <2>6, <2>7 DEF Replays, Addresses
  <2>9. g \in Nat /\ Left(mb) \in Nat \ {0} /\ g + 1 \in 1 .. Len(a) /\ Len(a) \in Nat
    BY <2>4, <2>5, <2>6, <2>8
  <2>10. /\ this.addr = a[g + 1] /\ old.first_N_deltas = Rest(a, g + 1) /\ this.first = (g = 0)
         /\ g > 0 => this.delta = a[g + 1] - a[g] /\ old.last_N_deltas = History(a, g)
         /\ g = 0 => old.last_N_deltas = << >>
    BY <1>0, <1>1, <1>4, <2>6, <2>8 DEF WhileReplaying, After
  <2>11. m \in MacroBlocks
    <3>1. Left(mb) = old.num_accesses
      BY <1>1 DEF Left
    <3> QED  BY <1>2, <1>4, <2>2, <3>1, OutputBlock DEF BlockOK
  <2>12. /\ m.first_addr = old.first_addr /\ m.saved_first_N_deltas = old.saved_first_N_deltas
         /\ m.first_N_deltas = Rest(a, g + 1) /\ m.last_addr = a[g + 1]
    <3>1. /\ m.first_addr = old.first_addr /\ m.saved_first_N_deltas = old.saved_first_N_deltas
          /\ m.first_N_deltas = old.first_N_deltas /\ m.last_addr = this.addr
      BY <1>2, <1>4, OutputFields
    <3> QED  BY <2>10, <3>1
  <2>13. m.last_N_deltas = History(a, g + 1)
    <3>1. m.last_N_deltas = IF this.first THEN old.last_N_deltas ELSE PushDelta(old.last_N_deltas, this.delta)
      BY <1>2, <1>4 DEF proxy_access, MacroBlocks
    <3>2. CASE g = 0
      <4>1. this.first = TRUE /\ m.last_N_deltas = << >>
        <5>1. (g = 0) = TRUE
          BY <3>2
        <5> QED  BY <2>10, <3>1, <3>2, <5>1
      <4>2. g + 1 = 1 /\ 1 \in 1 .. Len(a) /\ Lesser(1 - 1, MAX_DELTA) = 0
        BY <2>9, <3>2, DeltaAssumption DEF Lesser
      <4>3. Deltas(a, 1 - 0, 0) = << >>
        BY NoDeltas, 0 \in Int
      <4>4. History(a, 1) = << >>
        BY <4>2, <4>3 DEF History
      <4> QED  BY <4>1, <4>2, <4>4
    <3>3. CASE g > 0
      <4>1. this.first = FALSE
        <5>1. (g = 0) = FALSE
          BY <2>9, <3>3
        <5> QED  BY <2>10, <5>1
      <4>2. m.last_N_deltas = PushDelta(History(a, g), a[g + 1] - a[g])
        BY <2>10, <3>1, <3>3, <4>1
      <4>3. g \in 1 .. Len(a) - 1
        BY <2>9, <3>3
      <4> QED  BY <2>8, <4>2, <4>3, NextHistory
    <3> QED  BY <2>9, <3>2, <3>3
  <2>14. Left(mb) > 1 => m2 = m
    <3> SUFFICES ASSUME Left(mb) > 1, mb \in DOMAIN new_MBs, m.last_N_deltas # << >>
                 PROVE  reinit_MB_delta(m, mb) = m
      BY <1>3
    <3>1. CASE m.first_N_deltas # << >>
      BY <3>1 DEF reinit_MB_delta
    <3>2. CASE m.first_N_deltas = << >>
      <4>1. g + 1 \in 1 .. Len(a) - 1
        BY <2>8, <2>9
      <4>2. MAX_DELTA <= (g + 1) - 1
        BY <2>8, <2>12, <3>2, <4>1, NextRest
      <4>3. Len(History(a, g + 1)) > 1
        <5>1. g + 1 \in 1 .. Len(a)
          BY <4>1
        <5>2. Len(History(a, g + 1)) = Lesser((g + 1) - 1, MAX_DELTA)
          BY <2>8, <5>1, HistoryIsDeltas
        <5> QED  BY <2>9, <4>2, <5>2, DeltaAssumption DEF Lesser
      <4>4. g + 1 \in 2 .. Len(a) - 1
        BY <2>9, <4>1, <4>2, DeltaAssumption
      <4>5. TablesInv /\ Cascaded(global_delta_tables)
        BY <1>4 DEF IInv, CascadeInv
      <4>6. Continues(History(a, g + 1), m, mb)
        BY <2>8, <2>12, <4>3, <4>4, <4>5, HistoryContinues
      <4> QED  BY <2>11, <2>13, <4>6, ReinitKeepsAll
    <3> QED  BY <3>1, <3>2
  <2>15. m2.first_addr = old.first_addr /\ m2.saved_first_N_deltas = old.saved_first_N_deltas
    <3>1. PICK new : new = reinit_MB_delta(m, mb)
      OBVIOUS
    <3>2. new.first_addr = m.first_addr /\ new.saved_first_N_deltas = m.saved_first_N_deltas
      BY <2>11, <3>1, ReinitFits
    <3> QED  BY <1>3, <2>12, <3>1, <3>2
  <2>16. \A b \in Blocks : per_MB_historytable'[b] = IF b = mb THEN m2 ELSE per_MB_historytable[b]
    BY <2>2 DEF Blocks
  <2>17. Base' = Base /\ Recorded' = Recorded /\ ~ Recording' /\ trace' = trace
    BY <1>4, <2>2 DEF Base, Recorded, Recording, input
  <2>18. ASSUME NEW b \in Blocks
         PROVE  Addresses(A[b], b)' /\ Tabled(global_delta_tables, A[b])' /\ WhileReplaying(A[b], b)'
    <3>1. Addresses(A[b], b) /\ Tabled(global_delta_tables, A[b]) /\ WhileReplaying(A[b], b)
      BY DEF Replays
    <3>2. Left(b)' + Generated(b)' = Left(b) + Generated(b)
      <4>1. CASE b = mb
        BY <2>4, <2>5, <4>1
      <4>2. CASE b # mb
        BY <2>4, <2>5, <4>2
      <4> QED  BY <4>1, <4>2
    <3>3. Addresses(A[b], b)'
      BY <1>1, <2>15, <2>16, <3>1, <3>2, AddressesStay
    <3>4. Tabled(global_delta_tables, A[b])'
      BY <2>2, <3>1
    <3>5. CASE b # mb
      <4>1. /\ per_MB_historytable'[b] = per_MB_historytable[b] /\ b # this.mb /\ pc' # "commit"
            /\ Generated(b)' = Generated(b) /\ Left(b)' = Left(b)
        BY <1>0, <2>2, <2>4, <2>5, <2>16, <3>5
      <4>2. WhileReplaying(A[b], b)'
        BY <3>1, <4>1 DEF WhileReplaying, After
      <4> QED  BY <3>3, <3>4, <4>2
    <3>6. CASE b = mb
      <4>1. /\ per_MB_historytable'[mb] = m2 /\ pc' # "commit" /\ Generated(mb)' = g + 1 /\ g + 1 # 0
            /\ Left(mb)' = Left(mb) - 1
        BY <1>4, <2>2, <2>4, <2>5, <2>6, <2>9, <2>16
      <4>2. Left(mb)' > 0 => After(a, g + 1, m2) /\ m2.first_N_deltas = Rest(a, g + 1)
        <5>1. Left(mb)' > 0 => Left(mb) > 1
          BY <2>9, <4>1
        <5> QED  BY <2>12, <2>13, <2>14, <5>1 DEF After
      <4>3. WhileReplaying(a, mb)'
        BY <4>1, <4>2 DEF WhileReplaying
      <4> QED  BY <2>7, <3>3, <3>4, <3>6, <4>3
    <3> QED  BY <3>5, <3>6
  <2>19. \A n \in 1 .. Recorded' : InOrder(A, n)'
    BY <2>17, InOrderStays DEF Replays
  <2> QED  BY <2>2, <2>4, <2>17, <2>18, <2>19 DEF Replays, PrefixMeetsRecord
<1> QED  BY <1>5, <1>6

\* What has been recorded can be replayed, and is met.
RecordedInv ==
  /\ Recording => TabNat(global_delta_tables)
  /\ Recording \/ Replaying => \E A : Replays(A)
  /\ PrefixMeetsRecord

\* Only InitAccess fails the assertion at 1282.
LEMMA OthersMeet ==
  ASSUME PrefixMeetsRecord, (Select /\ ~ InitAccess) \/ Commit PROVE PrefixMeetsRecord'
<1>1. CASE Select /\ ~ InitAccess
  BY <1>1, SelectFailsElsewhere DEF FailsElsewhere, OtherLines, PrefixMeetsRecord
<1>2. CASE Commit
  <2>1. \A b, n : ReinitAssert(n, b) # "1282"
    BY DEF ReinitAssert
  <2>2. assert_failed' = assert_failed \/ \E line : line # "1282" /\ Abort(line)
    BY <1>2, <2>1 DEF Commit
  <2> QED  BY <2>2 DEF Abort, PrefixMeetsRecord
<1> QED  BY <1>1, <1>2

\* Nothing changes when nothing is done.
LEMMA StutterKeepsReplays == ASSUME UNCHANGED vars, NEW A, Replays(A) PROVE Replays(A)'
<1>1. /\ UNCHANGED <<trace, num_elems, per_MB_historytable, global_delta_tables, pc, assert_failed, this,
                     gen_elems, new_MBs>>
  BY DEF vars, input, profile, generator
<1>2. /\ Blocks' = Blocks /\ Base' = Base /\ Recorded' = Recorded
      /\ (Recording' <=> Recording) /\ (Replaying' <=> Replaying)
      /\ \A b : Left(b)' = Left(b) /\ Generated(b)' = Generated(b)
  BY <1>1 DEF Blocks, Base, Recorded, Recording, Replaying, Left, Generated
<1>3. \A n \in 1 .. Recorded' : InOrder(A, n)'
  BY <1>1, <1>2, InOrderStays DEF Replays
<1>4. ASSUME NEW b \in Blocks, Addresses(A[b], b) PROVE Addresses(A[b], b)'
  BY <1>1, <1>2, <1>4, AddressesStay
<1>5. ASSUME NEW b \in Blocks, WhileRecording(A[b], b) PROVE WhileRecording(A[b], b)'
  BY <1>1, <1>5 DEF WhileRecording
<1>6. ASSUME NEW b \in Blocks, WhileReplaying(A[b], b) PROVE WhileReplaying(A[b], b)'
  BY <1>1, <1>2, <1>6 DEF WhileReplaying
<1> QED  BY <1>1, <1>2, <1>3, <1>4, <1>5, <1>6 DEF Replays

LEMMA StutterReplays == ASSUME UNCHANGED vars, RecordedInv PROVE RecordedInv'
<1>1. UNCHANGED <<global_delta_tables, pc, assert_failed, gen_elems>>
  BY DEF vars, profile, generator
<1>2. (Recording' <=> Recording) /\ (Replaying' <=> Replaying)
  BY <1>1 DEF Recording, Replaying
<1> QED  BY <1>1, <1>2, StutterKeepsReplays DEF RecordedInv, PrefixMeetsRecord

\* The next phase begins with nothing to replay.
LEMMA ClearReplays ==
  ASSUME IInv, CountInv, PhaseClear
  PROVE  /\ Blocks' = {} /\ DOMAIN global_delta_tables' = {} /\ TabNat(global_delta_tables')
         /\ ~ Replaying' /\ Replays(<< >>)'
<1>1. /\ pc = "next" /\ pc' = "profile" /\ num_elems' = num_elems /\ Blocks' = {}
      /\ DOMAIN global_delta_tables' = {}
  BY DEF PhaseClear, Blocks, NoEntries, input
<1>2. Recorded' = 0
  <2>1. num_elems % PHASE_LEN = 0 /\ num_elems \in Nat
    BY <1>1, Numbers DEF CountInv, Drawing
  <2>2. Base' = num_elems - 0
    BY <1>1, <2>1 DEF Base
  <2> QED  BY <1>1, <2>1, <2>2 DEF Recorded
<1>3. TabNat(global_delta_tables') /\ ~ Replaying'
  BY <1>1 DEF TabNat, Replaying
<1> QED  BY <1>1, <1>2, <1>3 DEF Replays

\* Every step keeps the invariant.
LEMMA NextReplays ==
  ASSUME MAX_DELTA > 1
  PROVE  IInv /\ CountInv /\ HistoryInv /\ FundInv /\ CascadeInv /\ RecordedInv /\ [Next]_vars => RecordedInv'
<1> SUFFICES ASSUME IInv, CountInv, HistoryInv, FundInv, CascadeInv, RecordedInv, [Next]_vars
             PROVE  RecordedInv'
  OBVIOUS
<1>0. PrefixMeetsRecord
  BY DEF RecordedInv
<1>1. CASE ReadElement
  <2>1. Recording /\ Recording' /\ assert_failed' = assert_failed
    BY <1>1, ReadMovesOn DEF ReadElement
  <2>2. TabNat(global_delta_tables) /\ \E A : Replays(A)
    BY <2>1 DEF RecordedInv
  <2>3. PICK A : Replays(A)
    BY <2>2
  <2>4. TabNat(global_delta_tables') /\ \E B : Replays(B)'
    BY <1>1, <2>2, <2>3, ReadReplays
  <2> QED  BY <1>0, <2>1, <2>4 DEF RecordedInv, PrefixMeetsRecord
<1>2. CASE Prepare
  <2>1. Recording /\ ~ Recording'
    BY <1>2 DEF Prepare, Recording
  <2>2. PICK A : Replays(A)
    BY <2>1 DEF RecordedInv
  <2>3. Replays(A)' /\ assert_failed' = assert_failed
    BY <1>2, <2>2, PrepareReplays
  <2> QED  BY <1>0, <2>1, <2>3 DEF RecordedInv, PrefixMeetsRecord
<1>3. CASE EndOfTrace
  BY <1>0, <1>3 DEF EndOfTrace, RecordedInv, Recording, Replaying, PrefixMeetsRecord
<1>4. CASE InitAccess
  <2>1. Replaying /\ ~ Recording'
    <3>1. Quiet
      BY <1>4, InitAccessIsQuiet
    <3> QED  BY <1>4, <3>1 DEF InitAccess, Replaying, Recording, Quiet, Drawing
  <2>2. PICK A : Replays(A)
    BY <2>1 DEF RecordedInv
  <2>3. PrefixMeetsRecord' /\ (pc' = "abort" \/ Replays(A)')
    BY <1>0, <1>4, <2>2, InitAccessReplays
  <2> QED  BY <2>1, <2>3 DEF RecordedInv, Replaying
<1>5. CASE Select /\ ~ InitAccess
  <2>1. gen_elems > MAX_INIT_ELEMS
    BY <1>5, LookKeepsFunds
  <2>2. gen_elems' = gen_elems /\ pc' \in Drawing \cup {"abort"}
    BY <1>5, SelectIsQuiet DEF Quiet
  <2>3. ~ Recording' /\ ~ Replaying'
    <3>1. gen_elems \in Nat /\ MAX_INIT_ELEMS \in Nat
      BY Numbers
    <3> QED  BY <2>1, <2>2, <3>1 DEF Recording, Replaying, Drawing
  <2> QED  BY <1>0, <1>5, <2>3, OthersMeet DEF RecordedInv
<1>6. CASE Commit
  <2>1. pc = "commit" /\ pc' \in {"next", "abort"} /\ (gen_elems' = gen_elems \/ gen_elems' = gen_elems + 1)
    BY <1>6 DEF Commit, Abort, generator
  <2>2. CASE Replaying
    <3>1. PICK A : Replays(A)
      BY <2>2 DEF RecordedInv
    <3>2. PrefixMeetsRecord' /\ (pc' = "abort" \/ Replays(A)')
      BY <1>0, <1>6, <2>2, <3>1, CommitReplays
    <3> QED  BY <2>1, <3>2 DEF RecordedInv, Recording, Replaying
  <2>3. CASE ~ Replaying
    <3>1. gen_elems \in Nat /\ MAX_INIT_ELEMS \in Nat
      BY Numbers
    <3>2. ~ Recording' /\ ~ Replaying'
      BY <2>1, <2>3, <3>1 DEF Recording, Replaying
    <3> QED  BY <1>0, <1>6, <3>2, OthersMeet DEF RecordedInv
  <2> QED  BY <2>2, <2>3
<1>7. CASE PhaseClear
  <2>1. UNCHANGED assert_failed
    BY <1>7 DEF PhaseClear
  <2> QED  BY <1>0, <1>7, <2>1, ClearReplays DEF RecordedInv, PrefixMeetsRecord
<1>8. CASE UNCHANGED vars
  BY <1>8, StutterReplays
<1> QED  BY <1>1, <1>2, <1>3, <1>4, <1>5, <1>6, <1>7, <1>8 DEF Next, Step, Terminated, Select

\* Before anything is read there is nothing to replay.
LEMMA InitReplays == Init => RecordedInv
<1> SUFFICES ASSUME Init PROVE RecordedInv
  OBVIOUS
<1>1. /\ pc = "profile" /\ num_elems = 0 /\ Blocks = {} /\ DOMAIN global_delta_tables = {}
      /\ assert_failed = "none"
  BY DEF Init, NoEntries, Blocks
<1>2. Recorded = 0
  <2>1. 0 % PHASE_LEN = 0
    BY HaloAssumption
  <2>2. Base = 0 - 0
    BY <1>1, <2>1 DEF Base
  <2> QED  BY <1>1, <2>2 DEF Recorded
<1>3. TabNat(global_delta_tables) /\ ~ Replaying
  BY <1>1 DEF TabNat, Replaying
<1>4. Replays(<< >>)
  BY <1>1, <1>2, <1>3 DEF Replays
<1> QED  BY <1>1, <1>3, <1>4 DEF RecordedInv, PrefixMeetsRecord

\* The assertion at 1282 holds: the first addresses of a phase, generated again, meet the deltas
\* recorded for their macroblocks, provided more than one delta of a history is kept (with one only,
\* reinit_MB_delta can forget the history of a macroblock that still has first addresses to come).
THEOREM RecordIsMet == MAX_DELTA > 1 => (Spec => []PrefixMeetsRecord)
<1> SUFFICES ASSUME MAX_DELTA > 1 PROVE Spec => []PrefixMeetsRecord
  OBVIOUS
<1>1. Spec => []CountInv
  BY Invariance, InitConserves, NextConserves, PTL DEF Spec
<1>2. Spec => []CascadeInv
  BY Invariance, InitCascades, NextCascades, PTL DEF Spec
<1>3. IInv /\ CountInv /\ HistoryInv /\ FundInv /\ CascadeInv /\ RecordedInv /\ [Next]_vars => RecordedInv'
  BY NextReplays
<1>4. RecordedInv => PrefixMeetsRecord
  BY DEF RecordedInv
<1> QED
  BY <1>1, <1>2, <1>3, <1>4, Invariance, HistoryIsKept, FundsAreKept, InitReplays, PTL DEF Spec

--------------------------------------------------------------------------------
(* What the tables count *)

\* Where a delta of D follows n others of the same macroblock: <<macroblock, n, which delta>>.
Occurrences(D) ==
  {o \in (DOMAIN D) \X (1 .. MAX_DELTA) \X (1 .. PHASE_LEN) : o[2] < o[3] /\ o[3] <= Len(D[o[1]])}

HistoryAt(D, o) == SubSeq(D[o[1]], o[3] - o[2], o[3] - 1)
FollowerAt(D, o) == D[o[1]][o[3]]

\* Where x follows the history k.
Matching(D, k, x) == {o \in Occurrences(D) : HistoryAt(D, o) = k /\ FollowerAt(D, o) = x}

CountOf(tables, k, x) == IF k \in DOMAIN tables THEN Followed(tables[k], x) ELSE 0

\* The tables count what follows in the deltas D.
CountsFollowers(tables, D) ==
  /\ DOMAIN tables = {HistoryAt(D, o) : o \in Occurrences(D)}
  /\ \A k, x : /\ IsFiniteSet(Matching(D, k, x))
               /\ CountOf(tables, k, x) = Cardinality(Matching(D, k, x))

\* E are the deltas D, and x more of macroblock mb.
OneMore(D, E, mb, x) ==
  /\ DOMAIN E = DOMAIN D /\ mb \in DOMAIN D
  /\ \A b \in DOMAIN D : D[b] \in Seq(Int)
  /\ E[mb] = Append(D[mb], x)
  /\ \A b \in DOMAIN D : b # mb => E[b] = D[b]

\* The occurrences that end at the last of them.
Last(D, mb) == {<<mb, n, Len(D[mb]) + 1>> : n \in 1 .. Lesser(Len(D[mb]), MAX_DELTA)}

\* An occurrence has three parts.
LEMMA OccurrenceParts ==
  ASSUME NEW D, NEW o
  PROVE  o \in Occurrences(D) <=>
           \E b \in DOMAIN D, n \in 1 .. MAX_DELTA, g \in 1 .. PHASE_LEN :
             o = <<b, n, g>> /\ n < g /\ g <= Len(D[b])
BY DEF Occurrences

\* One more delta adds the occurrences that end there, and leaves the others as they are.
LEMMA OccurrencesGrow ==
  ASSUME NEW D, NEW E, NEW mb, NEW x \in Int, OneMore(D, E, mb, x), Len(D[mb]) < PHASE_LEN
  PROVE  /\ Occurrences(E) = Occurrences(D) \cup Last(D, mb)
         /\ \A o \in Occurrences(D) : /\ HistoryAt(E, o) = HistoryAt(D, o)
              /\ FollowerAt(E, o) = FollowerAt(D, o)
                                      /\ o \notin Last(D, mb)
         /\ \A n \in 1 .. Lesser(Len(D[mb]), MAX_DELTA) :
              LET o == <<mb, n, Len(D[mb]) + 1>>
              IN  HistoryAt(E, o) = Suffix(D[mb], n) /\ FollowerAt(E, o) = x
<1>1. PICK old : old = D[mb]
  OBVIOUS
<1>2. PICK new : new = E[mb]
  OBVIOUS
<1>3. PICK len : len = Len(old)
  OBVIOUS
<1>4. /\ old \in Seq(Int) /\ new \in Seq(Int) /\ len \in Nat /\ Len(new) = len + 1 /\ new[len + 1] = x
      /\ \A i \in 1 .. len : new[i] = old[i]
  <2>1. old \in Seq(Int) /\ new = Append(old, x)
    BY <1>1, <1>2 DEF OneMore
  <2> QED  BY <1>3, <2>1, AppendProperties
<1>5. /\ DOMAIN E = DOMAIN D /\ mb \in DOMAIN D /\ \A b \in DOMAIN D : b # mb => E[b] = D[b]
      /\ \A b \in DOMAIN D : Len(D[b]) \in Nat
  BY DEF OneMore
<1>6. len + 1 \in 1 .. PHASE_LEN /\ PHASE_LEN \in Nat /\ MAX_DELTA \in Nat \ {0}
  <2>1. PHASE_LEN \in Nat /\ MAX_DELTA \in Nat \ {0}
    BY HaloAssumption, DeltaAssumption
  <2>2. len < PHASE_LEN
    BY <1>1, <1>3
  <2> QED  BY <1>4, <2>1, <2>2
<1>7. ASSUME NEW i, NEW j \in 1 .. len, i \in 1 .. len, i <= j
      PROVE  SubSeq(new, i, j) = SubSeq(old, i, j)
  <2>1. i \in Int /\ j \in Int /\ \A q \in i .. j : q \in 1 .. len /\ q \in 1 .. len + 1
    BY <1>4, <1>7
  <2>2. \A q \in i .. j : new[q] \in Int /\ old[q] \in Int /\ new[q] = old[q]
    BY <1>3, <1>4, <2>1
  <2>3. /\ SubSeq(new, i, j) \in Seq(Int) /\ Len(SubSeq(new, i, j)) = j - i + 1
        /\ \A q \in 1 .. j - i + 1 : SubSeq(new, i, j)[q] = new[i + q - 1]
    BY <1>7, <2>1, <2>2, SubSeqProperties
  <2>4. /\ SubSeq(old, i, j) \in Seq(Int) /\ Len(SubSeq(old, i, j)) = j - i + 1
        /\ \A q \in 1 .. j - i + 1 : SubSeq(old, i, j)[q] = old[i + q - 1]
    BY <1>7, <2>1, <2>2, SubSeqProperties
  <2>5. \A q \in 1 .. j - i + 1 : i + q - 1 \in i .. j
    BY <2>1
  <2>6. \A q \in 1 .. Len(SubSeq(new, i, j)) : SubSeq(new, i, j)[q] = SubSeq(old, i, j)[q]
    BY <2>2, <2>3, <2>4, <2>5
  <2> QED  BY <2>3, <2>4, <2>6, SeqEqual
<1>8. ASSUME NEW o \in Occurrences(D)
      PROVE  /\ o \in Occurrences(E) /\ o \notin Last(D, mb)
             /\ HistoryAt(E, o) = HistoryAt(D, o) /\ FollowerAt(E, o) = FollowerAt(D, o)
  <2>1. PICK b \in DOMAIN D, n \in 1 .. MAX_DELTA, g \in 1 .. PHASE_LEN :
          o = <<b, n, g>> /\ n < g /\ g <= Len(D[b])
    BY OccurrenceParts
  <2>2. o[1] = b /\ o[2] = n /\ o[3] = g
    BY <2>1
  <2>3. CASE b # mb
    <3>1. E[b] = D[b]
      BY <1>5, <2>3
    <3>2. o \in Occurrences(E)
      BY <1>5, <2>1, <3>1, OccurrenceParts
    <3>3. o \notin Last(D, mb)
      BY <2>2, <2>3 DEF Last
    <3> QED  BY <2>2, <3>1, <3>2, <3>3 DEF HistoryAt, FollowerAt
  <2>4. CASE b = mb
    <3>1. g <= len
      BY <1>1, <1>3, <2>1, <2>4
    <3>2. o \in Occurrences(E)
      <4>1. g <= Len(E[b])
        BY <1>2, <1>4, <2>4, <3>1
      <4> QED  BY <1>5, <2>1, <4>1, OccurrenceParts
    <3>3. o \notin Last(D, mb)
      <4>1. Len(D[mb]) + 1 = len + 1 /\ g # len + 1
        BY <1>1, <1>3, <1>4, <3>1
      <4> QED  BY <2>2, <4>1 DEF Last
    <3>4. g - n \in 1 .. len /\ g - 1 \in 1 .. len /\ g - n <= g - 1 /\ g \in 1 .. len
      BY <1>4, <1>6, <2>1, <3>1
    <3>5. SubSeq(new, g - n, g - 1) = SubSeq(old, g - n, g - 1)
      BY <1>7, <3>4
    <3>6. new[g] = old[g]
      BY <1>4, <3>4
    <3> QED  BY <1>1, <1>2, <2>2, <2>4, <3>2, <3>3, <3>5, <3>6 DEF HistoryAt, FollowerAt
  <2> QED  BY <2>3, <2>4
<1>9. ASSUME NEW n \in 1 .. Lesser(len, MAX_DELTA)
      PROVE  /\ <<mb, n, len + 1>> \in Occurrences(E)
             /\ HistoryAt(E, <<mb, n, len + 1>>) = Suffix(old, n) /\ FollowerAt(E, <<mb, n, len + 1>>) = x
  <2>1. n \in 1 .. len /\ n \in 1 .. MAX_DELTA
    BY <1>4, <1>6 DEF Lesser
  <2>2. <<mb, n, len + 1>> \in Occurrences(E)
    <3>1. n < len + 1 /\ len + 1 <= Len(E[mb])
      BY <1>2, <1>4, <2>1
    <3> QED  BY <1>5, <1>6, <2>1, <3>1, OccurrenceParts
  <2>3. SubSeq(new, len + 1 - n, len + 1 - 1) = SubSeq(old, len + 1 - n, len)
    <3>1. len + 1 - n \in 1 .. len /\ len \in 1 .. len /\ len + 1 - n <= len /\ len + 1 - 1 = len
      BY <1>4, <2>1
    <3> QED  BY <1>7, <3>1
  <2>4. Suffix(old, n) = SubSeq(old, len + 1 - n, len)
    <3>1. len - n + 1 = len + 1 - n
      BY <1>4, <2>1
    <3> QED  BY <1>3, <3>1 DEF Suffix
  <2> QED  BY <1>2, <1>4, <2>2, <2>3, <2>4 DEF HistoryAt, FollowerAt
<1>10. ASSUME NEW o \in Occurrences(E), o \notin Last(D, mb) PROVE o \in Occurrences(D)
  <2>1. PICK b \in DOMAIN E, n \in 1 .. MAX_DELTA, g \in 1 .. PHASE_LEN :
          o = <<b, n, g>> /\ n < g /\ g <= Len(E[b])
    BY OccurrenceParts
  <2>2. g <= Len(D[b])
    <3>1. CASE b # mb
      BY <1>5, <2>1, <3>1
    <3>2. CASE b = mb /\ g <= len
      BY <1>1, <1>3, <3>2
    <3>3. CASE b = mb /\ ~ (g <= len)
      <4>1. g = len + 1 /\ n \in 1 .. Lesser(len, MAX_DELTA)
        BY <1>2, <1>4, <1>6, <2>1, <3>3 DEF Lesser
      <4>2. o \in Last(D, mb)
        BY <1>1, <1>3, <2>1, <3>3, <4>1 DEF Last
      <4> QED  BY <1>10, <4>2
    <3> QED  BY <3>1, <3>2, <3>3
  <2> QED  BY <1>5, <2>1, <2>2, OccurrenceParts
<1>11. Last(D, mb) \subseteq Occurrences(E)
  BY <1>1, <1>3, <1>9 DEF Last
<1>12. Occurrences(E) = Occurrences(D) \cup Last(D, mb)
  BY <1>8, <1>10, <1>11
<1> QED  BY <1>1, <1>3, <1>8, <1>9, <1>12


\* Tables new count nd once more at the histories of keys.
CountedMore(new, tables, keys, nd) ==
  /\ DOMAIN new = DOMAIN tables \cup keys
  /\ \A k, x : CountOf(new, k, x) = CountOf(tables, k, x) + (IF k \in keys /\ x = nd THEN 1 ELSE 0)

\* Counting a follower counts it once for every suffix of the history.
LEMMA UpdatedCountOf ==
  ASSUME NEW tables, \A k \in DOMAIN tables : EntryOK(tables[k]), TabNat(tables), NEW hist, NEW nd
  PROVE  CountedMore(update_tables(tables, hist, nd), tables, {Suffix(hist, i) : i \in 1 .. Len(hist)}, nd)
<1>1. PICK keys : keys = {Suffix(hist, i) : i \in 1 .. Len(hist)}
  OBVIOUS
<1>2. PICK new : new = update_tables(tables, hist, nd)
  OBVIOUS
<1>3. /\ DOMAIN new = DOMAIN tables \cup keys
      /\ \A k \in DOMAIN new :
           new[k] = IF k \notin keys THEN tables[k]
                    ELSE access(IF k \in DOMAIN tables THEN tables[k] ELSE DELTA_ENTRY, nd)
  BY <1>1, <1>2 DEF update_tables
<1>4. ASSUME NEW e, DOMAIN e = {"next_deltas", "valid", "most_freq_foll"},
             \A x \in DOMAIN e.next_deltas : e.next_deltas[x] \in Nat
      PROVE  \A x : /\ Followed(e, x) \in Nat
                    /\ Followed(access(e, nd), x) = Followed(e, x) + (IF x = nd THEN 1 ELSE 0)
  <2>1. PICK f : f = [d \in DOMAIN e.next_deltas \cup {nd} |-> Followed(e, d) + (IF d = nd THEN 1 ELSE 0)]
    OBVIOUS
  <2>2. access(e, nd) = [e EXCEPT !.next_deltas = f]
    BY <2>1 DEF access
  <2>3. access(e, nd).next_deltas = f
    BY <1>4, <2>2
  <2>4. \A x : Followed(e, x) \in Nat
    BY <1>4 DEF Followed
  <2>5. /\ DOMAIN f = DOMAIN e.next_deltas \cup {nd}
        /\ \A x \in DOMAIN f : f[x] = Followed(e, x) + (IF x = nd THEN 1 ELSE 0)
    BY <2>1
  <2>6. \A x : Followed(access(e, nd), x) = IF x \in DOMAIN f THEN f[x] ELSE 0
    BY <2>3 DEF Followed
  <2>7. \A x : x \notin DOMAIN f => Followed(e, x) = 0 /\ x # nd
    BY <2>5 DEF Followed
  <2> QED  BY <2>4, <2>5, <2>6, <2>7
<1>5. /\ DOMAIN DELTA_ENTRY = {"next_deltas", "valid", "most_freq_foll"}
      /\ DOMAIN DELTA_ENTRY.next_deltas = {} /\ \A x : Followed(DELTA_ENTRY, x) = 0
  BY DEF DELTA_ENTRY, Followed
<1>6. ASSUME NEW k, NEW x
      PROVE  CountOf(new, k, x) = CountOf(tables, k, x) + (IF k \in keys /\ x = nd THEN 1 ELSE 0)
  <2>1. CASE k \in keys
    <3>1. PICK e : e = IF k \in DOMAIN tables THEN tables[k] ELSE DELTA_ENTRY
      OBVIOUS
    <3>2. /\ DOMAIN e = {"next_deltas", "valid", "most_freq_foll"}
          /\ \A d \in DOMAIN e.next_deltas : e.next_deltas[d] \in Nat
      BY <1>5, <3>1 DEF EntryOK, TabNat
    <3>3. Followed(access(e, nd), x) = Followed(e, x) + (IF x = nd THEN 1 ELSE 0)
      BY <1>4, <3>2
    <3>4. k \in DOMAIN new /\ new[k] = access(e, nd)
      BY <1>3, <2>1, <3>1
    <3>5. CountOf(tables, k, x) = Followed(e, x)
      BY <1>5, <3>1 DEF CountOf
    <3> QED  BY <2>1, <3>3, <3>4, <3>5 DEF CountOf
  <2>2. CASE k \notin keys /\ k \in DOMAIN tables
    <3>1. Followed(tables[k], x) \in Nat
      BY <1>4, <2>2 DEF EntryOK, TabNat
    <3>2. k \in DOMAIN new /\ new[k] = tables[k]
      BY <1>3, <2>2
    <3> QED  BY <2>2, <3>1, <3>2 DEF CountOf
  <2>3. CASE k \notin keys /\ k \notin DOMAIN tables
    BY <1>3, <2>3 DEF CountOf
  <2> QED  BY <2>1, <2>2, <2>3
<1> QED  BY <1>1, <1>2, <1>3, <1>6 DEF CountedMore

\* So the tables count what follows when one more delta does.
LEMMA CountsGrow ==
  ASSUME NEW D, NEW E, NEW mb, NEW x \in Int, OneMore(D, E, mb, x), Len(D[mb]) < PHASE_LEN,
         NEW tables, \A k \in DOMAIN tables : EntryOK(tables[k]), TabNat(tables), CountsFollowers(tables, D),
         NEW hist \in Seq(Int), Len(hist) = Lesser(Len(D[mb]), MAX_DELTA),
         \A n \in 1 .. Len(hist) : Suffix(hist, n) = Suffix(D[mb], n)
  PROVE  CountsFollowers(update_tables(tables, hist, x), E)
<1>1. PICK new : new = update_tables(tables, hist, x)
  OBVIOUS
<1>2. PICK keys : keys = {Suffix(hist, i) : i \in 1 .. Len(hist)}
  OBVIOUS
<1>3. /\ DOMAIN new = DOMAIN tables \cup keys
      /\ \A k, y : CountOf(new, k, y) = CountOf(tables, k, y) + (IF k \in keys /\ y = x THEN 1 ELSE 0)
  <2>1. \A k \in DOMAIN tables : EntryOK(tables[k])
    OBVIOUS
  <2>2. CountedMore(new, tables, keys, x)
    BY <1>1, <1>2, <2>1, UpdatedCountOf
  <2> QED  BY <2>2 DEF CountedMore
<1>4. PICK at : at = [n \in 1 .. Len(hist) |-> <<mb, n, Len(D[mb]) + 1>>]
  OBVIOUS
<1>5. /\ Occurrences(E) = Occurrences(D) \cup Last(D, mb)
      /\ \A o \in Occurrences(D) : /\ HistoryAt(E, o) = HistoryAt(D, o) /\ FollowerAt(E, o) = FollowerAt(D, o)
                                   /\ o \notin Last(D, mb)
      /\ \A n \in 1 .. Len(hist) : HistoryAt(E, at[n]) = Suffix(hist, n) /\ FollowerAt(E, at[n]) = x
      /\ Last(D, mb) = {at[n] : n \in 1 .. Len(hist)}
  <2>1. /\ Occurrences(E) = Occurrences(D) \cup Last(D, mb)
        /\ \A o \in Occurrences(D) : /\ HistoryAt(E, o) = HistoryAt(D, o) /\ FollowerAt(E, o) = FollowerAt(D, o)
                                     /\ o \notin Last(D, mb)
        /\ \A n \in 1 .. Lesser(Len(D[mb]), MAX_DELTA) :
              LET o == <<mb, n, Len(D[mb]) + 1>>
              IN  HistoryAt(E, o) = Suffix(D[mb], n) /\ FollowerAt(E, o) = x
    BY OccurrencesGrow
  <2>2. Last(D, mb) = {at[n] : n \in 1 .. Len(hist)}
    BY <1>4 DEF Last
  <2>3. ASSUME NEW n \in 1 .. Len(hist)
        PROVE  HistoryAt(E, at[n]) = Suffix(hist, n) /\ FollowerAt(E, at[n]) = x
    BY <1>4, <2>1
  <2> QED  BY <2>1, <2>2, <2>3
<1>6. /\ DOMAIN tables = {HistoryAt(D, o) : o \in Occurrences(D)}
      /\ \A k, y : /\ IsFiniteSet(Matching(D, k, y))
                   /\ CountOf(tables, k, y) = Cardinality(Matching(D, k, y))
  BY DEF CountsFollowers
<1>7. DOMAIN new = {HistoryAt(E, o) : o \in Occurrences(E)}
  <2>1. {HistoryAt(E, o) : o \in Occurrences(E)}
          = {HistoryAt(E, o) : o \in Occurrences(D)} \cup {HistoryAt(E, o) : o \in Last(D, mb)}
    BY <1>5
  <2>2. {HistoryAt(E, o) : o \in Occurrences(D)} = DOMAIN tables
    BY <1>5, <1>6
  <2>3. {HistoryAt(E, o) : o \in Last(D, mb)} = keys
    BY <1>2, <1>5
  <2> QED  BY <1>3, <2>1, <2>2, <2>3
<1>8. \A n \in 1 .. Len(hist) : Len(Suffix(hist, n)) = n
  BY SuffixElements
<1>9. ASSUME NEW k, NEW y
      PROVE  IsFiniteSet(Matching(E, k, y)) /\ CountOf(new, k, y) = Cardinality(Matching(E, k, y))
  <2>1. PICK before : before = Matching(D, k, y)
    OBVIOUS
  <2>2. IsFiniteSet(before) /\ CountOf(tables, k, y) = Cardinality(before) /\ Cardinality(before) \in Nat
    BY <1>6, <2>1, FS_CardinalityType
  <2>3. Matching(E, k, y) = before \cup {o \in Last(D, mb) : HistoryAt(E, o) = k /\ FollowerAt(E, o) = y}
    BY <1>5, <2>1 DEF Matching
  <2>4. before \subseteq Occurrences(D)
    BY <2>1 DEF Matching
  <2>5. CASE k \in keys /\ y = x
    <3>1. PICK n \in 1 .. Len(hist) : k = Suffix(hist, n)
      BY <1>2, <2>5
    <3>2. \A l \in 1 .. Len(hist) : Suffix(hist, l) = k => l = n
      BY <1>8, <3>1
    <3>3. {o \in Last(D, mb) : HistoryAt(E, o) = k /\ FollowerAt(E, o) = y} = {at[n]}
      BY <1>5, <2>5, <3>1, <3>2
    <3>4. at[n] \notin before
      BY <1>5, <2>4
    <3>5. IsFiniteSet(before \cup {at[n]}) /\ Cardinality(before \cup {at[n]}) = Cardinality(before) + 1
      BY <2>2, <3>4, FS_AddElement
    <3> QED  BY <1>3, <2>2, <2>3, <2>5, <3>3, <3>5
  <2>6. CASE ~ (k \in keys /\ y = x)
    <3>1. {o \in Last(D, mb) : HistoryAt(E, o) = k /\ FollowerAt(E, o) = y} = {}
      BY <1>2, <1>5, <2>6
    <3>2. Matching(E, k, y) = before
      BY <2>3, <3>1
    <3> QED  BY <1>3, <2>2, <2>6, <3>2
  <2> QED  BY <2>5, <2>6
<1> QED  BY <1>1, <1>7, <1>9 DEF CountsFollowers

--------------------------------------------------------------------------------
(* Recording the tables *)

\* The deltas between the addresses a.
DeltasIn(a) == Deltas(a, 1, Len(a) - 1)

AllDeltas(A) == [b \in Blocks |-> DeltasIn(A[b])]

\* While a phase is recorded the tables count what follows in the deltas of its macroblocks.
FollowInv ==
  Recording => /\ TabNat(global_delta_tables)
               /\ \E A : Replays(A) /\ CountsFollowers(global_delta_tables, AllDeltas(A))

\* One more address is one more delta.
LEMMA DeltasInMore ==
  ASSUME NEW a \in Seq(Int), a # << >>, NEW x \in Int
  PROVE  /\ DeltasIn(a) \in Seq(Int) /\ Len(DeltasIn(a)) = Len(a) - 1
         /\ DeltasIn(Append(a, x)) = Append(DeltasIn(a), x - a[Len(a)])
<1>1. PICK b : b = Append(a, x)
  OBVIOUS
<1>2. PICK len : len = Len(a)
  OBVIOUS
<1>3. /\ len \in Nat \ {0} /\ b \in Seq(Int) /\ Len(b) = len + 1 /\ b[len + 1] = x
      /\ \A i \in 1 .. len : b[i] = a[i]
  BY <1>1, <1>2, AppendProperties
<1>4. DeltasIn(a) \in Seq(Int) /\ Len(DeltasIn(a)) = len - 1
  <2>1. 1 \in Nat \ {0} /\ len - 1 \in Nat /\ 1 + (len - 1) <= Len(a)
    BY <1>2, <1>3
  <2>2. Deltas(a, 1, len - 1) \in Seq(Int) /\ Len(Deltas(a, 1, len - 1)) = len - 1
    BY <2>1, DeltasAreSeq
  <2> QED  BY <1>2, <2>2 DEF DeltasIn
<1>5. Deltas(b, 1, len - 1) = DeltasIn(a)
  <2>1. 1 \in Nat \ {0} /\ len - 1 \in Int /\ 1 + (len - 1) <= Len(a)
    BY <1>2, <1>3
  <2>2. Deltas(Append(a, x), 1, len - 1) = Deltas(a, 1, len - 1)
    BY <2>1, DeltasOfLonger
  <2> QED  BY <1>1, <1>2, <2>2 DEF DeltasIn
<1>6. PICK n : n = len - 1
  OBVIOUS
<1>7. Append(Deltas(b, 1, n), b[1 + n + 1] - b[1 + n]) = Deltas(b, 1, n + 1)
  <2>1. b \in Seq(Int) /\ 1 \in Nat \ {0} /\ n \in Nat /\ 1 + n + 1 <= Len(b)
    BY <1>3, <1>6
  <2> QED  BY <2>1, OneMoreDelta, Zenon
<1>8. 1 + n = len /\ 1 + n + 1 = len + 1 /\ n + 1 = len /\ Len(b) - 1 = len /\ b[len] = a[len]
  BY <1>3, <1>6
<1>9. DeltasIn(b) = Append(DeltasIn(a), x - a[len])
  BY <1>3, <1>5, <1>6, <1>7, <1>8 DEF DeltasIn
<1> QED  BY <1>1, <1>2, <1>4, <1>9

\* The history that is held is the end of the deltas.
LEMMA HistoryEndsDeltas ==
  ASSUME NEW a \in Seq(Int), a # << >>
  PROVE  LET h == History(a, Len(a))
         IN  /\ h \in Seq(Int) /\ Len(h) = Lesser(Len(a) - 1, MAX_DELTA)
             /\ \A n \in 1 .. Len(h) : Suffix(h, n) = Suffix(DeltasIn(a), n)
<1>1. PICK len : len = Len(a)
  OBVIOUS
<1>2. len \in Nat \ {0} /\ len \in 1 .. Len(a)
  BY <1>1
<1>3. PICK h : h = History(a, len)
  OBVIOUS
<1>4. PICK all : all = Lesser(len - 1, MAX_DELTA)
  OBVIOUS
<1>5. /\ all \in 0 .. len - 1 /\ h = Deltas(a, len - all, all) /\ len - all \in Nat \ {0}
      /\ h \in Seq(Int) /\ Len(h) = all
  BY <1>2, <1>3, <1>4, HistoryIsDeltas
<1>6. ASSUME NEW n \in 1 .. all PROVE Suffix(h, n) = Suffix(DeltasIn(a), n)
  <2>1. Suffix(h, n) = Deltas(a, len - n, n)
    <3>1. PICK lo : lo = len - all
      OBVIOUS
    <3>2. lo \in Nat \ {0} /\ all \in Nat /\ lo + all <= Len(a) /\ lo + all - n = len - n
      BY <1>1, <1>2, <1>5, <3>1
    <3>3. Suffix(Deltas(a, lo, all), n) = Deltas(a, lo + all - n, n)
      BY <3>2, SuffixOfDeltas
    <3> QED  BY <1>5, <3>1, <3>2, <3>3
  <2>2. Suffix(DeltasIn(a), n) = Deltas(a, len - n, n)
    <3>1. PICK m : m = len - 1
      OBVIOUS
    <3>2. 1 \in Nat \ {0} /\ m \in Nat /\ 1 + m <= Len(a) /\ n \in 1 .. m /\ 1 + m - n = len - n
      BY <1>1, <1>2, <1>5, <3>1
    <3>3. Suffix(Deltas(a, 1, m), n) = Deltas(a, 1 + m - n, n)
      BY <3>2, SuffixOfDeltas
    <3> QED  BY <1>1, <3>1, <3>2, <3>3 DEF DeltasIn
  <2> QED  BY <2>1, <2>2
<1> QED  BY <1>1, <1>3, <1>4, <1>5, <1>6

\* A macroblock with one address has no deltas.
LEMMA NoDeltasIn == ASSUME NEW x PROVE DeltasIn(<<x>>) = << >>
<1>1. Len(<<x>>) - 1 \in Int /\ Len(<<x>>) - 1 <= 0
  OBVIOUS
<1> QED  BY <1>1, NoDeltas DEF DeltasIn

\* A macroblock without deltas counts nothing.
LEMMA CountsStay ==
  ASSUME NEW D, NEW E, NEW mb, NEW tables, CountsFollowers(tables, D), mb \notin DOMAIN D,
         DOMAIN E = DOMAIN D \cup {mb}, E[mb] = << >>, \A b \in DOMAIN D : E[b] = D[b]
  PROVE  CountsFollowers(tables, E)
<1>1. Occurrences(E) = Occurrences(D)
  <2>1. ASSUME NEW o \in Occurrences(D) PROVE o \in Occurrences(E)
    BY OccurrenceParts
  <2>2. ASSUME NEW o \in Occurrences(E) PROVE o \in Occurrences(D)
    <3>1. PICK b \in DOMAIN E, n \in 1 .. MAX_DELTA, g \in 1 .. PHASE_LEN :
            o = <<b, n, g>> /\ n < g /\ g <= Len(E[b])
      BY OccurrenceParts
    <3>2. b # mb
      <4>1. Len(<< >>) = 0 /\ g \in Nat \ {0}
        BY HaloAssumption
      <4> QED  BY <3>1, <4>1
    <3> QED  BY <3>1, <3>2, OccurrenceParts
  <2> QED  BY <2>1, <2>2
<1>2. \A o \in Occurrences(D) : HistoryAt(E, o) = HistoryAt(D, o) /\ FollowerAt(E, o) = FollowerAt(D, o)
  <2> SUFFICES ASSUME NEW o \in Occurrences(D)
               PROVE  HistoryAt(E, o) = HistoryAt(D, o) /\ FollowerAt(E, o) = FollowerAt(D, o)
    OBVIOUS
  <2>1. PICK b \in DOMAIN D, n \in 1 .. MAX_DELTA, g \in 1 .. PHASE_LEN :
          o = <<b, n, g>> /\ n < g /\ g <= Len(D[b])
    BY OccurrenceParts
  <2>2. o[1] = b /\ E[b] = D[b]
    BY <2>1
  <2> QED  BY <2>2 DEF HistoryAt, FollowerAt
<1>3. \A k, y : Matching(E, k, y) = Matching(D, k, y)
  BY <1>1, <1>2 DEF Matching
<1>4. {HistoryAt(E, o) : o \in Occurrences(E)} = {HistoryAt(D, o) : o \in Occurrences(D)}
  BY <1>1, <1>2
<1> QED  BY <1>3, <1>4 DEF CountsFollowers

\* A phase has no more than PHASE_LEN touches of a macroblock.
LEMMA TouchesFitPhase ==
  ASSUME IInv, CountInv, ReadElement, NEW A, Replays(A), NEW mb \in Blocks
  PROVE  Len(A[mb]) <= PHASE_LEN
<1>1. pc = "profile" /\ Recorded \in 0 .. PHASE_LEN - 1 /\ PHASE_LEN \in Nat
  BY ReadMovesOn, Numbers
<1>2. Base \in Int /\ num_elems \in Int /\ Base + Recorded = num_elems
  BY Numbers
<1>3. Phase = Base + 1 .. num_elems
  BY <1>1 DEF Phase, Base
<1>4. IsFiniteSet(Phase) /\ Cardinality(Phase) <= PHASE_LEN
  <2>1. Base + 1 \in Int
    BY <1>2
  <2>2. IsFiniteSet(Phase)
          /\ Cardinality(Phase) = IF Base + 1 > num_elems THEN 0 ELSE num_elems - (Base + 1) + 1
    BY <1>2, <1>3, <2>1, FS_Interval
  <2> QED  BY <1>1, <1>2, <2>2
<1>5. Cardinality(Touches(mb)) <= Cardinality(Phase) /\ Cardinality(Touches(mb)) \in Nat
        /\ Cardinality(Phase) \in Nat
  <2>1. Touches(mb) \subseteq Phase
    BY DEF Touches
  <2> QED  BY <1>4, <2>1, FS_Subset, FS_CardinalityType
<1>6. Len(A[mb]) = Cardinality(Touches(mb))
  BY <1>1 DEF Replays, Addresses, CountInv, BudgetConserved, Blocks
<1> QED  BY <1>1, <1>4, <1>5, <1>6

\* Reading an address counts its delta after all the histories that it follows.
LEMMA ReadFollows == ASSUME IInv, CountInv, FollowInv, ReadElement PROVE FollowInv'
<1>1. Recording /\ Recording' /\ pc = "profile"
  BY ReadMovesOn
<1>2. TabNat(global_delta_tables) /\ \E A : Replays(A) /\ CountsFollowers(global_delta_tables, AllDeltas(A))
  BY <1>1 DEF FollowInv
<1>3. PICK A : Replays(A) /\ CountsFollowers(global_delta_tables, AllDeltas(A))
  BY <1>2
<1>4. TabNat(global_delta_tables') /\ \E B : ReadOn(A, B) /\ Replays(B)'
  BY <1>2, <1>3, ReadReplays
<1>5. PICK B : ReadOn(A, B) /\ Replays(B)'
  BY <1>4
<1>6. PICK addr : addr = trace[num_elems + 1]
  OBVIOUS
<1>7. PICK mb : mb = MB(addr)
  OBVIOUS
<1>8. PICK m : m = per_MB_historytable[mb]
  OBVIOUS
<1>9. PICK tables : tables = global_delta_tables
  OBVIOUS
<1>10. PICK more : more = global_delta_tables'
  OBVIOUS
<1>11. /\ mem_access(addr)
       /\ more = IF mb \in Blocks THEN update_tables(tables, m.last_N_deltas, addr - m.last_addr) ELSE tables
  <2>1. mem_access(addr)
    BY <1>6 DEF ReadElement
  <2> QED  BY <1>7, <1>8, <1>9, <1>10, <2>1 DEF mem_access, Blocks
<1>12. Blocks' = Blocks \cup {mb}
  BY <1>6, <1>7, ReadCounts DEF ReadCounted
<1>13. addr \in Int
  <2>1. trace \in Seq(Nat) /\ num_elems \in 0 .. Len(trace) /\ num_elems < Len(trace)
    BY HaloAssumption DEF IInv, ControlInv, ReadElement
  <2> QED  BY <1>6, <2>1
<1>14. PICK D : D = AllDeltas(A)
  OBVIOUS
<1>15. PICK E : E = AllDeltas(B)'
  OBVIOUS
<1>16. /\ DOMAIN D = Blocks /\ DOMAIN E = Blocks \cup {mb}
       /\ \A b \in Blocks : D[b] = DeltasIn(A[b])
       /\ \A b \in Blocks \cup {mb} : E[b] = DeltasIn(B[b])
       /\ \A b \in Blocks : b # mb => E[b] = D[b]
       /\ B[mb] = IF mb \in Blocks THEN Append(A[mb], addr) ELSE <<addr>>
  <2>1. /\ B[mb] = IF mb \in Blocks THEN Append(A[mb], addr) ELSE <<addr>>
        /\ \A b \in Blocks : b # mb => B[b] = A[b]
    BY <1>5, <1>6, <1>7 DEF ReadOn
  <2>2. DOMAIN D = Blocks /\ \A b \in Blocks : D[b] = DeltasIn(A[b])
    BY <1>14 DEF AllDeltas
  <2>3. DOMAIN E = Blocks \cup {mb} /\ \A b \in Blocks \cup {mb} : E[b] = DeltasIn(B[b])
    BY <1>12, <1>15 DEF AllDeltas
  <2> QED  BY <2>1, <2>2, <2>3
<1>17. \A b \in Blocks : /\ A[b] \in Seq(Int) /\ A[b] # << >>
                         /\ DeltasIn(A[b]) \in Seq(Int) /\ Len(DeltasIn(A[b])) = Len(A[b]) - 1
  <2> SUFFICES ASSUME NEW b \in Blocks
               PROVE  /\ A[b] \in Seq(Int) /\ A[b] # << >>
                      /\ DeltasIn(A[b]) \in Seq(Int) /\ Len(DeltasIn(A[b])) = Len(A[b]) - 1
    OBVIOUS
  <2>1. A[b] \in Seq(Int) /\ A[b] # << >>
    BY <1>3 DEF Replays, Addresses
  <2> QED  BY <2>1, DeltasInMore, 0 \in Int
<1>18. CountsFollowers(more, E)
  <2>1. CASE mb \in Blocks
    <3>1. PICK a : a = A[mb]
      OBVIOUS
    <3>2. PICK x : x = addr - m.last_addr
      OBVIOUS
    <3>3. a \in Seq(Int) /\ a # << >> /\ Len(a) \in Nat \ {0} /\ a[Len(a)] \in Int
      BY <1>17, <2>1, <3>1
    <3>4. m.last_addr = a[Len(a)] /\ m.last_N_deltas = History(a, Len(a))
      BY <1>1, <1>3, <1>8, <2>1, <3>1 DEF Replays, WhileRecording, After
    <3>5. x \in Int /\ E[mb] = Append(D[mb], x) /\ Len(D[mb]) = Len(a) - 1 /\ D[mb] = DeltasIn(a)
      <4>1. DeltasIn(Append(a, addr)) = Append(DeltasIn(a), addr - a[Len(a)])
        BY <1>13, <3>3, DeltasInMore
      <4>2. D[mb] = DeltasIn(a) /\ E[mb] = DeltasIn(Append(a, addr)) /\ Len(DeltasIn(a)) = Len(a) - 1
        BY <1>16, <1>17, <2>1, <3>1
      <4>3. x = addr - a[Len(a)] /\ x \in Int
        BY <1>13, <3>2, <3>3, <3>4
      <4> QED  BY <4>1, <4>2, <4>3
    <3>6. OneMore(D, E, mb, x)
      <4>1. DOMAIN E = DOMAIN D
        BY <1>16, <2>1
      <4> QED  BY <1>16, <1>17, <2>1, <3>5, <4>1 DEF OneMore
    <3>7. Len(D[mb]) < PHASE_LEN
      <4>1. Len(a) <= PHASE_LEN /\ PHASE_LEN \in Nat
        BY <1>3, <2>1, <3>1, TouchesFitPhase, HaloAssumption
      <4> QED  BY <3>3, <3>5, <4>1
    <3>8. PICK hist : hist = m.last_N_deltas
      OBVIOUS
    <3>9. /\ hist \in Seq(Int) /\ Len(hist) = Lesser(Len(D[mb]), MAX_DELTA)
          /\ \A n \in 1 .. Len(hist) : Suffix(hist, n) = Suffix(D[mb], n)
      BY <3>3, <3>4, <3>5, <3>8, HistoryEndsDeltas
    <3>10. /\ \A k \in DOMAIN tables : EntryOK(tables[k])
           /\ TabNat(tables) /\ CountsFollowers(tables, D)
      BY <1>2, <1>3, <1>9, <1>14 DEF IInv, TablesInv
    <3>11. CountsFollowers(update_tables(tables, hist, x), E)
      BY <3>5, <3>6, <3>7, <3>9, <3>10, CountsGrow
    <3> QED  BY <1>11, <2>1, <3>2, <3>8, <3>11
  <2>2. CASE mb \notin Blocks
    <3>1. E[mb] = << >>
      BY <1>16, <2>2, NoDeltasIn
    <3>2. /\ CountsFollowers(tables, D) /\ mb \notin DOMAIN D /\ DOMAIN E = DOMAIN D \cup {mb}
          /\ \A b \in DOMAIN D : E[b] = D[b]
      BY <1>3, <1>9, <1>14, <1>16, <2>2
    <3>3. CountsFollowers(tables, E)
      BY <3>1, <3>2, CountsStay
    <3> QED  BY <1>11, <2>2, <3>3
  <2> QED  BY <2>1, <2>2
<1>19. CountsFollowers(global_delta_tables, AllDeltas(B))'
  BY <1>10, <1>15, <1>18
<1> QED  BY <1>4, <1>5, <1>19 DEF FollowInv

\* Nothing is counted of no macroblocks.
LEMMA NothingCounted ==
  ASSUME NEW D, DOMAIN D = {}, NEW tables, DOMAIN tables = {} PROVE CountsFollowers(tables, D)
<1>1. Occurrences(D) = {}
  BY OccurrenceParts
<1>2. \A k, y : Matching(D, k, y) = {}
  BY <1>1 DEF Matching
<1> QED  BY <1>1, <1>2, FS_EmptySet DEF CountsFollowers, CountOf

\* Every step keeps the invariant.
LEMMA NextFollows == IInv /\ CountInv /\ FollowInv /\ [Next]_vars => FollowInv'
<1> SUFFICES ASSUME IInv, CountInv, FollowInv, [Next]_vars PROVE FollowInv'
  OBVIOUS
<1>1. CASE ReadElement
  BY <1>1, ReadFollows
<1>2. CASE Prepare
  BY <1>2 DEF Prepare, Recording, FollowInv
<1>3. CASE EndOfTrace
  BY <1>3 DEF EndOfTrace, Recording, FollowInv
<1>4. CASE Select
  BY <1>4, SelectIsQuiet DEF Quiet, Drawing, Recording, FollowInv
<1>5. CASE Commit
  BY <1>5 DEF Commit, Abort, Recording, FollowInv
<1>6. CASE PhaseClear
  <2>1. /\ Blocks' = {} /\ DOMAIN global_delta_tables' = {} /\ TabNat(global_delta_tables')
        /\ Replays(<< >>)'
    BY <1>6, ClearReplays
  <2>2. DOMAIN AllDeltas(<< >>)' = {}
    BY <2>1 DEF AllDeltas
  <2>3. CountsFollowers(global_delta_tables', AllDeltas(<< >>)')
    BY <2>1, <2>2, NothingCounted
  <2> QED  BY <2>1, <2>3 DEF FollowInv
<1>7. CASE UNCHANGED vars
  <2>1. UNCHANGED <<per_MB_historytable, global_delta_tables, pc>>
    BY <1>7 DEF vars, profile
  <2>2. (Recording' <=> Recording) /\ \A A : AllDeltas(A)' = AllDeltas(A)
    BY <2>1 DEF Recording, AllDeltas, Blocks
  <2> QED  BY <1>7, <2>1, <2>2, StutterKeepsReplays DEF FollowInv
<1> QED  BY <1>1, <1>2, <1>3, <1>4, <1>5, <1>6, <1>7 DEF Next, Step, Terminated, Select

\* Before anything is read nothing is counted.
LEMMA InitFollows == Init => FollowInv
<1> SUFFICES ASSUME Init PROVE FollowInv
  OBVIOUS
<1>1. RecordedInv /\ Recording
  BY InitReplays DEF Init, Recording
<1>2. Blocks = {} /\ DOMAIN global_delta_tables = {}
  BY DEF Init, NoEntries, Blocks
<1>3. PICK A : Replays(A)
  BY <1>1 DEF RecordedInv
<1>4. DOMAIN AllDeltas(A) = {}
  BY <1>2 DEF AllDeltas
<1>5. CountsFollowers(global_delta_tables, AllDeltas(A))
  BY <1>2, <1>4, NothingCounted
<1> QED  BY <1>1, <1>3, <1>5 DEF FollowInv, RecordedInv

\* The addresses recorded are those of the touches, in order.
LEMMA TouchesInOrder ==
  ASSUME IInv, CountInv, Recording, NEW A, Replays(A), NEW mb \in Blocks
  PROVE  Len(A[mb]) = Cardinality(Touches(mb)) /\ \A n \in 1 .. Len(A[mb]) : A[mb][n] = trace[Touch(mb, n)]
<1>1. PICK T : T = Touches(mb)
  OBVIOUS
<1>2. /\ Base \in Int /\ num_elems \in Int /\ Recorded \in Int /\ Base + Recorded = num_elems
      /\ Phase = Base + 1 .. num_elems
  BY Numbers DEF Phase, Base, Recording
<1>3. T \subseteq Int /\ IsFiniteSet(T) /\ \A i \in T : i \in Base + 1 .. num_elems /\ MB(trace[i]) = mb
  <2>1. Base + 1 \in Int
    BY <1>2
  <2>2. IsFiniteSet(Base + 1 .. num_elems)
    BY <1>2, <2>1, FS_Interval
  <2>3. T \subseteq Base + 1 .. num_elems /\ \A i \in T : MB(trace[i]) = mb
    BY <1>1, <1>2 DEF Touches
  <2>4. IsFiniteSet(T)
    BY <2>2, <2>3, FS_Subset
  <2>5. \A i \in Base + 1 .. num_elems : i \in Int
    BY <1>2
  <2> QED  BY <2>3, <2>4, <2>5
<1>4. Len(A[mb]) = Cardinality(T)
  BY <1>1 DEF Replays, Addresses, CountInv, BudgetConserved, Blocks, Recording
<1>5. ASSUME NEW i \in T PROVE A[mb][Rank(T, i)] = trace[i]
  <2>1. PICK n : n = i - Base
    OBVIOUS
  <2>2. n \in 1 .. Recorded /\ Base + n = i /\ i <= num_elems
    BY <1>2, <1>3, <2>1
  <2>3. EarlyTouches(mb, n) = {j \in T : j <= i}
    <3>1. Base + 1 .. Base + n = {j \in Base + 1 .. num_elems : j <= i}
      BY <1>2, <2>2
    <3> QED  BY <1>1, <1>2, <3>1 DEF EarlyTouches, Touches
  <2>4. InOrder(A, n) /\ MB(trace[i]) = mb
    BY <1>3, <2>2 DEF Replays
  <2> QED  BY <2>2, <2>3, <2>4 DEF InOrder, Rank
<1>6. ASSUME NEW n \in 1 .. Len(A[mb]) PROVE A[mb][n] = trace[Touch(mb, n)]
  <2>1. n \in 1 .. Cardinality(T)
    BY <1>4
  <2>2. /\ \E i \in T : Rank(T, i) = n
        /\ \A i, j \in T : Rank(T, i) = Rank(T, j) => i = j
    BY <1>3, <2>1, RankedOnce
  <2>3. Touch(mb, n) = CHOOSE i \in T : Rank(T, i) = n
    BY <1>1 DEF Touch, Rank
  <2>4. Touch(mb, n) \in T /\ Rank(T, Touch(mb, n)) = n
    BY <2>2, <2>3
  <2> QED  BY <1>5, <2>4
<1> QED  BY <1>1, <1>4, <1>6

\* So the deltas recorded are those between consecutive touches.
LEMMA DeltasAreOf ==
  ASSUME IInv, CountInv, Recording, NEW A, Replays(A)
  PROVE  AllDeltas(A) = [mb \in DOMAIN per_MB_historytable |-> DeltasOf(mb)]
<1>1. ASSUME NEW mb \in Blocks PROVE DeltasIn(A[mb]) = DeltasOf(mb)
  <2>1. PICK a : a = A[mb]
    OBVIOUS
  <2>2. Len(a) = Cardinality(Touches(mb)) /\ \A n \in 1 .. Len(a) : a[n] = trace[Touch(mb, n)]
    BY <2>1, TouchesInOrder
  <2>3. Len(a) \in Nat
    BY <2>1 DEF Replays, Addresses
  <2>4. \A q \in 1 .. Len(a) - 1 : a[1 + q] - a[1 + q - 1] = trace[Touch(mb, q + 1)] - trace[Touch(mb, q)]
    <3> SUFFICES ASSUME NEW q \in 1 .. Len(a) - 1
                 PROVE  a[1 + q] - a[1 + q - 1] = trace[Touch(mb, q + 1)] - trace[Touch(mb, q)]
      OBVIOUS
    <3>1. 1 + q = q + 1 /\ 1 + q - 1 = q /\ q + 1 \in 1 .. Len(a) /\ q \in 1 .. Len(a)
      BY <2>3
    <3>2. a[q + 1] = trace[Touch(mb, q + 1)] /\ a[q] = trace[Touch(mb, q)]
      BY <2>2, <3>1
    <3> QED  BY <3>1, <3>2
  <2> QED  BY <2>1, <2>2, <2>4 DEF DeltasIn, Deltas, DeltasOf
<1> QED  BY <1>1 DEF AllDeltas, Blocks

\* While a phase is profiled the tables count, for every history of up to MAX_DELTA deltas of one
\* macroblock, exactly what followed it, whatever the trace: access_mb and update_tables.
THEOREM FollowersAreCounted == Spec => []TablesCountFollowers
<1>1. Spec => []CountInv
  BY Invariance, InitConserves, NextConserves, PTL DEF Spec
<1>2. IInv /\ CountInv /\ FollowInv => TablesCountFollowers
  <2> SUFFICES ASSUME IInv, CountInv, FollowInv, Recording PROVE TablesCountFollowers
    BY DEF TablesCountFollowers, Recording
  <2>1. PICK A : Replays(A) /\ CountsFollowers(global_delta_tables, AllDeltas(A))
    BY DEF FollowInv
  <2> DEFINE D == [mb \in DOMAIN per_MB_historytable |-> DeltasOf(mb)]
  <2>3. D = AllDeltas(A)
    BY <2>1, DeltasAreOf
  <2> HIDE DEF D
  <2>4. CountsFollowers(global_delta_tables, D)
    BY <2>1, <2>3
  <2>5. DOMAIN global_delta_tables = {HistoryAt(D, o) : o \in Occurrences(D)}
    BY <2>4 DEF CountsFollowers
  <2>6. ASSUME NEW o \in Occurrences(D)
        PROVE  Followed(global_delta_tables[HistoryAt(D, o)], FollowerAt(D, o)) =
                 Cardinality({p \in Occurrences(D) : /\ HistoryAt(D, p) = HistoryAt(D, o)
                                                     /\ FollowerAt(D, p) = FollowerAt(D, o)})
    <3>1. HistoryAt(D, o) \in DOMAIN global_delta_tables
      BY <2>5
    <3>2. CountOf(global_delta_tables, HistoryAt(D, o), FollowerAt(D, o))
            = Cardinality(Matching(D, HistoryAt(D, o), FollowerAt(D, o)))
      BY <2>4 DEF CountsFollowers
    <3> QED  BY <3>1, <3>2 DEF CountOf, Matching
  <2> DEFINE occurrences == {o \in (DOMAIN D) \X (1 .. MAX_DELTA) \X (1 .. PHASE_LEN) :
                               o[2] < o[3] /\ o[3] <= Len(D[o[1]])}
             history(o)  == SubSeq(D[o[1]], o[3] - o[2], o[3] - 1)
             follower(o) == D[o[1]][o[3]]
  <2>7. occurrences = Occurrences(D)
    BY DEF Occurrences
  <2>8. \A o : history(o) = HistoryAt(D, o) /\ follower(o) = FollowerAt(D, o)
    BY DEF HistoryAt, FollowerAt
  <2> HIDE DEF occurrences, history, follower
  <2>9. /\ DOMAIN global_delta_tables = {history(o) : o \in occurrences}
        /\ \A o \in occurrences :
             Followed(global_delta_tables[history(o)], follower(o)) =
               Cardinality({p \in occurrences : history(p) = history(o) /\ follower(p) = follower(o)})
    BY <2>5, <2>6, <2>7, <2>8
  <2> QED  BY <2>9 DEF TablesCountFollowers, D, occurrences, history, follower
<1> QED  BY <1>1, <1>2, Invariance, InitFollows, NextFollows, PTL DEF Spec
================================================================================
