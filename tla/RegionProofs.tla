------------------------------ MODULE RegionProofs -----------------------------
(***************************************************************************)
(* Theorems about Regions, for every number of regions, every size of a    *)
(* macroblock and every file: both readers of the file agree, the strides  *)
(* of a region replay the addresses of its macroblock, and what the        *)
(* placement reads is what was dealt out.                                  *)
(***************************************************************************)
EXTENDS Regions, SumTheorems, SequenceTheorems

--------------------------------------------------------------------------------
(* Sums *)

\* A sum of equal numbers.
LEMMA SumConstant ==
  ASSUME NEW S, IsFiniteSet(S), NEW t \in Int
  PROVE  SumFunctionOnSet([x \in S |-> t], S) = Cardinality(S) * t
<1> DEFINE f == [x \in S |-> t]
           T == {s \in SUBSET S : SumFunctionOnSet(f, s) # Cardinality(s) * t}
<1> SUFFICES ASSUME T # {} PROVE FALSE
  OBVIOUS
<1>1. PICK s \in T : \A y \in T : y \subseteq s => y = s
  <2>1. T \in SUBSET SUBSET S
    OBVIOUS
  <2> HIDE DEF T
  <2> QED  BY <2>1, SmallestSet
<1>2. IsFiniteSet(s) /\ s \subseteq S
  BY <1>1, FS_Subset
<1>3. CASE s = {}
  <2>1. SumFunctionOnSet(f, s) = 0 /\ Cardinality(s) = 0
    BY <1>3, SumEmpty, FS_EmptySet
  <2> QED  BY <1>1, <2>1
<1>4. CASE s # {}
  <2>1. PICK e \in s : TRUE
    BY <1>4
  <2>2. PICK u : u = s \ {e}
    OBVIOUS
  <2>3. IsFiniteSet(u) /\ u \subseteq s /\ u # s /\ Cardinality(u) = Cardinality(s) - 1
    BY <1>2, <2>1, <2>2, FS_RemoveElement
  <2>4. u \notin T /\ u \in SUBSET S
    BY <1>1, <1>2, <2>3
  <2>5. SumFunctionOnSet(f, u) = Cardinality(u) * t
    BY <2>4
  <2>6. \A x \in s : f[x] \in Int
    BY <1>2
  <2>7. SumFunctionOnSet(f, s) = f[e] + SumFunctionOnSet(f, u)
    BY <1>2, <2>1, <2>2, <2>6, SumRemove
  <2>8. Cardinality(s) \in Nat /\ f[e] = t
    BY <1>2, <2>1, FS_CardinalityType
  <2> HIDE DEF f
  <2>9. (Cardinality(s) - 1) * t = Cardinality(s) * t - t
    BY <2>8
  <2>10. SumFunctionOnSet(f, s) = Cardinality(s) * t
    BY <2>3, <2>5, <2>7, <2>8, <2>9
  <2> QED  BY <1>1, <2>10
<1> QED  BY <1>3, <1>4

\* The sum over as many elements, each worth as much as any other, is the greatest.
LEMMA GreatestSum ==
  ASSUME NEW f, NEW D, IsFiniteSet(D), \A x \in D : f[x] \in Nat,
         NEW M \in SUBSET D, \A m \in M, d \in D \ M : f[m] >= f[d],
         NEW S \in SUBSET D, Cardinality(S) <= Cardinality(M)
  PROVE  SumFunctionOnSet(f, S) <= SumFunctionOnSet(f, M)
<1> DEFINE B == S \cap M
           P == S \ M
           Q == M \ S
<1>1. /\ IsFiniteSet(S) /\ IsFiniteSet(M) /\ IsFiniteSet(B) /\ IsFiniteSet(P) /\ IsFiniteSet(Q)
      /\ \A x \in S \cup M : f[x] \in Nat /\ f[x] \in Int
  BY FS_Subset
<1>2. /\ S = B \cup P /\ M = B \cup Q /\ B \cap P = {} /\ B \cap Q = {}
  OBVIOUS
<1> HIDE DEF B, P, Q
<1>3. /\ SumFunctionOnSet(f, S) = SumFunctionOnSet(f, B) + SumFunctionOnSet(f, P)
      /\ SumFunctionOnSet(f, M) = SumFunctionOnSet(f, B) + SumFunctionOnSet(f, Q)
  BY <1>1, <1>2, SumDisjoint
<1>4. /\ Cardinality(S) = Cardinality(B) + Cardinality(P) /\ Cardinality(M) = Cardinality(B) + Cardinality(Q)
      /\ Cardinality(B) \in Nat /\ Cardinality(P) \in Nat /\ Cardinality(Q) \in Nat
  <2>1. /\ Cardinality(B \cup P) = Cardinality(B) + Cardinality(P) - Cardinality(B \cap P)
        /\ Cardinality(B \cup Q) = Cardinality(B) + Cardinality(Q) - Cardinality(B \cap Q)
    BY <1>1, FS_Union
  <2>2. Cardinality(B) \in Nat /\ Cardinality(P) \in Nat /\ Cardinality(Q) \in Nat
    BY <1>1, FS_CardinalityType
  <2>3. Cardinality(B \cap P) = 0 /\ Cardinality(B \cap Q) = 0
    BY <1>2, FS_EmptySet
  <2> QED  BY <1>2, <2>1, <2>2, <2>3
<1>5. Cardinality(P) <= Cardinality(Q)
  BY <1>4
<1>6. /\ SumFunctionOnSet(f, B) \in Int /\ SumFunctionOnSet(f, P) \in Int /\ SumFunctionOnSet(f, Q) \in Int
  BY <1>1, <1>2, SumInt
<1>7. CASE Q = {}
  <2>1. Cardinality(P) = 0
    BY <1>4, <1>5, <1>7, FS_EmptySet
  <2>2. P = {}
    BY <1>1, <2>1, FS_EmptySet
  <2> QED  BY <1>3, <1>6, <1>7, <2>2
<1>8. CASE Q # {}
  <2>1. PICK m \in Q : \A q \in Q : f[m] <= f[q]
    <3>1. {f[q] : q \in Q} \subseteq Nat /\ {f[q] : q \in Q} # {}
      BY <1>1, <1>2, <1>8
    <3>2. PICK v \in {f[q] : q \in Q} : \A w \in {f[q] : q \in Q} : v <= w
      BY <3>1, LeastNatural
    <3> QED  BY <3>2
  <2>2. PICK t : t = f[m]
    OBVIOUS
  <2>3. t \in Nat /\ \A q \in Q : t <= f[q]
    BY <1>1, <1>2, <2>1, <2>2
  <2>4. \A p \in P : f[p] <= t
    <3>1. m \in M /\ P \subseteq D \ M
      BY DEF P, Q
    <3> QED  BY <2>2, <3>1
  <2>5. SumFunctionOnSet(f, P) <= Cardinality(P) * t
    <3>1. PICK g : g = [x \in P |-> t]
      OBVIOUS
    <3>2. \A x \in P : f[x] \in Int /\ g[x] \in Int /\ f[x] <= g[x]
      BY <1>1, <1>2, <2>3, <2>4, <3>1
    <3>3. SumFunctionOnSet(f, P) <= SumFunctionOnSet(g, P)
      BY <1>1, <3>2, SumMonotone
    <3>4. SumFunctionOnSet(g, P) = Cardinality(P) * t
      BY <1>1, <2>3, <3>1, SumConstant, t \in Int
    <3> QED  BY <3>3, <3>4
  <2>6. Cardinality(Q) * t <= SumFunctionOnSet(f, Q)
    <3>1. PICK g : g = [x \in Q |-> t]
      OBVIOUS
    <3>2. \A x \in Q : g[x] \in Int /\ f[x] \in Int /\ g[x] <= f[x]
      BY <1>1, <1>2, <2>3, <3>1
    <3>3. SumFunctionOnSet(g, Q) <= SumFunctionOnSet(f, Q)
      BY <1>1, <3>2, SumMonotone
    <3>4. SumFunctionOnSet(g, Q) = Cardinality(Q) * t
      BY <1>1, <2>3, <3>1, SumConstant, t \in Int
    <3> QED  BY <3>3, <3>4
  <2>7. Cardinality(P) * t <= Cardinality(Q) * t
    <3>1. PICK a, b : a = Cardinality(P) /\ b = Cardinality(Q)
      OBVIOUS
    <3>2. a \in Nat /\ b \in Nat /\ a <= b
      BY <1>4, <1>5, <3>1
    <3>3. PICK k \in Nat : b = a + k
      BY <3>2, b - a \in Nat
    <3>4. (a + k) * t = a * t + k * t /\ k * t >= 0 /\ a * t \in Int /\ k * t \in Int
      BY <2>3, <3>2, <3>3
    <3> QED  BY <3>1, <3>3, <3>4
  <2>8. Cardinality(P) * t \in Int /\ Cardinality(Q) * t \in Int
    BY <1>4, <2>3
  <2> QED  BY <1>3, <1>6, <2>5, <2>6, <2>7, <2>8
<1> QED  BY <1>7, <1>8

\* The elements of I with a value in S; and c counts those of each of these values.
With(I, b, S) == {i \in I : b[i] \in S}
Counts(c, I, b, S) == \A x \in S : c[x] = Cardinality({i \in I : b[i] = x})

\* What is counted for each of some values is counted for all of them.
LEMMA SumOfCounts ==
  ASSUME NEW I, IsFiniteSet(I), NEW b, NEW c, NEW S, IsFiniteSet(S), Counts(c, I, b, S)
  PROVE  SumFunctionOnSet(c, S) = Cardinality(With(I, b, S))
<1> USE DEF With, Counts
<1> DEFINE In(s) == {i \in I : b[i] \in s}
           T == {s \in SUBSET S : SumFunctionOnSet(c, s) # Cardinality(In(s))}
<1> SUFFICES ASSUME T # {} PROVE FALSE
  OBVIOUS
<1>0. \A x \in S : c[x] \in Nat /\ c[x] \in Int
  <2> SUFFICES ASSUME NEW x \in S PROVE c[x] \in Nat
    OBVIOUS
  <2>1. IsFiniteSet({i \in I : b[i] = x})
    BY FS_Subset
  <2> QED  BY <2>1, FS_CardinalityType
<1>1. PICK s \in T : \A y \in T : y \subseteq s => y = s
  <2>1. T \in SUBSET SUBSET S
    OBVIOUS
  <2> HIDE DEF T
  <2> QED  BY <2>1, SmallestSet
<1>2. IsFiniteSet(s) /\ s \subseteq S
  BY <1>1, FS_Subset
<1>3. CASE s = {}
  <2>1. SumFunctionOnSet(c, s) = 0 /\ In(s) = {}
    BY <1>3, SumEmpty
  <2> QED  BY <1>1, <2>1, FS_EmptySet
<1>4. CASE s # {}
  <2>1. PICK e \in s : TRUE
    BY <1>4
  <2>2. PICK u : u = s \ {e}
    OBVIOUS
  <2>3. u \subseteq s /\ u # s /\ u \in SUBSET S /\ u \notin T
    BY <1>1, <1>2, <2>1, <2>2
  <2>4. SumFunctionOnSet(c, u) = Cardinality(In(u))
    BY <2>3
  <2>5. SumFunctionOnSet(c, s) = c[e] + SumFunctionOnSet(c, u)
    BY <1>0, <1>2, <2>1, <2>2, SumRemove
  <2>6. PICK X : X = {i \in I : b[i] = e}
    OBVIOUS
  <2>7. PICK Y : Y = In(u)
    OBVIOUS
  <2>8. In(s) = X \cup Y /\ X \cap Y = {} /\ X \subseteq I /\ Y \subseteq I
    BY <2>1, <2>2, <2>6, <2>7
  <2>9. IsFiniteSet(X) /\ IsFiniteSet(Y)
    BY <2>8, FS_Subset
  <2>10. Cardinality(X \cup Y) = Cardinality(X) + Cardinality(Y) - Cardinality(X \cap Y)
           /\ Cardinality(X \cap Y) = 0
    BY <2>8, <2>9, FS_Union, FS_EmptySet
  <2>11. Cardinality(X) \in Nat /\ Cardinality(Y) \in Nat /\ c[e] = Cardinality(X)
    BY <1>2, <2>1, <2>6, <2>9, FS_CardinalityType
  <2> HIDE DEF In
  <2>12. SumFunctionOnSet(c, s) = Cardinality(In(s))
    BY <2>4, <2>5, <2>7, <2>8, <2>10, <2>11
  <2> QED  BY <1>1, <2>12
<1> QED  BY <1>3, <1>4

--------------------------------------------------------------------------------
(* Operators of the converter *)

\* sort() gives every number once.
LEMMA SortedOnce ==
  ASSUME NEW S, IsFiniteSet(S), S \subseteq Nat
  PROVE  /\ Sorted(S) \in Seq(Nat) /\ Len(Sorted(S)) = Cardinality(S)
         /\ {Sorted(S)[i] : i \in 1 .. Cardinality(S)} = S
         /\ \A i, j \in 1 .. Cardinality(S) : Sorted(S)[i] = Sorted(S)[j] => i = j
<1>0. S \subseteq Int
  OBVIOUS
<1>1. PICK card \in Nat : card = Cardinality(S)
  BY FS_CardinalityType
<1>2. \A i \in 1 .. card : Sorted(S)[i] \in S /\ Rank(S, Sorted(S)[i]) = i
  <2> SUFFICES ASSUME NEW i \in 1 .. card PROVE Sorted(S)[i] \in S /\ Rank(S, Sorted(S)[i]) = i
    OBVIOUS
  <2>1. \E m \in S : Rank(S, m) = i
    <3>1. i \in 1 .. Cardinality(S)
      BY <1>1
    <3>2. /\ \E p \in S : Rank(S, p) = i
          /\ \A p, q \in S : Rank(S, p) = Rank(S, q) => p = q
      BY <1>0, <3>1, RankedOnce
    <3> QED  BY <3>2
  <2>2. Sorted(S)[i] = CHOOSE m \in S : Rank(S, m) = i
    BY <1>1 DEF Sorted, Rank
  <2> QED  BY <2>1, <2>2
<1>3. ASSUME NEW m \in S PROVE \E i \in 1 .. card : Sorted(S)[i] = m
  <2>1. Rank(S, m) \in 1 .. card
    BY <1>0, <1>1, RankRange
  <2>2. \A p, q \in S : Rank(S, p) = Rank(S, q) => p = q
    <3>1. 1 \in 1 .. Cardinality(S)
      BY <1>1, <2>1
    <3> QED  BY <1>0, <3>1, RankedOnce
  <2> QED  BY <1>2, <2>1, <2>2
<1>4. Sorted(S) \in [1 .. card -> Nat]
  <2>1. Sorted(S) = [i \in 1 .. card |-> Sorted(S)[i]]
    BY <1>1 DEF Sorted
  <2> QED  BY <1>2, <2>1
<1>5. Sorted(S) \in Seq(Nat) /\ Len(Sorted(S)) = card
  BY <1>4
<1>6. \A i, j \in 1 .. card : Sorted(S)[i] = Sorted(S)[j] => i = j
  BY <1>2
<1>7. {Sorted(S)[i] : i \in 1 .. card} = S
  BY <1>2, <1>3
<1> QED  BY <1>1, <1>5, <1>6, <1>7

\* Numbers for the regions: one for each.
Numbered == dom_mb \in Seq(Nat) /\ Len(dom_mb) = NUM_REG

\* find() gives the region of a macroblock that has one.
LEMMA IndexOf ==
  ASSUME Numbered, NEW mb
  PROVE  /\ Index(mb) \in Regions
         /\ Index(mb) = NUM_REG <=> mb \notin ToSet(dom_mb)
         /\ Index(mb) # NUM_REG => dom_mb[Index(mb) + 1] = mb /\ Index(mb) + 1 \in 1 .. NUM_REG
<1> USE RegionsAssumption
<1>1. ToSet(dom_mb) = {dom_mb[i] : i \in 1 .. NUM_REG}
  BY DEF ToSet, Numbered
<1>2. CASE mb \in ToSet(dom_mb)
  <2>1. PICK S : S = {i \in 1 .. NUM_REG : dom_mb[i] = mb}
    OBVIOUS
  <2>2. S # {} /\ S \subseteq Nat
    BY <1>1, <1>2, <2>1
  <2>3. Min(S) \in S
    <3>1. \E m \in S : \A n \in S : m <= n
      BY <2>2, LeastNatural
    <3> QED  BY <3>1 DEF Min
  <2>4. Index(mb) = Min(S) - 1
    BY <1>1, <1>2, <2>1 DEF Index
  <2>5. Min(S) \in 1 .. NUM_REG /\ dom_mb[Min(S)] = mb
    BY <2>1, <2>3
  <2>6. PICK m : m = Min(S)
    OBVIOUS
  <2> QED  BY <1>2, <2>4, <2>5, <2>6 DEF Regions
<1>3. CASE mb \notin ToSet(dom_mb)
  BY <1>1, <1>3 DEF Index, Regions
<1> QED  BY <1>2, <1>3

\* A region other than the last has one macroblock.
LEMMA OneBlock ==
  ASSUME Numbered, NEW mb, NEW r \in 0 .. NUM_REG - 1, Index(mb) = r
  PROVE  dom_mb[r + 1] = mb
<1>1. Index(mb) # NUM_REG
  BY RegionsAssumption
<1> QED  BY <1>1, IndexOf

\* What is pushed is an int, and a number that is an int is pushed as it is.
LEMMA StrideInt ==
  ASSUME NEW d \in Int
  PROVE  Stride(d) \in Ints /\ (d \in Ints => Stride(d) = d)
<1> USE RegionsAssumption
<1>1. PICK h \in Nat \ {0} : INT_RANGE = h + h /\ INT_RANGE \div 2 = h
  <2>1. INT_RANGE = 2 * (INT_RANGE \div 2) + (INT_RANGE % 2) /\ INT_RANGE \div 2 \in Int
    OBVIOUS
  <2> QED  BY <2>1
<1>2. PICK n \in Int : n = d + h
  OBVIOUS
<1>3. PICK m \in Int : m = n % INT_RANGE
  OBVIOUS
<1>4. m \in 0 .. INT_RANGE - 1
  BY <1>3
<1>5. n \in 0 .. INT_RANGE - 1 => m = n
  BY <1>3
<1>6. Stride(d) = m - h /\ Ints = - h .. h - 1
  BY <1>1, <1>2, <1>3 DEF Stride, Ints
<1> QED  BY <1>1, <1>2, <1>4, <1>5, <1>6

\* Two addresses of one macroblock differ by less than its size.
LEMMA SameBlock ==
  ASSUME NEW a \in Nat, NEW b \in Nat, a \div BLOCK_SIZE = b \div BLOCK_SIZE
  PROVE  /\ a - b \in Ints /\ a - b \in Int
         /\ b = 0 => a < BLOCK_SIZE
<1> USE RegionsAssumption
<1>1. PICK q \in Int : q = BLOCK_SIZE * (a \div BLOCK_SIZE) /\ q = BLOCK_SIZE * (b \div BLOCK_SIZE)
  <2>1. a \div BLOCK_SIZE \in Int
    OBVIOUS
  <2>2. BLOCK_SIZE * (a \div BLOCK_SIZE) \in Int
    BY <2>1
  <2> QED  BY <2>2
<1>2. PICK c \in Int, e \in Int : c = a % BLOCK_SIZE /\ e = b % BLOCK_SIZE
  OBVIOUS
<1>3. c \in 0 .. BLOCK_SIZE - 1 /\ e \in 0 .. BLOCK_SIZE - 1
  BY <1>2
<1>4. a = q + c /\ b = q + e
  BY <1>1, <1>2
<1>5. b = 0 => q = 0
  <2> SUFFICES ASSUME b = 0 PROVE q = 0
    OBVIOUS
  <2>1. 0 \div BLOCK_SIZE = 0
    OBVIOUS
  <2> QED  BY <1>1, <2>1
<1>6. PICK h \in Nat \ {0} : INT_RANGE = h + h /\ INT_RANGE \div 2 = h
  <2>1. INT_RANGE = 2 * (INT_RANGE \div 2) + (INT_RANGE % 2) /\ INT_RANGE \div 2 \in Int
    OBVIOUS
  <2> QED  BY <2>1
<1>7. BLOCK_SIZE <= h /\ Ints = - h .. h - 1
  BY <1>6 DEF Ints
<1> QED  BY <1>3, <1>4, <1>5, <1>7
--------------------------------------------------------------------------------
(* The invariant *)

Record == [mb : Nat, addr : Nat, offset : Int]

\* The lines of the file that list an access.
Listed == Heads + 1 .. Len(trace)

\* The file: the head lines of the tool, and accesses.
FileInv ==
  /\ HALO \in BOOLEAN
  /\ trace \in Seq(Record) /\ Heads <= Len(trace)
  /\ \A i \in 1 .. Len(trace) : (i <= Heads => trace[i] = HeadLine) /\ (i > Heads => trace[i] \in Lines)
  /\ split \in 0 .. Len(trace)
  /\ last_addr \in [Regions -> Nat]
  /\ reg_traces \in [Regions -> Seq(Ints)]
  /\ at \in {"counting", "splitting", "printed", "made", "failed"}

\* The first reader's dictionary counts the accesses to each macroblock.
CountInv ==
  /\ DOMAIN mb_counts = {Block(trace[i]) : i \in Listed}
  /\ \A b \in DOMAIN mb_counts : mb_counts[b] = Cardinality({i \in Listed : Block(trace[i]) = b})

\* The regions got the macroblocks mbs, and 0 for want of more.
Chose(mbs) ==
  /\ mbs \subseteq DOMAIN mb_counts /\ Dominant(mbs)
  /\ Numbered
  /\ ToSet(dom_mb) = mbs \cup (IF Cardinality(mbs) = NUM_REG THEN {} ELSE {0})
  /\ Cardinality(mbs) = NUM_REG => \A i, j \in 1 .. NUM_REG : dom_mb[i] = dom_mb[j] => i = j

ChosenInv == at # "counting" => \E mbs : Chose(mbs)

\* The lines dealt out to a region so far.
Dealt(r) == {i \in 1 .. split : Index(Block(trace[i])) = r}

\* The strides of a region replay the addresses of the lines dealt out to it.
Replayed(r) ==
  /\ Dealt(r) = {} => last_addr[r] = 0
  /\ \A i \in Dealt(r) : Rank(Dealt(r), i) = Cardinality(Dealt(r)) => last_addr[r] = trace[i].addr
  /\ \A i, j \in Dealt(r) : Rank(Dealt(r), j) = Rank(Dealt(r), i) + 1 =>
       trace[j].addr = trace[i].addr + reg_traces[r][Rank(Dealt(r), j)]

DealtInv ==
  IF at = "counting"
  THEN split = 0 /\ \A r \in Regions : reg_traces[r] = << >> /\ (r # NUM_REG => last_addr[r] = 0)
  ELSE \A r \in Regions : Len(reg_traces[r]) = Cardinality(Dealt(r))

ReplayInv == ~ HALO /\ at # "counting" => \A r \in Regions : r # NUM_REG => Replayed(r)

\* The printed lines: one for each region with strides, and the labels left over.
PrintedInv ==
  at \in {"printed", "made", "failed"} =>
    /\ split = Len(trace)
    /\ \E tail : /\ tail \subseteq {LastLine} /\ (NUM_REG \in Filled => tail = {})
                 /\ printed = {Line(r) : r \in Filled} \cup tail

JsonInv ==
  /\ at = "made" =>
       /\ \A line \in printed : Readable(line)
       /\ json = [r \in {Min(line.labels) : line \in printed} |->
                   (CHOOSE line \in printed : Min(line.labels) = r).strides]
  /\ at = "failed" => \E line \in printed : ~ Readable(line)

RegionInv == FileInv /\ CountInv /\ ChosenInv /\ DealtInv /\ PrintedInv /\ JsonInv

LEMMA LinesAreRecords == ASSUME FileInv PROVE Lines \subseteq Record /\ HeadLine \in Record /\ Heads \in Nat
  BY RegionsAssumption DEF FileInv, Lines, Record, HeadLine, Heads

\* Every line has a macroblock; that of a head line is 0.
LEMMA BlockNat ==
  ASSUME NEW line \in Record
  PROVE  Block(line) \in Nat /\ Block(HeadLine) = 0
<1> USE RegionsAssumption
<1>1. line.mb \in Nat /\ line.addr \in Nat
  BY DEF Record
<1>2. line.addr \div BLOCK_SIZE \in Nat /\ 0 \div BLOCK_SIZE = 0
  BY <1>1
<1> QED  BY <1>1, <1>2 DEF Block, HeadLine

LEMMA InitRegions == Init => RegionInv /\ ReplayInv
<1> SUFFICES ASSUME Init PROVE RegionInv /\ ReplayInv
  OBVIOUS
<1> USE RegionsAssumption
<1>1. Heads \in Nat /\ HeadLine \in Record
  BY DEF Init, Heads, HeadLine, Record
<1>2. trace \in Seq(Record) /\ Len(trace) = Heads
  <2>1. trace \in [1 .. Heads -> Record]
    BY <1>1 DEF Init
  <2> QED  BY <1>1, <2>1
<1>3. \A i \in 1 .. Len(trace) : (i <= Heads => trace[i] = HeadLine) /\ (i > Heads => trace[i] \in Lines)
  BY <1>1, <1>2 DEF Init
<1>4. last_addr \in [Regions -> Nat] /\ \A r \in Regions : r # NUM_REG => last_addr[r] = 0
  <2>1. PICK garbage \in Nat : last_addr = [r \in Regions |-> IF r < NUM_REG THEN 0 ELSE garbage]
    BY DEF Init
  <2> QED  BY <2>1 DEF Regions
<1>5. reg_traces \in [Regions -> Seq(Ints)] /\ \A r \in Regions : reg_traces[r] = << >>
  BY DEF Init
<1>6. at = "counting" /\ split = 0 /\ HALO \in BOOLEAN
  BY DEF Init
<1>7. FileInv
  BY <1>1, <1>2, <1>3, <1>4, <1>5, <1>6 DEF FileInv
<1>8. Listed = {} /\ DOMAIN mb_counts = {}
  BY <1>1, <1>2 DEF Init, Listed
<1>9. CountInv
  BY <1>8 DEF CountInv
<1> QED  BY <1>4, <1>5, <1>6, <1>7, <1>9 DEF RegionInv, ChosenInv, DealtInv, ReplayInv, PrintedInv, JsonInv

\* The first reader counts a line.
LEMMA CountRegions ==
  ASSUME RegionInv, NEW line \in Lines, Count(line)
  PROVE  RegionInv' /\ ReplayInv'
<1> USE RegionsAssumption
<1>0. FileInv /\ CountInv /\ DealtInv /\ at = "counting" /\ Heads \in Nat
  BY LinesAreRecords DEF RegionInv, Count
<1>1. PICK n \in Nat : n = Len(trace) /\ Heads <= n
  BY <1>0 DEF FileInv
<1>2. /\ line \in Record
      /\ trace' \in Seq(Record) /\ Len(trace') = n + 1 /\ trace'[n + 1] = line
      /\ \A i \in 1 .. n : trace'[i] = trace[i]
  <2>1. line \in Record /\ trace \in Seq(Record) /\ trace' = Append(trace, line)
    BY <1>0, LinesAreRecords DEF FileInv, Count
  <2> QED  BY <1>1, <2>1
<1>3. /\ at' = "counting" /\ Heads' = Heads /\ Lines' = Lines /\ HALO' = HALO /\ split' = split
      /\ last_addr' = last_addr /\ reg_traces' = reg_traces
      /\ \A l : Block(l)' = Block(l)
  BY <1>0 DEF Count, Heads, Lines, Block
<1>4. FileInv'
  <2>1. \A i \in 1 .. n + 1 : (i <= Heads => trace'[i] = HeadLine) /\ (i > Heads => trace'[i] \in Lines)
    <3>1. ASSUME NEW i \in 1 .. n
                 PROVE (i <= Heads => trace'[i] = HeadLine) /\ (i > Heads => trace'[i] \in Lines)
      BY <1>0, <1>1, <1>2 DEF FileInv
    <3>2. ~ (n + 1 <= Heads) /\ trace'[n + 1] \in Lines
      BY <1>0, <1>1, <1>2
    <3>3. \A i \in 1 .. n + 1 : i \in 1 .. n \/ i = n + 1
      BY <1>1
    <3> QED  BY <3>1, <3>2, <3>3
  <2> QED  BY <1>0, <1>1, <1>2, <1>3, <2>1 DEF FileInv
<1>5. CountInv'
  <2>1. Listed' = Listed \cup {n + 1} /\ n + 1 \notin Listed /\ Listed = Heads + 1 .. n
    BY <1>0, <1>1, <1>2, <1>3 DEF Listed
  <2>2. PICK b, c : b = [i \in Listed |-> Block(trace[i])] /\ c = [i \in Listed' |-> Block(trace'[i])]
    OBVIOUS
  <2>3. c[n + 1] = Block(line) /\ \A i \in Listed : c[i] = b[i]
    <3>1. \A i \in Listed : trace'[i] = trace[i]
      BY <1>0, <1>2, <2>1
    <3> QED  BY <1>2, <2>1, <2>2, <3>1
  <2>4. PICK e : e = Block(line)
    OBVIOUS
  <2>5. /\ DOMAIN mb_counts = {b[i] : i \in Listed}
        /\ \A m \in DOMAIN mb_counts : mb_counts[m] = Cardinality({i \in Listed : b[i] = m})
    <3>1. {i \in Listed : b[i] = Block(trace[i])} = Listed
      BY <2>2
    <3>2. \A m : {i \in Listed : b[i] = m} = {i \in Listed : Block(trace[i]) = m}
      BY <2>2
    <3>3. {b[i] : i \in Listed} = {Block(trace[i]) : i \in Listed}
      BY <2>2
    <3> QED  BY <1>0, <3>2, <3>3 DEF CountInv
  <2>6. /\ DOMAIN mb_counts' = DOMAIN mb_counts \cup {e}
        /\ \A m \in DOMAIN mb_counts' :
              mb_counts'[m] = (IF m \in DOMAIN mb_counts THEN mb_counts[m] ELSE 0) + (IF m = e THEN 1 ELSE 0)
    BY <2>4 DEF Count
  <2>7. DOMAIN mb_counts' = {c[i] : i \in Listed'}
    BY <2>1, <2>3, <2>4, <2>5, <2>6
  <2>8. ASSUME NEW m \in DOMAIN mb_counts' PROVE mb_counts'[m] = Cardinality({i \in Listed' : c[i] = m})
    <3>1. PICK P : P = {i \in Listed : b[i] = m}
      OBVIOUS
    <3>2. IsFiniteSet(P) /\ Cardinality(P) \in Nat
      <4>1. IsFiniteSet(Listed)
        BY <1>0, <2>1, FS_Interval
      <4>2. P \subseteq Listed
        BY <3>1
      <4> QED  BY <4>1, <4>2, FS_Subset, FS_CardinalityType
    <3>3. (IF m \in DOMAIN mb_counts THEN mb_counts[m] ELSE 0) = Cardinality(P)
      <4>1. CASE m \in DOMAIN mb_counts
        BY <2>5, <3>1, <4>1
      <4>2. CASE m \notin DOMAIN mb_counts
        <5>1. P = {}
          BY <2>5, <3>1, <4>2
        <5> QED  BY <4>2, <5>1, FS_EmptySet
      <4> QED  BY <4>1, <4>2
    <3>4. CASE m = e
      <4>1. {i \in Listed' : c[i] = m} = P \cup {n + 1} /\ n + 1 \notin P
        BY <2>1, <2>3, <2>4, <3>1, <3>4
      <4>2. Cardinality(P \cup {n + 1}) = Cardinality(P) + 1
        BY <3>2, <4>1, FS_AddElement
      <4> QED  BY <2>6, <3>3, <3>4, <4>1, <4>2
    <3>5. CASE m # e
      <4>1. {i \in Listed' : c[i] = m} = P
        BY <2>1, <2>3, <2>4, <3>1, <3>5
      <4>2. mb_counts'[m] = Cardinality(P) + 0
        BY <2>6, <3>3, <3>5
      <4>3. mb_counts'[m] = Cardinality(P)
        BY <3>2, <4>2
      <4>4. Cardinality({i \in Listed' : c[i] = m}) = Cardinality(P)
        BY <4>1
      <4> QED  BY <4>3, <4>4
    <3> QED  BY <3>4, <3>5
  <2>9. {c[i] : i \in Listed'} = {Block(trace'[i]) : i \in Listed'}
        /\ \A m : {i \in Listed' : c[i] = m} = {i \in Listed' : Block(trace'[i]) = m}
    BY <2>2
  <2>10. \A i : Block(trace[i])' = Block(trace'[i])
    BY <1>3 DEF Block
  <2>11. DOMAIN mb_counts' = {Block(trace'[i]) : i \in Listed'}
    BY <2>7, <2>9
  <2>12. \A m \in DOMAIN mb_counts' : mb_counts'[m] = Cardinality({i \in Listed' : Block(trace'[i]) = m})
    BY <2>8, <2>9
  <2>13. (\A l : Block(l)' = Block(l)) => (CountInv' <=>
            /\ DOMAIN mb_counts' = {Block(trace'[i]) : i \in Listed'}
            /\ \A m \in DOMAIN mb_counts' : mb_counts'[m] = Cardinality({i \in Listed' : Block(trace'[i]) = m}))
    BY <1>3 DEF CountInv, Block
  <2> QED  BY <1>3, <2>11, <2>12, <2>13
<1>6. DealtInv'
  BY <1>0, <1>3 DEF DealtInv, Regions
<1> QED  BY <1>3, <1>4, <1>5, <1>6 DEF RegionInv, ChosenInv, ReplayInv, PrintedInv, JsonInv

\* The first reader's dictionary is finite, and its keys are numbers.
LEMMA FiniteBlocks ==
  ASSUME FileInv, CountInv
  PROVE  IsFiniteSet(DOMAIN mb_counts) /\ DOMAIN mb_counts \subseteq Nat /\ IsFiniteSet(Listed)
<1>1. Heads \in Nat /\ Len(trace) \in Nat /\ trace \in Seq(Record)
  BY LinesAreRecords DEF FileInv
<1>2. IsFiniteSet(Listed) /\ \A i \in Listed : trace[i] \in Record
  <2>1. IsFiniteSet(Heads + 1 .. Len(trace))
    BY <1>1, FS_Interval
  <2>2. \A i \in Heads + 1 .. Len(trace) : i \in 1 .. Len(trace)
    BY <1>1
  <2> QED  BY <1>1, <2>1, <2>2 DEF Listed
<1>3. IsFiniteSet({Block(trace[i]) : i \in Listed})
  <2>1. PICK b : b = [i \in Listed |-> Block(trace[i])]
    OBVIOUS
  <2>2. {Block(trace[i]) : i \in Listed} = {b[i] : i \in Listed}
    BY <2>1
  <2>3. b \in Surjection(Listed, {b[i] : i \in Listed})
    BY <2>1 DEF Surjection
  <2> QED  BY <1>2, <2>2, <2>3, FS_Surjection
<1>4. \A i \in Listed : Block(trace[i]) \in Nat
  BY <1>2, BlockNat
<1> QED  BY <1>2, <1>3, <1>4 DEF CountInv

\* All macroblocks are dominant, or there are as many of them as regions.
LEMMA AllOrEnough ==
  ASSUME NEW mbs, mbs \subseteq DOMAIN mb_counts, IsFiniteSet(DOMAIN mb_counts), Dominant(mbs)
  PROVE  /\ IsFiniteSet(mbs) /\ Cardinality(mbs) \in Nat /\ Cardinality(mbs) <= NUM_REG
         /\ mbs = DOMAIN mb_counts \/ Cardinality(mbs) = NUM_REG
<1> USE RegionsAssumption
<1>1. IsFiniteSet(mbs) /\ (Cardinality(mbs) = Cardinality(DOMAIN mb_counts) => mbs = DOMAIN mb_counts)
  BY FS_Subset
<1>2. PICK c \in Nat, d \in Nat : c = Cardinality(mbs) /\ d = Cardinality(DOMAIN mb_counts)
  BY <1>1, FS_CardinalityType
<1>3. c = Min({NUM_REG, d})
  BY <1>2 DEF Dominant
<1>4. \E m \in {NUM_REG, d} : \A n \in {NUM_REG, d} : m <= n
  BY <1>2
<1>5. c \in {NUM_REG, d} /\ \A n \in {NUM_REG, d} : c <= n
  BY <1>3, <1>4 DEF Min
<1> QED  BY <1>1, <1>2, <1>5

\* The regions are chosen.
LEMMA ChooseKeeps ==
  ASSUME RegionInv, ChooseRegions
  PROVE  RegionInv' /\ ReplayInv'
<1>0. FileInv /\ CountInv /\ DealtInv /\ at = "counting" /\ NUM_REG \in Nat
  BY RegionsAssumption DEF RegionInv, ChooseRegions
<1>1. /\ at' = "splitting" /\ HALO' = HALO /\ trace' = trace /\ mb_counts' = mb_counts /\ split' = split
      /\ last_addr' = last_addr /\ reg_traces' = reg_traces
      /\ Heads' = Heads /\ Lines' = Lines /\ \A l : Block(l)' = Block(l)
  BY DEF ChooseRegions, Heads, Lines, Block
<1>2. FileInv'
  BY <1>0, <1>1 DEF FileInv
<1>3. CountInv'
  <2>1. CountInv' <=> CountInv
    BY <1>1 DEF CountInv, Listed, Heads, Block
  <2> QED  BY <1>0, <2>1
<1>4. split = 0 /\ \A r \in Regions : reg_traces[r] = << >> /\ (r # NUM_REG => last_addr[r] = 0)
  BY <1>0 DEF DealtInv
<1>5. \A r : Dealt(r)' = {}
  BY <1>1, <1>4 DEF Dealt
<1>6. DealtInv'
  <2>1. Cardinality({}) = 0 /\ Len(<< >>) = 0
    BY FS_EmptySet
  <2> QED  BY <1>1, <1>4, <1>5, <2>1 DEF DealtInv, Regions
<1>7. ReplayInv'
  BY <1>1, <1>4, <1>5 DEF ReplayInv, Replayed, Regions
<1>8. ChosenInv'
  <2>1. PICK mbs : /\ mbs \subseteq DOMAIN mb_counts /\ Dominant(mbs)
                   /\ dom_mb' = [i \in 1 .. NUM_REG - Cardinality(mbs) |-> 0] \o Sorted(mbs)
    BY DEF ChooseRegions
  <2>2. /\ IsFiniteSet(mbs) /\ Cardinality(mbs) \in Nat /\ Cardinality(mbs) <= NUM_REG /\ mbs \subseteq Nat
    BY <1>0, <2>1, FiniteBlocks, AllOrEnough
  <2>3. PICK c \in Nat, z \in Nat : c = Cardinality(mbs) /\ z = NUM_REG - c
    BY <1>0, <2>2
  <2>4. PICK s : s = Sorted(mbs)
    OBVIOUS
  <2>5. /\ s \in Seq(Nat) /\ Len(s) = c /\ {s[i] : i \in 1 .. c} = mbs
        /\ \A i, j \in 1 .. c : s[i] = s[j] => i = j
    <3>1. /\ Sorted(mbs) \in Seq(Nat) /\ Len(Sorted(mbs)) = Cardinality(mbs)
          /\ {Sorted(mbs)[i] : i \in 1 .. Cardinality(mbs)} = mbs
          /\ \A i, j \in 1 .. Cardinality(mbs) : Sorted(mbs)[i] = Sorted(mbs)[j] => i = j
      BY <2>2, SortedOnce
    <3> QED  BY <2>3, <2>4, <3>1
  <2>6. PICK o : o = [i \in 1 .. z |-> 0]
    OBVIOUS
  <2>7. o \in Seq(Nat) /\ Len(o) = z /\ \A i \in 1 .. z : o[i] = 0
    BY <2>3, <2>6
  <2>8. dom_mb' = o \o s
    BY <2>1, <2>3, <2>4, <2>6
  <2>9. /\ dom_mb' \in Seq(Nat) /\ Len(dom_mb') = NUM_REG /\ DOMAIN dom_mb' = 1 .. NUM_REG
        /\ \A i \in 1 .. NUM_REG : dom_mb'[i] = IF i <= z THEN o[i] ELSE s[i - z]
    <3>1. /\ o \o s \in Seq(Nat) /\ Len(o \o s) = Len(o) + Len(s)
          /\ \A i \in 1 .. Len(o) + Len(s) : (o \o s)[i] = IF i <= Len(o) THEN o[i] ELSE s[i - Len(o)]
      <4>1. o \in Seq(Nat) /\ s \in Seq(Nat)
        BY <2>5, <2>7
      <4> QED  BY <4>1, ConcatProperties
    <3>2. z + c = NUM_REG
      BY <1>0, <2>2, <2>3
    <3>3. \A i \in 1 .. NUM_REG : (o \o s)[i] = IF i <= z THEN o[i] ELSE s[i - z]
      BY <2>5, <2>7, <3>1, <3>2
    <3>4. o \o s \in Seq(Nat) /\ Len(o \o s) = NUM_REG /\ DOMAIN (o \o s) = 1 .. NUM_REG
      BY <2>5, <2>7, <3>1, <3>2
    <3> QED  BY <2>8, <3>3, <3>4
  <2>10. ToSet(dom_mb') = mbs \cup (IF c = NUM_REG THEN {} ELSE {0})
    <3>1. ASSUME NEW i \in 1 .. NUM_REG PROVE dom_mb'[i] \in mbs \cup (IF c = NUM_REG THEN {} ELSE {0})
      <4>1. CASE i <= z
        BY <2>3, <2>7, <2>9, <4>1
      <4>2. CASE ~ (i <= z)
        <5>1. i - z \in 1 .. c
          BY <1>0, <2>3, <4>2
        <5> QED  BY <2>5, <2>9, <4>2, <5>1
      <4> QED  BY <4>1, <4>2
    <3>2. ASSUME NEW m \in mbs PROVE \E i \in 1 .. NUM_REG : dom_mb'[i] = m
      <4>1. PICK i \in 1 .. c : s[i] = m
        BY <2>5
      <4>2. i + z \in 1 .. NUM_REG /\ ~ (i + z <= z) /\ i + z - z = i
        BY <1>0, <2>3
      <4> QED  BY <2>9, <4>1, <4>2
    <3>3. c # NUM_REG => dom_mb'[1] = 0 /\ 1 \in 1 .. NUM_REG
      <4>1. c # NUM_REG => 1 \in 1 .. z /\ 1 \in 1 .. NUM_REG
        BY <1>0, <2>2, <2>3
      <4> QED  BY <2>7, <2>9, <4>1
    <3>4. ToSet(dom_mb') = {dom_mb'[i] : i \in 1 .. NUM_REG}
      BY <2>9 DEF ToSet
    <3> QED  BY <3>1, <3>2, <3>3, <3>4
  <2>11. c = NUM_REG => \A i, j \in 1 .. NUM_REG : dom_mb'[i] = dom_mb'[j] => i = j
    <3>1. c = NUM_REG => z = 0
      BY <1>0, <2>3
    <3>2. \A i \in 1 .. NUM_REG : i \in Int /\ ~ (i <= 0) /\ i - 0 = i
      BY <1>0
    <3>3. c = NUM_REG => \A i \in 1 .. NUM_REG : dom_mb'[i] = s[i]
      BY <2>9, <3>1, <3>2
    <3> QED  BY <2>5, <3>3
  <2>12. Dominant(mbs)'
    BY <1>1, <2>1 DEF Dominant
  <2>13. Chose(mbs)'
    BY <1>1, <2>1, <2>3, <2>9, <2>10, <2>11, <2>12 DEF Chose, Numbered
  <2> QED  BY <2>13 DEF ChosenInv
<1> QED  BY <1>1, <1>2, <1>3, <1>6, <1>7, <1>8 DEF RegionInv, PrintedInv, JsonInv

\* What both parts about a dealt line start from.
Deals(e, r, n) ==
  /\ e = split + 1 /\ e \in 1 .. Len(trace) /\ r = Index(Block(trace[e])) /\ r \in Regions
  /\ trace[e] \in Record /\ Numbered
  /\ split' = e /\ n = Len(reg_traces[r]) /\ n \in Nat
  /\ reg_traces' = [reg_traces EXCEPT ![r] = Append(reg_traces[r], Stride(Offset(trace[e], r)))]
  /\ last_addr' = IF HALO THEN last_addr ELSE [last_addr EXCEPT ![r] = trace[e].addr]

\* The line is one of its region's, and no other region's.
LEMMA DealtStep ==
  ASSUME RegionInv, Split, NEW e, NEW r, NEW n, Deals(e, r, n)
  PROVE  /\ IsFiniteSet(Dealt(r)) /\ Dealt(r) \subseteq Int /\ \A i \in Dealt(r) : i < e
         /\ Dealt(r)' = Dealt(r) \cup {e}
         /\ \A q : q # r => Dealt(q)' = Dealt(q)
<1>1. split \in Nat /\ e = split + 1 /\ split' = e
  BY DEF RegionInv, FileInv, Deals
<1>2. IsFiniteSet(Dealt(r)) /\ Dealt(r) \subseteq Int /\ \A i \in Dealt(r) : i < e
  <2>1. IsFiniteSet(1 .. split) /\ Dealt(r) \subseteq 1 .. split
    BY <1>1, FS_Interval DEF Dealt
  <2>2. \A i \in 1 .. split : i \in Int /\ i < e
    BY <1>1
  <2> QED  BY <2>1, <2>2, FS_Subset
<1>3. \A q : Dealt(q)' = {i \in 1 .. e : Index(Block(trace[i])) = q}
  BY <1>1 DEF Split, Dealt, Index, Block
<1>4. 1 .. e = 1 .. split \cup {e}
  BY <1>1
<1>5. Index(Block(trace[e])) = r
  BY DEF Deals
<1>6. Dealt(r)' = Dealt(r) \cup {e}
  BY <1>3, <1>4, <1>5 DEF Dealt
<1>7. ASSUME NEW q, q # r PROVE Dealt(q)' = Dealt(q)
  BY <1>3, <1>4, <1>5, <1>7 DEF Dealt
<1> QED  BY <1>2, <1>6, <1>7

\* What is dealt out keeps its type, and its strides count the lines.
LEMMA SplitRegions ==
  ASSUME RegionInv, Split
  PROVE  RegionInv' /\ \E e, r, n : Deals(e, r, n)
<1>0. /\ FileInv /\ CountInv /\ DealtInv /\ ChosenInv /\ at = "splitting"
      /\ split \in Nat /\ split < Len(trace) /\ trace \in Seq(Record)
  BY DEF RegionInv, FileInv, Split
<1>1. /\ at' = "splitting" /\ HALO' = HALO /\ trace' = trace /\ mb_counts' = mb_counts /\ split' = split + 1
      /\ dom_mb' = dom_mb /\ Heads' = Heads /\ Lines' = Lines
  BY <1>0 DEF Split, Heads, Lines
<1>2. PICK mbs : Chose(mbs)
  BY <1>0 DEF ChosenInv
<1>3. PICK e, r : e = split + 1 /\ r = Index(Block(trace[e]))
  OBVIOUS
<1>4. e \in 1 .. Len(trace) /\ trace[e] \in Record /\ Numbered /\ r \in Regions
  BY <1>0, <1>2, <1>3, IndexOf DEF Chose
<1>5. PICK n \in Nat : n = Len(reg_traces[r])
  BY <1>0, <1>4 DEF FileInv
<1>6. Deals(e, r, n)
  BY <1>1, <1>3, <1>4, <1>5 DEF Deals, Split
<1>7. Stride(Offset(trace[e], r)) \in Ints
  <2>1. Offset(trace[e], r) \in Int
    BY <1>0, <1>4 DEF Offset, FileInv, Record
  <2> QED  BY <2>1, StrideInt
<1>8. FileInv'
  <2>1. reg_traces' \in [Regions -> Seq(Ints)]
    <3>1. reg_traces[r] \in Seq(Ints)
      BY <1>0, <1>4 DEF FileInv
    <3>2. Append(reg_traces[r], Stride(Offset(trace[e], r))) \in Seq(Ints)
      BY <1>7, <3>1, AppendProperties
    <3> QED  BY <1>0, <1>6, <3>2 DEF FileInv, Deals
  <2>2. last_addr' \in [Regions -> Nat]
    BY <1>0, <1>4, <1>6 DEF FileInv, Deals, Record
  <2>3. split' \in 0 .. Len(trace')
    BY <1>0, <1>1
  <2> QED  BY <1>0, <1>1, <2>1, <2>2, <2>3 DEF FileInv
<1>9. CountInv' /\ ChosenInv'
  <2>1. CountInv' <=> CountInv
    BY <1>1 DEF CountInv, Listed, Heads, Block
  <2>2. Chose(mbs)'
    BY <1>1, <1>2 DEF Chose, Dominant, Numbered
  <2> QED  BY <1>0, <2>1, <2>2 DEF ChosenInv
<1>10. DealtInv'
  <2>1. /\ IsFiniteSet(Dealt(r)) /\ Dealt(r) \subseteq Int /\ \A i \in Dealt(r) : i < e
        /\ Dealt(r)' = Dealt(r) \cup {e}
        /\ \A q : q # r => Dealt(q)' = Dealt(q)
    BY <1>6, DealtStep
  <2>2. Len(reg_traces'[r]) = n + 1 /\ \A q \in Regions : q # r => reg_traces'[q] = reg_traces[q]
    <3>1. reg_traces[r] \in Seq(Ints)
      BY <1>0, <1>4 DEF FileInv
    <3>2. Len(Append(reg_traces[r], Stride(Offset(trace[e], r)))) = n + 1
      BY <1>5, <1>7, <3>1, AppendProperties
    <3> QED  BY <1>0, <1>4, <1>6, <3>2 DEF FileInv, Deals
  <2>3. Cardinality(Dealt(r)) = n /\ \A q \in Regions : Len(reg_traces[q]) = Cardinality(Dealt(q))
    BY <1>0, <1>4, <1>5 DEF DealtInv
  <2>4. Cardinality(Dealt(r)') = n + 1
    <3>1. e \notin Dealt(r)
      BY <1>0, <1>3, <2>1
    <3> QED  BY <2>1, <2>3, <3>1, FS_AddElement
  <2>5. \A q \in Regions : Len(reg_traces'[q]) = Cardinality(Dealt(q)')
    BY <2>1, <2>2, <2>3, <2>4
  <2> QED  BY <1>1, <2>5 DEF DealtInv, Regions
<1>11. RegionInv'
  BY <1>1, <1>8, <1>9, <1>10 DEF RegionInv, PrintedInv, JsonInv
<1> QED  BY <1>6, <1>11

\* A line's stride leads from the line before it in its region.
LEMMA SplitReplays ==
  ASSUME RegionInv, ReplayInv, ZeroIsAlone, Split
  PROVE  ReplayInv'
<1>0. FileInv /\ DealtInv /\ at = "splitting" /\ RegionInv'
  BY SplitRegions DEF RegionInv, Split
<1> SUFFICES ASSUME ~ HALO PROVE \A q \in Regions : q # NUM_REG => Replayed(q)'
  <2>1. HALO' = HALO
    BY DEF Split
  <2> QED  BY <2>1 DEF ReplayInv, Regions
<1>1. PICK e, r, n : Deals(e, r, n)
  BY SplitRegions
<1>2. /\ IsFiniteSet(Dealt(r)) /\ Dealt(r) \subseteq Int /\ \A i \in Dealt(r) : i < e
      /\ Dealt(r)' = Dealt(r) \cup {e}
      /\ \A q : q # r => Dealt(q)' = Dealt(q)
  BY <1>1, DealtStep
<1>3. \A q \in Regions : q # NUM_REG => Replayed(q)
  BY <1>0 DEF ReplayInv
<1>4. trace' = trace /\ last_addr' = [last_addr EXCEPT ![r] = trace[e].addr]
  BY <1>1 DEF Deals, Split
<1>5. ASSUME NEW q \in Regions, q # NUM_REG, q # r PROVE Replayed(q)'
  <2>1. last_addr'[q] = last_addr[q] /\ reg_traces'[q] = reg_traces[q] /\ Dealt(q)' = Dealt(q)
    BY <1>0, <1>1, <1>2, <1>4, <1>5 DEF FileInv, Deals
  <2>2. /\ Dealt(q)' = {} => last_addr'[q] = 0
        /\ \A i \in Dealt(q)' : Rank(Dealt(q)', i) = Cardinality(Dealt(q)') => last_addr'[q] = trace[i].addr
        /\ \A i, j \in Dealt(q)' : Rank(Dealt(q)', j) = Rank(Dealt(q)', i) + 1 =>
             trace[j].addr = trace[i].addr + reg_traces'[q][Rank(Dealt(q)', j)]
    <3>1. /\ Dealt(q) = {} => last_addr[q] = 0
          /\ \A i \in Dealt(q) : Rank(Dealt(q), i) = Cardinality(Dealt(q)) => last_addr[q] = trace[i].addr
          /\ \A i, j \in Dealt(q) : Rank(Dealt(q), j) = Rank(Dealt(q), i) + 1 =>
               trace[j].addr = trace[i].addr + reg_traces[q][Rank(Dealt(q), j)]
      BY <1>3, <1>5 DEF Replayed
    <3> QED  BY <2>1, <3>1
  <2> QED  BY <1>4, <2>2 DEF Replayed, Rank
<1>6. ASSUME r # NUM_REG PROVE Replayed(r)'
  <2>1. PICK T : T = Dealt(r)
    OBVIOUS
  <2>2. /\ IsFiniteSet(T) /\ T \subseteq Int /\ (\A i \in T : i < e) /\ e \in Int /\ e \notin T
        /\ Dealt(r)' = T \cup {e} /\ Cardinality(T) = n /\ n \in Nat
    <3>1. Cardinality(T) = n /\ n \in Nat /\ e \in Int
      BY <1>0, <1>1, <2>1 DEF DealtInv, Deals
    <3> QED  BY <1>2, <2>1, <3>1
  <2>3. /\ Rank(T \cup {e}, e) = n + 1 /\ Cardinality(T \cup {e}) = n + 1
        /\ \A i \in T : Rank(T \cup {e}, i) = Rank(T, i)
    <3>1. /\ Rank(T \cup {e}, e) = Cardinality(T) + 1 /\ Cardinality(T \cup {e}) = Cardinality(T) + 1
          /\ \A i \in T : Rank(T \cup {e}, i) = Rank(T, i)
      BY <2>2, RankLast
    <3> QED  BY <2>2, <3>1
  <2>4. \A i \in T : Rank(T, i) \in 1 .. n
    <3>1. ASSUME NEW i \in T PROVE Rank(T, i) \in 1 .. Cardinality(T)
      BY <2>2, RankRange
    <3> QED  BY <2>2, <3>1
  <2>5. PICK s, d : s = reg_traces[r] /\ d = Stride(Offset(trace[e], r))
    OBVIOUS
  <2>6. s \in Seq(Ints) /\ Len(s) = n /\ r \in Regions /\ r \in DOMAIN reg_traces /\ r \in DOMAIN last_addr
    BY <1>0, <1>1, <2>5 DEF FileInv, Deals
  <2>7. d \in Ints
    <3>1. Offset(trace[e], r) \in Int
      BY <1>0, <1>1 DEF Offset, FileInv, Record, Deals
    <3> QED  BY <2>5, <3>1, StrideInt
  <2>8. reg_traces'[r][n + 1] = d /\ (\A i \in 1 .. n : reg_traces'[r][i] = s[i])
          /\ last_addr'[r] = trace[e].addr
    <3>1. reg_traces'[r] = Append(s, d)
      BY <1>1, <2>5, <2>6 DEF Deals
    <3>2. Append(s, d)[n + 1] = d /\ \A i \in 1 .. n : Append(s, d)[i] = s[i]
      BY <2>2, <2>6, <2>7, AppendProperties
    <3> QED  BY <1>4, <2>6, <3>1, <3>2
  <2>9. /\ T = {} => last_addr[r] = 0
        /\ \A i \in T : Rank(T, i) = n => last_addr[r] = trace[i].addr
        /\ \A i, j \in T : Rank(T, j) = Rank(T, i) + 1 => trace[j].addr = trace[i].addr + s[Rank(T, j)]
    BY <1>3, <1>6, <2>1, <2>2, <2>5, <2>6 DEF Replayed
  <2>10. ASSUME NEW i \in T, Rank(T, i) = n PROVE trace[e].addr = trace[i].addr + d
    <3>1. last_addr[r] = trace[i].addr
      BY <2>9, <2>10
    <3>2. /\ Numbered /\ r \in 0 .. NUM_REG - 1 /\ e \in 1 .. Len(trace) /\ i \in 1 .. Len(trace)
          /\ Index(Block(trace[i])) = r /\ Index(Block(trace[e])) = r
      <4>1. r \in 0 .. NUM_REG - 1
        BY <1>6, <2>6, RegionsAssumption DEF Regions
      <4>2. Index(Block(trace[i])) = r /\ i \in 1 .. split
        BY <2>1 DEF Dealt
      <4>3. i \in 1 .. Len(trace)
        BY <1>0, <4>2 DEF FileInv
      <4> QED  BY <1>1, <4>1, <4>2, <4>3 DEF Deals
    <3>3. Block(trace[i]) = Block(trace[e])
      BY <3>2, OneBlock
    <3>4. PICK a \in Nat, b \in Nat : a = trace[e].addr /\ b = trace[i].addr
      <4>1. trace[e] \in Record /\ trace[i] \in Record
        BY <1>0, <3>2 DEF FileInv
      <4> QED  BY <4>1 DEF Record
    <3>5. a \div BLOCK_SIZE = b \div BLOCK_SIZE
      BY <3>3, <3>4 DEF Block
    <3>6. a - b \in Ints /\ a - b \in Int /\ (b = 0 => a < BLOCK_SIZE)
      BY <3>5, SameBlock
    <3>7. CASE b # 0
      <4>1. d = Stride(a - b)
        BY <2>5, <3>1, <3>4, <3>7 DEF Offset
      <4> QED  BY <3>4, <3>6, <4>1, StrideInt
    <3>8. CASE b = 0
      <4>1. d = Stride(0) /\ Stride(0) = 0
        <5>1. 0 \in Ints
          BY <3>4, <3>5, SameBlock, <3>6, <3>8, RegionsAssumption DEF Ints
        <5> QED  BY <2>5, <3>1, <3>4, <3>8, <5>1, StrideInt DEF Offset
      <4>2. a = 0
        <5>1. trace[e] = HeadLine \/ trace[e] \in TraceLines
          <6>1. Lines = TraceLines /\ Heads \in Nat /\ e \in Int
            BY <1>0, <2>2, LinesAreRecords DEF Lines
          <6>2. (e <= Heads => trace[e] = HeadLine) /\ (e > Heads => trace[e] \in Lines)
            BY <1>0, <3>2 DEF FileInv
          <6> QED  BY <6>1, <6>2
        <5>2. trace[e] \in TraceLines => a = 0 \/ a >= BLOCK_SIZE
          BY <3>4 DEF ZeroIsAlone
        <5> QED  BY <3>4, <3>6, <3>8, <5>1, <5>2, RegionsAssumption DEF HeadLine
      <4> QED  BY <3>4, <3>8, <4>1, <4>2
    <3> QED  BY <3>7, <3>8
  <2>11. ASSUME NEW i \in T \cup {e}, NEW j \in T \cup {e}, Rank(T \cup {e}, j) = Rank(T \cup {e}, i) + 1
         PROVE  trace[j].addr = trace[i].addr + reg_traces'[r][Rank(T \cup {e}, j)]
    <3>1. CASE j \in T /\ i \in T
      <4>1. Rank(T, j) = Rank(T, i) + 1 /\ Rank(T, j) \in 1 .. n
        BY <2>3, <2>4, <2>11, <3>1
      <4> QED  BY <2>3, <2>8, <2>9, <3>1, <4>1
    <3>2. CASE j = e /\ i \in T
      <4>1. Rank(T, i) \in 1 .. n /\ n + 1 = Rank(T, i) + 1
        BY <2>3, <2>4, <2>11, <3>2
      <4>2. Rank(T, i) = n
        BY <2>2, <4>1
      <4> QED  BY <2>3, <2>8, <2>10, <3>2, <4>2
    <3>3. CASE i = e
      <4>1. Rank(T \cup {e}, j) \in 1 .. n + 1
        BY <2>2, <2>3, <2>4
      <4> QED  BY <2>2, <2>3, <2>11, <3>3, <4>1
    <3> QED  BY <3>1, <3>2, <3>3
  <2>12. ASSUME NEW i \in T \cup {e}, Rank(T \cup {e}, i) = Cardinality(T \cup {e})
                PROVE last_addr'[r] = trace[i].addr
    <3>1. i \in T => Rank(T, i) \in 1 .. n /\ Rank(T, i) = n + 1
      BY <2>3, <2>4, <2>12
    <3>2. i = e
      BY <2>2, <3>1
    <3> QED  BY <2>8, <3>2
  <2>13. /\ Dealt(r)' # {}
         /\ \A i \in Dealt(r)' : Rank(Dealt(r)', i) = Cardinality(Dealt(r)') => last_addr'[r] = trace[i].addr
         /\ \A i, j \in Dealt(r)' : Rank(Dealt(r)', j) = Rank(Dealt(r)', i) + 1 =>
              trace[j].addr = trace[i].addr + reg_traces'[r][Rank(Dealt(r)', j)]
    BY <2>2, <2>11, <2>12
  <2> QED  BY <1>4, <2>13 DEF Replayed, Rank
<1> QED  BY <1>5, <1>6

\* What is dealt out stays as it is when the regions are printed and read.
LEMMA DealtStays ==
  ASSUME RegionInv, UNCHANGED <<HALO, trace, mb_counts, dom_mb, split, last_addr, reg_traces>>,
         at' \in {"counting", "splitting", "printed", "made", "failed"}, at' = "counting" <=> at = "counting"
  PROVE  /\ FileInv' /\ CountInv' /\ ChosenInv' /\ DealtInv' /\ (ReplayInv => ReplayInv')
         /\ Filled' = Filled /\ LastLine' = LastLine /\ \A r : Line(r)' = Line(r)
<1>1. /\ Heads' = Heads /\ Lines' = Lines /\ Listed' = Listed
      /\ FileInv /\ CountInv /\ ChosenInv /\ DealtInv
  BY DEF Heads, Lines, Listed, RegionInv
<1>2. FileInv'
  BY <1>1 DEF FileInv
<1>3. CountInv'
  <2>1. CountInv' <=> CountInv
    BY <1>1 DEF CountInv, Block
  <2> QED  BY <1>1, <2>1
<1>4. ChosenInv'
  <2>1. \A mbs : Chose(mbs)' <=> Chose(mbs)
    BY DEF Chose, Dominant, Numbered
  <2> QED  BY <1>1, <2>1 DEF ChosenInv
<1>5. \A r : Dealt(r)' = Dealt(r)
  BY DEF Dealt, Index, Block
<1>6. DealtInv'
  BY <1>1, <1>5 DEF DealtInv, Regions
<1>7. ReplayInv => ReplayInv'
  <2>1. ASSUME NEW r \in Regions, Replayed(r) PROVE Replayed(r)'
    <3>1. /\ Dealt(r) = {} => last_addr[r] = 0
          /\ \A i \in Dealt(r) : Rank(Dealt(r), i) = Cardinality(Dealt(r)) => last_addr[r] = trace[i].addr
          /\ \A i, j \in Dealt(r) : Rank(Dealt(r), j) = Rank(Dealt(r), i) + 1 =>
               trace[j].addr = trace[i].addr + reg_traces[r][Rank(Dealt(r), j)]
      BY <2>1 DEF Replayed
    <3>2. /\ Dealt(r)' = {} => last_addr'[r] = 0
          /\ \A i \in Dealt(r)' : Rank(Dealt(r)', i) = Cardinality(Dealt(r)') => last_addr'[r] = trace'[i].addr
          /\ \A i, j \in Dealt(r)' : Rank(Dealt(r)', j) = Rank(Dealt(r)', i) + 1 =>
               trace'[j].addr = trace'[i].addr + reg_traces'[r][Rank(Dealt(r)', j)]
      BY <1>5, <3>1
    <3> QED  BY <3>2 DEF Replayed, Rank
  <2> QED  BY <2>1 DEF ReplayInv, Regions
<1>8. Filled' = Filled
  BY DEF Filled, Regions
<1>9. LastLine' = LastLine /\ \A r : Line(r)' = Line(r)
  BY <1>8 DEF LastLine, Line, Regions
<1> QED  BY <1>2, <1>3, <1>4, <1>6, <1>7, <1>8, <1>9

LEMMA OutputRegions ==
  ASSUME RegionInv, Output
  PROVE  RegionInv' /\ (ReplayInv => ReplayInv')
<1>1. /\ at = "splitting" /\ split = Len(trace) /\ at' = "printed"
      /\ UNCHANGED <<HALO, trace, mb_counts, dom_mb, split, last_addr, reg_traces>>
  BY DEF Output
<1>2. /\ FileInv' /\ CountInv' /\ ChosenInv' /\ DealtInv' /\ (ReplayInv => ReplayInv')
      /\ Filled' = Filled /\ LastLine' = LastLine /\ \A r : Line(r)' = Line(r)
  BY <1>1, DealtStays
<1>3. PICK tail \in IF NUM_REG \in Filled THEN {{}} ELSE {{LastLine}, {}} :
        printed' = {Line(r) : r \in Filled} \cup tail
  BY DEF Output
<1>4. PrintedInv'
  <2>1. tail \subseteq {LastLine} /\ (NUM_REG \in Filled => tail = {})
    BY <1>3
  <2> QED  BY <1>1, <1>2, <1>3, <2>1 DEF PrintedInv
<1>5. JsonInv'
  BY <1>1 DEF JsonInv
<1> QED  BY <1>2, <1>4, <1>5 DEF RegionInv

LEMMA JsonRegions ==
  ASSUME RegionInv, MakeJson
  PROVE  RegionInv' /\ (ReplayInv => ReplayInv')
<1>1. /\ at = "printed" /\ at' \in {"made", "failed"}
      /\ UNCHANGED <<HALO, trace, mb_counts, dom_mb, split, last_addr, reg_traces, printed>>
  BY DEF MakeJson
<1>2. /\ FileInv' /\ CountInv' /\ ChosenInv' /\ DealtInv' /\ (ReplayInv => ReplayInv')
      /\ Filled' = Filled /\ LastLine' = LastLine /\ \A r : Line(r)' = Line(r)
  BY <1>1, DealtStays
<1>3. PrintedInv'
  BY <1>1, <1>2 DEF PrintedInv, RegionInv
<1>4. JsonInv'
  BY <1>1 DEF JsonInv, MakeJson
<1> QED  BY <1>2, <1>3, <1>4 DEF RegionInv

LEMMA StutterRegions ==
  ASSUME RegionInv, UNCHANGED vars
  PROVE  RegionInv' /\ (ReplayInv => ReplayInv')
<1>1. /\ at \in {"counting", "splitting", "printed", "made", "failed"} /\ at' = at /\ printed' = printed
           /\ json' = json
      /\ UNCHANGED <<HALO, trace, mb_counts, dom_mb, split, last_addr, reg_traces>>
  BY DEF vars, RegionInv, FileInv
<1>2. /\ FileInv' /\ CountInv' /\ ChosenInv' /\ DealtInv' /\ (ReplayInv => ReplayInv')
      /\ Filled' = Filled /\ LastLine' = LastLine /\ \A r : Line(r)' = Line(r)
  BY <1>1, DealtStays
<1>3. PrintedInv'
  BY <1>1, <1>2 DEF PrintedInv, RegionInv
<1>4. JsonInv'
  BY <1>1 DEF JsonInv, RegionInv
<1> QED  BY <1>2, <1>3, <1>4 DEF RegionInv

LEMMA NextRegions ==
  ASSUME RegionInv, [Next]_vars
  PROVE  RegionInv' /\ (ZeroIsAlone /\ ReplayInv => ReplayInv')
<1>1. CASE \E line \in Lines : Count(line)
  BY <1>1, CountRegions
<1>2. CASE ChooseRegions
  BY <1>2, ChooseKeeps
<1>3. CASE Split
  BY <1>3, SplitRegions, SplitReplays
<1>4. CASE Output
  BY <1>4, OutputRegions
<1>5. CASE MakeJson
  BY <1>5, JsonRegions
<1>6. CASE UNCHANGED vars
  BY <1>6, StutterRegions
<1> QED  BY <1>1, <1>2, <1>3, <1>4, <1>5, <1>6 DEF Next, Terminated

\* What both readers and the printed lines keep to, in every state.
THEOREM RegionsInvariant == Spec => []RegionInv
<1>1. Init => RegionInv
  BY InitRegions
<1>2. RegionInv /\ [Next]_vars => RegionInv'
  BY NextRegions
<1> QED  BY <1>1, <1>2, PTL DEF Spec
--------------------------------------------------------------------------------
(* Properties *)

\* Theorem: from the first address of a macroblock that got a region of its own, the strides
\* of the region lead through all of its addresses in their order (get_reg_traces) - if the
\* trace has no address in macroblock 0 but address 0, which last_addr takes for "none yet".
THEOREM StridesReplayAddresses == ZeroIsAlone => (Spec => []StridesReplay)
<1> SUFFICES ASSUME ZeroIsAlone PROVE Spec => []StridesReplay
  OBVIOUS
<1>1. Init => RegionInv /\ ReplayInv
  BY InitRegions
<1>2. (RegionInv /\ ReplayInv) /\ [Next]_vars => (RegionInv /\ ReplayInv)'
  BY NextRegions
<1>3. RegionInv /\ ReplayInv => StridesReplay
  <2> SUFFICES ASSUME RegionInv, ReplayInv, ~ HALO, at # "counting", NEW r \in 0 .. NUM_REG - 1,
                      Index(dom_mb[r + 1]) = r
               PROVE  LET mine == Accesses(dom_mb[r + 1])
                          nth(i) == Cardinality({j \in mine : j <= i})
                      IN /\ Len(reg_traces[r]) = Cardinality(mine)
                         /\ \A i, j \in mine :
                              nth(j) = nth(i) + 1 => trace[j].addr = trace[i].addr + reg_traces[r][nth(j)]
    BY DEF StridesReplay
  <2>1. Numbered /\ r \in Regions /\ r # NUM_REG
    BY RegionsAssumption DEF RegionInv, ChosenInv, Chose, Regions
  <2>2. Accesses(dom_mb[r + 1]) = Dealt(r)
    <3>1. \A mb : Index(mb) = r => mb = dom_mb[r + 1]
      BY <2>1, OneBlock
    <3> QED  BY <3>1 DEF Accesses, Dealt
  <2>3. Len(reg_traces[r]) = Cardinality(Dealt(r))
    BY <2>1 DEF RegionInv, DealtInv
  <2>4. \A i, j \in Dealt(r) : Rank(Dealt(r), j) = Rank(Dealt(r), i) + 1 =>
          trace[j].addr = trace[i].addr + reg_traces[r][Rank(Dealt(r), j)]
    BY <2>1 DEF ReplayInv, Replayed
  <2> QED  BY <2>2, <2>3, <2>4 DEF Rank
<1> QED  BY <1>1, <1>2, <1>3, PTL DEF Spec

\* The dominant macroblocks are all, or as many as there are regions, and no
\* other macroblock was met more often than one of them.
LEMMA DominantBlocks ==
  ASSUME FileInv, CountInv, NEW mbs, Chose(mbs)
  PROVE  LET A == ToSet(dom_mb) \cap DOMAIN mb_counts
         IN  /\ \A m \in A, d \in DOMAIN mb_counts \ A : mb_counts[m] >= mb_counts[d]
             /\ \A other \in SUBSET DOMAIN mb_counts : Cardinality(other) <= NUM_REG =>
                  Cardinality(other) <= Cardinality(A)
<1> USE RegionsAssumption
<1>1. IsFiniteSet(DOMAIN mb_counts)
  BY FiniteBlocks
<1>2. mbs \subseteq DOMAIN mb_counts /\ Dominant(mbs)
  BY DEF Chose
<1>3. mbs = DOMAIN mb_counts \/ Cardinality(mbs) = NUM_REG
  BY <1>1, <1>2, AllOrEnough
<1>4. PICK A : A = ToSet(dom_mb) \cap DOMAIN mb_counts
  OBVIOUS
<1>5. A = mbs
  BY <1>2, <1>3, <1>4 DEF Chose
<1>6. \A m \in A, d \in DOMAIN mb_counts \ A : mb_counts[m] >= mb_counts[d]
  BY <1>2, <1>5 DEF Dominant
<1>7. ASSUME NEW other \in SUBSET DOMAIN mb_counts, Cardinality(other) <= NUM_REG
             PROVE Cardinality(other) <= Cardinality(A)
  <2>1. Cardinality(other) <= Cardinality(DOMAIN mb_counts)
    BY <1>1, FS_Subset
  <2> QED  BY <1>3, <1>5, <1>7, <2>1
<1> QED  BY <1>4, <1>6, <1>7

\* Theorem: what the first reader reports for the accesses outside the dominant macroblocks is
\* what the second deals out to the last region, but for the head lines, and no other choice
\* of macroblocks would have left fewer (get_region_counts, get_reg_traces).
THEOREM ReadersAgree == Spec => []OverflowCounted
<1>1. RegionInv => OverflowCounted
  <2> SUFFICES ASSUME RegionInv, Split_ended PROVE OverflowCounted
    BY DEF OverflowCounted
  <2> USE RegionsAssumption
  <2>1. /\ FileInv /\ CountInv /\ DealtInv /\ ChosenInv /\ split = Len(trace) /\ at # "counting"
        /\ Heads \in Nat /\ Len(trace) \in Nat /\ trace \in Seq(Record) /\ Heads <= Len(trace)
    BY LinesAreRecords DEF RegionInv, PrintedInv, Split_ended, FileInv
  <2>2. PICK mbs : Chose(mbs)
    BY <2>1 DEF ChosenInv
  <2>3. PICK A, D : A = ToSet(dom_mb) \cap D /\ D = DOMAIN mb_counts
    OBVIOUS
  <2>4. IsFiniteSet(D) /\ IsFiniteSet(Listed) /\ IsFiniteSet(A) /\ A \in SUBSET D
    BY <2>1, <2>3, FiniteBlocks, FS_Subset
  <2>5. /\ \A m \in A, d \in D \ A : mb_counts[m] >= mb_counts[d]
        /\ \A other \in SUBSET D : Cardinality(other) <= NUM_REG => Cardinality(other) <= Cardinality(A)
    BY <2>1, <2>2, <2>3, DominantBlocks
  <2>6. PICK b : b = [i \in Listed |-> Block(trace[i])]
    OBVIOUS
  <2>7. D = {b[i] : i \in Listed} /\ \A m \in D : mb_counts[m] = Cardinality({i \in Listed : b[i] = m})
    <3>1. {b[i] : i \in Listed} = {Block(trace[i]) : i \in Listed}
      BY <2>6
    <3>2. \A m : {i \in Listed : b[i] = m} = {i \in Listed : Block(trace[i]) = m}
      BY <2>6
    <3> QED  BY <2>1, <2>3, <3>1, <3>2 DEF CountInv
  <2>8. ASSUME NEW S \in SUBSET D
        PROVE  /\ SumFunctionOnSet(mb_counts, S) = Cardinality({i \in Listed : b[i] \in S})
               /\ SumFunctionOnSet(mb_counts, S) \in Nat
    <3>1. IsFiniteSet(S) /\ IsFiniteSet({i \in Listed : b[i] \in S})
      BY <2>4, FS_Subset
    <3>2. \A x \in S : mb_counts[x] = Cardinality({i \in Listed : b[i] = x})
      BY <2>7
    <3>3. SumFunctionOnSet(mb_counts, S) = Cardinality({i \in Listed : b[i] \in S})
      <4>1. Counts(mb_counts, Listed, b, S)
        BY <3>2 DEF Counts
      <4>2. SumFunctionOnSet(mb_counts, S) = Cardinality(With(Listed, b, S))
        BY <2>4, <3>1, <4>1, SumOfCounts
      <4> QED  BY <4>2 DEF With
    <3> QED  BY <3>1, <3>3, FS_CardinalityType
  <2>9. PICK total \in Nat, rep \in Nat :
           total = SumFunctionOnSet(mb_counts, D) /\ rep = SumFunctionOnSet(mb_counts, A)
                                          /\ rep = Reported
    BY <2>3, <2>4, <2>8 DEF Reported
  <2>10. total = Len(trace) - Heads
    <3>1. {i \in Listed : b[i] \in D} = Listed
      BY <2>7
    <3>2. total = Cardinality(Listed)
      BY <2>8, <2>9, <3>1
    <3>3. Cardinality(Heads + 1 .. Len(trace)) =
            IF Heads + 1 > Len(trace) THEN 0 ELSE Len(trace) - (Heads + 1) + 1
      <4>1. Heads + 1 \in Int /\ Len(trace) \in Int
        BY <2>1
      <4> QED  BY <4>1, FS_Interval
    <3> QED  BY <2>1, <3>2, <3>3 DEF Listed
  <2>11. \A m \in D : mb_counts[m] \in Nat
    <3> SUFFICES ASSUME NEW m \in D PROVE mb_counts[m] \in Nat
      OBVIOUS
    <3>1. IsFiniteSet({i \in Listed : b[i] = m})
      BY <2>4, FS_Subset
    <3> QED  BY <2>7, <3>1, FS_CardinalityType
  <2>12. ASSUME NEW other \in SUBSET D, Cardinality(other) <= NUM_REG
         PROVE  SumFunctionOnSet(mb_counts, D \ other) >= total - rep
    <3>1. SumFunctionOnSet(mb_counts, other) <= SumFunctionOnSet(mb_counts, A)
      <4>1. Cardinality(other) <= Cardinality(A)
        BY <2>5, <2>12
      <4> QED  BY <2>4, <2>5, <2>11, <4>1, GreatestSum
    <3>2. SumFunctionOnSet(mb_counts, D) =
            SumFunctionOnSet(mb_counts, other) + SumFunctionOnSet(mb_counts, D \ other)
      <4>1. PICK rest : rest = D \ other
        OBVIOUS
      <4>2. D = other \cup rest /\ other \cap rest = {} /\ IsFiniteSet(other) /\ IsFiniteSet(rest)
            /\ \A x \in other \cup rest : mb_counts[x] \in Int
        BY <2>4, <2>11, <4>1, FS_Subset
      <4>3. SumFunctionOnSet(mb_counts, other \cup rest) =
              SumFunctionOnSet(mb_counts, other) + SumFunctionOnSet(mb_counts, rest)
        BY <4>2, SumDisjoint
      <4> QED  BY <4>1, <4>2, <4>3
    <3>3. SumFunctionOnSet(mb_counts, other) \in Nat /\ SumFunctionOnSet(mb_counts, D \ other) \in Nat
      BY <2>8
    <3> QED  BY <2>9, <3>1, <3>2, <3>3
  <2>13. Len(reg_traces[NUM_REG]) - (total - rep) = IF 0 \in ToSet(dom_mb) THEN 0 ELSE Heads
    <3>1. PICK F, L, R : /\ F = {i \in 1 .. Heads : Block(trace[i]) \notin ToSet(dom_mb)}
                         /\ L = {i \in Listed : Block(trace[i]) \notin ToSet(dom_mb)}
                         /\ R = {i \in Listed : Block(trace[i]) \in ToSet(dom_mb)}
      OBVIOUS
    <3>2. Dealt(NUM_REG) = F \cup L /\ F \cap L = {} /\ Listed = L \cup R /\ L \cap R = {}
      <4>1. Numbered
        BY <2>2 DEF Chose
      <4>2. \A i : Index(Block(trace[i])) = NUM_REG <=> Block(trace[i]) \notin ToSet(dom_mb)
        BY <4>1, IndexOf
      <4>3. 1 .. split = 1 .. Heads \cup Listed /\ 1 .. Heads \cap Listed = {}
        BY <2>1 DEF Listed
      <4> QED  BY <3>1, <4>2, <4>3 DEF Dealt
    <3>3. IsFiniteSet(1 .. Heads) /\ Cardinality(1 .. Heads) = Heads /\ F \subseteq 1 .. Heads
      <4>1. Cardinality(1 .. Heads) = IF 1 > Heads THEN 0 ELSE Heads - 1 + 1
        BY <2>1, FS_Interval
      <4>2. IsFiniteSet(1 .. Heads) /\ Cardinality(1 .. Heads) = Heads
        BY <2>1, <4>1, FS_Interval
      <4> QED  BY <3>1, <4>2
    <3>4. IsFiniteSet(F) /\ IsFiniteSet(L) /\ IsFiniteSet(R)
      BY <2>4, <3>2, <3>3, FS_Subset
    <3>5. /\ Cardinality(F \cup L) = Cardinality(F) + Cardinality(L) - Cardinality(F \cap L)
          /\ Cardinality(L \cup R) = Cardinality(L) + Cardinality(R) - Cardinality(L \cap R)
          /\ Cardinality(F \cap L) = 0 /\ Cardinality(L \cap R) = 0
          /\ Cardinality(F) \in Nat /\ Cardinality(L) \in Nat /\ Cardinality(R) \in Nat
      BY <3>2, <3>4, FS_Union, FS_EmptySet, FS_CardinalityType
    <3>6. rep = Cardinality(R)
      <4>1. {i \in Listed : b[i] \in A} = R
        BY <2>3, <2>6, <2>7, <3>1
      <4> QED  BY <2>4, <2>8, <2>9, <4>1
    <3>7. total = Cardinality(Listed)
      <4>1. {i \in Listed : b[i] \in D} = Listed
        BY <2>7
      <4> QED  BY <2>8, <2>9, <4>1
    <3>8. Len(reg_traces[NUM_REG]) = Cardinality(F \cup L)
      <4>1. NUM_REG \in Regions
        BY DEF Regions
      <4> QED  BY <2>1, <3>2, <4>1 DEF DealtInv
    <3>9. Cardinality(F) = IF 0 \in ToSet(dom_mb) THEN 0 ELSE Heads
      <4>1. ASSUME NEW i \in 1 .. Heads PROVE Block(trace[i]) = 0
        <5>1. trace[i] = HeadLine /\ trace[i] \in Record
          <6>1. i \in 1 .. Len(trace) /\ i <= Heads
            BY <2>1
          <6> QED  BY <2>1, <6>1 DEF FileInv
        <5> QED  BY <5>1, BlockNat
      <4>2. F = IF 0 \in ToSet(dom_mb) THEN {} ELSE 1 .. Heads
        BY <3>1, <4>1
      <4>3. Cardinality({}) = 0
        BY FS_EmptySet
      <4> QED  BY <3>3, <4>2, <4>3
    <3> QED  BY <3>2, <3>5, <3>6, <3>7, <3>8, <3>9
  <2> QED  BY <2>3, <2>9, <2>10, <2>12, <2>13 DEF OverflowCounted
<1> QED  BY <1>1, RegionsInvariant, PTL

\* Theorem: a file that is made holds the strides of every region under its own label, all of
\* them ints, and it is made if there are more macroblocks than regions (get_reg_traces,
\* proxy_offset_collector).
THEOREM JsonHoldsRegions == Spec => []JsonIsRegions
<1>1. RegionInv => JsonIsRegions
  <2> SUFFICES ASSUME RegionInv PROVE JsonIsRegions
    OBVIOUS
  <2> USE RegionsAssumption
  <2>1. FileInv /\ CountInv /\ DealtInv /\ ChosenInv /\ PrintedInv /\ JsonInv
    BY DEF RegionInv
  <2>2. \A r \in Filled : r \in Regions /\ r \in Int /\ reg_traces[r] \in Seq(Ints) /\ reg_traces[r] # << >>
    BY <2>1 DEF Filled, Regions, FileInv
  <2>3. \A r \in Filled : Line(r).strides = reg_traces[r] /\ r \in Line(r).labels
          /\ Line(r).labels \subseteq Regions
    BY <2>2 DEF Line
  <2>4. ASSUME at \in {"printed", "made", "failed"}
        PROVE  \E tail : /\ tail \subseteq {LastLine} /\ (NUM_REG \in Filled => tail = {})
                         /\ printed = {Line(r) : r \in Filled} \cup tail
    BY <2>1, <2>4 DEF PrintedInv
  <2>5. ASSUME at = "made"
        PROVE  DOMAIN json = Filled /\ \A r \in Filled : json[r] = reg_traces[r]
                 /\ ToSet(json[r]) \subseteq Ints
    <3>1. /\ \A line \in printed : Readable(line)
          /\ json = [r \in {Min(line.labels) : line \in printed} |->
                  (CHOOSE line \in printed : Min(line.labels) = r).strides]
      BY <2>1, <2>5 DEF JsonInv
    <3>2. printed = {Line(r) : r \in Filled}
      <4>1. LastLine \notin printed
        BY <3>1 DEF Readable, LastLine
      <4> QED  BY <2>4, <2>5, <4>1
    <3>3. ASSUME NEW r \in Filled PROVE Min(Line(r).labels) = r
      <4>1. PICK S : S = Line(r).labels
        OBVIOUS
      <4>2. Cardinality(S) = 1 /\ r \in S /\ S \subseteq Regions
        BY <2>3, <3>1, <3>2, <4>1 DEF Readable
      <4>3. IsFiniteSet(Regions)
        BY FS_Interval DEF Regions
      <4>4. IsFiniteSet(S)
        BY <4>2, <4>3, FS_Subset
      <4>5. PICK x : S = {x}
        BY <4>2, <4>4, FS_Singleton
      <4>6. S = {r} /\ r \in Int
        BY <2>2, <4>2, <4>5
      <4> QED  BY <4>1, <4>6 DEF Min
    <3>4. DOMAIN json = Filled
      <4>1. {Min(line.labels) : line \in printed} = Filled
        BY <3>2, <3>3
      <4> QED  BY <3>1, <4>1
    <3>5. ASSUME NEW r \in Filled PROVE json[r] = reg_traces[r]
      <4>1. PICK line : line = CHOOSE l \in printed : Min(l.labels) = r
        OBVIOUS
      <4>2. line \in printed /\ Min(line.labels) = r
        BY <3>2, <3>3, <4>1
      <4>3. line = Line(r)
        BY <3>2, <3>3, <4>2
      <4>4. json[r] = line.strides
        BY <3>1, <3>4, <4>1
      <4> QED  BY <2>3, <4>3, <4>4
    <3>6. ASSUME NEW s \in Seq(Ints) PROVE ToSet(s) \subseteq Ints
      BY DEF ToSet
    <3> QED  BY <2>2, <3>4, <3>5, <3>6
  <2>6. ASSUME Cardinality(DOMAIN mb_counts) > NUM_REG, at = "failed" PROVE FALSE
    <3>1. split = Len(trace)
      BY <2>1, <2>6 DEF PrintedInv
    <3>2. PICK mbs : Chose(mbs)
      BY <2>1, <2>6 DEF ChosenInv
    <3>3. PICK D : D = DOMAIN mb_counts
      OBVIOUS
    <3>4. IsFiniteSet(D) /\ Cardinality(D) \in Nat /\ Cardinality(D) > NUM_REG
      BY <2>1, <2>6, <3>3, FiniteBlocks, FS_CardinalityType
    <3>5. mbs \subseteq D /\ mbs # D /\ Cardinality(mbs) = NUM_REG
      <4>1. mbs \subseteq D /\ Dominant(mbs)
        BY <3>2, <3>3 DEF Chose
      <4>2. Cardinality(mbs) <= NUM_REG /\ (mbs = D \/ Cardinality(mbs) = NUM_REG)
        BY <3>3, <3>4, <4>1, AllOrEnough
      <4> QED  BY <3>4, <4>1, <4>2
    <3>6. /\ Numbered /\ ToSet(dom_mb) = mbs
          /\ \A i, j \in 1 .. NUM_REG : dom_mb[i] = dom_mb[j] => i = j
      BY <3>2, <3>5 DEF Chose
    <3>7. ASSUME NEW mb \in D PROVE Index(mb) \in Filled
      <4>1. PICK i \in Listed : Block(trace[i]) = mb
        BY <2>1, <3>3 DEF CountInv
      <4>2. i \in Dealt(Index(mb)) /\ IsFiniteSet(Dealt(Index(mb)))
        <5>1. i \in 1 .. split /\ Len(trace) \in Nat
          BY <2>1, <3>1, LinesAreRecords DEF Listed, FileInv
        <5>2. IsFiniteSet(1 .. split)
          BY <3>1, <5>1, FS_Interval
        <5>3. Dealt(Index(mb)) \subseteq 1 .. split
          BY DEF Dealt
        <5> QED  BY <4>1, <5>1, <5>2, <5>3, FS_Subset DEF Dealt
      <4>3. Index(mb) \in Regions /\ Cardinality(Dealt(Index(mb))) # 0
        BY <3>6, <4>2, IndexOf, FS_EmptySet
      <4>4. Len(reg_traces[Index(mb)]) # 0
        BY <2>1, <2>6, <4>3 DEF DealtInv
      <4> QED  BY <4>3, <4>4 DEF Filled
    <3>8. NUM_REG \in Filled
      <4>1. PICK mb \in D : mb \notin mbs
        BY <3>5
      <4>2. Index(mb) = NUM_REG
        BY <3>6, <4>1, IndexOf
      <4> QED  BY <3>7, <4>2
    <3>9. ASSUME NEW r \in Regions, r # NUM_REG PROVE r \in Filled
      <4>1. r \in 0 .. NUM_REG - 1 /\ r + 1 \in 1 .. NUM_REG /\ r \in Int
        BY <3>9 DEF Regions
      <4>2. dom_mb[r + 1] \in ToSet(dom_mb)
        BY <3>6, <4>1 DEF ToSet, Numbered
      <4>3. PICK q : q = Index(dom_mb[r + 1])
        OBVIOUS
      <4>4. q # NUM_REG /\ dom_mb[q + 1] = dom_mb[r + 1] /\ q + 1 \in 1 .. NUM_REG /\ q \in Regions
        BY <3>6, <4>2, <4>3, IndexOf
      <4>5. q + 1 = r + 1 /\ q \in Int
        BY <3>6, <4>1, <4>4 DEF Regions
      <4>6. q = r
        BY <4>1, <4>5
      <4>7. dom_mb[r + 1] \in D
        BY <3>5, <3>6, <4>2
      <4> QED  BY <3>7, <4>3, <4>6, <4>7
    <3>10. Filled = Regions
      BY <3>8, <3>9 DEF Filled
    <3>11. ASSUME NEW r \in Filled PROVE Readable(Line(r))
      <4>1. Line(r).labels = {r}
        <5>1. \A q \in Regions : q \in Int
          BY DEF Regions
        <5>2. \A q \in Regions : (q <= r /\ \A s \in Filled : s < r => s < q) => q = r
          BY <2>2, <3>10, <5>1
        <5>3. Line(r).labels = {q \in Regions : q <= r /\ \A s \in Filled : s < r => s < q}
          BY DEF Line
        <5> QED  BY <2>3, <5>2, <5>3
      <4>2. Cardinality({r}) = 1
        BY FS_Singleton
      <4> QED  BY <2>2, <2>3, <4>1, <4>2 DEF Readable
    <3>12. printed = {Line(r) : r \in Filled}
      BY <2>4, <2>6, <3>8
    <3> QED  BY <2>1, <2>6, <3>11, <3>12 DEF JsonInv
  <2>7. at = "failed" => ~ (Cardinality(DOMAIN mb_counts) > NUM_REG)
    BY <2>6
  <2> QED  BY <2>5, <2>7 DEF JsonIsRegions
<1> QED  BY <1>1, RegionsInvariant, PTL
================================================================================
