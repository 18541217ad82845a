------------------------------ MODULE ListProofs ------------------------------
(***************************************************************************)
(* Theorems about trace2ll.py, for every trace and all its parameters, in  *)
(* three parts:                                                            *)
(*   - the operators of LogStrides and Placement: the powers of two and    *)
(*     the logarithm, the strides they classify, what moving a node does   *)
(*     to a list, and where a new node is put;                             *)
(*   - TraceCulling: a culled trace stands for the original, and every     *)
(*     cull takes of each kind of stride its share;                        *)
(*   - ListMaking and LinkedList: the list follows the trace it is made    *)
(*     from, and stays a list while its nodes are moved.                   *)
(***************************************************************************)
EXTENDS LinkedList, FiniteSetsExt, SumTheorems, SequenceTheorems, TLAPS

--------------------------------------------------------------------------------
(* Powers of two *)

\* f is what the recursion of Pow2 defines on the numbers of S.
IsPower(f, S) == f = [k \in S |-> IF k = 0 THEN 1 ELSE 2 * f[k - 1]]

LEMMA PowerAt ==
  ASSUME NEW S, NEW f, IsPower(f, S), NEW k \in S
  PROVE  f[k] = IF k = 0 THEN 1 ELSE 2 * f[k - 1]
<1> DEFINE e(g, j) == IF j = 0 THEN 1 ELSE 2 * g[j - 1]
<1>1. f = [j \in S |-> e(f, j)]
  BY DEF IsPower
<1> HIDE DEF e
<1>2. f[k] = e(f, k)
  BY <1>1
<1> QED  BY <1>2 DEF e

\* The recursion has one solution at most.
LEMMA PowersAgree ==
  ASSUME NEW a \in Nat, NEW b \in Nat, NEW f, NEW g, IsPower(f, 0 .. a), IsPower(g, 0 .. b),
         NEW n \in Nat, n <= a, n <= b
  PROVE  f[n] = g[n]
<1> DEFINE T == {k \in 0 .. n : f[k] # g[k]}
<1> SUFFICES ASSUME T # {} PROVE FALSE
  OBVIOUS
<1>1. PICK k \in T : \A j \in T : k <= j
  <2>1. T \subseteq Nat
    OBVIOUS
  <2> HIDE DEF T
  <2> QED  BY <2>1, LeastNatural
<1>2. k \in Nat /\ k \in 0 .. a /\ k \in 0 .. b /\ f[k] # g[k]
  OBVIOUS
<1>3. k # 0 => k - 1 \in 0 .. n /\ k - 1 \notin T
  BY <1>1
<1>4. k # 0 => f[k - 1] = g[k - 1]
  BY <1>3
<1>5. f[k] = (IF k = 0 THEN 1 ELSE 2 * f[k - 1]) /\ g[k] = IF k = 0 THEN 1 ELSE 2 * g[k - 1]
  <2>1. k \in 0 .. a /\ k \in 0 .. b
    BY <1>2
  <2> HIDE DEF T
  <2>2. f[k] = IF k = 0 THEN 1 ELSE 2 * f[k - 1]
    BY <2>1, PowerAt
  <2>3. g[k] = IF k = 0 THEN 1 ELSE 2 * g[k - 1]
    BY <2>1, PowerAt
  <2> QED  BY <2>2, <2>3
<1> QED  BY <1>2, <1>4, <1>5

\* It has one, up to any number.
LEMMA PowerUpTo ==
  ASSUME NEW n \in Nat
  PROVE  \E f : IsPower(f, 0 .. n)
<1> DEFINE T == {k \in Nat : ~ \E f : IsPower(f, 0 .. k)}
<1> SUFFICES ASSUME T # {} PROVE FALSE
  OBVIOUS
<1>1. PICK k \in T : \A j \in T : k <= j
  <2>1. T \subseteq Nat
    OBVIOUS
  <2> HIDE DEF T
  <2> QED  BY <2>1, LeastNatural
<1>2. k # 0
  <2> SUFFICES ASSUME k = 0 PROVE FALSE
    OBVIOUS
  <2> DEFINE f == [j \in 0 .. 0 |-> 1]
  <2>1. f = [j \in 0 .. 0 |-> IF j = 0 THEN 1 ELSE 2 * f[j - 1]]
    OBVIOUS
  <2>2. IsPower(f, 0 .. k)
    BY <2>1 DEF IsPower
  <2> QED  BY <2>2
<1>3. k - 1 \in Nat /\ k - 1 \notin T
  BY <1>1, <1>2
<1>4. PICK f : IsPower(f, 0 .. k - 1)
  BY <1>3
<1> DEFINE e == [j \in 0 .. k |-> IF j = k THEN 2 * f[k - 1] ELSE f[j]]
<1>5. ASSUME NEW j \in 0 .. k PROVE e[j] = IF j = 0 THEN 1 ELSE 2 * e[j - 1]
  <2>1. CASE j = k
    BY <1>2, <1>3, <2>1
  <2>2. CASE j # k
    <3>1. j \in 0 .. k - 1 /\ e[j] = f[j] /\ (j # 0 => e[j - 1] = f[j - 1])
      BY <1>3, <2>2
    <3>2. f[j] = IF j = 0 THEN 1 ELSE 2 * f[j - 1]
      <4>1. j \in 0 .. k - 1
        BY <3>1
      <4> HIDE DEF T, e
      <4> QED  BY <1>4, <4>1, PowerAt
    <3> QED  BY <3>1, <3>2
  <2> QED  BY <2>1, <2>2
<1>6. IsPower(e, 0 .. k)
  <2>1. e = [j \in 0 .. k |-> e[j]]
    OBVIOUS
  <2> HIDE DEF e
  <2> QED  BY <1>5, <2>1 DEF IsPower
<1> QED  BY <1>1, <1>6

LEMMA Pow2IsPower == IsPower(Pow2, Nat)
<1> DEFINE G(n) == CHOOSE f : IsPower(f, 0 .. n)
           g == [n \in Nat |-> G(n)[n]]
<1>1. \A n \in Nat : IsPower(G(n), 0 .. n)
  BY PowerUpTo
<1>2. ASSUME NEW n \in Nat PROVE g[n] = IF n = 0 THEN 1 ELSE 2 * g[n - 1]
  <2>1. IsPower(G(n), 0 .. n) /\ g[n] = G(n)[n]
    BY <1>1
  <2> HIDE DEF G
  <2>2. g[n] = IF n = 0 THEN 1 ELSE 2 * G(n)[n - 1]
    BY <2>1, PowerAt
  <2>3. CASE n = 0
    BY <2>2, <2>3
  <2>4. CASE n # 0
    <3>1. n - 1 \in Nat /\ IsPower(G(n - 1), 0 .. n - 1) /\ g[n - 1] = G(n - 1)[n - 1]
      BY <1>1, <2>4
    <3>2. n - 1 <= n
      OBVIOUS
    <3>3. G(n)[n - 1] = G(n - 1)[n - 1]
      BY <2>1, <3>1, <3>2, PowersAgree
    <3> QED  BY <2>2, <2>4, <3>1, <3>3
  <2> QED  BY <2>3, <2>4
<1>3. IsPower(g, Nat)
  <2>1. g = [n \in Nat |-> g[n]]
    OBVIOUS
  <2> HIDE DEF g
  <2> QED  BY <1>2, <2>1 DEF IsPower
<1>4. Pow2 = CHOOSE f : IsPower(f, Nat)
  BY DEF Pow2, IsPower
<1> QED  BY <1>3, <1>4

\* What one more makes of a power of two.
LEMMA Pow2Step ==
  Pow2[0] = 1 /\ \A n \in Nat : Pow2[n + 1] = 2 * Pow2[n]
<1>1. Pow2[0] = 1
  BY Pow2IsPower, PowerAt
<1>2. ASSUME NEW n \in Nat PROVE Pow2[n + 1] = 2 * Pow2[n]
  <2>1. n + 1 \in Nat /\ n + 1 # 0 /\ n + 1 - 1 = n
    OBVIOUS
  <2>2. Pow2[n + 1] = IF n + 1 = 0 THEN 1 ELSE 2 * Pow2[n + 1 - 1]
    <3> DEFINE k == n + 1
    <3> HIDE DEF k
    <3>1. k \in Nat
      BY <2>1 DEF k
    <3>2. Pow2[k] = IF k = 0 THEN 1 ELSE 2 * Pow2[k - 1]
      BY <3>1, Pow2IsPower, PowerAt
    <3> QED  BY <3>2 DEF k
  <2> QED  BY <2>1, <2>2
<1> QED  BY <1>1, <1>2

\* Powers of two are natural numbers, and larger than their exponent.
LEMMA Pow2Nat ==
  \A n \in Nat : Pow2[n] \in Nat /\ n < Pow2[n]
<1> DEFINE T == {n \in Nat : ~ (Pow2[n] \in Nat /\ n < Pow2[n])}
<1> SUFFICES ASSUME T # {} PROVE FALSE
  OBVIOUS
<1>1. PICK n \in T : \A k \in T : n <= k
  <2>1. T \subseteq Nat
    OBVIOUS
  <2> HIDE DEF T
  <2> QED  BY <2>1, LeastNatural
<1>2. n # 0
  BY <1>1, Pow2Step
<1>3. n - 1 \in Nat /\ n - 1 \notin T
  BY <1>1, <1>2
<1>4. Pow2[n - 1] \in Nat /\ n - 1 < Pow2[n - 1] /\ Pow2[n] = 2 * Pow2[n - 1]
  <2>1. n = n - 1 + 1
    OBVIOUS
  <2> QED  BY <1>3, <2>1, Pow2Step
<1> QED  BY <1>1, <1>2, <1>4

LEMMA Pow2Monotone ==
  ASSUME NEW a \in Nat, NEW b \in Nat, a <= b
  PROVE  Pow2[a] <= Pow2[b]
<1> DEFINE T == {n \in Nat : a <= n /\ ~ (Pow2[a] <= Pow2[n])}
<1> SUFFICES ASSUME T # {} PROVE FALSE
  OBVIOUS
<1>1. PICK n \in T : \A k \in T : n <= k
  <2>1. T \subseteq Nat
    OBVIOUS
  <2> HIDE DEF T
  <2> QED  BY <2>1, LeastNatural
<1>2. n # a
  BY <1>1, Pow2Nat
<1>3. n - 1 \in Nat /\ a <= n - 1 /\ n - 1 \notin T /\ n = n - 1 + 1
  BY <1>1, <1>2
<1>4. Pow2[a] <= Pow2[n - 1] /\ Pow2[n] = 2 * Pow2[n - 1] /\ Pow2[n - 1] \in Nat /\ Pow2[a] \in Nat
  BY <1>3, Pow2Step, Pow2Nat
<1> QED  BY <1>1, <1>4

--------------------------------------------------------------------------------
(* The logarithm *)

\* A positive number has exactly one.
LEMMA Log2Bounds ==
  ASSUME NEW v \in Nat \ {0}
  PROVE  Log2(v) \in Nat /\ Pow2[Log2(v)] <= v /\ v < Pow2[Log2(v) + 1]
<1> DEFINE T == {n \in Nat : v < Pow2[n]}
<1>1. PICK n \in T : \A k \in T : n <= k
  <2>1. T \subseteq Nat /\ T # {}
    BY Pow2Nat
  <2> HIDE DEF T
  <2> QED  BY <2>1, LeastNatural
<1>2. n # 0
  BY <1>1, Pow2Step
<1>3. n - 1 \in Nat /\ n - 1 \notin T /\ n - 1 + 1 = n /\ Pow2[n - 1] \in Nat /\ n - 1 < Pow2[n - 1]
  BY <1>1, <1>2, Pow2Nat
<1>4. Pow2[n - 1] <= v /\ v < Pow2[n - 1 + 1] /\ n - 1 \in 0 .. v
  BY <1>1, <1>3
<1> QED  BY <1>4 DEF Log2

LEMMA Log2Unique ==
  ASSUME NEW v \in Nat \ {0}, NEW n \in Nat, Pow2[n] <= v, v < Pow2[n + 1]
  PROVE  Log2(v) = n
<1> DEFINE k == Log2(v)
<1>1. k \in Nat /\ Pow2[k] <= v /\ v < Pow2[k + 1]
  BY Log2Bounds
<1> HIDE DEF k
<1>2. Pow2[k] \in Nat /\ Pow2[k + 1] \in Nat /\ Pow2[n] \in Nat /\ Pow2[n + 1] \in Nat
  BY <1>1, Pow2Nat
<1>3. ~ (k + 1 <= n)
  BY <1>1, <1>2, Pow2Monotone
<1>4. ~ (n + 1 <= k)
  BY <1>1, <1>2, Pow2Monotone
<1> QED  BY <1>1, <1>3, <1>4 DEF k

--------------------------------------------------------------------------------
(* Strides *)

Strides == [is_infinitesimal : BOOLEAN, is_negative : BOOLEAN, magnitude : Nat,
            linear_value : Int, linear_fractional_err : -7 .. 0]

\* The sign and the magnitude are those of the linear value.
WellFormed(s) ==
  /\ s.is_infinitesimal => ~ s.is_negative /\ s.magnitude = 0
  /\ ~ s.is_infinitesimal =>
       /\ s.is_negative <=> s.linear_value < 0
       /\ Pow2[s.magnitude] <= Abs(s.linear_value) /\ Abs(s.linear_value) < Pow2[s.magnitude + 1]

SoundStrides == {s \in Strides : WellFormed(s)}

\* Every stride of a trace is classified so, and no byte of it is lost.
LEMMA LogStrideSound ==
  ASSUME NEW stride \in Int
  PROVE  /\ LogStride(stride) \in SoundStrides
         /\ 8 * LogStride(stride).linear_value - LogStride(stride).linear_fractional_err = stride
<1> DEFINE length == stride \div 8
           tiny == Abs(stride) < 8
           s == LogStride(stride)
<1>1. length \in Int /\ 8 * length <= stride /\ stride < 8 * length + 8
  OBVIOUS
<1>2. Abs(stride) \in Nat /\ tiny \in BOOLEAN /\ Abs(length) \in Nat
  BY <1>1 DEF Abs
<1>3. ~ tiny => Abs(length) # 0 /\ (stride < 0 <=> length < 0)
  BY <1>1 DEF Abs
<1>4. s = [is_infinitesimal |-> tiny, is_negative |-> ~ tiny /\ stride < 0,
           magnitude |-> IF tiny THEN 0 ELSE Log2(Abs(length)), linear_value |-> length,
           linear_fractional_err |-> 8 * length - stride]
  BY DEF LogStride, List_Entry_Size_B
<1> HIDE DEF s, tiny, length
<1>5. ~ tiny => /\ Log2(Abs(length)) \in Nat /\ Pow2[Log2(Abs(length))] <= Abs(length)
                /\ Abs(length) < Pow2[Log2(Abs(length)) + 1]
  BY <1>2, <1>3, Log2Bounds
<1>6. 8 * length - stride \in -7 .. 0
  BY <1>1
<1>7. (stride < 0) \in BOOLEAN
  OBVIOUS
<1>8. s \in Strides
  BY <1>1, <1>2, <1>4, <1>5, <1>6, <1>7 DEF Strides
<1>9. WellFormed(s)
  BY <1>2, <1>3, <1>4, <1>5 DEF WellFormed
<1>10. 8 * s.linear_value - s.linear_fractional_err = stride
  BY <1>1, <1>4
<1> QED  BY <1>8, <1>9, <1>10 DEF s, SoundStrides

\* The length of a stride, however it came about, classifies as the stride does.
LEMMA LengthKeepsKey ==
  ASSUME NEW s \in SoundStrides, ~ s.is_infinitesimal
  PROVE  Key(LogStride(8 * s.linear_value)) = Key(s)
<1> DEFINE v == s.linear_value
<1>1. /\ v \in Int /\ s.is_negative \in BOOLEAN /\ s.magnitude \in Nat
      /\ s.is_negative <=> v < 0
      /\ Pow2[s.magnitude] <= Abs(v) /\ Abs(v) < Pow2[s.magnitude + 1]
  BY DEF SoundStrides, Strides, WellFormed
<1>2. s.is_infinitesimal = FALSE
  BY DEF SoundStrides, Strides
<1>3. Pow2[s.magnitude] \in Nat /\ Pow2[s.magnitude] > 0
  BY <1>1, Pow2Nat
<1> HIDE DEF v
<1>4. v # 0 /\ Abs(v) \in Nat \ {0}
  BY <1>1, <1>3 DEF Abs
<1>5. (8 * v) \div 8 = v /\ ~ (Abs(8 * v) < 8)
  BY <1>1, <1>4 DEF Abs
<1>6. Log2(Abs(v)) = s.magnitude
  BY <1>1, <1>4, Log2Unique
<1>7. 8 * v < 0 <=> v < 0
  BY <1>1
<1> DEFINE l == LogStride(8 * v)
<1>8. l = [is_infinitesimal |-> Abs(8 * v) < 8, is_negative |-> ~ (Abs(8 * v) < 8) /\ 8 * v < 0,
           magnitude |-> IF Abs(8 * v) < 8 THEN 0 ELSE Log2(Abs((8 * v) \div 8)),
           linear_value |-> (8 * v) \div 8,
           linear_fractional_err |-> 8 * ((8 * v) \div 8) - 8 * v]
  BY DEF LogStride, List_Entry_Size_B
<1> HIDE DEF l
<1>9. (Abs(8 * v) < 8) = FALSE /\ (~ (Abs(8 * v) < 8) /\ 8 * v < 0) = s.is_negative
  BY <1>1, <1>5, <1>7
<1>10. l.is_infinitesimal = FALSE /\ l.is_negative = s.is_negative /\ l.magnitude = s.magnitude
  BY <1>5, <1>6, <1>8, <1>9
<1> QED  BY <1>2, <1>10 DEF Key, v, l

--------------------------------------------------------------------------------
(* Stress *)

LEMMA AbsNat == \A x \in Int : Abs(x) \in Nat /\ (Abs(x) = 0 <=> x = 0)
BY DEF Abs

LEMMA LogDevianceNat ==
  ASSUME NEW offset \in Int
  PROVE  LogDeviance(offset) \in Nat /\ Pow2[LogDeviance(offset)] \in Nat \ {0}
<1>1. offset # 0 => Log2(Abs(offset)) \in Nat
  BY AbsNat, Log2Bounds
<1>2. LogDeviance(offset) \in Nat
  <2> DEFINE l == Log2(Abs(offset))
  <2>1. offset # 0 => Larger(l - 1, 0) \in Nat
    <3>1. offset # 0 => l \in Nat
      BY <1>1
    <3> HIDE DEF l
    <3> QED  BY <3>1 DEF Larger
  <2> QED  BY <2>1 DEF LogDeviance
<1> HIDE DEF LogDeviance
<1> QED  BY <1>2, Pow2Nat

LEMMA PenaltyInt ==
  ASSUME NEW deviance \in Nat, NEW offset \in Int
  PROVE  Penalty(deviance, offset) \in Int
<1> DEFINE small == Pow2[LogDeviance(offset)]
<1>1. small \in Nat \ {0}
  BY LogDevianceNat
<1> HIDE DEF small
<1>2. (32 * deviance) \div small \in Int /\ (1024 * deviance) \div small \in Int
  BY <1>1
<1>3. ((32 * deviance) \div small) * ((32 * deviance) \div small) \in Int
  BY <1>2
<1> QED  BY <1>2, <1>3 DEF Penalty, small

\* The links of a list of the nodes 0 to K: each behind the one added before it.
Ring(lk, K) ==
  /\ lk = [offset |-> lk.offset, prev |-> lk.prev, next |-> lk.next]
  /\ lk.offset \in [0 .. K -> Int]
  /\ lk.prev = [n \in 0 .. K |-> IF n = 0 THEN K ELSE n - 1]
  /\ lk.next = [n \in 0 .. K |-> IF n = K THEN 0 ELSE n + 1]

\* A node is next to the one before it, only.
LEMMA RingLinks ==
  ASSUME NEW K \in Nat, NEW lk, Ring(lk, K), NEW n \in 0 .. K
  PROVE  /\ lk.prev[n] \in 0 .. K /\ lk.next[n] \in 0 .. K /\ lk.offset[n] \in Int
         /\ \A k \in 0 .. K : lk.prev[k] = n => k = lk.next[n]
<1>1. lk.prev[n] = (IF n = 0 THEN K ELSE n - 1) /\ lk.next[n] = IF n = K THEN 0 ELSE n + 1
  BY DEF Ring
<1>2. \A k \in 0 .. K : lk.prev[k] = IF k = 0 THEN K ELSE k - 1
  BY DEF Ring
<1>3. lk.offset[n] \in Int
  BY DEF Ring
<1> QED  BY <1>1, <1>2, <1>3

LEMMA StressInt ==
  ASSUME NEW K \in Nat, NEW lk, Ring(lk, K), NEW mp, mp.location \in [0 .. K -> Int], NEW n \in 0 .. K
  PROVE  StressOf(lk, mp, n) \in Int /\ TargetLocation(lk, mp, n) \in Int /\ StressOf(lk, mp, 0) = 0
<1>1. lk.prev[n] \in 0 .. K /\ lk.offset[n] \in Int
  BY RingLinks
<1>2. TargetLocation(lk, mp, n) \in Int
  BY <1>1 DEF TargetLocation
<1> DEFINE away == Abs(mp.location[n] - TargetLocation(lk, mp, n))
<1>3. away \in Nat
  <2> DEFINE d == mp.location[n] - TargetLocation(lk, mp, n)
  <2>1. d \in Int
    BY <1>2
  <2> HIDE DEF d
  <2>2. Abs(d) \in Nat
    BY <2>1, AbsNat
  <2> QED  BY <2>2 DEF d
<1>4. StressOf(lk, mp, n) = IF n = 0 THEN 0 ELSE Penalty(away, lk.offset[n])
  BY DEF StressOf
<1> HIDE DEF away
<1>5. Penalty(away, lk.offset[n]) \in Int
  BY <1>1, <1>3, PenaltyInt
<1>6. StressOf(lk, mp, 0) = 0
  BY DEF StressOf
<1> QED  BY <1>2, <1>4, <1>5, <1>6

\* A list whose sum of stresses is right, whatever the stresses are.
Summed(mp, K) ==
  /\ mp.location \in [0 .. K -> Int]
  /\ mp.stress \in [0 .. K -> Int] /\ mp.stress[0] = 0
  /\ mp.global_stress = SumFunction(mp.stress)

\* update() makes one stress right, and keeps the sum so.
Updated(lk, mp, u, n, K) ==
  /\ u.location = mp.location /\ u.at = mp.at
  /\ u.stress[n] = StressOf(lk, mp, n)
  /\ \A k \in 0 .. K : k # n => u.stress[k] = mp.stress[k]

LEMMA UpdateExact ==
  ASSUME NEW K \in Nat, NEW lk, Ring(lk, K), NEW mp, Summed(mp, K), NEW n \in 0 .. K
  PROVE  Summed(update(lk, mp, n), K) /\ Updated(lk, mp, update(lk, mp, n), n, K)
<1> DEFINE u == update(lk, mp, n)
           s == StressOf(lk, mp, n)
<1>0. /\ mp.location \in [0 .. K -> Int]
      /\ mp.stress \in [0 .. K -> Int] /\ mp.stress[0] = 0
      /\ mp.global_stress = SumFunction(mp.stress)
  BY DEF Summed
<1>1. s \in Int /\ (n = 0 => s = 0)
  BY <1>0, StressInt
<1>2. /\ u.location = mp.location /\ u.at = mp.at /\ u.stress = [mp.stress EXCEPT ![n] = s]
      /\ u.global_stress = IF n = 0 THEN mp.global_stress ELSE mp.global_stress + s - mp.stress[n]
  BY DEF update
<1> HIDE DEF u, s
<1>3. /\ u.stress \in [0 .. K -> Int] /\ u.stress[0] = 0 /\ u.stress[n] = s
      /\ \A k \in 0 .. K : k # n => u.stress[k] = mp.stress[k]
  BY <1>0, <1>1, <1>2
<1>4. SumFunction(u.stress) = SumFunction(mp.stress) - mp.stress[n] + s /\ SumFunction(mp.stress) \in Int
  <2>1. IsFiniteSet(0 .. K)
    BY FS_Interval
  <2> QED  BY <1>0, <1>1, <1>2, <2>1, SumExcept
<1>5. mp.stress[n] \in Int
  BY <1>0
<1>6. u.global_stress = SumFunction(u.stress)
  BY <1>0, <1>1, <1>2, <1>4, <1>5
<1> QED  BY <1>0, <1>2, <1>3, <1>6 DEF u, s, Summed, Updated

\* The stress kept of each node is its stress, and the sum is theirs.
Exact(lk, mp, K) ==
  /\ mp.stress \in [0 .. K -> Int]
  /\ \A n \in 0 .. K : mp.stress[n] = StressOf(lk, mp, n)
  /\ mp.global_stress = SumFunction(mp.stress)

\* Node n alone is at loc, and nothing is any more where it was, if that is vacated.
IsSet(mp, u, n, loc, vacated) ==
  /\ u.location = [mp.location EXCEPT ![n] = loc]
  /\ u.at = [l \in (DOMAIN mp.at \ vacated) \cup {loc} |-> IF l = loc THEN n ELSE mp.at[l]]
  /\ u = [location |-> u.location, at |-> u.at, stress |-> u.stress,
          global_stress |-> u.global_stress]

\* set_location() recalculates all that the move can have changed: the stress
\* of every node but the one that moves and the one behind it was right before.
LEMMA SetExact ==
  ASSUME NEW K \in Nat, NEW lk, Ring(lk, K), NEW mp, Summed(mp, K),
         NEW n \in 0 .. K, NEW loc \in Int, NEW vacated,
         \A k \in 0 .. K : k # n /\ k # lk.next[n] => mp.stress[k] = StressOf(lk, mp, k)
  PROVE  /\ IsSet(mp, set_location(lk, mp, n, loc, vacated), n, loc, vacated)
         /\ set_location(lk, mp, n, loc, vacated).location \in [0 .. K -> Int]
         /\ Exact(lk, set_location(lk, mp, n, loc, vacated), K)
<1> DEFINE moved == [location |-> [mp.location EXCEPT ![n] = loc],
                     at |-> [l \in (DOMAIN mp.at \ vacated) \cup {loc} |-> IF l = loc THEN n ELSE mp.at[l]],
                     stress |-> mp.stress,
                     global_stress |-> mp.global_stress]
           after == lk.next[n]
           a == update(lk, moved, n)
           u == update(lk, a, after)
<1>0. mp.location \in [0 .. K -> Int]
  BY DEF Summed
<1>1. after \in 0 .. K /\ \A k \in 0 .. K : lk.prev[k] = n => k = after
  BY RingLinks
<1>2. Summed(moved, K) /\ moved.stress = mp.stress
  BY DEF Summed
<1>3. set_location(lk, mp, n, loc, vacated) = u
  BY DEF set_location
<1>4. moved.location[n] = loc /\ \A k \in 0 .. K : k # n => moved.location[k] = mp.location[k]
  BY <1>0
<1>5. /\ moved.location = [mp.location EXCEPT ![n] = loc]
      /\ moved.at = [l \in (DOMAIN mp.at \ vacated) \cup {loc} |-> IF l = loc THEN n ELSE mp.at[l]]
  OBVIOUS
<1> HIDE DEF moved, after
<1>6. Summed(a, K) /\ Updated(lk, moved, a, n, K)
  BY <1>2, UpdateExact
<1> HIDE DEF a
<1>7. Summed(u, K) /\ Updated(lk, a, u, after, K)
  BY <1>1, <1>6, UpdateExact
<1>8. u = [location |-> u.location, at |-> u.at, stress |-> u.stress,
           global_stress |-> u.global_stress]
  BY DEF update
<1> HIDE DEF u
<1>9. /\ a.location = moved.location /\ u.location = moved.location /\ u.at = moved.at
      /\ a.stress[n] = StressOf(lk, moved, n) /\ u.stress[after] = StressOf(lk, a, after)
      /\ \A k \in 0 .. K : k # n => a.stress[k] = mp.stress[k]
      /\ \A k \in 0 .. K : k # after => u.stress[k] = a.stress[k]
      /\ u.location \in [0 .. K -> Int] /\ u.stress \in [0 .. K -> Int]
      /\ u.global_stress = SumFunction(u.stress)
  BY <1>2, <1>6, <1>7 DEF Updated, Summed
<1>10. ASSUME NEW k \in 0 .. K PROVE u.stress[k] = StressOf(lk, u, k)
  <2>1. StressOf(lk, u, k) = StressOf(lk, moved, k) /\ StressOf(lk, a, k) = StressOf(lk, moved, k)
    BY <1>9 DEF StressOf, TargetLocation
  <2>2. CASE k = after
    BY <1>9, <2>1, <2>2
  <2>3. CASE k = n /\ k # after
    BY <1>9, <2>1, <2>3
  <2>4. CASE k # n /\ k # after
    <3>1. u.stress[k] = StressOf(lk, mp, k)
      BY <1>9, <2>4 DEF after
    <3>2. lk.prev[k] # n /\ lk.prev[k] \in 0 .. K
      BY <1>1, <2>4, RingLinks
    <3>3. StressOf(lk, mp, k) = StressOf(lk, moved, k)
      BY <1>4, <2>4, <3>2 DEF StressOf, TargetLocation
    <3> QED  BY <2>1, <3>1, <3>3
  <2> QED  BY <2>2, <2>3, <2>4
<1>11. Exact(lk, u, K)
  BY <1>9, <1>10 DEF Exact
<1>12. IsSet(mp, u, n, loc, vacated)
  BY <1>5, <1>8, <1>9 DEF IsSet
<1> QED  BY <1>3, <1>9, <1>11, <1>12

--------------------------------------------------------------------------------
(* Moves *)

\* nodes_by_location is the inverse of the locations.
Mapped(mp, K) ==
  /\ mp.location \in [0 .. K -> Int]
  /\ mp.at \in [DOMAIN mp.at -> 0 .. K]
  /\ \A n \in 0 .. K : mp.location[n] \in DOMAIN mp.at /\ mp.at[mp.location[n]] = n
  /\ \A l \in DOMAIN mp.at : mp.location[mp.at[l]] = l

Moves(mp) == mp = [location |-> mp.location, at |-> mp.at, stress |-> mp.stress,
                 global_stress |-> mp.global_stress]

SoundList(lk, mp, K) == Ring(lk, K) /\ Moves(mp) /\ Mapped(mp, K) /\ Exact(lk, mp, K)

\* Node n is at loc, and the node that was there, if any, where n was.
Exchanged(mp, u, n, loc, K) ==
  u.location = [k \in 0 .. K |-> IF k = n THEN loc
                                 ELSE IF mp.location[k] = loc THEN mp.location[n] ELSE mp.location[k]]

LEMMA ExactSummed ==
  ASSUME NEW K \in Nat, NEW lk, Ring(lk, K), NEW mp, mp.location \in [0 .. K -> Int], Exact(lk, mp, K)
  PROVE  Summed(mp, K)
<1>1. mp.stress[0] = StressOf(lk, mp, 0) /\ StressOf(lk, mp, 0) = 0
  BY DEF Exact, StressOf
<1> QED  BY <1>1 DEF Exact, Summed

\* A move to a free location.
LEMMA ShiftSound ==
  ASSUME NEW K \in Nat, NEW lk, NEW mp, SoundList(lk, mp, K), NEW n \in 0 .. K, NEW loc \in Int,
         loc \notin DOMAIN mp.at
  PROVE  /\ SoundList(lk, set_location(lk, mp, n, loc, {mp.location[n]}), K)
         /\ Exchanged(mp, set_location(lk, mp, n, loc, {mp.location[n]}), n, loc, K)
<1> DEFINE old == mp.location[n]
           u == set_location(lk, mp, n, loc, {old})
<1>1. Ring(lk, K) /\ mp.location \in [0 .. K -> Int] /\ Exact(lk, mp, K) /\ Mapped(mp, K)
  BY DEF SoundList, Mapped
<1>2. Summed(mp, K)
  BY <1>1, ExactSummed
<1>3. \A k \in 0 .. K : mp.stress[k] = StressOf(lk, mp, k)
  BY <1>1 DEF Exact
<1>4. IsSet(mp, u, n, loc, {old}) /\ u.location \in [0 .. K -> Int] /\ Exact(lk, u, K)
  BY <1>1, <1>2, <1>3, SetExact
<1> HIDE DEF u
<1>5. /\ u.location = [mp.location EXCEPT ![n] = loc]
      /\ u.at = [l \in (DOMAIN mp.at \ {old}) \cup {loc} |-> IF l = loc THEN n ELSE mp.at[l]]
      /\ Moves(u)
  BY <1>4 DEF IsSet, Moves
<1>6. /\ mp.at \in [DOMAIN mp.at -> 0 .. K]
      /\ \A k \in 0 .. K : mp.location[k] \in DOMAIN mp.at /\ mp.at[mp.location[k]] = k
      /\ \A l \in DOMAIN mp.at : mp.location[mp.at[l]] = l
  BY <1>1 DEF Mapped
<1>7. DOMAIN u.at = (DOMAIN mp.at \ {old}) \cup {loc}
  BY <1>5
<1>8. u.at \in [DOMAIN u.at -> 0 .. K]
  BY <1>5, <1>6, <1>7
<1>9. ASSUME NEW k \in 0 .. K PROVE u.location[k] \in DOMAIN u.at /\ u.at[u.location[k]] = k
  <2>1. CASE k = n
    BY <1>1, <1>5, <1>7, <2>1
  <2>2. CASE k # n
    <3>1. u.location[k] = mp.location[k] /\ mp.location[k] # old /\ mp.location[k] # loc
      <4>1. u.location[k] = mp.location[k]
        BY <1>1, <1>5, <2>2
      <4>2. mp.location[k] # old /\ mp.location[k] # loc
        BY <1>6, <2>2
      <4> QED  BY <4>1, <4>2
    <3> QED  BY <1>5, <1>6, <1>7, <3>1
  <2> QED  BY <2>1, <2>2
<1>10. ASSUME NEW l \in DOMAIN u.at PROVE u.location[u.at[l]] = l
  <2>1. CASE l = loc
    BY <1>1, <1>5, <1>7, <2>1
  <2>2. CASE l # loc
    <3>1. l \in DOMAIN mp.at /\ l # old /\ u.at[l] = mp.at[l]
      BY <1>5, <1>7, <2>2
    <3>2. mp.at[l] # n /\ mp.at[l] \in 0 .. K
      BY <1>6, <3>1
    <3>3. mp.location[mp.at[l]] = l
      BY <1>6, <3>1
    <3>4. u.location[mp.at[l]] = mp.location[mp.at[l]]
      BY <1>1, <1>5, <3>2
    <3> QED  BY <3>1, <3>3, <3>4
  <2> QED  BY <2>1, <2>2
<1>11. Mapped(u, K)
  BY <1>4, <1>8, <1>9, <1>10 DEF Mapped
<1>12. Exchanged(mp, u, n, loc, K)
  <2>1. \A k \in 0 .. K : mp.location[k] # loc
    BY <1>6
  <2> QED  BY <1>1, <1>5, <2>1 DEF Exchanged
<1> QED  BY <1>1, <1>4, <1>5, <1>11, <1>12 DEF SoundList, u

\* An exchange of the locations of two nodes.
LEMMA SwapSound ==
  ASSUME NEW K \in Nat, NEW lk, NEW mp, SoundList(lk, mp, K), NEW n \in 0 .. K, NEW o \in 0 .. K
  PROVE  /\ SoundList(lk, swap_locations(lk, mp, n, o), K)
         /\ Exchanged(mp, swap_locations(lk, mp, n, o), n, mp.location[o], K)
<1> DEFINE old == mp.location[n]
           loc == mp.location[o]
           a == set_location(lk, mp, n, loc, {old})
           u == set_location(lk, a, o, old, {})
<1>1. Ring(lk, K) /\ mp.location \in [0 .. K -> Int] /\ Exact(lk, mp, K) /\ Mapped(mp, K)
  BY DEF SoundList, Mapped
<1>2. Summed(mp, K) /\ old \in Int /\ loc \in Int
  BY <1>1, ExactSummed
<1>3. \A k \in 0 .. K : mp.stress[k] = StressOf(lk, mp, k)
  BY <1>1 DEF Exact
<1>4. IsSet(mp, a, n, loc, {old}) /\ a.location \in [0 .. K -> Int] /\ Exact(lk, a, K)
  <2> HIDE DEF loc
  <2> QED  BY <1>1, <1>2, <1>3, SetExact
<1>5. u = swap_locations(lk, mp, n, o)
  BY DEF swap_locations
<1> HIDE DEF a
<1>6. Summed(a, K) /\ \A k \in 0 .. K : a.stress[k] = StressOf(lk, a, k)
  <2>1. Summed(a, K)
    BY <1>1, <1>4, ExactSummed
  <2> QED  BY <1>4, <2>1 DEF Exact
<1>7. IsSet(a, u, o, old, {}) /\ u.location \in [0 .. K -> Int] /\ Exact(lk, u, K)
  <2> HIDE DEF old
  <2> QED  BY <1>1, <1>2, <1>6, SetExact
<1> HIDE DEF u
<1>8. /\ a.location = [mp.location EXCEPT ![n] = loc]
      /\ a.at = [l \in (DOMAIN mp.at \ {old}) \cup {loc} |-> IF l = loc THEN n ELSE mp.at[l]]
      /\ u.location = [a.location EXCEPT ![o] = old]
      /\ u.at = [l \in (DOMAIN a.at \ {}) \cup {old} |-> IF l = old THEN o ELSE a.at[l]]
      /\ Moves(u)
  BY <1>4, <1>7 DEF IsSet, Moves
<1>9. /\ mp.at \in [DOMAIN mp.at -> 0 .. K]
      /\ \A k \in 0 .. K : mp.location[k] \in DOMAIN mp.at /\ mp.at[mp.location[k]] = k
      /\ \A l \in DOMAIN mp.at : mp.location[mp.at[l]] = l
  BY <1>1 DEF Mapped
<1>10. /\ old \in DOMAIN mp.at /\ loc \in DOMAIN mp.at /\ mp.at[old] = n /\ mp.at[loc] = o
       /\ mp.location[n] = old /\ mp.location[o] = loc
  BY <1>9
<1> HIDE DEF old, loc
<1>11. DOMAIN u.at = DOMAIN mp.at
  BY <1>8, <1>10
<1>12. \A l \in DOMAIN mp.at : u.at[l] = IF l = old THEN o ELSE IF l = loc THEN n ELSE mp.at[l]
  BY <1>8, <1>10
<1>13. \A k \in 0 .. K : u.location[k] = IF k = o THEN old ELSE IF k = n THEN loc ELSE mp.location[k]
  BY <1>1, <1>4, <1>8
<1>14. u.at \in [DOMAIN u.at -> 0 .. K]
  <2>1. \A l \in DOMAIN u.at : u.at[l] \in 0 .. K
    BY <1>9, <1>11, <1>12
  <2>2. u.at = [l \in DOMAIN u.at |-> u.at[l]]
    BY <1>8
  <2> QED  BY <2>1, <2>2
<1>15. ASSUME NEW k \in 0 .. K PROVE u.location[k] \in DOMAIN u.at /\ u.at[u.location[k]] = k
  BY <1>9, <1>10, <1>11, <1>12, <1>13
<1>16. ASSUME NEW l \in DOMAIN u.at PROVE u.location[u.at[l]] = l
  <2>1. l \in DOMAIN mp.at /\ mp.at[l] \in 0 .. K
    BY <1>9, <1>11
  <2>2. CASE l = old
    BY <1>10, <1>12, <1>13, <2>1, <2>2
  <2>3. CASE l # old /\ l = loc
    <3>1. u.at[l] = n /\ n # o
      BY <1>10, <1>12, <2>1, <2>3
    <3> QED  BY <1>13, <2>3, <3>1
  <2>4. CASE l # old /\ l # loc
    <3>1. u.at[l] = mp.at[l] /\ mp.at[l] # n /\ mp.at[l] # o /\ mp.location[mp.at[l]] = l
      BY <1>9, <1>10, <1>12, <2>1, <2>4
    <3> QED  BY <1>13, <2>1, <3>1
  <2> QED  BY <2>2, <2>3, <2>4
<1>17. Mapped(u, K)
  BY <1>7, <1>14, <1>15, <1>16 DEF Mapped
<1>18. Exchanged(mp, u, n, loc, K)
  <2>1. \A k \in 0 .. K : mp.location[k] = loc <=> k = o
    BY <1>9, <1>10
  <2>2. ASSUME NEW k \in 0 .. K
        PROVE  u.location[k] = IF k = n THEN loc
                               ELSE IF mp.location[k] = loc THEN mp.location[n] ELSE mp.location[k]
    BY <1>10, <1>13, <2>1
  <2>3. u.location = [k \in 0 .. K |-> u.location[k]]
    BY <1>7
  <2> QED  BY <2>2, <2>3 DEF Exchanged
<1> QED  BY <1>1, <1>5, <1>7, <1>8, <1>17, <1>18 DEF SoundList, loc

\* The optimizer's move keeps a list sound.
LEMMA MoveSound ==
  ASSUME NEW K \in Nat, NEW lk, NEW mp, SoundList(lk, mp, K), NEW n \in 0 .. K, NEW loc \in Int
  PROVE  /\ SoundList(lk, move_or_swap(lk, mp, n, loc), K)
         /\ Exchanged(mp, move_or_swap(lk, mp, n, loc), n, loc, K)
<1>1. CASE loc \in DOMAIN mp.at
  <2>1. mp.at[loc] \in 0 .. K /\ mp.location[mp.at[loc]] = loc
    BY <1>1 DEF SoundList, Mapped
  <2>2. move_or_swap(lk, mp, n, loc) = swap_locations(lk, mp, n, mp.at[loc])
    BY <1>1 DEF move_or_swap
  <2> DEFINE o == mp.at[loc]
  <2> HIDE DEF o
  <2>3. o \in 0 .. K /\ mp.location[o] = loc
    BY <2>1 DEF o
  <2>4. /\ SoundList(lk, swap_locations(lk, mp, n, o), K)
        /\ Exchanged(mp, swap_locations(lk, mp, n, o), n, mp.location[o], K)
    BY <2>3, SwapSound
  <2> QED  BY <2>2, <2>3, <2>4 DEF o
<1>2. CASE loc \notin DOMAIN mp.at
  BY <1>2, ShiftSound DEF move_or_swap
<1> QED  BY <1>1, <1>2

\* A sound list is determined by its links and its locations.
LEMMA LocationsDetermine ==
  ASSUME NEW K \in Nat, NEW lk, NEW a, NEW b, SoundList(lk, a, K), SoundList(lk, b, K),
         a.location = b.location
  PROVE  a = b
<1>1. a.at = b.at
  <2>0. Mapped(a, K) /\ Mapped(b, K)
    BY DEF SoundList
  <2>1. ASSUME NEW x, NEW y, Mapped(x, K), Mapped(y, K), x.location = y.location, NEW l \in DOMAIN x.at
        PROVE  l \in DOMAIN y.at /\ y.at[l] = x.at[l]
    <3>1. x.at[l] \in 0 .. K /\ x.location[x.at[l]] = l
      BY <2>1 DEF Mapped
    <3>2. y.location[x.at[l]] \in DOMAIN y.at /\ y.at[y.location[x.at[l]]] = x.at[l]
      BY <2>1, <3>1 DEF Mapped
    <3> QED  BY <2>1, <3>1, <3>2
  <2>2. DOMAIN a.at = DOMAIN b.at
    BY <2>0, <2>1
  <2>3. \A l \in DOMAIN a.at : a.at[l] = b.at[l]
    BY <2>0, <2>1
  <2>4. a.at = [l \in DOMAIN a.at |-> a.at[l]] /\ b.at = [l \in DOMAIN b.at |-> b.at[l]]
    BY DEF SoundList, Mapped
  <2> QED  BY <2>2, <2>3, <2>4
<1>2. a.stress = b.stress
  <2>1. \A n \in 0 .. K : StressOf(lk, a, n) = StressOf(lk, b, n)
    BY DEF StressOf, TargetLocation
  <2>2. \A n \in 0 .. K : a.stress[n] = b.stress[n]
    BY <2>1 DEF SoundList, Exact
  <2>3. a.stress \in [0 .. K -> Int] /\ b.stress \in [0 .. K -> Int]
    BY DEF SoundList, Exact
  <2> QED  BY <2>2, <2>3
<1>3. a.global_stress = b.global_stress
  BY <1>2 DEF SoundList, Exact
<1> QED  BY <1>1, <1>2, <1>3 DEF SoundList, Moves

\* A move that is made and taken back has never been.
LEMMA MoveBack ==
  ASSUME NEW K \in Nat, NEW lk, NEW mp, SoundList(lk, mp, K), NEW n \in 0 .. K, NEW loc \in Int
  PROVE  move_or_swap(lk, move_or_swap(lk, mp, n, loc), n, mp.location[n]) = mp
<1> DEFINE a == move_or_swap(lk, mp, n, loc)
           old == mp.location[n]
           b == move_or_swap(lk, a, n, old)
<1>1. SoundList(lk, a, K) /\ Exchanged(mp, a, n, loc, K)
  BY MoveSound
<1>2. /\ mp.location \in [0 .. K -> Int]
      /\ \A k \in 0 .. K : mp.location[k] \in DOMAIN mp.at /\ mp.at[mp.location[k]] = k
  BY DEF SoundList, Mapped
<1>3. old \in Int
  BY <1>2
<1> HIDE DEF a, old
<1>4. SoundList(lk, b, K) /\ Exchanged(a, b, n, old, K)
  BY <1>1, <1>3, MoveSound
<1> HIDE DEF b
<1>5. \A k \in 0 .. K : a.location[k] =
        IF k = n THEN loc ELSE IF mp.location[k] = loc THEN old ELSE mp.location[k]
  BY <1>1 DEF Exchanged, old
<1>6. \A k \in 0 .. K : b.location[k] =
        IF k = n THEN old ELSE IF a.location[k] = old THEN a.location[n] ELSE a.location[k]
  BY <1>4 DEF Exchanged
<1>7. ASSUME NEW k \in 0 .. K PROVE b.location[k] = mp.location[k]
  <2>1. k # n => mp.location[k] # old
    BY <1>2 DEF old
  <2> QED  BY <1>5, <1>6, <2>1 DEF old
<1>8. b.location = mp.location
  <2>1. b.location \in [0 .. K -> Int]
    BY <1>4 DEF SoundList, Mapped
  <2> QED  BY <1>2, <1>7, <2>1
<1> QED  BY <1>4, <1>8, LocationsDetermine DEF b, a, old

--------------------------------------------------------------------------------
(* A new node *)

\* The extent of the list is exact.
Extent(mp, cv, K) ==
  /\ cv \in [min_location : Int, max_location : Int, fallback_nodes : Nat,
            cluster_placement_delta : Int, permanent_placement_delta : Int]
  /\ \A n \in 0 .. K : cv.min_location <= mp.location[n] /\ mp.location[n] <= cv.max_location
  /\ \E n \in 0 .. K : mp.location[n] = cv.min_location
  /\ \E n \in 0 .. K : mp.location[n] = cv.max_location

\* Of displacements there is one that balances best.
LEMMA BalancingChooses ==
  ASSUME NEW cv, cv.cluster_placement_delta \in Int, NEW low \in Int, NEW high \in Int,
         NEW free \in SUBSET (low .. high), free # {}
  PROVE  Balancing(cv, free) \in free
<1> DEFINE delta == cv.cluster_placement_delta
           Drift(d) == Abs(d + delta)
           Drifts == {Drift(d) : d \in free}
<1>1. \A d \in free : d \in Int /\ low <= d /\ Drift(d) \in Nat
  BY DEF Abs
<1> HIDE DEF Drift
<1>2. PICK x \in Drifts : \A y \in Drifts : x <= y
  <2>1. Drifts \subseteq Nat /\ Drifts # {}
    BY <1>1
  <2> HIDE DEF Drifts
  <2> QED  BY <2>1, LeastNatural
<1> DEFINE Best == {d \in free : Drift(d) = x}
<1>3. PICK d \in Best : \A e \in Best : d <= e
  <2>1. Best \subseteq Int /\ Best # {} /\ \A e \in Best : low <= e
    BY <1>1, <1>2
  <2> HIDE DEF Best
  <2> QED  BY <2>1, LeastInteger
<1>4. d \in free /\ \A e \in free : Drift(d) < Drift(e) \/ (Drift(d) = Drift(e) /\ d <= e)
  <2> SUFFICES ASSUME NEW e \in free
               PROVE  Drift(d) < Drift(e) \/ (Drift(d) = Drift(e) /\ d <= e)
    BY <1>3
  <2>1. Drift(d) = x /\ x <= Drift(e) /\ Drift(e) \in Nat /\ x \in Nat
    BY <1>1, <1>2, <1>3
  <2>2. Drift(e) = x => d <= e
    BY <1>3
  <2> QED  BY <2>1, <2>2
<1>5. Balancing(cv, free) =
        CHOOSE k \in free : \A e \in free : Drift(k) < Drift(e) \/ (Drift(k) = Drift(e) /\ k <= e)
  BY DEF Balancing, Drift
<1> QED  BY <1>4, <1>5

\* A displacement that is found leads to a free location.
LEMMA DisplacementFree ==
  ASSUME NEW mp, NEW cv, cv.cluster_placement_delta \in Int, NEW ideal \in Int, NEW offset \in Int,
         NEW d \in Displacement(mp, cv, ideal, offset)
  PROVE  d \in Int /\ ideal + d \notin DOMAIN mp.at
<1> USE PlacementAssumption
<1> DEFINE reach == 2 * Pow2[LogDeviance(offset)]
           delta == cv.cluster_placement_delta
           low == Smaller(-reach, -delta)
           high == Larger(reach, delta)
           near == FreeDisplacements(mp, ideal, low .. high)
           far == FreeDisplacements(mp, ideal, -EXTRA_RANGE .. EXTRA_RANGE)
<1>1. low \in Int /\ high \in Int /\ -EXTRA_RANGE \in Int /\ EXTRA_RANGE \in Int
  <2>1. reach \in Int
    BY LogDevianceNat
  <2> HIDE DEF reach
  <2> QED  BY <2>1 DEF Smaller, Larger
<1>2. NearDisplacements(cv, offset) = low .. high
  BY DEF NearDisplacements
<1> HIDE DEF reach, delta, low, high
<1>3. /\ near \in SUBSET (low .. high) /\ far \in SUBSET (-EXTRA_RANGE .. EXTRA_RANGE)
      /\ \A e \in near \cup far : e \in Int /\ ideal + e \notin DOMAIN mp.at
  BY <1>1 DEF FreeDisplacements
<1>4. Displacement(mp, cv, ideal, offset) =
        IF near # {} THEN {Balancing(cv, near)} ELSE IF far # {} THEN {Balancing(cv, far)} ELSE {}
  BY <1>2 DEF Displacement
<1> HIDE DEF near, far
<1>5. near # {} => Balancing(cv, near) \in near
  BY <1>1, <1>3, BalancingChooses
<1>6. far # {} => Balancing(cv, far) \in far
  BY <1>1, <1>3, BalancingChooses
<1>7. d \in near \cup far
  <2>1. CASE near # {}
    BY <1>4, <1>5, <2>1
  <2>2. CASE near = {}
    BY <1>4, <1>6, <2>2
  <2> QED  BY <2>1, <2>2
<1> QED  BY <1>3, <1>7

\* The location of a new node is free, be it near its ideal location or where a
\* new cluster begins.
LEMMA InitLocationFree ==
  ASSUME NEW K \in Nat, NEW mp, NEW cv, Mapped(mp, K), Extent(mp, cv, K), NEW ideal \in Int, NEW offset \in Int
  PROVE  InitLocation(mp, cv, ideal, offset) \in Int /\ InitLocation(mp, cv, ideal, offset) \notin DOMAIN mp.at
<1> USE PlacementAssumption
<1> DEFINE found == Displacement(mp, cv, ideal, offset)
           traced == ideal - cv.permanent_placement_delta
<1>1. /\ cv.min_location \in Int /\ cv.max_location \in Int
      /\ cv.permanent_placement_delta \in Int /\ cv.cluster_placement_delta \in Int
      /\ \A n \in 0 .. K : cv.min_location <= mp.location[n] /\ mp.location[n] <= cv.max_location
  BY DEF Extent
<1>2. \A l \in DOMAIN mp.at : l \in Int /\ l \in cv.min_location .. cv.max_location
  <2> SUFFICES ASSUME NEW l \in DOMAIN mp.at PROVE l \in Int /\ l \in cv.min_location .. cv.max_location
    OBVIOUS
  <2>1. mp.at[l] \in 0 .. K /\ mp.location[mp.at[l]] = l /\ mp.location \in [0 .. K -> Int]
    BY DEF Mapped
  <2>2. l \in Int /\ cv.min_location <= l /\ l <= cv.max_location
    BY <1>1, <2>1
  <2> QED  BY <1>1, <2>2
<1>3. CASE GivesUpCluster(cv, found)
  <2>1. InitLocation(mp, cv, ideal, offset) = ClusterStart(cv, ideal)
    BY <1>3 DEF InitLocation
  <2>2. ClusterStart(cv, ideal) \in Int /\ ClusterStart(cv, ideal) \notin cv.min_location .. cv.max_location
    BY <1>1 DEF ClusterStart
  <2> QED  BY <1>2, <2>1, <2>2
<1>4. CASE ~ GivesUpCluster(cv, found)
  <2>1. found # {}
    BY <1>4 DEF GivesUpCluster
  <2> DEFINE d == CHOOSE e \in found : TRUE
  <2>2. d \in found
    BY <2>1
  <2>3. InitLocation(mp, cv, ideal, offset) = ideal + d
    BY <1>4 DEF InitLocation
  <2> HIDE DEF d
  <2>4. d \in Int /\ ideal + d \notin DOMAIN mp.at
    BY <1>1, <2>2, DisplacementFree
  <2> QED  BY <2>3, <2>4
<1> QED  BY <1>3, <1>4

\* Nodes 0 to K: the first alone has no offset and no node after it.
LEMMA LinkedRing ==
  ASSUME NEW K \in Nat, NEW lk, Ring(lk, K), NEW offset \in Int
  PROVE  /\ Ring(Linked(lk, K + 1, offset), K + 1)
         /\ Linked(lk, K + 1, offset).offset[K + 1] = offset
         /\ \A k \in 0 .. K : Linked(lk, K + 1, offset).offset[k] = lk.offset[k]
<1> DEFINE n == K + 1
           u == Linked(lk, n, offset)
<1>1. /\ u.offset = [k \in 0 .. n |-> IF k = n THEN offset ELSE lk.offset[k]]
      /\ u.prev = [k \in 0 .. n |-> IF k = n THEN n - 1 ELSE IF k = 0 THEN n ELSE lk.prev[k]]
      /\ u.next = [k \in 0 .. n |-> IF k = n THEN 0 ELSE IF k = n - 1 THEN n ELSE lk.next[k]]
      /\ u = [offset |-> u.offset, prev |-> u.prev, next |-> u.next]
  BY DEF Linked
<1> HIDE DEF u
<1>2. /\ lk.offset \in [0 .. K -> Int]
      /\ \A k \in 0 .. K : /\ lk.prev[k] = IF k = 0 THEN K ELSE k - 1
                           /\ lk.next[k] = IF k = K THEN 0 ELSE k + 1
  BY DEF Ring
<1>3. u.offset \in [0 .. n -> Int]
  BY <1>1, <1>2
<1>4. u.prev = [k \in 0 .. n |-> IF k = 0 THEN n ELSE k - 1]
  <2>1. \A k \in 0 .. n : (IF k = n THEN n - 1 ELSE IF k = 0 THEN n ELSE lk.prev[k])
                            = IF k = 0 THEN n ELSE k - 1
    <3> SUFFICES ASSUME NEW k \in 0 .. n, k # n, k # 0 PROVE lk.prev[k] = k - 1
      OBVIOUS
    <3>1. k \in 0 .. K
      OBVIOUS
    <3> QED  BY <1>2, <3>1
  <2> QED  BY <1>1, <2>1
<1>5. u.next = [k \in 0 .. n |-> IF k = n THEN 0 ELSE k + 1]
  <2>1. \A k \in 0 .. n : (IF k = n THEN 0 ELSE IF k = n - 1 THEN n ELSE lk.next[k])
                            = IF k = n THEN 0 ELSE k + 1
    BY <1>2
  <2> QED  BY <1>1, <2>1
<1>6. Ring(u, n)
  BY <1>1, <1>3, <1>4, <1>5 DEF Ring
<1> QED  BY <1>1, <1>6 DEF u

\* The node added last is at the end.
LEMMA LastOfList ==
  ASSUME NEW K \in Nat, NEW ll, ll.m.location \in [0 .. K -> Int]
  PROVE  LastOf(ll) = K
BY DEF LastOf

\* The deviation that is kept is how far the last node is from where the trace
\* itself is by then.
Drifts(ll, K) ==
  ll.m.location[K] = SumFunction(ll.t.offset) + ll.c.permanent_placement_delta

LongerBy(ll, longer, offset, K) ==
  /\ longer.t.offset[K + 1] = offset
  /\ \A k \in 0 .. K : longer.t.offset[k] = ll.t.offset[k]

SoundLayout(ll, K) ==
  SoundList(ll.t, ll.m, K) /\ Extent(ll.m, ll.c, K) /\ Drifts(ll, K)

\* A node added where nothing is makes a sound list of a sound list.
LEMMA WithNodeSound ==
  ASSUME NEW K \in Nat, NEW ll, SoundLayout(ll, K), NEW offset \in Int
  PROVE  /\ SoundLayout(WithNode(ll, offset), K + 1)
         /\ LongerBy(ll, WithNode(ll, offset), offset, K)
         /\ NewLocation(ll, offset) \notin DOMAIN ll.m.at
<1> DEFINE lk == ll.t
           mp == ll.m
           cv == ll.c
           n == K + 1
           ideal == IdealLocation(ll, offset)
           loc == NewLocation(ll, offset)
           links == Linked(lk, n, offset)
           Unplaced(f) == [k \in 0 .. n |-> IF k = n THEN 0 ELSE f[k]]
           bare == [location |-> Unplaced(mp.location), at |-> mp.at,
                    stress |-> Unplaced(mp.stress), global_stress |-> mp.global_stress]
           u == set_location(links, bare, n, loc, {})
           d == placed(mp, cv, ideal, offset)
           longer == WithNode(ll, offset)
<1>1. /\ Ring(lk, K) /\ Moves(mp) /\ Mapped(mp, K) /\ Exact(lk, mp, K) /\ Extent(mp, cv, K)
      /\ mp.location[K] = SumFunction(lk.offset) + cv.permanent_placement_delta
  BY DEF SoundLayout, SoundList, Drifts
<1>2. mp.location \in [0 .. K -> Int] /\ mp.stress \in [0 .. K -> Int] /\ LastOf(ll) = K
  BY <1>1, LastOfList DEF Mapped, Exact
<1>3. ideal = mp.location[K] + offset /\ ideal \in Int
  BY <1>2 DEF IdealLocation
<1>4. loc = InitLocation(mp, cv, ideal, offset)
  BY DEF NewLocation
<1>5. longer = [t |-> links, m |-> u, c |-> d]
  BY <1>2 DEF WithNode
<1> HIDE DEF lk, mp, cv, ideal, loc, longer
<1>6. loc \in Int /\ loc \notin DOMAIN mp.at
  BY <1>1, <1>3, <1>4, InitLocationFree
<1>7. Ring(links, n) /\ links.offset[n] = offset /\ \A k \in 0 .. K : links.offset[k] = lk.offset[k]
  BY <1>1, LinkedRing
<1> HIDE DEF links
<1>8. /\ bare.location \in [0 .. n -> Int] /\ bare.stress \in [0 .. n -> Int]
      /\ \A k \in 0 .. K : bare.location[k] = mp.location[k] /\ bare.stress[k] = mp.stress[k]
      /\ bare.stress[n] = 0 /\ bare.global_stress = mp.global_stress /\ bare.at = mp.at
  BY <1>2
<1> HIDE DEF bare
<1>9. Summed(bare, n)
  <2>1. Summed(mp, K)
    BY <1>1, <1>2, ExactSummed
  <2>2. SumFunction(bare.stress) = SumFunction(mp.stress) + 0 /\ SumFunction(mp.stress) \in Int
    <3> DEFINE f == mp.stress
               g == bare.stress
               zero == 0
    <3>1. /\ IsFiniteSet(DOMAIN f) /\ (\A k \in DOMAIN f : f[k] \in Int)
          /\ DOMAIN g = DOMAIN f \cup {n} /\ (\A k \in DOMAIN f : k # n => g[k] = f[k])
          /\ n \notin DOMAIN f /\ g[n] = 0
      <4>0. 0 \in Int /\ K \in Int
        OBVIOUS
      <4>1. DOMAIN f = 0 .. K /\ DOMAIN g = 0 .. n /\ IsFiniteSet(0 .. K)
        <5>1. IsFiniteSet(0 .. K)
          BY <4>0, FS_Interval
        <5> QED  BY <1>2, <1>8, <5>1
      <4>2. 0 .. n = (0 .. K) \cup {n} /\ n \notin 0 .. K
        OBVIOUS
      <4> QED  BY <1>2, <1>8, <4>1, <4>2
    <3>2. g[n] = (IF n \in DOMAIN f THEN f[n] ELSE 0) + zero /\ zero \in Int
      BY <3>1
    <3> HIDE DEF f, g, n, zero
    <3>3. SumFunction(g) = SumFunction(f) + zero /\ SumFunction(f) \in Int
      BY <3>1, <3>2, SumCount
    <3> QED  BY <3>3 DEF f, g, zero
  <2>3. bare.stress[0] = 0
    BY <1>8, <2>1 DEF Summed
  <2> QED  BY <1>8, <2>1, <2>2, <2>3 DEF Summed
<1>10. links.next[n] = 0 /\ \A k \in 0 .. n : k # n /\ k # 0 => links.prev[k] = k - 1 /\ lk.prev[k] = k - 1
  <2>1. links.next = [k \in 0 .. n |-> IF k = n THEN 0 ELSE k + 1]
    BY <1>7 DEF Ring
  <2>2. links.prev = [k \in 0 .. n |-> IF k = 0 THEN n ELSE k - 1]
    BY <1>7 DEF Ring
  <2>3. lk.prev = [k \in 0 .. K |-> IF k = 0 THEN K ELSE k - 1]
    BY <1>1 DEF Ring
  <2>4. \A k \in 0 .. n : k # n => k \in 0 .. K
    OBVIOUS
  <2> QED  BY <2>1, <2>2, <2>3, <2>4
<1>11. \A k \in 0 .. n : k # n /\ k # links.next[n] => bare.stress[k] = StressOf(links, bare, k)
  <2> SUFFICES ASSUME NEW k \in 0 .. n, k # n, k # 0 PROVE bare.stress[k] = StressOf(links, bare, k)
    BY <1>10
  <2>1. k \in 0 .. K /\ k - 1 \in 0 .. K
    OBVIOUS
  <2>2. StressOf(links, bare, k) = StressOf(lk, mp, k)
    <3>1. links.prev[k] = k - 1 /\ lk.prev[k] = k - 1 /\ links.offset[k] = lk.offset[k]
      BY <1>7, <1>10, <2>1
    <3>2. bare.location[k] = mp.location[k] /\ bare.location[k - 1] = mp.location[k - 1]
      BY <1>8, <2>1
    <3> HIDE DEF links, bare, lk, mp
    <3>3. TargetLocation(links, bare, k) = TargetLocation(lk, mp, k)
      BY <3>1, <3>2 DEF TargetLocation
    <3> QED  BY <3>1, <3>2, <3>3 DEF StressOf
  <2> QED  BY <1>1, <1>8, <2>1, <2>2 DEF Exact
<1>12. IsSet(bare, u, n, loc, {}) /\ u.location \in [0 .. n -> Int] /\ Exact(links, u, n)
  <2>1. n \in 0 .. n /\ n \in Nat
    OBVIOUS
  <2> HIDE DEF n
  <2> QED  BY <1>6, <1>7, <1>9, <1>11, <2>1, SetExact
<1> HIDE DEF u
<1>13. /\ u.location[n] = loc /\ \A k \in 0 .. K : u.location[k] = mp.location[k]
       /\ u.at = [l \in (DOMAIN mp.at) \cup {loc} |-> IF l = loc THEN n ELSE mp.at[l]]
       /\ Moves(u)
  BY <1>8, <1>12 DEF IsSet, Moves
<1>14. Mapped(u, n)
  <2>1. /\ mp.at \in [DOMAIN mp.at -> 0 .. K]
        /\ \A k \in 0 .. K : mp.location[k] \in DOMAIN mp.at /\ mp.at[mp.location[k]] = k
        /\ \A l \in DOMAIN mp.at : mp.location[mp.at[l]] = l
    BY <1>1 DEF Mapped
  <2>2. DOMAIN u.at = DOMAIN mp.at \cup {loc} /\ \A k \in 0 .. K : k \in 0 .. n
    BY <1>13
  <2>3. u.at \in [DOMAIN u.at -> 0 .. n]
    BY <1>13, <2>1, <2>2
  <2>4. ASSUME NEW k \in 0 .. n PROVE u.location[k] \in DOMAIN u.at /\ u.at[u.location[k]] = k
    <3>1. CASE k = n
      BY <1>13, <2>2, <3>1
    <3>2. CASE k # n
      <4>1. k \in 0 .. K
        BY <3>2
      <4>2. u.location[k] = mp.location[k] /\ mp.location[k] \in DOMAIN mp.at /\ mp.location[k] # loc
        BY <1>6, <1>13, <2>1, <4>1
      <4> QED  BY <1>13, <2>1, <2>2, <4>1, <4>2
    <3> QED  BY <3>1, <3>2
  <2>5. ASSUME NEW l \in DOMAIN u.at PROVE u.location[u.at[l]] = l
    <3>1. CASE l = loc
      BY <1>13, <2>2, <3>1
    <3>2. CASE l # loc
      <4>1. l \in DOMAIN mp.at /\ u.at[l] = mp.at[l] /\ mp.at[l] \in 0 .. K
        BY <1>13, <2>1, <2>2, <3>2
      <4> QED  BY <1>13, <2>1, <4>1
    <3> QED  BY <3>1, <3>2
  <2> QED  BY <1>12, <2>3, <2>4, <2>5 DEF Mapped
<1>15. SoundList(links, u, n)
  BY <1>7, <1>12, <1>13, <1>14 DEF SoundList
<1> DEFINE gives_up == GivesUpCluster(cv, Displacement(mp, cv, ideal, offset))
<1>16. d = [min_location |-> Smaller(cv.min_location, loc),
            max_location |-> Larger(cv.max_location, loc),
            fallback_nodes |-> cv.fallback_nodes + IF gives_up THEN 1 ELSE 0,
            cluster_placement_delta |-> IF gives_up THEN 0 ELSE cv.cluster_placement_delta + loc - ideal,
            permanent_placement_delta |-> cv.permanent_placement_delta + loc - ideal]
  BY <1>4 DEF placed
<1> HIDE DEF d, gives_up
<1>17. Extent(u, d, n)
  <2>1. /\ cv.min_location \in Int /\ cv.max_location \in Int /\ cv.fallback_nodes \in Nat
        /\ cv.permanent_placement_delta \in Int /\ cv.cluster_placement_delta \in Int
        /\ \A k \in 0 .. K : cv.min_location <= mp.location[k] /\ mp.location[k] <= cv.max_location
        /\ \E k \in 0 .. K : mp.location[k] = cv.min_location
        /\ \E k \in 0 .. K : mp.location[k] = cv.max_location
    BY <1>1 DEF Extent
  <2>2. d \in [min_location : Int, max_location : Int, fallback_nodes : Nat,
               cluster_placement_delta : Int, permanent_placement_delta : Int]
    <3>1. /\ Smaller(cv.min_location, loc) \in Int /\ Larger(cv.max_location, loc) \in Int
          /\ (cv.fallback_nodes + IF gives_up THEN 1 ELSE 0) \in Nat
          /\ (IF gives_up THEN 0 ELSE cv.cluster_placement_delta + loc - ideal) \in Int
          /\ cv.permanent_placement_delta + loc - ideal \in Int
      BY <1>3, <1>6, <2>1 DEF Smaller, Larger
    <3> QED  BY <1>16, <3>1
  <2>3. d.min_location = Smaller(cv.min_location, loc) /\ d.max_location = Larger(cv.max_location, loc)
    BY <1>16
  <2>4. \A k \in 0 .. n : k # n => k \in 0 .. K
    OBVIOUS
  <2>5. \A k \in 0 .. K : k \in 0 .. n
    OBVIOUS
  <2>6. n \in 0 .. n
    OBVIOUS
  <2>7. ASSUME NEW k \in 0 .. n PROVE d.min_location <= u.location[k] /\ u.location[k] <= d.max_location
    <3>1. CASE k = n
      BY <1>6, <1>13, <2>1, <2>3, <3>1 DEF Smaller, Larger
    <3>2. CASE k # n
      <4>1. u.location[k] = mp.location[k] /\ mp.location[k] \in Int
            /\ cv.min_location <= mp.location[k] /\ mp.location[k] <= cv.max_location
        BY <1>2, <1>13, <2>1, <2>4, <3>2
      <4> QED  BY <1>6, <2>1, <2>3, <4>1 DEF Smaller, Larger
    <3> QED  BY <3>1, <3>2
  <2>8. \E k \in 0 .. n : u.location[k] = d.min_location
    <3>1. CASE loc < cv.min_location
      BY <1>6, <1>13, <2>1, <2>3, <2>6, <3>1 DEF Smaller
    <3>2. CASE ~ (loc < cv.min_location)
      <4>1. PICK k \in 0 .. K : mp.location[k] = cv.min_location
        BY <2>1
      <4>2. d.min_location = cv.min_location
        BY <1>6, <2>1, <2>3, <3>2 DEF Smaller
      <4> QED  BY <1>13, <2>5, <4>1, <4>2
    <3> QED  BY <3>1, <3>2
  <2>9. \E k \in 0 .. n : u.location[k] = d.max_location
    <3>1. CASE cv.max_location < loc
      BY <1>6, <1>13, <2>1, <2>3, <2>6, <3>1 DEF Larger
    <3>2. CASE ~ (cv.max_location < loc)
      <4>1. PICK k \in 0 .. K : mp.location[k] = cv.max_location
        BY <2>1
      <4>2. d.max_location = cv.max_location
        BY <1>6, <2>1, <2>3, <3>2 DEF Larger
      <4> QED  BY <1>13, <2>5, <4>1, <4>2
    <3> QED  BY <3>1, <3>2
  <2> QED  BY <2>2, <2>7, <2>8, <2>9 DEF Extent
<1>18. u.location[n] = SumFunction(links.offset) + d.permanent_placement_delta
  <2>1. SumFunction(links.offset) = SumFunction(lk.offset) + offset /\ SumFunction(lk.offset) \in Int
    <3> DEFINE f == lk.offset
               g == links.offset
    <3>1. /\ IsFiniteSet(DOMAIN f) /\ (\A k \in DOMAIN f : f[k] \in Int)
          /\ DOMAIN g = DOMAIN f \cup {n} /\ (\A k \in DOMAIN f : k # n => g[k] = f[k])
          /\ n \notin DOMAIN f /\ g[n] = offset
      <4>1. f \in [0 .. K -> Int] /\ g \in [0 .. n -> Int]
        BY <1>1, <1>7 DEF Ring
      <4>0. 0 \in Int /\ K \in Int
        OBVIOUS
      <4>2. DOMAIN f = 0 .. K /\ DOMAIN g = 0 .. n /\ IsFiniteSet(0 .. K)
        <5>1. IsFiniteSet(0 .. K)
          BY <4>0, FS_Interval
        <5> QED  BY <4>1, <5>1
      <4>3. 0 .. n = (0 .. K) \cup {n} /\ n \notin 0 .. K
        OBVIOUS
      <4> QED  BY <1>7, <4>1, <4>2, <4>3
    <3>2. g[n] = (IF n \in DOMAIN f THEN f[n] ELSE 0) + offset
      BY <3>1
    <3> HIDE DEF f, g, n
    <3>3. SumFunction(g) = SumFunction(f) + offset /\ SumFunction(f) \in Int
      BY <3>1, <3>2, SumCount
    <3> QED  BY <3>3 DEF f, g
  <2>2. d.permanent_placement_delta = cv.permanent_placement_delta + loc - ideal
    BY <1>16
  <2>3. cv.permanent_placement_delta \in Int /\ mp.location[K] \in Int
    BY <1>1, <1>2 DEF Extent
  <2> QED  BY <1>1, <1>3, <1>6, <1>13, <2>1, <2>2, <2>3
<1>19. longer.t = links /\ longer.m = u /\ longer.c = d
  BY <1>5
<1>20. SoundLayout(longer, n)
  BY <1>15, <1>17, <1>18, <1>19 DEF SoundLayout, Drifts
<1>21. LongerBy(ll, longer, offset, K)
  BY <1>7, <1>19 DEF LongerBy, lk
<1> QED  BY <1>6, <1>20, <1>21 DEF longer, mp, loc

\* The special first node is a sound list by itself.
LEMMA FirstNodeSound == SoundLayout(FirstNode, 0)
<1> DEFINE single == [n \in {0} |-> 0]
           lk == [offset |-> single, prev |-> single, next |-> single]
           mp == [location |-> single, at |-> single, stress |-> single, global_stress |-> 0]
           cv == [min_location |-> 0, max_location |-> 0, fallback_nodes |-> 0,
                 cluster_placement_delta |-> 0, permanent_placement_delta |-> 0]
<1>1. 0 .. 0 = {0}
  OBVIOUS
<1>2. Ring(lk, 0)
  <2>1. single = [n \in {0} |-> IF n = 0 THEN 0 ELSE n - 1]
          /\ single = [n \in {0} |-> IF n = 0 THEN 0 ELSE n + 1]
    OBVIOUS
  <2> QED  BY <1>1, <2>1 DEF Ring
<1>3. Moves(mp) /\ Mapped(mp, 0)
  BY <1>1 DEF Moves, Mapped
<1>4. SumFunction(single) = 0
  <2>1. IsFiniteSet({0}) /\ DOMAIN single = {0} /\ \A x \in {0} : single[x] = 0
    BY FS_Singleton
  <2> HIDE DEF single
  <2> QED  BY <2>1, SumZero DEF SumFunction
<1>5. Exact(lk, mp, 0)
  <2>1. StressOf(lk, mp, 0) = 0
    BY DEF StressOf
  <2>2. mp.stress = single /\ mp.global_stress = 0 /\ single \in [0 .. 0 -> Int] /\ single[0] = 0
    BY <1>1
  <2> HIDE DEF lk, mp, single
  <2> QED  BY <1>1, <1>4, <2>1, <2>2 DEF Exact
<1>6. Extent(mp, cv, 0)
  BY <1>1 DEF Extent
<1>7. FirstNode = [t |-> lk, m |-> mp, c |-> cv]
  BY DEF FirstNode
<1>8. mp.location[0] = SumFunction(lk.offset) + cv.permanent_placement_delta
  BY <1>4
<1> HIDE DEF lk, mp, cv
<1> QED  BY <1>2, <1>3, <1>5, <1>6, <1>7, <1>8 DEF SoundLayout, SoundList, Drifts

\* What is written into two fields of the links of a list.
LEMMA LinksExcept ==
  ASSUME NEW r, r = [offset |-> r.offset, prev |-> r.prev, next |-> r.next], NEW p, NEW q
  PROVE  [r EXCEPT !.prev = p, !.next = q] = [offset |-> r.offset, prev |-> p, next |-> q]
<1> DEFINE s == [offset |-> r.offset, prev |-> r.prev, next |-> r.next]
           e == [r EXCEPT !.prev = p, !.next = q]
<1>1. DOMAIN s = {"offset", "prev", "next"}
  OBVIOUS
<1>2. DOMAIN r = {"offset", "prev", "next"}
  BY <1>1
<1>3. DOMAIN e = {"offset", "prev", "next"} /\ e = [x \in DOMAIN e |-> e[x]]
  BY <1>2
<1>4. e.offset = r.offset /\ e.prev = p /\ e.next = q
  BY <1>2
<1> DEFINE u == [offset |-> r.offset, prev |-> p, next |-> q]
<1>5. /\ DOMAIN u = {"offset", "prev", "next"} /\ u = [x \in DOMAIN u |-> u[x]]
      /\ u.offset = r.offset /\ u.prev = p /\ u.next = q
  OBVIOUS
<1> HIDE DEF e, u
<1>6. \A x \in {"offset", "prev", "next"} : e[x] = u[x]
  BY <1>4, <1>5
<1>7. e = u
  BY <1>3, <1>5, <1>6
<1> QED  BY <1>7 DEF e, u

\* Flattened links are the locations of what they link to; nodes_by_location
\* finds the nodes again.
LEMMA FlattenBack ==
  ASSUME NEW K \in Nat, NEW lk, Ring(lk, K), NEW mp, Mapped(mp, K)
  PROVE  /\ unflatten(flatten(lk, mp), mp) = lk
         /\ flatten(lk, mp).offset = lk.offset
         /\ \A n \in 0 .. K : /\ flatten(lk, mp).next[n] = mp.location[lk.next[n]]
                              /\ flatten(lk, mp).prev[n] = mp.location[lk.prev[n]]
         /\ DOMAIN flatten(lk, mp).next = 0 .. K /\ DOMAIN flatten(lk, mp).prev = 0 .. K
<1> DEFINE f == flatten(lk, mp)
           u == unflatten(f, mp)
<1>1. /\ lk = [offset |-> lk.offset, prev |-> lk.prev, next |-> lk.next]
      /\ DOMAIN lk.prev = 0 .. K /\ DOMAIN lk.next = 0 .. K
      /\ lk.prev = [n \in 0 .. K |-> lk.prev[n]] /\ lk.next = [n \in 0 .. K |-> lk.next[n]]
      /\ \A n \in 0 .. K : lk.prev[n] \in 0 .. K /\ lk.next[n] \in 0 .. K
  <2>1. /\ lk = [offset |-> lk.offset, prev |-> lk.prev, next |-> lk.next]
        /\ DOMAIN lk.prev = 0 .. K /\ DOMAIN lk.next = 0 .. K
        /\ lk.prev = [n \in 0 .. K |-> lk.prev[n]] /\ lk.next = [n \in 0 .. K |-> lk.next[n]]
    BY DEF Ring
  <2> QED  BY <2>1, RingLinks
<1>2. f = [offset |-> lk.offset, prev |-> [n \in 0 .. K |-> mp.location[lk.prev[n]]],
           next |-> [n \in 0 .. K |-> mp.location[lk.next[n]]]]
  <2> DEFINE p == [n \in 0 .. K |-> mp.location[lk.prev[n]]]
             q == [n \in 0 .. K |-> mp.location[lk.next[n]]]
  <2>1. f = [lk EXCEPT !.prev = p, !.next = q]
    BY <1>1 DEF flatten
  <2> HIDE DEF p, q, f
  <2>2. [lk EXCEPT !.prev = p, !.next = q] = [offset |-> lk.offset, prev |-> p, next |-> q]
    BY <1>1, LinksExcept
  <2> QED  BY <2>1, <2>2 DEF p, q
<1> HIDE DEF f
<1>3. /\ f = [offset |-> f.offset, prev |-> f.prev, next |-> f.next] /\ f.offset = lk.offset
      /\ DOMAIN f.prev = 0 .. K /\ DOMAIN f.next = 0 .. K
      /\ \A n \in 0 .. K : f.prev[n] = mp.location[lk.prev[n]] /\ f.next[n] = mp.location[lk.next[n]]
  BY <1>2
<1>4. u = [offset |-> lk.offset, prev |-> [n \in 0 .. K |-> mp.at[f.prev[n]]],
           next |-> [n \in 0 .. K |-> mp.at[f.next[n]]]]
  <2> DEFINE p == [n \in 0 .. K |-> mp.at[f.prev[n]]]
             q == [n \in 0 .. K |-> mp.at[f.next[n]]]
  <2>1. u = [f EXCEPT !.prev = p, !.next = q]
    BY <1>3 DEF unflatten
  <2> HIDE DEF p, q, u
  <2>2. [f EXCEPT !.prev = p, !.next = q] = [offset |-> f.offset, prev |-> p, next |-> q]
    <3>1. f = [offset |-> f.offset, prev |-> f.prev, next |-> f.next]
      BY <1>3
    <3> QED  BY <3>1, LinksExcept
  <2> QED  BY <1>3, <2>1, <2>2 DEF p, q
<1>5. \A n \in 0 .. K : mp.at[f.prev[n]] = lk.prev[n] /\ mp.at[f.next[n]] = lk.next[n]
  BY <1>1, <1>3 DEF Mapped
<1>6. u = lk
  BY <1>1, <1>4, <1>5
<1> QED  BY <1>3, <1>6 DEF f

--------------------------------------------------------------------------------
(* Rounding *)

\* A quotient is what fits.
LEMMA QuotientIs ==
  ASSUME NEW a \in Int, NEW d \in Nat \ {0}, NEW q \in Int, d * q <= a, a < d * q + d
  PROVE  a \div d = q
<1> DEFINE p == a \div d
<1>1. p \in Int /\ d * p <= a /\ a < d * p + d
  <2>1. a = d * p + (a % d) /\ a % d \in 0 .. d - 1 /\ p \in Int
    OBVIOUS
  <2>2. d * p \in Int
    BY <2>1
  <2> HIDE DEF p
  <2> QED  BY <2>1, <2>2
<1> HIDE DEF p
<1>2. d * p < d * q + d /\ d * q < d * p + d /\ d * q \in Int /\ d * p \in Int
  BY <1>1
<1>3. ASSUME q + 1 <= p PROVE FALSE
  <2>1. p - q - 1 \in Nat
    BY <1>1, <1>3
  <2>2. d * (p - q - 1) \in Nat /\ d * p = d * q + d + d * (p - q - 1)
    BY <1>1, <2>1
  <2> QED  BY <1>2, <2>2
<1>4. ASSUME p + 1 <= q PROVE FALSE
  <2>1. q - p - 1 \in Nat
    BY <1>1, <1>4
  <2>2. d * (q - p - 1) \in Nat /\ d * q = d * p + d + d * (q - p - 1)
    BY <1>1, <2>1
  <2> QED  BY <1>2, <2>2
<1> QED  BY <1>1, <1>3, <1>4 DEF p

LEMMA QuotientBounds ==
  ASSUME NEW a \in Int, NEW d \in Nat \ {0}
  PROVE  a \div d \in Int /\ d * (a \div d) <= a /\ a < d * (a \div d) + d
<1> DEFINE p == a \div d
<1>1. a = d * p + (a % d) /\ a % d \in 0 .. d - 1 /\ p \in Int
  OBVIOUS
<1>2. d * p \in Int
  BY <1>1
<1> HIDE DEF p
<1> QED  BY <1>1, <1>2 DEF p

\* One more of what is spread evenly is due for each at most, and all of it at the end.
LEMMA RoundedSteps ==
  ASSUME NEW e \in Nat, NEW num \in Nat, NEW den \in Nat \ {0}, num <= den
  PROVE  /\ Rounded(e, num, den) \in Int
         /\ Rounded(e + 1, num, den) = Rounded(e, num, den)
              \/ Rounded(e + 1, num, den) = Rounded(e, num, den) + 1
         /\ Rounded(den, num, den) = num
         /\ Rounded(0, num, den) = 0
<1> DEFINE d == 2 * den
           x == 2 * e * num
           q == (x + den) \div d
<1>1. d \in Nat \ {0} /\ x \in Int
  OBVIOUS
<1>2. Rounded(e, num, den) = q
  BY DEF Rounded
<1>3. Rounded(e + 1, num, den) = (x + 2 * num + den) \div d
  <2>1. 2 * (e + 1) * num = x + 2 * num
    OBVIOUS
  <2> QED  BY <2>1 DEF Rounded
<1>4. q \in Int /\ d * q <= x + den /\ x + den < d * q + d
  <2> HIDE DEF d, x
  <2> QED  BY <1>1, QuotientBounds
<1>5. \/ (x + 2 * num + den) \div d = q
      \/ (x + 2 * num + den) \div d = q + 1
  <2>1. d * (q + 1) = d * q + d /\ d * q \in Int
    BY <1>1, <1>4
  <2>2. 2 * num <= d
    OBVIOUS
  <2> DEFINE y == x + 2 * num + den
  <2>3. y \in Int /\ d * q <= y /\ y < d * q + d + d
    BY <1>1, <1>4, <2>1, <2>2
  <2>4. q + 1 \in Int
    BY <1>4
  <2> HIDE DEF d, q, x, y
  <2>5. CASE y < d * q + d
    BY <1>1, <1>4, <2>3, <2>5, QuotientIs DEF y
  <2>6. CASE ~ (y < d * q + d)
    <3>1. d * (q + 1) <= y /\ y < d * (q + 1) + d
      BY <1>1, <2>1, <2>3, <2>6
    <3> QED  BY <1>1, <2>3, <2>4, <3>1, QuotientIs DEF y
  <2> QED  BY <2>5, <2>6
<1>6. Rounded(den, num, den) = num
  <2> DEFINE y == 2 * den * num + den
  <2>1. y \in Int /\ d * num <= y /\ y < d * num + d
    OBVIOUS
  <2>2. Rounded(den, num, den) = y \div d
    BY DEF Rounded
  <2> HIDE DEF y, d
  <2> QED  BY <1>1, <2>1, <2>2, QuotientIs
<1>7. Rounded(0, num, den) = 0
  <2>1. 2 * 0 * num + den = den /\ den \in Int /\ d * 0 <= den /\ den < d * 0 + d
    OBVIOUS
  <2>2. Rounded(0, num, den) = den \div d
    BY <2>1 DEF Rounded
  <2> HIDE DEF d
  <2> QED  BY <1>1, <2>1, <2>2, QuotientIs
<1> QED  BY <1>2, <1>3, <1>4, <1>5, <1>6, <1>7

--------------------------------------------------------------------------------
(* Stretching a stride *)

LEMMA TruncatedBounds ==
  ASSUME NEW delta \in Int
  PROVE  /\ Truncated(delta) \in Int
         /\ delta >= 0 => 0 <= Truncated(delta) /\ 8 * Truncated(delta) <= delta
         /\ delta < 0 => Truncated(delta) <= 0 /\ delta <= 8 * Truncated(delta)
BY DEF Truncated

\* The new stride lies between the old one and the one without any lead, and has
\* its sign and its magnitude.
LEMMA NewStrideSound ==
  ASSUME NEW s \in SoundStrides, ~ s.is_infinitesimal, NEW delta \in Int
  PROVE  /\ NewStride(s, delta) \in Int
         /\ s.is_negative <=> NewStride(s, delta) < 0
         /\ Pow2[s.magnitude] <= Abs(NewStride(s, delta))
         /\ Abs(NewStride(s, delta)) < Pow2[s.magnitude + 1]
         /\ Abs(delta + 8 * (NewStride(s, delta) - s.linear_value)) <= Abs(delta)
<1> DEFINE v == s.linear_value
           size == Abs(v)
           low == Pow2[s.magnitude]
           high == Pow2[s.magnitude + 1]
           least == Larger(low, (10 * size) \div 12)
           most == Smaller(high - 1, (12 * size) \div 10)
           cut == Truncated(delta)
           target == v - cut
           w == NewStride(s, delta)
<1>1. /\ v \in Int /\ s.is_negative \in BOOLEAN /\ s.magnitude \in Nat
      /\ s.is_negative <=> v < 0
      /\ low <= size /\ size < high
  BY DEF SoundStrides, Strides, WellFormed
<1>2. low \in Nat /\ low > 0 /\ high \in Nat
  BY <1>1, Pow2Nat
<1>3. w = IF s.is_negative THEN Smaller(Larger(-most, target), -least)
          ELSE Smaller(Larger(least, target), most)
  BY DEF NewStride
<1>4. /\ cut \in Int
      /\ delta >= 0 => 0 <= cut /\ 8 * cut <= delta
      /\ delta < 0 => cut <= 0 /\ delta <= 8 * cut
  BY TruncatedBounds
<1> HIDE DEF v, low, high, cut, w
<1>5. size \in Nat /\ (v >= 0 => size = v) /\ (v < 0 => size = -v)
  BY <1>1 DEF Abs
<1> HIDE DEF size
<1>6. /\ least \in Int /\ most \in Int
      /\ low <= least /\ least <= size /\ size <= most /\ most < high
  BY <1>1, <1>2, <1>5 DEF Larger, Smaller
<1> HIDE DEF least, most
<1>7. CASE s.is_negative
  <2>1. w = Smaller(Larger(-most, target), -least) /\ v = -size
    BY <1>1, <1>3, <1>5, <1>7
  <2>2. /\ w \in Int /\ -most <= w /\ w <= -least
        /\ cut >= 0 => w <= v /\ v - cut <= w
        /\ cut <= 0 => w >= v /\ v - cut >= w
    BY <1>1, <1>4, <1>5, <1>6, <2>1 DEF Smaller, Larger
  <2>3. w < 0 /\ Abs(w) = -w /\ low <= Abs(w) /\ Abs(w) < high
    BY <1>2, <1>6, <2>2 DEF Abs
  <2>4. Abs(delta + 8 * (w - v)) <= Abs(delta)
    BY <1>1, <1>4, <2>2 DEF Abs
  <2> QED  BY <1>7, <2>2, <2>3, <2>4 DEF low, high, v, w
<1>8. CASE ~ s.is_negative
  <2>1. w = Smaller(Larger(least, target), most) /\ v = size
    BY <1>1, <1>3, <1>5, <1>8
  <2>2. /\ w \in Int /\ least <= w /\ w <= most
        /\ cut >= 0 => w <= v /\ v - cut <= w
        /\ cut <= 0 => w >= v /\ v - cut >= w
    BY <1>1, <1>4, <1>5, <1>6, <2>1 DEF Smaller, Larger
  <2>3. ~ (w < 0) /\ Abs(w) = w /\ low <= Abs(w) /\ Abs(w) < high
    BY <1>2, <1>6, <2>2 DEF Abs
  <2>4. Abs(delta + 8 * (w - v)) <= Abs(delta)
    BY <1>1, <1>4, <2>2 DEF Abs
  <2> QED  BY <1>8, <2>2, <2>3, <2>4 DEF low, high, v, w
<1> QED  BY <1>7, <1>8

--------------------------------------------------------------------------------
(* Which strides are culled *)

\* The keys of strides without their signs.
SizeKeys == {k \in BOOLEAN \X {FALSE} \X Nat : k[1] => k[3] = 0}

SizeOf(s) == AbsKey(Key(s))

LEMMA SizeKey ==
  ASSUME NEW s \in SoundStrides
  PROVE  SizeOf(s) \in SizeKeys
<1>1. SizeOf(s) = <<s.is_infinitesimal, FALSE, s.magnitude>>
  BY DEF SizeOf, AbsKey, Key
<1>2. s.is_infinitesimal \in BOOLEAN /\ s.magnitude \in Nat /\ (s.is_infinitesimal => s.magnitude = 0)
  BY DEF SoundStrides, Strides, WellFormed
<1>3. ASSUME NEW a \in BOOLEAN, NEW b \in Nat, a => b = 0
      PROVE  <<a, FALSE, b>> \in SizeKeys
  <2> DEFINE k == <<a, FALSE, b>>
  <2>1. k \in BOOLEAN \X {FALSE} \X Nat
    OBVIOUS
  <2>2. k[1] => k[3] = 0
    BY <1>3
  <2> HIDE DEF k
  <2> QED  BY <2>1, <2>2 DEF SizeKeys, k
<1> QED  BY <1>1, <1>2, <1>3

\* Sizes are ordered strictly.
LEMMA SizesOrdered ==
  ASSUME NEW j \in SizeKeys, NEW k \in SizeKeys, NEW l \in SizeKeys
  PROVE  /\ ~ KeyBelow(j, j)
         /\ KeyBelow(j, k) /\ KeyBelow(k, l) => KeyBelow(j, l)
<1>1. \A x \in SizeKeys : x[1] \in BOOLEAN /\ x[2] = FALSE /\ x[3] \in Nat /\ (x[1] => x[3] = 0)
  BY DEF SizeKeys
<1>2. ASSUME NEW x \in SizeKeys, NEW y \in SizeKeys
      PROVE  KeyBelow(x, y) <=> (x[1] /\ ~ y[1]) \/ (~ x[1] /\ x[3] < y[3])
  <2>1. x[2] = FALSE /\ y[2] = FALSE
    BY <1>1
  <2>2. KeyBelow(x, y) <=> IF x[1] THEN ~ y[1] ELSE x[3] < y[3]
    BY <2>1, Zenon DEF KeyBelow
  <2> QED  BY <2>2
<1> HIDE DEF SizeKeys
<1> QED  BY <1>1, <1>2

\* Each size that a trace has is there as often as it is counted.
LEMMA CountsOf ==
  ASSUME NEW strides \in Seq(SoundStrides)
  PROVE  /\ DOMAIN abs_counts(strides) = Keys(strides)
         /\ Keys(strides) \in SUBSET SizeKeys /\ IsFiniteSet(Keys(strides))
         /\ \A k \in Keys(strides) : abs_counts(strides)[k] \in Nat \ {0}
<1> DEFINE N == DOMAIN strides
<1>1. N = 1 .. Len(strides) /\ IsFiniteSet(N) /\ \A i \in N : strides[i] \in SoundStrides
  BY FS_Interval
<1>2. Keys(strides) = {SizeOf(strides[i]) : i \in N}
  BY DEF Keys, SizeOf
<1>3. Keys(strides) \in SUBSET SizeKeys
  BY <1>1, <1>2, SizeKey
<1>4. IsFiniteSet(Keys(strides))
  <2>1. [i \in N |-> SizeOf(strides[i])] \in Surjection(N, Keys(strides))
    BY <1>2 DEF Surjection
  <2> QED  BY <1>1, <2>1, FS_Surjection
<1>5. ASSUME NEW k \in Keys(strides) PROVE abs_counts(strides)[k] \in Nat \ {0}
  <2> DEFINE S == {i \in N : SizeOf(strides[i]) = k}
  <2>1. abs_counts(strides)[k] = Cardinality(S)
    BY <1>5 DEF abs_counts, SizeOf
  <2>2. S \in SUBSET N /\ S # {}
    BY <1>2
  <2> HIDE DEF S, N
  <2>3. IsFiniteSet(S) /\ Cardinality(S) \in Nat /\ Cardinality(S) # 0
    BY <1>1, <2>2, FS_Subset, FS_CardinalityType, FS_EmptySet
  <2> QED  BY <2>1, <2>3
<1> QED  BY <1>3, <1>4, <1>5 DEF abs_counts

\* From the smallest size up: what is smaller than a size that is culled is culled whole.
LEMMA TargetsOf ==
  ASSUME NEW strides \in Seq(SoundStrides), NEW total \in Int
  PROVE  LET targets == abs_stride_cull_targets(strides, total)
             counts == abs_counts(strides)
         IN  /\ targets = [k \in DOMAIN targets |-> targets[k]]
             /\ DOMAIN targets \in SUBSET Keys(strides)
             /\ \A k \in DOMAIN targets : targets[k] \in 1 .. counts[k]
             /\ \A k \in DOMAIN targets, l \in Keys(strides) :
                  KeyBelow(l, k) => l \in DOMAIN targets /\ targets[l] = counts[l]
<1> DEFINE counts == abs_counts(strides)
           K == Keys(strides)
           Below(k) == {l \in K : KeyBelow(l, k)}
           Before(k) == SumFunctionOnSet(counts, Below(k))
           targets == abs_stride_cull_targets(strides, total)
<1>1. DOMAIN counts = K /\ K \in SUBSET SizeKeys /\ IsFiniteSet(K) /\ \A k \in K : counts[k] \in Nat \ {0}
  BY CountsOf
<1>2. targets = [k \in {l \in K : Before(l) < total} |-> Smaller(counts[k], total - Before(k))]
  BY <1>1 DEF abs_stride_cull_targets, Total
<1> HIDE DEF counts, K, targets
<1>3. \A k \in K : Before(k) \in Nat
  <2> SUFFICES ASSUME NEW k \in K PROVE Before(k) \in Nat
    OBVIOUS
  <2>1. IsFiniteSet(Below(k)) /\ \A x \in Below(k) : counts[x] \in Nat
    BY <1>1, FS_Subset
  <2> HIDE DEF Below
  <2> QED  BY <2>1, SumNat
<1>4. ASSUME NEW k \in K, NEW l \in K, KeyBelow(l, k)
      PROVE  Before(l) + counts[l] <= Before(k)
  <2> DEFINE S == Below(l)
             T == Below(k)
  <2>1. \A j \in S : j \in T
    BY <1>1, <1>4, SizesOrdered
  <2>2. l \in T /\ l \notin S
    BY <1>1, <1>4, SizesOrdered
  <2>3. IsFiniteSet(S) /\ IsFiniteSet(T) /\ (\A x \in T : counts[x] \in Nat) /\ \A x \in S : counts[x] \in Int
    BY <1>1, FS_Subset
  <2>4. counts[l] \in Int /\ Before(l) \in Nat
    BY <1>1, <1>3
  <2> HIDE DEF S, T
  <2>5. S \cup {l} \in SUBSET T
    BY <2>1, <2>2
  <2>6. SumFunctionOnSet(counts, S \cup {l}) = counts[l] + SumFunctionOnSet(counts, S)
    BY <2>2, <2>3, <2>4, SumAdd
  <2>7. SumFunctionOnSet(counts, S \cup {l}) <= SumFunctionOnSet(counts, T)
    BY <2>3, <2>5, SumSubset
  <2> QED  BY <2>4, <2>6, <2>7 DEF S, T
<1> HIDE DEF Before
<1>5. DOMAIN targets = {l \in K : Before(l) < total}
  BY <1>2
<1>6. \A k \in DOMAIN targets : targets[k] = Smaller(counts[k], total - Before(k))
  BY <1>2
<1>7. ASSUME NEW k \in DOMAIN targets PROVE targets[k] \in 1 .. counts[k]
  <2>1. k \in K /\ Before(k) < total /\ Before(k) \in Nat /\ counts[k] \in Nat \ {0}
    BY <1>1, <1>3, <1>5
  <2> QED  BY <1>6, <2>1 DEF Smaller
<1>8. ASSUME NEW k \in DOMAIN targets, NEW l \in K, KeyBelow(l, k)
      PROVE  l \in DOMAIN targets /\ targets[l] = counts[l]
  <2>1. k \in K /\ Before(k) < total /\ Before(k) \in Nat /\ Before(l) \in Nat /\ counts[l] \in Nat \ {0}
    BY <1>1, <1>3, <1>5
  <2>2. Before(l) + counts[l] <= Before(k)
    BY <1>4, <1>8, <2>1
  <2>3. l \in DOMAIN targets
    BY <1>5, <2>1, <2>2
  <2>4. targets[l] = Smaller(counts[l], total - Before(l))
    BY <1>6, <2>3
  <2> QED  BY <2>1, <2>2, <2>3, <2>4 DEF Smaller
<1>9. targets = [k \in DOMAIN targets |-> targets[k]]
  BY <1>2
<1>10. DOMAIN targets \in SUBSET K
  BY <1>5
<1> QED  BY <1>7, <1>8, <1>9, <1>10 DEF targets, K, counts

--------------------------------------------------------------------------------
(* What a trace adds up to *)

LEMMA SumConcat ==
  ASSUME NEW a \in Seq(Int), NEW b \in Seq(Int)
  PROVE  /\ SumFunction(a \o b) = SumFunction(a) + SumFunction(b)
         /\ SumFunction(a) \in Int /\ SumFunction(b) \in Int
<1> DEFINE n == Len(a)
           k == Len(b)
           f == a \o b
           S == 1 .. n
           B == 1 .. k
           h == [j \in B |-> n + j]
           T == {h[j] : j \in B}
<1>1. /\ n \in Nat /\ k \in Nat /\ DOMAIN a = S /\ DOMAIN b = B /\ DOMAIN f = 1 .. n + k
      /\ \A i \in S : a[i] \in Int /\ f[i] = a[i]
      /\ \A j \in B : b[j] \in Int /\ f[n + j] = b[j]
  OBVIOUS
<1>2. IsFiniteSet(S) /\ IsFiniteSet(B)
  BY FS_Interval
<1>3. S \cap T = {} /\ DOMAIN f = S \cup T
  <2>1. \A i \in 1 .. n + k : i \in S \/ (i - n \in B /\ i = n + (i - n))
    BY <1>1
  <2>2. \A j \in B : n + j \in 1 .. n + k /\ n + j \notin S
    BY <1>1
  <2>3. \A j \in B : h[j] = n + j
    OBVIOUS
  <2>4. S \cap T = {}
    BY <2>2, <2>3
  <2>5. \A i \in 1 .. n + k : i \in S \cup T
    BY <2>1, <2>3
  <2>6. \A i \in S \cup T : i \in 1 .. n + k
    <3>1. \A i \in S : i \in 1 .. n + k
      BY <1>1
    <3> QED  BY <2>2, <2>3, <3>1
  <2> HIDE DEF S, T
  <2> QED  BY <1>1, <2>4, <2>5, <2>6
<1>4. (\A j \in B : b[j] \in Int /\ f[h[j]] = b[j]) /\ \A i, j \in B : h[i] = h[j] => i = j
  BY <1>1
<1>5. IsFiniteSet(T)
  <2>1. h \in Surjection(B, T)
    BY DEF Surjection
  <2> HIDE DEF h, T, B
  <2> QED  BY <1>2, <2>1, FS_Surjection
<1>6. \A x \in S \cup T : f[x] \in Int
  BY <1>1, <1>4
<1> HIDE DEF S, B, T, h, f, n, k
<1>7. SumFunctionOnSet(f, S \cup T) = SumFunctionOnSet(f, S) + SumFunctionOnSet(f, T)
  BY <1>2, <1>3, <1>5, <1>6, SumDisjoint
<1>8. SumFunctionOnSet(f, T) = SumFunctionOnSet(b, B)
  <2>1. \A x \in B : b[x] \in Int /\ f[h[x]] = b[x]
    BY <1>4
  <2>2. \A x, y \in B : h[x] = h[y] => x = y
    BY <1>4
  <2>3. SumFunctionOnSet(f, {h[x] : x \in B}) = SumFunctionOnSet(b, B)
    BY <1>2, <2>1, <2>2, SumRenamed, SMTT(30)
  <2>4. T = {h[x] : x \in B}
    BY DEF T
  <2> QED  BY <2>3, <2>4
<1>9. SumFunctionOnSet(f, S) = SumFunctionOnSet(a, S)
  BY <1>1, <1>2, SumSame
<1>10. SumFunctionOnSet(a, S) \in Int /\ SumFunctionOnSet(b, B) \in Int
  BY <1>1, <1>2, SumInt
<1>11. /\ SumFunction(f) = SumFunctionOnSet(f, S \cup T)
       /\ SumFunction(a) = SumFunctionOnSet(a, S) /\ SumFunction(b) = SumFunctionOnSet(b, B)
  BY <1>1, <1>3 DEF SumFunction
<1> QED  BY <1>7, <1>8, <1>9, <1>10, <1>11 DEF f

StrideBytes(s) == 8 * s.linear_value - s.linear_fractional_err

BytesIn(strides) == SumFunction(Bytes(strides))

\* Behind the first of two sequences comes the second.
LEMMA ConcatAfter ==
  ASSUME NEW x \in Seq(Int), NEW y \in Seq(Int), NEW i \in 1 .. Len(x) + Len(y), Len(x) < i
  PROVE  (x \o y)[i] = y[i - Len(x)]
<1>1. \A j \in 1 .. Len(x) + Len(y) : (x \o y)[j] = IF j <= Len(x) THEN x[j] ELSE y[j - Len(x)]
  BY ConcatProperties
<1>2. ~ (i <= Len(x))
  OBVIOUS
<1> QED  BY <1>1, <1>2

LEMMA BytesConcat ==
  ASSUME NEW a \in Seq(SoundStrides), NEW b \in Seq(SoundStrides)
  PROVE  /\ BytesIn(a \o b) = BytesIn(a) + BytesIn(b)
         /\ BytesIn(a) \in Int /\ BytesIn(b) \in Int
<1>1. ASSUME NEW s \in Seq(SoundStrides)
      PROVE  /\ Bytes(s) \in Seq(Int) /\ Len(Bytes(s)) = Len(s)
             /\ \A i \in 1 .. Len(s) : Bytes(s)[i] = StrideBytes(s[i])
  <2>1. Bytes(s) = [i \in 1 .. Len(s) |-> StrideBytes(s[i])]
    BY DEF Bytes, StrideBytes
  <2>2. \A i \in 1 .. Len(s) : StrideBytes(s[i]) \in Int
    <3>1. \A x \in SoundStrides : StrideBytes(x) \in Int
      BY DEF SoundStrides, Strides, StrideBytes
    <3> QED  BY <3>1
  <2>3. Len(s) \in Nat
    OBVIOUS
  <2>4. Bytes(s) \in Seq(Int)
    BY <2>1, <2>2, <2>3, IsASeq
  <2> QED  BY <2>1, <2>4
<1>2. /\ Bytes(a) \in Seq(Int) /\ Len(Bytes(a)) = Len(a)
      /\ \A i \in 1 .. Len(a) : Bytes(a)[i] = StrideBytes(a[i])
  BY <1>1
<1>3. /\ Bytes(b) \in Seq(Int) /\ Len(Bytes(b)) = Len(b)
      /\ \A i \in 1 .. Len(b) : Bytes(b)[i] = StrideBytes(b[i])
  BY <1>1
<1>4. a \o b \in Seq(SoundStrides) /\ Len(a \o b) = Len(a) + Len(b)
  OBVIOUS
<1>5. /\ Bytes(a \o b) \in Seq(Int) /\ Len(Bytes(a \o b)) = Len(a) + Len(b)
      /\ \A i \in 1 .. Len(a) + Len(b) : Bytes(a \o b)[i] = StrideBytes((a \o b)[i])
  <2> DEFINE both == a \o b
  <2>1. both \in Seq(SoundStrides) /\ Len(both) = Len(a) + Len(b)
    BY <1>4
  <2> HIDE DEF both
  <2>2. /\ Bytes(both) \in Seq(Int) /\ Len(Bytes(both)) = Len(both)
        /\ \A i \in 1 .. Len(both) : Bytes(both)[i] = StrideBytes(both[i])
    BY <1>1, <2>1
  <2> QED  BY <2>1, <2>2 DEF both
<1>6. Bytes(a \o b) = Bytes(a) \o Bytes(b)
  <2> DEFINE x == Bytes(a)
             y == Bytes(b)
             z == Bytes(a \o b)
  <2>1. x \in Seq(Int) /\ y \in Seq(Int) /\ z \in Seq(Int) /\ Len(x) = Len(a) /\ Len(y) = Len(b)
          /\ Len(z) = Len(a) + Len(b)
    BY <1>2, <1>3, <1>5
  <2>2. ASSUME NEW i \in 1 .. Len(z) PROVE z[i] = (x \o y)[i]
    <3>1. CASE i <= Len(a)
      <4>1. i \in 1 .. Len(a) /\ (a \o b)[i] = a[i]
        BY <2>1, <3>1
      <4> QED  BY <1>2, <1>5, <2>1, <4>1
    <3>2. CASE Len(a) < i
      <4>1. i - Len(a) \in 1 .. Len(b) /\ (a \o b)[i] = b[i - Len(a)]
        BY <2>1, <3>2
      <4>2. z[i] = StrideBytes(b[i - Len(a)]) /\ y[i - Len(a)] = StrideBytes(b[i - Len(a)])
        BY <1>3, <1>5, <2>1, <4>1
      <4> HIDE DEF x, y, z
      <4>3. (x \o y)[i] = y[i - Len(a)]
        <5>1. i \in 1 .. Len(x) + Len(y) /\ Len(x) < i /\ Len(x) = Len(a)
          BY <2>1, <3>2
        <5>2. (x \o y)[i] = y[i - Len(x)]
          BY <2>1, <5>1, ConcatAfter
        <5> QED  BY <5>1, <5>2
      <4> QED  BY <4>2, <4>3
    <3> QED  BY <2>1, <3>1, <3>2
  <2>3. x \o y \in Seq(Int) /\ Len(x \o y) = Len(z)
    <3> HIDE DEF x, y, z
    <3> QED  BY <2>1, ConcatProperties
  <2> HIDE DEF x, y, z
  <2>4. z = x \o y
    BY <2>1, <2>2, <2>3, SeqEqual
  <2> QED  BY <2>4 DEF x, y, z
<1> QED  BY <1>2, <1>3, <1>6, SumConcat DEF BytesIn

\* The bytes of a single stride.
LEMMA BytesOfOne ==
  ASSUME NEW s \in SoundStrides
  PROVE  BytesIn(<<s>>) = StrideBytes(s) /\ StrideBytes(s) \in Int
<1> DEFINE f == Bytes(<<s>>)
<1>1. StrideBytes(s) \in Int
  BY DEF StrideBytes, SoundStrides, Strides
<1>2. DOMAIN f = {1} /\ f[1] = StrideBytes(s)
  BY DEF Bytes, StrideBytes
<1> HIDE DEF f
<1>3. SumFunctionOnSet(f, {} \cup {1}) = f[1] + SumFunctionOnSet(f, {})
  BY <1>1, <1>2, SumAdd, FS_EmptySet
<1>4. {} \cup {1} = {1} /\ SumFunctionOnSet(f, {}) = 0
  BY SumEmpty
<1> QED  BY <1>1, <1>2, <1>3, <1>4 DEF BytesIn, SumFunction, f

--------------------------------------------------------------------------------
(* One round of culling *)

\* How many of the first n strides are of size k.
CountUpTo(strides, n, k) == Cardinality({i \in 1 .. n : SizeOf(strides[i]) = k})

LEMMA CountNext ==
  ASSUME NEW strides, NEW n \in Nat, NEW k
  PROVE  /\ CountUpTo(strides, n, k) \in Nat
         /\ CountUpTo(strides, 0, k) = 0
         /\ CountUpTo(strides, n + 1, k) =
              CountUpTo(strides, n, k) + IF SizeOf(strides[n + 1]) = k THEN 1 ELSE 0
<1> DEFINE S == {i \in 1 .. n : SizeOf(strides[i]) = k}
           T == {i \in 1 .. n + 1 : SizeOf(strides[i]) = k}
<1>1. IsFiniteSet(S) /\ Cardinality(S) \in Nat
  <2>1. IsFiniteSet(1 .. n) /\ S \in SUBSET (1 .. n)
    BY FS_Interval
  <2> HIDE DEF S
  <2> QED  BY <2>1, FS_Subset, FS_CardinalityType
<1>2. CountUpTo(strides, 0, k) = 0
  <2>1. {i \in 1 .. 0 : SizeOf(strides[i]) = k} = {}
    OBVIOUS
  <2> QED  BY <2>1, FS_EmptySet DEF CountUpTo
<1>3. n + 1 \notin S /\ T = IF SizeOf(strides[n + 1]) = k THEN S \cup {n + 1} ELSE S
  <2>1. \A i : i \in 1 .. n + 1 <=> i \in 1 .. n \/ i = n + 1
    OBVIOUS
  <2> QED  BY <2>1
<1>4. CountUpTo(strides, n, k) = Cardinality(S) /\ CountUpTo(strides, n + 1, k) = Cardinality(T)
  BY DEF CountUpTo
<1> HIDE DEF S, T
<1>5. Cardinality(S \cup {n + 1}) = Cardinality(S) + 1
  BY <1>1, <1>3, FS_AddElement
<1> QED  BY <1>1, <1>2, <1>3, <1>4, <1>5

LEMMA CountHere ==
  ASSUME NEW strides, NEW n \in Nat \ {0}, NEW k
  PROVE  CountUpTo(strides, n, k) =
           CountUpTo(strides, n - 1, k) + IF SizeOf(strides[n]) = k THEN 1 ELSE 0
<1> DEFINE j == n - 1
<1>1. j \in Nat
  OBVIOUS
<1> HIDE DEF j
<1>2. CountUpTo(strides, j + 1, k) = CountUpTo(strides, j, k) + IF SizeOf(strides[j + 1]) = k THEN 1 ELSE 0
  BY <1>1, CountNext
<1>3. j + 1 = n
  BY DEF j
<1> QED  BY <1>2, <1>3 DEF j

LEMMA CountAll ==
  ASSUME NEW strides \in Seq(SoundStrides), NEW k \in Keys(strides)
  PROVE  CountUpTo(strides, Len(strides), k) = abs_counts(strides)[k]
<1>1. DOMAIN strides = 1 .. Len(strides)
  OBVIOUS
<1> QED  BY <1>1 DEF CountUpTo, abs_counts, SizeOf

LEMMA CountAppend ==
  ASSUME NEW strides \in Seq(SoundStrides), NEW s \in SoundStrides, NEW k
  PROVE  CountUpTo(Append(strides, s), Len(strides) + 1, k) =
           CountUpTo(strides, Len(strides), k) + IF SizeOf(s) = k THEN 1 ELSE 0
<1> DEFINE n == Len(strides)
           more == Append(strides, s)
<1>1. n \in Nat /\ more[n + 1] = s /\ \A i \in 1 .. n : more[i] = strides[i]
  OBVIOUS
<1>2. {i \in 1 .. n : SizeOf(more[i]) = k} = {i \in 1 .. n : SizeOf(strides[i]) = k}
  BY <1>1
<1>3. CountUpTo(more, n, k) = CountUpTo(strides, n, k)
  BY <1>2 DEF CountUpTo
<1> HIDE DEF more, n
<1>4. CountUpTo(more, n + 1, k) = CountUpTo(more, n, k) + IF SizeOf(more[n + 1]) = k THEN 1 ELSE 0
  BY <1>1, CountNext
<1> QED  BY <1>1, <1>3, <1>4 DEF more, n

\* A round that is on, of the strides given: what was met of each size, and that the
\* share of it that is due has been culled and the rest kept.
RoundOK(r, strides) ==
  /\ r = [next |-> r.next, kept |-> r.kept, counts |-> r.counts, targets |-> r.targets,
          encountered |-> r.encountered, culled |-> r.culled]
  /\ r.next \in 1 .. Len(strides) + 1
  /\ r.kept \in Seq(SoundStrides) /\ \A i \in 1 .. Len(r.kept) : SizeOf(r.kept[i]) \in Keys(strides)
  /\ r.counts = abs_counts(strides)
  /\ \E total \in Int : r.targets = abs_stride_cull_targets(strides, total)
  /\ r.encountered = [k \in DOMAIN r.targets |-> CountUpTo(strides, r.next - 1, k)]
  /\ r.culled = [k \in DOMAIN r.targets |-> Rounded(r.encountered[k], r.targets[k], r.counts[k])]
  /\ \A k \in DOMAIN r.targets :
       CountUpTo(r.kept, Len(r.kept), k) + r.culled[k] = r.encountered[k]

LEMMA RoundTargets ==
  ASSUME NEW strides \in Seq(SoundStrides), NEW r, RoundOK(r, strides)
  PROVE  /\ r.targets = [k \in DOMAIN r.targets |-> r.targets[k]]
         /\ DOMAIN r.targets \in SUBSET Keys(strides)
         /\ \A k \in DOMAIN r.targets : r.counts[k] \in Nat \ {0} /\ r.targets[k] \in 1 .. r.counts[k]
         /\ \A k \in DOMAIN r.targets, l \in Keys(strides) :
              KeyBelow(l, k) => l \in DOMAIN r.targets /\ r.targets[l] = r.counts[l]
<1>1. PICK total \in Int : r.targets = abs_stride_cull_targets(strides, total)
  BY DEF RoundOK
<1>2. r.counts = abs_counts(strides)
  BY DEF RoundOK
<1>3. \A k \in Keys(strides) : r.counts[k] \in Nat \ {0}
  BY <1>2, CountsOf
<1>4. LET targets == abs_stride_cull_targets(strides, total)
          counts == abs_counts(strides)
      IN  /\ targets = [k \in DOMAIN targets |-> targets[k]]
          /\ DOMAIN targets \in SUBSET Keys(strides)
          /\ \A k \in DOMAIN targets : targets[k] \in 1 .. counts[k]
          /\ \A k \in DOMAIN targets, l \in Keys(strides) :
               KeyBelow(l, k) => l \in DOMAIN targets /\ targets[l] = counts[l]
  BY TargetsOf
<1> QED  BY <1>1, <1>2, <1>3, <1>4

\* One more is met of the size here, and by more are culled of it.
Bumped(f, here, by) == [k \in DOMAIN f |-> IF k = here THEN f[k] + by ELSE f[k]]

NextRound(r, s, here, by) ==
  s = [next |-> r.next + 1, kept |-> s.kept, counts |-> r.counts, targets |-> r.targets,
       encountered |-> Bumped(r.encountered, here, 1), culled |-> Bumped(r.culled, here, by)]

DueNext(r, here) == Rounded(r.encountered[here] + 1, r.targets[here], r.counts[here])

LEMMA RoundStep ==
  ASSUME NEW strides \in Seq(SoundStrides), NEW r, RoundOK(r, strides), r.next \in 1 .. Len(strides),
         NEW by \in {0, 1}, NEW here, here = SizeOf(strides[r.next]),
         NEW s, NextRound(r, s, here, by),
         \/ /\ by = 0
            /\ here \in DOMAIN r.targets => r.culled[here] >= DueNext(r, here)
            /\ \E x \in SoundStrides : SizeOf(x) = here /\ s.kept = Append(r.kept, x)
         \/ /\ by = 1 /\ here \in DOMAIN r.targets /\ r.culled[here] < DueNext(r, here)
            /\ s.kept = r.kept
  PROVE  RoundOK(s, strides)
<1> DEFINE T == DOMAIN r.targets
<1>1. /\ r.kept \in Seq(SoundStrides) /\ \A i \in 1 .. Len(r.kept) : SizeOf(r.kept[i]) \in Keys(strides)
      /\ r.counts = abs_counts(strides)
      /\ \E total \in Int : r.targets = abs_stride_cull_targets(strides, total)
      /\ r.encountered = [k \in T |-> CountUpTo(strides, r.next - 1, k)]
      /\ r.culled = [k \in T |-> Rounded(r.encountered[k], r.targets[k], r.counts[k])]
      /\ \A k \in T : CountUpTo(r.kept, Len(r.kept), k) + r.culled[k] = r.encountered[k]
  BY DEF RoundOK
<1>2. /\ s.next = r.next + 1 /\ s.counts = r.counts /\ s.targets = r.targets
      /\ s.encountered = Bumped(r.encountered, here, 1) /\ s.culled = Bumped(r.culled, here, by)
      /\ s = [next |-> s.next, kept |-> s.kept, counts |-> s.counts, targets |-> s.targets,
              encountered |-> s.encountered, culled |-> s.culled]
  BY DEF NextRound
<1>3. s.next \in 1 .. Len(strides) + 1 /\ r.next - 1 \in Nat /\ s.next - 1 = r.next - 1 + 1
  BY <1>2
<1>4. \A k \in T : r.counts[k] \in Nat \ {0} /\ r.targets[k] \in 1 .. r.counts[k]
  BY RoundTargets
<1>5. \A k \in T : /\ r.encountered[k] = CountUpTo(strides, r.next - 1, k) /\ r.encountered[k] \in Nat
                   /\ r.culled[k] = Rounded(r.encountered[k], r.targets[k], r.counts[k])
  BY <1>1, <1>3, CountNext
<1> HIDE DEF T
<1>6. DOMAIN r.encountered = T /\ DOMAIN r.culled = T
  BY <1>1
<1>7. s.encountered = [k \in T |-> CountUpTo(strides, s.next - 1, k)]
  <2>1. ASSUME NEW k \in T
        PROVE  CountUpTo(strides, s.next - 1, k) = IF k = here THEN r.encountered[k] + 1 ELSE r.encountered[k]
    <3> DEFINE n == r.next
    <3>1. n \in Nat \ {0} /\ s.next - 1 = n
      BY <1>2, <1>3
    <3>2. r.encountered[k] = CountUpTo(strides, n - 1, k) /\ SizeOf(strides[n]) = here
      BY <1>5
    <3> HIDE DEF n
    <3>3. CountUpTo(strides, n, k) = CountUpTo(strides, n - 1, k) + IF SizeOf(strides[n]) = k THEN 1 ELSE 0
      BY <3>1, CountHere
    <3> QED  BY <1>5, <3>1, <3>2, <3>3
  <2> QED  BY <1>2, <1>6, <2>1 DEF Bumped
<1>8. \A k \in T : s.encountered[k] = IF k = here THEN r.encountered[k] + 1 ELSE r.encountered[k]
  BY <1>2, <1>6 DEF Bumped
<1>9. \A k \in T : s.culled[k] = IF k = here THEN r.culled[k] + by ELSE r.culled[k]
  BY <1>2, <1>6 DEF Bumped
<1>10. ASSUME NEW k \in T PROVE s.culled[k] = Rounded(s.encountered[k], s.targets[k], s.counts[k])
  <2>1. CASE k # here
    BY <1>2, <1>5, <1>8, <1>9, <2>1
  <2>2. CASE k = here
    <3> DEFINE e == r.encountered[k]
               num == r.targets[k]
               den == r.counts[k]
    <3>1. e \in Nat /\ num \in Nat /\ den \in Nat \ {0} /\ num <= den
      BY <1>4, <1>5
    <3>2. s.encountered[k] = e + 1 /\ s.culled[k] = r.culled[k] + by /\ r.culled[k] = Rounded(e, num, den)
      BY <1>5, <1>8, <1>9, <2>2
    <3>3. IF by = 0 THEN r.culled[k] >= Rounded(e + 1, num, den) ELSE r.culled[k] < Rounded(e + 1, num, den)
      BY <2>2 DEF DueNext, T
    <3> HIDE DEF e, num, den
    <3>4. /\ Rounded(e, num, den) \in Int
          /\ Rounded(e + 1, num, den) = Rounded(e, num, den)
               \/ Rounded(e + 1, num, den) = Rounded(e, num, den) + 1
      BY <3>1, RoundedSteps
    <3>5. s.culled[k] = Rounded(e + 1, num, den)
      BY <3>2, <3>3, <3>4
    <3> QED  BY <1>2, <3>2, <3>5 DEF num, den
  <2> QED  BY <2>1, <2>2
<1>11. s.culled = [k \in T |-> Rounded(s.encountered[k], s.targets[k], s.counts[k])]
  <2>1. s.culled = [k \in T |-> s.culled[k]]
    BY <1>2, <1>6 DEF Bumped
  <2> QED  BY <1>10, <2>1
<1>12. r.next \in DOMAIN strides /\ here \in Keys(strides)
  BY DEF Keys, SizeOf
<1>13. /\ s.kept \in Seq(SoundStrides) /\ \A i \in 1 .. Len(s.kept) : SizeOf(s.kept[i]) \in Keys(strides)
       /\ \A k \in T : CountUpTo(s.kept, Len(s.kept), k) =
            CountUpTo(r.kept, Len(r.kept), k) + IF by = 0 /\ k = here THEN 1 ELSE 0
  <2>1. CASE by = 0
    <3>1. PICK x \in SoundStrides : SizeOf(x) = here /\ s.kept = Append(r.kept, x)
      BY <2>1
    <3>2. Len(s.kept) = Len(r.kept) + 1 /\ s.kept \in Seq(SoundStrides)
      BY <1>1, <3>1
    <3>3. ASSUME NEW i \in 1 .. Len(s.kept) PROVE SizeOf(s.kept[i]) \in Keys(strides)
      <4>1. s.kept[i] = IF i <= Len(r.kept) THEN r.kept[i] ELSE x
        BY <1>1, <3>1, <3>2
      <4> QED  BY <1>1, <1>12, <3>1, <3>2, <4>1
    <3>4. \A k \in T : CountUpTo(s.kept, Len(s.kept), k) =
            CountUpTo(r.kept, Len(r.kept), k) + IF SizeOf(x) = k THEN 1 ELSE 0
      BY <1>1, <3>1, <3>2, CountAppend
    <3> QED  BY <2>1, <3>1, <3>2, <3>3, <3>4
  <2>2. CASE by = 1
    <3>1. s.kept = r.kept
      BY <2>2
    <3>2. Len(r.kept) \in Nat
      BY <1>1
    <3>3. \A k : CountUpTo(r.kept, Len(r.kept), k) \in Nat
      BY <3>2, CountNext
    <3> QED  BY <1>1, <2>2, <3>1, <3>3
  <2> QED  BY <2>1, <2>2
<1>14. ASSUME NEW k \in T PROVE CountUpTo(s.kept, Len(s.kept), k) + s.culled[k] = s.encountered[k]
  <2>1. CountUpTo(r.kept, Len(r.kept), k) + r.culled[k] = r.encountered[k]
    BY <1>1 DEF T
  <2>2. CountUpTo(r.kept, Len(r.kept), k) \in Nat
    <3>1. Len(r.kept) \in Nat
      BY <1>1
    <3> QED  BY <3>1, CountNext
  <2>3. r.culled[k] \in Int /\ r.encountered[k] \in Nat
    <3> DEFINE e == r.encountered[k]
               num == r.targets[k]
               den == r.counts[k]
    <3>1. e \in Nat /\ num \in Nat /\ den \in Nat \ {0} /\ num <= den /\ r.culled[k] = Rounded(e, num, den)
      BY <1>4, <1>5
    <3> HIDE DEF e, num, den
    <3>2. Rounded(e, num, den) \in Int
      BY <3>1, RoundedSteps
    <3> QED  BY <3>1, <3>2 DEF e
  <2> DEFINE a == CountUpTo(r.kept, Len(r.kept), k)
             b == CountUpTo(s.kept, Len(s.kept), k)
  <2>4. /\ a \in Nat /\ a + r.culled[k] = r.encountered[k]
        /\ b = a + IF by = 0 /\ k = here THEN 1 ELSE 0
        /\ s.encountered[k] = IF k = here THEN r.encountered[k] + 1 ELSE r.encountered[k]
        /\ s.culled[k] = IF k = here THEN r.culled[k] + by ELSE r.culled[k]
    BY <1>8, <1>9, <1>13, <2>1, <2>2
  <2> HIDE DEF a, b
  <2>5. by = 0 \/ by = 1
    OBVIOUS
  <2> DEFINE x == r.culled[k]
             e == r.encountered[k]
             y == s.culled[k]
             f == s.encountered[k]
  <2>6. a \in Nat /\ x \in Int /\ e \in Nat /\ a + x = e
    BY <2>3, <2>4
  <2>7. \/ b = a + 0 /\ f = e /\ y = x
        \/ b = a + 1 /\ f = e + 1 /\ y = x
        \/ b = a + 0 /\ f = e + 1 /\ y = x + 1
    BY <2>3, <2>4, <2>5
  <2> HIDE DEF x, e, y, f
  <2>8. b + y = f
    BY <2>6, <2>7
  <2> QED  BY <2>8 DEF b, y, f
<1>15. \E total \in Int : s.targets = abs_stride_cull_targets(strides, total)
  BY <1>1, <1>2
<1>16. DOMAIN s.targets = T
  BY <1>2 DEF T
<1> QED  BY <1>1, <1>2, <1>3, <1>7, <1>11, <1>13, <1>14, <1>15, <1>16 DEF RoundOK

\* Nothing has been met when the cull begins.
LEMMA RoundStarts ==
  ASSUME NEW strides \in Seq(SoundStrides), NEW total \in Int, NEW r,
         LET targets == abs_stride_cull_targets(strides, total)
             none == [k \in DOMAIN targets |-> 0]
         IN  r = [next |-> 1, kept |-> << >>, counts |-> abs_counts(strides), targets |-> targets,
                  encountered |-> none, culled |-> none]
  PROVE  RoundOK(r, strides)
<1> DEFINE targets == abs_stride_cull_targets(strides, total)
           none == [k \in DOMAIN targets |-> 0]
<1>1. /\ r = [next |-> 1, kept |-> << >>, counts |-> abs_counts(strides), targets |-> targets,
              encountered |-> none, culled |-> none]
      /\ r.next = 1 /\ r.kept = << >> /\ r.counts = abs_counts(strides) /\ r.targets = targets
      /\ r.encountered = none /\ r.culled = none
  OBVIOUS
<1>2. r.next \in 1 .. Len(strides) + 1 /\ r.next - 1 = 0
  BY <1>1
<1>3. r.kept \in Seq(SoundStrides) /\ Len(r.kept) = 0
  BY <1>1
<1> HIDE DEF targets
<1>4. /\ DOMAIN targets \in SUBSET Keys(strides)
      /\ \A k \in DOMAIN targets : targets[k] \in 1 .. abs_counts(strides)[k]
           /\ abs_counts(strides)[k] \in Nat \ {0}
  BY TargetsOf, CountsOf DEF targets
<1>5. ASSUME NEW k \in DOMAIN targets
      PROVE  /\ CountUpTo(strides, 0, k) = 0 /\ CountUpTo(r.kept, 0, k) = 0
             /\ Rounded(0, targets[k], abs_counts(strides)[k]) = 0
  <2> DEFINE num == targets[k]
             den == abs_counts(strides)[k]
  <2>1. num \in Nat /\ den \in Nat \ {0} /\ num <= den
    BY <1>4, <1>5
  <2> HIDE DEF num, den
  <2>2. 0 \in Nat
    OBVIOUS
  <2>3. Rounded(0, num, den) = 0
    BY <2>1, <2>2, RoundedSteps
  <2> QED  BY <2>2, <2>3, CountNext DEF num, den
<1>6. r.encountered = [k \in DOMAIN r.targets |-> CountUpTo(strides, r.next - 1, k)]
  BY <1>1, <1>2, <1>5
<1>7. r.culled = [k \in DOMAIN r.targets |-> Rounded(r.encountered[k], r.targets[k], r.counts[k])]
  BY <1>1, <1>5
<1>8. \A k \in DOMAIN r.targets : CountUpTo(r.kept, Len(r.kept), k) + r.culled[k] = r.encountered[k]
  BY <1>1, <1>3, <1>5
<1>9. \E x \in Int : r.targets = abs_stride_cull_targets(strides, x)
  BY <1>1 DEF targets
<1> QED  BY <1>1, <1>2, <1>3, <1>6, <1>7, <1>8, <1>9 DEF RoundOK

\* When all strides have been met the targets are, and no stride is kept that is
\* smaller than one that is not.
LEMMA RoundEnds ==
  ASSUME NEW strides \in Seq(SoundStrides), NEW r, RoundOK(r, strides), r.next = Len(strides) + 1
  PROVE  /\ r.culled = r.targets
         /\ \A k \in DOMAIN r.culled, l \in Keys(r.kept) : ~ KeyBelow(l, k)
<1> DEFINE T == DOMAIN r.targets
<1>1. /\ r.kept \in Seq(SoundStrides) /\ \A i \in 1 .. Len(r.kept) : SizeOf(r.kept[i]) \in Keys(strides)
      /\ r.counts = abs_counts(strides)
      /\ r.encountered = [k \in T |-> CountUpTo(strides, r.next - 1, k)]
      /\ r.culled = [k \in T |-> Rounded(r.encountered[k], r.targets[k], r.counts[k])]
      /\ \A k \in T : CountUpTo(r.kept, Len(r.kept), k) + r.culled[k] = r.encountered[k]
  BY DEF RoundOK
<1>2. /\ r.targets = [k \in T |-> r.targets[k]] /\ T \in SUBSET Keys(strides)
      /\ \A k \in T : r.counts[k] \in Nat \ {0} /\ r.targets[k] \in 1 .. r.counts[k]
      /\ \A k \in T, l \in Keys(strides) : KeyBelow(l, k) => l \in T /\ r.targets[l] = r.counts[l]
  BY RoundTargets
<1>3. r.next - 1 = Len(strides) /\ Len(strides) \in Nat
  OBVIOUS
<1> HIDE DEF T
<1>4. ASSUME NEW k \in T PROVE r.encountered[k] = r.counts[k] /\ r.culled[k] = r.targets[k]
  <2>1. r.encountered[k] = r.counts[k]
    BY <1>1, <1>2, <1>3, CountAll
  <2> DEFINE num == r.targets[k]
             den == r.counts[k]
  <2>2. num \in Nat /\ den \in Nat \ {0} /\ num <= den
    BY <1>2
  <2>3. r.culled[k] = Rounded(den, num, den)
    BY <1>1, <2>1
  <2> HIDE DEF num, den
  <2>4. 0 \in Nat
    OBVIOUS
  <2>5. Rounded(den, num, den) = num
    BY <2>2, <2>4, RoundedSteps
  <2> QED  BY <2>1, <2>3, <2>5 DEF num
<1>5. r.culled = [k \in T |-> r.culled[k]]
  BY <1>1
<1>6. r.culled = r.targets
  BY <1>2, <1>4, <1>5
<1>7. ASSUME NEW k \in DOMAIN r.culled, NEW l \in Keys(r.kept), KeyBelow(l, k) PROVE FALSE
  <2>1. k \in T
    BY <1>1
  <2>2. PICK i \in 1 .. Len(r.kept) : l = SizeOf(r.kept[i])
    BY <1>1 DEF Keys, SizeOf
  <2>3. l \in Keys(strides)
    BY <1>1, <2>2
  <2>4. l \in T /\ r.targets[l] = r.counts[l] /\ r.counts[l] \in Nat
    BY <1>2, <1>7, <2>1, <2>3
  <2>5. CountUpTo(r.kept, Len(r.kept), l) + r.counts[l] = r.counts[l]
    BY <1>1, <1>4, <2>4
  <2> DEFINE n == Len(r.kept)
             S == {j \in 1 .. n : SizeOf(r.kept[j]) = l}
  <2>6. n \in Nat /\ i \in S
    BY <1>1, <2>2
  <2>7. CountUpTo(r.kept, n, l) = Cardinality(S) /\ S \in SUBSET (1 .. n) /\ IsFiniteSet(1 .. n)
    <3>1. CountUpTo(r.kept, n, l) = Cardinality(S)
      BY DEF CountUpTo
    <3>2. S \in SUBSET (1 .. n)
      OBVIOUS
    <3> HIDE DEF S, n
    <3> QED  BY <2>6, <3>1, <3>2, FS_Interval
  <2>8. CountUpTo(r.kept, n, l) + r.counts[l] = r.counts[l]
    BY <2>5
  <2> HIDE DEF S, n
  <2>9. IsFiniteSet(S) /\ Cardinality(S) \in Nat /\ Cardinality(S) # 0
    BY <2>6, <2>7, FS_Subset, FS_CardinalityType, FS_EmptySet
  <2> QED  BY <2>4, <2>7, <2>8, <2>9
<1> QED  BY <1>6, <1>7

\* x is what becomes of the stride s, of length w from now on.
Stretched(s, delta, w, x) ==
  /\ w = IF s.is_infinitesimal THEN s.linear_value ELSE NewStride(s, delta)
  /\ x = [s EXCEPT !.linear_value = w, !.linear_fractional_err = 0]

\* A stretched stride is of the same size.
LEMMA KeptStride ==
  ASSUME NEW s \in SoundStrides, NEW delta \in Int, NEW w, NEW x, Stretched(s, delta, w, x)
  PROVE  /\ x \in SoundStrides /\ SizeOf(x) = SizeOf(s) /\ w \in Int
         /\ StrideBytes(x) = 8 * w
         /\ Abs(delta + 8 * (w - s.linear_value)) <= Abs(delta)
<1> USE DEF Stretched
<1>1. s \in Strides /\ WellFormed(s)
  BY DEF SoundStrides
<1>2. s.linear_value \in Int
  BY <1>1 DEF Strides
<1>3. ~ s.is_infinitesimal =>
         /\ w \in Int
         /\ s.is_negative <=> w < 0
         /\ Pow2[s.magnitude] <= Abs(w)
         /\ Abs(w) < Pow2[s.magnitude + 1]
         /\ Abs(delta + 8 * (w - s.linear_value)) <= Abs(delta)
  BY NewStrideSound
<1>4. s.is_infinitesimal => w = s.linear_value
  OBVIOUS
<1>5. w \in Int
  BY <1>2, <1>3, <1>4
<1>6. Abs(delta + 8 * (w - s.linear_value)) <= Abs(delta)
  <2>1. CASE s.is_infinitesimal
    <3>1. w - s.linear_value = 0
      BY <1>2, <1>4, <2>1
    <3>2. delta + 8 * (w - s.linear_value) = delta
      BY <3>1
    <3> QED  BY <3>2 DEF Abs
  <2> QED  BY <1>3, <2>1
<1>7. x = [is_infinitesimal |-> s.is_infinitesimal, is_negative |-> s.is_negative, magnitude |-> s.magnitude,
           linear_value |-> w, linear_fractional_err |-> 0]
  BY <1>1 DEF Strides
<1>8. x \in Strides
  <2>1. s.is_infinitesimal \in BOOLEAN /\ s.is_negative \in BOOLEAN /\ s.magnitude \in Nat /\ 0 \in -7 .. 0
    BY <1>1 DEF Strides
  <2> QED  BY <1>5, <1>7, <2>1 DEF Strides
<1>9. WellFormed(x)
  BY <1>1, <1>3, <1>7 DEF WellFormed
<1>10. SizeOf(x) = SizeOf(s)
  BY <1>7 DEF SizeOf, AbsKey, Key
<1>11. StrideBytes(x) = 8 * w
  BY <1>5, <1>7 DEF StrideBytes
<1> QED  BY <1>5, <1>6, <1>8, <1>9, <1>10, <1>11 DEF SoundStrides

--------------------------------------------------------------------------------
(* The invariant of culling *)

CullShape ==
  /\ parameters \in Inputs /\ original = parameters.strides /\ original \in Seq(Int)
  /\ log_strides \in Seq(SoundStrides) /\ stride_delta \in Int
  /\ IsFiniteSet(DOMAIN culled_strides) /\ \A v \in DOMAIN culled_strides : culled_strides[v] \in Nat

CullInv ==
  /\ CullShape
  /\ phase = "culling" => RoundOK(round, log_strides)
  /\ DeltaIsLead
  /\ NothingLost
  /\ SmallestFirst
  /\ phase # "assertion"

\* A raw trace stands for itself.
LEMMA CullInit == Init => CullInv
<1> SUFFICES ASSUME Init PROVE CullInv
  OBVIOUS
<1>1. /\ parameters \in Inputs /\ original = parameters.strides /\ original \in Seq(Int)
      /\ log_strides = [i \in DOMAIN original |-> LogStride(original[i])]
      /\ culled_strides = << >> /\ stride_delta = 0 /\ phase = "raw"
  BY InputsAssumption DEF Init
<1>2. DOMAIN original = 1 .. Len(original) /\ Len(original) \in Nat
        /\ \A i \in 1 .. Len(original) : original[i] \in Int
  BY <1>1
<1>3. \A i \in 1 .. Len(original) : log_strides[i] \in SoundStrides /\ log_strides[i] = LogStride(original[i])
  BY <1>1, <1>2, LogStrideSound
<1>4. log_strides = [i \in 1 .. Len(original) |-> log_strides[i]]
  BY <1>1, <1>2
<1>5. log_strides \in Seq(SoundStrides) /\ Len(log_strides) = Len(original)
  BY <1>2, <1>3, <1>4
<1>6. DOMAIN culled_strides = {} /\ IsFiniteSet(DOMAIN culled_strides)
  BY <1>1, FS_EmptySet
<1>7. Current = log_strides
  BY <1>1 DEF Current
<1>8. Bytes(log_strides) = original
  <2>1. \A i \in 1 .. Len(original) :
          8 * log_strides[i].linear_value - log_strides[i].linear_fractional_err = original[i]
    BY <1>2, <1>3, LogStrideSound
  <2>2. DOMAIN log_strides = 1 .. Len(original)
    BY <1>4
  <2>3. Bytes(log_strides) = [i \in 1 .. Len(original) |-> original[i]]
    BY <2>1, <2>2 DEF Bytes
  <2> QED  BY <1>1, <1>2, <2>3
<1>9. SumFunction(original) \in Int
  <2>1. IsFiniteSet(1 .. Len(original))
    BY <1>2, FS_Interval
  <2> QED  BY <1>2, <2>1, SumInt DEF SumFunction
<1>10. DeltaIsLead
  BY <1>1, <1>7, <1>8, <1>9 DEF DeltaIsLead
<1>11. NothingLost
  BY <1>2, <1>5, <1>6, <1>7, SumEmpty DEF NothingLost, Total
<1>12. SmallestFirst /\ phase # "assertion" /\ phase # "culling"
  BY <1>1 DEF SmallestFirst
<1> QED  BY <1>1, <1>5, <1>6, <1>10, <1>11, <1>12 DEF CullInv, CullShape

\* What the invariant says of a trace at rest and of one that is being culled.
LEMMA CurrentSound ==
  ASSUME CullInv
  PROVE  /\ Current \in Seq(SoundStrides)
         /\ phase # "culling" => Current = log_strides
         /\ phase = "culling" =>
              Current = round.kept \o SubSeq(log_strides, round.next, Len(log_strides))
<1>1. log_strides \in Seq(SoundStrides) /\ phase # "assertion"
  BY DEF CullInv, CullShape
<1>2. CASE phase # "culling"
  BY <1>1, <1>2 DEF Current
<1>3. CASE phase = "culling"
  <2>1. Current = round.kept \o SubSeq(log_strides, round.next, Len(log_strides))
    BY <1>3 DEF Current
  <2>2. round.kept \in Seq(SoundStrides) /\ round.next \in 1 .. Len(log_strides) + 1
    BY <1>3 DEF CullInv, RoundOK
  <2>3. SubSeq(log_strides, round.next, Len(log_strides)) \in Seq(SoundStrides)
    <3>1. \A i \in round.next .. Len(log_strides) : log_strides[i] \in SoundStrides
      BY <1>1, <2>2
    <3>2. round.next \in Int /\ Len(log_strides) \in Int
      BY <1>1, <2>2
    <3> QED  BY <3>1, <3>2, SubSeqProperties
  <2> QED  BY <1>3, <2>1, <2>2, <2>3
<1> QED  BY <1>2, <1>3

\* A cull begins with the trace as it is.
LEMMA CullBegins ==
  ASSUME CullInv, phase # "culling", NEW total \in Int, BeginCull(total)
  PROVE  CullInv'
<1>1. /\ phase' = "culling" /\ original' = original /\ parameters' = parameters
      /\ log_strides' = log_strides /\ culled_strides' = culled_strides /\ stride_delta' = stride_delta
  BY DEF BeginCull
<1>2. log_strides \in Seq(SoundStrides)
  BY DEF CullInv, CullShape
<1>3. RoundOK(round', log_strides)
  <2>1. LET targets == abs_stride_cull_targets(log_strides, total)
            none == [k \in DOMAIN targets |-> 0]
        IN  round' = [next |-> 1, kept |-> << >>, counts |-> abs_counts(log_strides), targets |-> targets,
                      encountered |-> none, culled |-> none]
    BY DEF BeginCull
  <2> QED  BY <1>2, <2>1, RoundStarts
<1>4. round'.kept = << >> /\ round'.next = 1
  BY DEF BeginCull
<1>5. Current' = Current
  <2>1. Current' = << >> \o SubSeq(log_strides, 1, Len(log_strides))
    BY <1>1, <1>4 DEF Current
  <2>2. Current = log_strides
    BY CurrentSound
  <2> QED  BY <1>2, <2>1, <2>2, SubSeqFull, ConcatEmptySeq
<1>6. CullShape'
  BY <1>1 DEF CullInv, CullShape
<1>7. DeltaIsLead' /\ NothingLost'
  BY <1>1, <1>5 DEF CullInv, DeltaIsLead, NothingLost
<1>8. SmallestFirst' /\ phase' # "assertion" /\ (phase' = "culling" => RoundOK(round, log_strides)')
  <2>1. RoundOK(round, log_strides)'
    BY <1>1, <1>3 DEF RoundOK
  <2> QED  BY <1>1, <2>1 DEF SmallestFirst
<1> QED  BY <1>6, <1>7, <1>8 DEF CullInv

\* Whatever leaves the trace alone.
LEMMA CullFrame ==
  ASSUME CullInv, phase # "culling", phase' \notin {"culling", "assertion", "culled"},
         UNCHANGED <<original, parameters, log_strides, culled_strides, stride_delta>>
  PROVE  CullInv'
<1>1. phase # "assertion"
  BY DEF CullInv
<1>2. Current' = Current
  BY <1>1 DEF Current
<1>3. CullShape'
  BY DEF CullInv, CullShape
<1>4. DeltaIsLead' /\ NothingLost'
  BY <1>2 DEF CullInv, DeltaIsLead, NothingLost
<1>5. SmallestFirst' /\ phase' # "assertion" /\ phase' # "culling"
  BY DEF SmallestFirst
<1> QED  BY <1>3, <1>4, <1>5 DEF CullInv

LEMMA RoundExcept ==
  ASSUME NEW r,
         r = [next |-> r.next, kept |-> r.kept, counts |-> r.counts, targets |-> r.targets,
              encountered |-> r.encountered, culled |-> r.culled],
         NEW n, NEW k, NEW e, NEW u
  PROVE  [r EXCEPT !.next = n, !.kept = k, !.encountered = e, !.culled = u] =
           [next |-> n, kept |-> k, counts |-> r.counts, targets |-> r.targets,
            encountered |-> e, culled |-> u]
<1> DEFINE names == {"next", "kept", "counts", "targets", "encountered", "culled"}
           x == [r EXCEPT !.next = n, !.kept = k, !.encountered = e, !.culled = u]
           y == [next |-> n, kept |-> k, counts |-> r.counts, targets |-> r.targets,
                 encountered |-> e, culled |-> u]
           z == [next |-> r.next, kept |-> r.kept, counts |-> r.counts, targets |-> r.targets,
                 encountered |-> r.encountered, culled |-> r.culled]
<1>1. DOMAIN z = names
  OBVIOUS
<1>2. DOMAIN r = names
  BY <1>1
<1>3. DOMAIN x = names /\ x = [i \in DOMAIN x |-> x[i]]
  BY <1>2
<1>4. /\ x.next = n /\ x.kept = k /\ x.encountered = e /\ x.culled = u
      /\ x.counts = r.counts /\ x.targets = r.targets
  BY <1>2
<1>5. /\ DOMAIN y = names /\ y = [i \in DOMAIN y |-> y[i]]
      /\ y.next = n /\ y.kept = k /\ y.encountered = e /\ y.culled = u
      /\ y.counts = r.counts /\ y.targets = r.targets
  OBVIOUS
<1> HIDE DEF x, y, z
<1>6. \A i \in names : x[i] = y[i]
  BY <1>4, <1>5
<1>7. x = y
  BY <1>3, <1>5, <1>6
<1> QED  BY <1>7 DEF x, y

LEMMA CountedIs ==
  ASSUME CullInv, phase = "culling", NEW kept, NEW more
  PROVE  NextRound(round, Counted(kept, more), SizeOf(Here), more) /\ Counted(kept, more).kept = kept
<1> DEFINE Bump(f, by) == IF HereKey \in DOMAIN f THEN [f EXCEPT ![HereKey] = @ + by] ELSE f
           here == SizeOf(Here)
           e == Bump(round.encountered, 1)
           u == Bump(round.culled, more)
           s == Counted(kept, more)
<1>1. /\ round = [next |-> round.next, kept |-> round.kept, counts |-> round.counts, targets |-> round.targets,
                  encountered |-> round.encountered, culled |-> round.culled]
      /\ round.encountered = [k \in DOMAIN round.encountered |-> round.encountered[k]]
      /\ round.culled = [k \in DOMAIN round.culled |-> round.culled[k]]
  BY DEF CullInv, RoundOK
<1>2. s = [round EXCEPT !.next = round.next + 1, !.kept = kept, !.encountered = e, !.culled = u]
  <2>1. DOMAIN round = {"next", "kept", "counts", "targets", "encountered", "culled"}
    <3> DEFINE z == [next |-> round.next, kept |-> round.kept, counts |-> round.counts,
                     targets |-> round.targets, encountered |-> round.encountered, culled |-> round.culled]
    <3>1. DOMAIN z = {"next", "kept", "counts", "targets", "encountered", "culled"}
      OBVIOUS
    <3> QED  BY <1>1, <3>1
  <2> QED  BY <2>1 DEF Counted
<1>3. HereKey = here
  BY DEF HereKey, SizeOf
<1>4. ASSUME NEW f, f = [k \in DOMAIN f |-> f[k]], NEW by
      PROVE  Bump(f, by) = Bumped(f, here, by)
  <2>1. CASE here \in DOMAIN f
    <3>1. Bump(f, by) = [f EXCEPT ![here] = f[here] + by]
      BY <1>3, <2>1
    <3>2. [f EXCEPT ![here] = f[here] + by] = [k \in DOMAIN f |-> IF k = here THEN f[here] + by ELSE f[k]]
      BY <2>1
    <3> QED  BY <3>1, <3>2 DEF Bumped
  <2>2. CASE here \notin DOMAIN f
    <3>1. Bump(f, by) = f
      BY <1>3, <2>2
    <3>2. Bumped(f, here, by) = [k \in DOMAIN f |-> f[k]]
      BY <2>2 DEF Bumped
    <3> QED  BY <1>4, <3>1, <3>2
  <2> QED  BY <2>1, <2>2
<1>5. e = Bumped(round.encountered, here, 1) /\ u = Bumped(round.culled, here, more)
  BY <1>1, <1>4
<1> DEFINE nx == round.next + 1
<1> HIDE DEF e, u, s, here, nx
<1>6. s = [next |-> nx, kept |-> kept, counts |-> round.counts, targets |-> round.targets,
           encountered |-> e, culled |-> u]
  <2>1. s = [round EXCEPT !.next = nx, !.kept = kept, !.encountered = e, !.culled = u]
    BY <1>2 DEF nx
  <2> QED  BY <1>1, <2>1, RoundExcept
<1>7. s.kept = kept
  BY <1>6
<1> QED  BY <1>5, <1>6, <1>7 DEF NextRound, s, nx, here

\* The next stride, between those kept and those not met.
Rest == SubSeq(log_strides, round.next + 1, Len(log_strides))

LEMMA HereSplit ==
  ASSUME CullInv, phase = "culling", round.next \in DOMAIN log_strides
  PROVE  /\ Here \in SoundStrides /\ round.kept \in Seq(SoundStrides) /\ Rest \in Seq(SoundStrides)
         /\ round.next \in 1 .. Len(log_strides) /\ Len(log_strides) \in Nat
         /\ BytesIn(Current) = BytesIn(round.kept) + StrideBytes(Here) + BytesIn(Rest)
         /\ Len(Current) = Len(round.kept) + 1 + Len(Rest)
<1>1. log_strides \in Seq(SoundStrides) /\ RoundOK(round, log_strides)
  BY DEF CullInv, CullShape
<1>2. round.next \in 1 .. Len(log_strides) /\ Len(log_strides) \in Nat /\ round.kept \in Seq(SoundStrides)
  BY <1>1 DEF RoundOK
<1>3. Here \in SoundStrides
  BY <1>1, <1>2 DEF Here
<1>4. Rest \in Seq(SoundStrides)
  <2> DEFINE n == round.next + 1
  <2>1. n \in Int /\ Len(log_strides) \in Int
          /\ \A i \in n .. Len(log_strides) : log_strides[i] \in SoundStrides
    BY <1>1, <1>2
  <2> HIDE DEF n
  <2> QED  BY <2>1, SubSeqProperties DEF Rest, n
<1>5. SubSeq(log_strides, round.next, Len(log_strides)) = <<Here>> \o Rest
  <2>1. Len(log_strides) \in round.next .. Len(log_strides)
    BY <1>2
  <2> QED  BY <1>1, <1>2, <2>1, SubSeqRecursiveFirst DEF Here, Rest
<1>6. Current = round.kept \o (<<Here>> \o Rest)
  BY <1>5, CurrentSound
<1>7. <<Here>> \in Seq(SoundStrides) /\ Len(<<Here>>) = 1
  BY <1>3
<1>8. <<Here>> \o Rest \in Seq(SoundStrides) /\ Len(<<Here>> \o Rest) = 1 + Len(Rest)
  BY <1>4, <1>7
<1>9. BytesIn(<<Here>> \o Rest) = StrideBytes(Here) + BytesIn(Rest) /\ BytesIn(Rest) \in Int
        /\ StrideBytes(Here) \in Int
  BY <1>3, <1>4, <1>7, BytesConcat, BytesOfOne
<1>10. BytesIn(Current) = BytesIn(round.kept) + BytesIn(<<Here>> \o Rest) /\ BytesIn(round.kept) \in Int
  BY <1>2, <1>6, <1>8, BytesConcat
<1>11. Len(Current) = Len(round.kept) + (1 + Len(Rest))
  BY <1>2, <1>6, <1>8
<1>12. Len(round.kept) \in Nat /\ Len(Rest) \in Nat
  BY <1>2, <1>4
<1>13. Len(Current) = Len(round.kept) + 1 + Len(Rest)
  <2> DEFINE a == Len(round.kept)
             b == Len(Rest)
  <2>1. a \in Nat /\ b \in Nat /\ Len(Current) = a + (1 + b)
    BY <1>11, <1>12
  <2> HIDE DEF a, b
  <2>2. Len(Current) = a + 1 + b
    BY <2>1
  <2> QED  BY <2>2 DEF a, b
<1>14. BytesIn(Current) = BytesIn(round.kept) + StrideBytes(Here) + BytesIn(Rest)
  BY <1>9, <1>10
<1> QED  BY <1>2, <1>3, <1>4, <1>13, <1>14

LEMMA DueInt ==
  ASSUME NEW strides \in Seq(SoundStrides), NEW r, RoundOK(r, strides), r.next \in 1 .. Len(strides),
         NEW k \in DOMAIN r.targets
  PROVE  r.culled[k] \in Int /\ DueNext(r, k) \in Int
<1> DEFINE e == r.encountered[k]
           num == r.targets[k]
           den == r.counts[k]
<1>1. den \in Nat \ {0} /\ num \in 1 .. den
  BY RoundTargets
<1>2. num \in Nat /\ num <= den
  BY <1>1
<1>3. e = CountUpTo(strides, r.next - 1, k) /\ r.culled[k] = Rounded(e, num, den)
        /\ DueNext(r, k) = Rounded(e + 1, num, den)
  BY DEF RoundOK, DueNext
<1>4. r.next - 1 \in Nat
  OBVIOUS
<1>5. e \in Nat
  BY <1>3, <1>4, CountNext
<1> HIDE DEF e, num, den
<1>6. Rounded(e, num, den) \in Int
  BY <1>1, <1>2, <1>5, RoundedSteps
<1>7. Rounded(e + 1, num, den) \in Int
  BY <1>1, <1>2, <1>5, <1>6, RoundedSteps
<1> QED  BY <1>3, <1>6, <1>7

\* After the stride: those kept, be it one of them or not, and the rest.
LEMMA RoundGoesOn ==
  ASSUME CullInv, phase = "culling", round.next \in DOMAIN log_strides,
         phase' = "culling", log_strides' = log_strides,
         NEW kept \in Seq(SoundStrides), NEW by \in {0, 1}, round' = Counted(kept, by),
         \/ /\ by = 0 /\ Keeps
            /\ \E x \in SoundStrides : SizeOf(x) = SizeOf(Here) /\ kept = Append(round.kept, x)
         \/ by = 1 /\ ~ Keeps /\ kept = round.kept
  PROVE  /\ (phase = "culling" => RoundOK(round, log_strides))'
         /\ Current' = kept \o Rest
         /\ SmallestFirst' /\ phase' # "assertion"
<1>1. log_strides \in Seq(SoundStrides) /\ RoundOK(round, log_strides)
  BY DEF CullInv, CullShape
<1>2. round.next \in 1 .. Len(log_strides)
  BY HereSplit
<1>3. NextRound(round, round', SizeOf(Here), by) /\ round'.kept = kept
  BY CountedIs
<1>4. DOMAIN round.targets = DOMAIN round.culled
  BY <1>1 DEF RoundOK
<1>5. \/ /\ by = 0
         /\ SizeOf(Here) \in DOMAIN round.targets => round.culled[SizeOf(Here)] >= DueNext(round, SizeOf(Here))
         /\ \E x \in SoundStrides : SizeOf(x) = SizeOf(Here) /\ round'.kept = Append(round.kept, x)
      \/ /\ by = 1 /\ SizeOf(Here) \in DOMAIN round.targets
         /\ ~ (round.culled[SizeOf(Here)] >= DueNext(round, SizeOf(Here)))
         /\ round'.kept = round.kept
  BY <1>3 DEF Keeps, HereKey, SizeOf, target_culled_count, DueNext
<1>6. ASSUME SizeOf(Here) \in DOMAIN round.targets,
             ~ (round.culled[SizeOf(Here)] >= DueNext(round, SizeOf(Here)))
      PROVE  round.culled[SizeOf(Here)] < DueNext(round, SizeOf(Here))
  <2> DEFINE k == SizeOf(Here)
  <2>1. k \in DOMAIN round.targets
    BY <1>6
  <2> HIDE DEF k
  <2>2. round.culled[k] \in Int /\ DueNext(round, k) \in Int
    BY <1>1, <1>2, <2>1, DueInt
  <2> QED  BY <1>6, <2>2 DEF k
<1>7. SizeOf(Here) = SizeOf(log_strides[round.next])
  BY DEF Here
<1>8. RoundOK(round', log_strides)
  <2> DEFINE here == SizeOf(Here)
             r == round
             s == round'
  <2>1. NextRound(r, s, here, by) /\ here = SizeOf(log_strides[r.next]) /\ r.next \in 1 .. Len(log_strides)
    BY <1>2, <1>3, <1>7
  <2>2. \/ /\ by = 0
           /\ here \in DOMAIN r.targets => r.culled[here] >= DueNext(r, here)
           /\ \E x \in SoundStrides : SizeOf(x) = here /\ s.kept = Append(r.kept, x)
        \/ /\ by = 1 /\ here \in DOMAIN r.targets /\ r.culled[here] < DueNext(r, here)
           /\ s.kept = r.kept
    BY <1>5, <1>6
  <2>3. RoundOK(r, log_strides)
    BY <1>1
  <2> HIDE DEF here, r, s
  <2>4. RoundOK(s, log_strides)
    BY <1>1, <2>1, <2>2, <2>3, RoundStep
  <2> QED  BY <2>4 DEF s
<1>9. round'.next = round.next + 1
  BY <1>3 DEF NextRound
<1>10. Current' = kept \o Rest
  BY <1>3, <1>9 DEF Current, Rest
<1>11. RoundOK(round, log_strides)'
  BY <1>8 DEF RoundOK
<1> QED  BY <1>10, <1>11 DEF SmallestFirst

LEMMA OriginalInt ==
  ASSUME CullInv
  PROVE  SumFunction(original) \in Int
<1>1. original \in Seq(Int)
  BY DEF CullInv, CullShape
<1>2. DOMAIN original = 1 .. Len(original) /\ Len(original) \in Nat
        /\ \A i \in DOMAIN original : original[i] \in Int
  BY <1>1
<1>3. IsFiniteSet(DOMAIN original)
  BY <1>2, FS_Interval
<1> QED  BY <1>2, <1>3, SumInt DEF SumFunction

LEMMA KeepSound ==
  ASSUME CullInv, KeepStride
  PROVE  CullInv'
<1> DEFINE w == IF Here.is_infinitesimal THEN Here.linear_value ELSE NewStride(Here, stride_delta)
           lead == stride_delta + 8 * (w - Here.linear_value)
           x == [Here EXCEPT !.linear_value = w, !.linear_fractional_err = 0]
           kept == Append(round.kept, x)
<1>1. /\ phase = "culling" /\ round.next \in DOMAIN log_strides /\ Keeps
      /\ UNCHANGED <<original, parameters, log_strides, culled_strides>>
      /\ IF Abs(lead) > Abs(stride_delta)
         THEN phase' = "assertion" /\ UNCHANGED <<stride_delta, round>>
         ELSE /\ stride_delta' = lead + Here.linear_fractional_err
              /\ round' = Counted(kept, 0)
              /\ phase' = phase
  BY DEF KeepStride
<1>2. /\ Here \in SoundStrides /\ round.kept \in Seq(SoundStrides) /\ Rest \in Seq(SoundStrides)
      /\ BytesIn(Current) = BytesIn(round.kept) + StrideBytes(Here) + BytesIn(Rest)
      /\ Len(Current) = Len(round.kept) + 1 + Len(Rest)
  BY <1>1, HereSplit
<1>3. stride_delta \in Int
  BY DEF CullInv, CullShape
<1>4. /\ x \in SoundStrides /\ SizeOf(x) = SizeOf(Here) /\ w \in Int /\ StrideBytes(x) = 8 * w
      /\ Abs(lead) <= Abs(stride_delta)
  <2>1. Stretched(Here, stride_delta, w, x)
    BY DEF Stretched
  <2> HIDE DEF w, x
  <2> QED  BY <1>2, <1>3, <2>1, KeptStride
<1>5. Here.linear_value \in Int /\ Here.linear_fractional_err \in Int
  BY <1>2 DEF SoundStrides, Strides
<1> HIDE DEF x, w
<1>6. ~ (Abs(lead) > Abs(stride_delta))
  <2>1. lead \in Int
    BY <1>3, <1>4, <1>5
  <2> HIDE DEF lead
  <2>2. Abs(lead) \in Int /\ Abs(stride_delta) \in Int
    BY <1>3, <2>1, AbsNat
  <2> QED  BY <1>4, <2>2
<1>7. phase' = "culling" /\ round' = Counted(kept, 0) /\ stride_delta' = lead + Here.linear_fractional_err
  BY <1>1, <1>6
<1>8. kept \in Seq(SoundStrides) /\ kept = round.kept \o <<x>> /\ Len(kept) = Len(round.kept) + 1
  <2>1. kept \in Seq(SoundStrides) /\ Len(kept) = Len(round.kept) + 1
    BY <1>2, <1>4
  <2>2. kept = round.kept \o <<x>>
    BY <1>2, <1>4, AppendIsConcat
  <2> QED  BY <2>1, <2>2
<1>9. /\ (phase = "culling" => RoundOK(round, log_strides))'
      /\ Current' = kept \o Rest
      /\ SmallestFirst' /\ phase' # "assertion"
  <2>1. \E y \in SoundStrides : SizeOf(y) = SizeOf(Here) /\ kept = Append(round.kept, y)
    BY <1>4
  <2>2. log_strides' = log_strides /\ 0 \in {0, 1}
    BY <1>1
  <2> HIDE DEF kept
  <2> QED  BY <1>1, <1>7, <1>8, <2>1, <2>2, RoundGoesOn
<1>10. <<x>> \in Seq(SoundStrides)
  BY <1>4
<1>11. BytesIn(kept) = BytesIn(round.kept) + StrideBytes(x) /\ BytesIn(round.kept) \in Int
  BY <1>2, <1>4, <1>8, <1>10, BytesConcat, BytesOfOne
<1> HIDE DEF kept
<1>12. BytesIn(kept \o Rest) = BytesIn(kept) + BytesIn(Rest) /\ BytesIn(Rest) \in Int
  BY <1>2, <1>8, BytesConcat
<1>13. Len(kept \o Rest) = Len(Current)
  BY <1>2, <1>8
<1>14. CullShape'
  <2>1. stride_delta' \in Int
    BY <1>3, <1>4, <1>5, <1>7
  <2> QED  BY <1>1, <2>1 DEF CullInv, CullShape
<1>15. DeltaIsLead'
  <2> DEFINE o == SumFunction(original)
  <2>1. stride_delta = BytesIn(Current) - o /\ o \in Int
    BY OriginalInt DEF CullInv, DeltaIsLead, BytesIn
  <2>2. (SumFunction(Bytes(Current)) - SumFunction(original))' = BytesIn(kept \o Rest) - o
    BY <1>1, <1>9 DEF BytesIn, Bytes
  <2> DEFINE a == BytesIn(round.kept)
             z == BytesIn(Rest)
             v == Here.linear_value
             err == Here.linear_fractional_err
  <2>3. BytesIn(kept \o Rest) = a + 8 * w + z /\ BytesIn(Current) = a + (8 * v - err) + z
    BY <1>2, <1>4, <1>11, <1>12 DEF StrideBytes
  <2>4. stride_delta' = stride_delta + 8 * (w - v) + err
    BY <1>7
  <2>5. a \in Int /\ z \in Int /\ v \in Int /\ err \in Int /\ w \in Int
    BY <1>4, <1>5, <1>11, <1>12
  <2> HIDE DEF a, z, v, err, o
  <2>6. stride_delta' = BytesIn(kept \o Rest) - o
    BY <1>3, <2>1, <2>3, <2>4, <2>5
  <2> QED  BY <2>2, <2>6 DEF DeltaIsLead
<1>16. NothingLost'
  BY <1>1, <1>9, <1>13 DEF CullInv, NothingLost, Total
<1> QED  BY <1>9, <1>14, <1>15, <1>16 DEF CullInv

LEMMA CullStrideSound ==
  ASSUME CullInv, CullStride
  PROVE  CullInv'
<1> DEFINE v == Here.linear_value
           err == Here.linear_fractional_err
<1>1. /\ phase = "culling" /\ round.next \in DOMAIN log_strides /\ ~ Keeps
      /\ stride_delta' = stride_delta - 8 * v + err
      /\ culled_strides' = [u \in DOMAIN culled_strides \cup {v} |->
           (IF u \in DOMAIN culled_strides THEN culled_strides[u] ELSE 0) + IF u = v THEN 1 ELSE 0]
      /\ round' = Counted(round.kept, 1)
      /\ UNCHANGED <<original, parameters, log_strides, phase>>
  BY DEF CullStride
<1>2. /\ Here \in SoundStrides /\ round.kept \in Seq(SoundStrides) /\ Rest \in Seq(SoundStrides)
      /\ BytesIn(Current) = BytesIn(round.kept) + StrideBytes(Here) + BytesIn(Rest)
      /\ Len(Current) = Len(round.kept) + 1 + Len(Rest)
  BY <1>1, HereSplit
<1>3. /\ stride_delta \in Int /\ IsFiniteSet(DOMAIN culled_strides)
      /\ \A u \in DOMAIN culled_strides : culled_strides[u] \in Nat
  BY DEF CullInv, CullShape
<1>4. v \in Int /\ err \in Int
  BY <1>2 DEF SoundStrides, Strides
<1>5. /\ (phase = "culling" => RoundOK(round, log_strides))'
      /\ Current' = round.kept \o Rest
      /\ SmallestFirst' /\ phase' # "assertion"
  <2> DEFINE kept == round.kept
  <2>1. log_strides' = log_strides /\ phase' = "culling" /\ 1 \in {0, 1} /\ kept \in Seq(SoundStrides)
          /\ kept = round.kept /\ round' = Counted(kept, 1)
    BY <1>1, <1>2
  <2> HIDE DEF kept
  <2>2. Current' = kept \o Rest
          /\ (phase = "culling" => RoundOK(round, log_strides))' /\ SmallestFirst' /\ phase' # "assertion"
    BY <1>1, <2>1, RoundGoesOn
  <2> QED  BY <2>2 DEF kept
<1>6. BytesIn(round.kept \o Rest) = BytesIn(round.kept) + BytesIn(Rest) /\ BytesIn(Rest) \in Int
        /\ BytesIn(round.kept) \in Int
  BY <1>2, BytesConcat
<1>7. Len(round.kept \o Rest) + 1 = Len(Current) /\ Len(round.kept \o Rest) \in Nat /\ Len(Current) \in Nat
  <2> DEFINE a == round.kept
             z == Rest
  <2>1. a \in Seq(SoundStrides) /\ z \in Seq(SoundStrides) /\ Len(Current) = Len(a) + 1 + Len(z)
    BY <1>2
  <2> HIDE DEF a, z
  <2>2. Len(a \o z) = Len(a) + Len(z) /\ Len(a) \in Nat /\ Len(z) \in Nat
    BY <2>1
  <2>3. Len(a \o z) + 1 = Len(Current) /\ Len(a \o z) \in Nat /\ Len(Current) \in Nat
    BY <2>1, <2>2
  <2> QED  BY <2>3 DEF a, z
<1> DEFINE f == culled_strides
           g == culled_strides'
<1>8. /\ DOMAIN g = DOMAIN f \cup {v}
      /\ \A u \in DOMAIN f : u # v => g[u] = f[u]
      /\ g[v] = (IF v \in DOMAIN f THEN f[v] ELSE 0) + 1
      /\ \A u \in DOMAIN g : g[u] \in Nat
      /\ \A u \in DOMAIN f : f[u] \in Int
  <2>1. g = [u \in DOMAIN f \cup {v} |-> (IF u \in DOMAIN f THEN f[u] ELSE 0) + IF u = v THEN 1 ELSE 0]
    BY <1>1
  <2>2. \A u \in DOMAIN f : f[u] \in Nat
    BY <1>3
  <2> HIDE DEF f, g, v
  <2> QED  BY <2>1, <2>2
<1>9. IsFiniteSet(DOMAIN f) /\ IsFiniteSet(DOMAIN g)
  BY <1>3, <1>8, FS_AddElement
<1>10. Total(g, DOMAIN g) = Total(f, DOMAIN f) + 1 /\ Total(f, DOMAIN f) \in Int
  <2> HIDE DEF f, g, v
  <2>1. 1 \in Int
    OBVIOUS
  <2>2. SumFunction(g) = SumFunction(f) + 1 /\ SumFunction(f) \in Int
    BY <1>8, <1>9, <2>1, SumCount
  <2> QED  BY <2>2 DEF Total, SumFunction
<1>11. CullShape'
  <2>1. stride_delta' \in Int
    BY <1>1, <1>3, <1>4
  <2> QED  BY <1>1, <1>8, <1>9, <2>1 DEF CullInv, CullShape
<1>12. DeltaIsLead'
  <2> DEFINE o == SumFunction(original)
             a == BytesIn(round.kept)
             z == BytesIn(Rest)
  <2>1. stride_delta = BytesIn(Current) - o /\ o \in Int
    BY OriginalInt DEF CullInv, DeltaIsLead, BytesIn
  <2>2. (SumFunction(Bytes(Current)) - SumFunction(original))' = BytesIn(round.kept \o Rest) - o
    BY <1>1, <1>5 DEF BytesIn, Bytes
  <2>3. BytesIn(round.kept \o Rest) = a + z /\ BytesIn(Current) = a + (8 * v - err) + z
    BY <1>2, <1>6 DEF StrideBytes
  <2>4. a \in Int /\ z \in Int /\ stride_delta' = stride_delta - 8 * v + err
    BY <1>1, <1>6
  <2> HIDE DEF a, z, v, err, o
  <2>5. stride_delta' = BytesIn(round.kept \o Rest) - o
    BY <1>3, <1>4, <2>1, <2>3, <2>4
  <2> QED  BY <2>2, <2>5 DEF DeltaIsLead
<1>13. NothingLost'
  <2>1. Len(Current) + Total(f, DOMAIN f) = Len(original)
    BY DEF CullInv, NothingLost
  <2> DEFINE a == Len(Current)
             b == Len(round.kept \o Rest)
             d == Total(f, DOMAIN f)
             e == Total(g, DOMAIN g)
  <2>2. a \in Nat /\ b \in Nat /\ b + 1 = a /\ d \in Int /\ e = d + 1 /\ a + d = Len(original)
    BY <1>7, <1>10, <2>1
  <2>3. (Len(Current) + Total(culled_strides, DOMAIN culled_strides) = Len(original))' <=> b + e = Len(original)
    BY <1>1, <1>5 DEF Total
  <2> HIDE DEF a, b, d, e
  <2>4. b + e = Len(original)
    BY <2>2
  <2> QED  BY <2>3, <2>4 DEF NothingLost
<1> QED  BY <1>5, <1>11, <1>12, <1>13 DEF CullInv

\* The targets are met, and what was kept is the trace.
LEMMA EndSound ==
  ASSUME CullInv, EndCull
  PROVE  CullInv' /\ phase' \in {"culled", "IndexError"} /\ (phase' = "culled" => log_strides' # << >>)
<1>1. log_strides \in Seq(SoundStrides) /\ RoundOK(round, log_strides) /\ phase = "culling"
        /\ round.next = Len(log_strides) + 1
  BY DEF EndCull, CullInv, CullShape
<1>2. /\ round.culled = round.targets
      /\ \A k \in DOMAIN round.culled, l \in Keys(round.kept) : ~ KeyBelow(l, k)
  BY <1>1, RoundEnds
<1>3. /\ log_strides' = round.kept
      /\ phase' = IF round.kept = << >> THEN "IndexError" ELSE "culled"
      /\ UNCHANGED <<original, parameters, culled_strides, stride_delta, round>>
  BY <1>2 DEF EndCull
<1>4. round.kept \in Seq(SoundStrides)
  BY <1>1 DEF RoundOK
<1>5. Current = round.kept
  <2>1. SubSeq(log_strides, round.next, Len(log_strides)) = << >>
    <3> DEFINE n == round.next
    <3>1. n \in Int /\ Len(log_strides) \in Int /\ Len(log_strides) < n
      BY <1>1
    <3> HIDE DEF n
    <3> QED  BY <3>1, SubSeqEmpty DEF n
  <2>2. Current = round.kept \o << >>
    BY <1>1, <2>1 DEF Current
  <2> QED  BY <1>4, <2>2, ConcatEmptySeq
<1>6. Current' = Current
  BY <1>3, <1>5 DEF Current
<1>7. CullShape'
  BY <1>3, <1>4 DEF CullInv, CullShape
<1>8. DeltaIsLead' /\ NothingLost'
  BY <1>3, <1>6 DEF CullInv, DeltaIsLead, NothingLost, Bytes, Total
<1>9. SmallestFirst' /\ phase' # "assertion" /\ phase' # "culling"
  BY <1>2, <1>3 DEF SmallestFirst, Keys
<1> QED  BY <1>3, <1>7, <1>8, <1>9 DEF CullInv

\* Every stride keeps its sign and its magnitude: it is sound.
LEMMA CullInvariants ==
  ASSUME CullInv
  PROVE  StandsForOriginal /\ CullsEvenly
<1>1. Current \in Seq(SoundStrides)
  BY CurrentSound
<1>2. MagnitudeKept
  <2>1. \A i \in DOMAIN Current : Current[i] \in SoundStrides
    BY <1>1
  <2>2. \A s \in SoundStrides : s.is_infinitesimal \/ Key(LogStride(8 * s.linear_value)) = Key(s)
    BY LengthKeepsKey
  <2> HIDE DEF SoundStrides, Key, LogStride
  <2> QED  BY <2>1, <2>2 DEF MagnitudeKept
<1>3. SpreadEvenly
  <2> SUFFICES ASSUME phase = "culling", NEW k \in DOMAIN round.targets
               PROVE  round.culled[k] = Rounded(round.encountered[k], round.targets[k], round.counts[k])
    BY DEF SpreadEvenly
  <2> QED  BY DEF CullInv, RoundOK
<1> QED  BY <1>2, <1>3 DEF CullInv, StandsForOriginal, CullsEvenly

--------------------------------------------------------------------------------
(* Numbers *)

LEMMA RoundedInt ==
  ASSUME NEW n \in Int, NEW num \in Int, NEW den \in Nat \ {0}
  PROVE  Rounded(n, num, den) \in Int
<1> DEFINE a == 2 * n * num + den
           d == 2 * den
<1>1. a \in Int /\ d \in Nat \ {0} /\ Rounded(n, num, den) = a \div d
  BY DEF Rounded
<1> HIDE DEF a, d
<1> QED  BY <1>1, QuotientBounds

LEMMA LargerInt == \A x, y \in Int : Larger(x, y) \in Int /\ Smaller(x, y) \in Int
BY DEF Larger, Smaller

\* What the parameters ask to cull is a number.
LEMMA TotalAccesses ==
  ASSUME NEW strides \in Seq(SoundStrides), NEW p \in Inputs
  PROVE  array_total_accesses(strides, p) \in Int
<1> DEFINE n == Len(strides)
           a == Rounded(n, p.min_array_access_ratio, 100)
           b == array_small_accesses(strides, p.min_list_stride)
           d == Rounded(n, p.store_ratio, 100)
<1>1. n \in Nat /\ p.min_array_access_ratio \in Nat /\ p.store_ratio \in Nat
  BY InputsAssumption
<1>2. a \in Int /\ d \in Int
  <2>1. 100 \in Nat \ {0} /\ n \in Int /\ p.min_array_access_ratio \in Int /\ p.store_ratio \in Int
    BY <1>1
  <2> HIDE DEF n
  <2> QED  BY <2>1, RoundedInt DEF n
<1>3. b \in Int
  <2> DEFINE counts == abs_counts(strides)
             S == {k \in DOMAIN counts : k[1] \/ k[3] < p.min_list_stride}
  <2>1. DOMAIN counts = Keys(strides) /\ IsFiniteSet(Keys(strides))
          /\ \A k \in Keys(strides) : counts[k] \in Nat
    BY CountsOf
  <2>2. IsFiniteSet(S) /\ \A k \in S : counts[k] \in Int
    BY <2>1, FS_Subset
  <2>3. b = IF p.min_list_stride = NoMinimum THEN 0 ELSE Total(counts, S)
    BY DEF array_small_accesses
  <2> HIDE DEF S, counts, b
  <2>4. SumFunctionOnSet(counts, S) \in Int
    BY <2>2, SumInt
  <2> QED  BY <2>3, <2>4 DEF Total
<1>4. array_total_accesses(strides, p) = Larger(Larger(a, b), d)
  BY DEF array_total_accesses
<1> HIDE DEF a, b, d
<1> QED  BY <1>2, <1>3, <1>4, LargerInt

BoundedUpTo(f, k) == \E a, b \in Int : \A n \in 0 .. k : a <= f[n] /\ f[n] <= b

\* Of finitely many integers there is a least and a greatest.
LEMMA Extremes ==
  ASSUME NEW K \in Nat, NEW f, \A n \in 0 .. K : f[n] \in Int
  PROVE  LET S == {f[n] : n \in 0 .. K}
         IN  /\ Min(S) \in S /\ Min(S) \in Int /\ \A x \in S : Min(S) <= x
             /\ Max(S) \in S /\ Max(S) \in Int /\ \A x \in S : x <= Max(S)
<1>1. BoundedUpTo(f, K)
  <2> DEFINE T == {k \in 0 .. K : ~ BoundedUpTo(f, k)}
  <2> SUFFICES ASSUME T # {} PROVE FALSE
    <3>1. K \in 0 .. K
      OBVIOUS
    <3> QED  BY <3>1
  <2>1. PICK k \in T : \A j \in T : k <= j
    <3>1. T \subseteq Nat
      OBVIOUS
    <3> HIDE DEF T
    <3> QED  BY <3>1, LeastNatural
  <2>2. k \in 0 .. K /\ ~ BoundedUpTo(f, k)
    BY <2>1
  <2>3. k # 0
    <3>1. f[0] \in Int /\ \A n \in 0 .. 0 : n = 0
      OBVIOUS
    <3>2. \A n \in 0 .. 0 : f[0] <= f[n] /\ f[n] <= f[0]
      BY <3>1
    <3>3. BoundedUpTo(f, 0)
      BY <3>1, <3>2 DEF BoundedUpTo
    <3> QED  BY <2>2, <3>3
  <2>4. k - 1 \in 0 .. K /\ ~ (k <= k - 1)
    BY <2>2, <2>3
  <2>5. BoundedUpTo(f, k - 1)
    BY <2>1, <2>4
  <2>6. PICK a, b \in Int : \A n \in 0 .. k - 1 : a <= f[n] /\ f[n] <= b
    BY <2>5 DEF BoundedUpTo
  <2> DEFINE v == f[k]
             low == Smaller(a, v)
             high == Larger(b, v)
  <2>7. v \in Int
    BY <2>2
  <2>8. \A n \in 0 .. k : n \in 0 .. k - 1 \/ n = k
    BY <2>2
  <2>9. \A n \in 0 .. K : f[n] \in Int
    OBVIOUS
  <2> HIDE DEF v
  <2>10. low \in Int /\ high \in Int /\ low <= a /\ low <= v /\ b <= high /\ v <= high
    BY <2>7 DEF Smaller, Larger
  <2> HIDE DEF low, high
  <2>11. ASSUME NEW n \in 0 .. k PROVE low <= f[n] /\ f[n] <= high
    <3>1. CASE n = k
      BY <2>10, <3>1 DEF v
    <3>2. CASE n \in 0 .. k - 1
      <4>1. a <= f[n] /\ f[n] <= b /\ f[n] \in Int
        BY <2>2, <2>6, <2>9, <3>2
      <4> QED  BY <2>10, <4>1
    <3> QED  BY <2>8, <3>1, <3>2
  <2>12. BoundedUpTo(f, k)
    BY <2>10, <2>11 DEF BoundedUpTo
  <2> QED  BY <2>2, <2>12
<1>2. PICK a, b \in Int : \A n \in 0 .. K : a <= f[n] /\ f[n] <= b
  BY <1>1 DEF BoundedUpTo
<1> DEFINE A == {f[n] : n \in 0 .. K}
<1>3. A \subseteq Int /\ A # {} /\ \A x \in A : a <= x /\ x <= b
  <2>1. f[0] \in A
    OBVIOUS
  <2> QED  BY <1>2, <2>1
<1> HIDE DEF A
<1>4. (\E x \in A : \A y \in A : x <= y) /\ (\E x \in A : \A y \in A : y <= x)
  BY <1>2, <1>3, LeastInteger, GreatestInteger
<1>5. Min(A) \in A /\ \A x \in A : Min(A) <= x
  BY <1>4 DEF Min
<1>6. Max(A) \in A /\ \A x \in A : x <= Max(A)
  <2>1. \E x \in A : \A y \in A : x >= y
    BY <1>3, <1>4
  <2>2. Max(A) \in A /\ \A x \in A : Max(A) >= x
    BY <2>1 DEF Max
  <2> QED  BY <1>3, <2>2
<1> QED  BY <1>3, <1>5, <1>6 DEF A

\* A set of numbers has one least and one greatest.
LEMMA MinIs ==
  ASSUME NEW S, S \subseteq Int, NEW x \in S, \A y \in S : x <= y
  PROVE  Min(S) = x
<1>1. Min(S) \in S /\ \A y \in S : Min(S) <= y
  BY DEF Min
<1> DEFINE least == Min(S)
<1>2. least \in Int /\ least <= x /\ x <= least
  BY <1>1
<1> HIDE DEF least
<1>3. least = x
  BY <1>2
<1> QED  BY <1>3 DEF least

LEMMA MaxIs ==
  ASSUME NEW S, S \subseteq Int, NEW x \in S, \A y \in S : y <= x
  PROVE  Max(S) = x
<1>1. \E z \in S : \A y \in S : z >= y
  OBVIOUS
<1>2. Max(S) \in S /\ \A y \in S : Max(S) >= y
  BY <1>1 DEF Max
<1> DEFINE most == Max(S)
<1>3. most \in Int /\ most <= x /\ x <= most
  BY <1>2
<1> HIDE DEF most
<1>4. most = x
  BY <1>3
<1> QED  BY <1>4 DEF most

LEMMA CountNodes ==
  ASSUME NEW K \in Nat
  PROVE  Cardinality(0 .. K) = K + 1 /\ Cardinality(0 .. K) - 1 = K /\ IsFiniteSet(0 .. K)
<1>1. IsFiniteSet(0 .. K) /\ Cardinality(0 .. K) = IF 0 > K THEN 0 ELSE K - 0 + 1
  BY FS_Interval
<1> QED  BY <1>1

--------------------------------------------------------------------------------
(* The invariant *)

MakingPhases == {"raw", "culling", "culled", "listing", "IndexError"}
SearchPhases == {"node", "try", "take back"}
TrialPhases == {"try", "take back"}

\* The links between nodes, flattened or not.
Links == IF flattened THEN unflatten(t, m) ELSE t

ListShape ==
  /\ LastNode \in Nat /\ Nodes = 0 .. LastNode
  /\ SoundList(Links, m, LastNode)
  /\ flattened => t = flatten(Links, m)

\* A node for each of the strides met so far.
Following ==
  LastNode <= Len(log_strides) /\ \A n \in 1 .. LastNode : t.offset[n] = log_strides[n].linear_value

PassShape ==
  /\ pass \in [iteration : 0 .. MAX_ITERATIONS, threshold : 0 .. INITIAL_THRESHOLD,
               marginal : 0 .. MARGINAL_CUTOFF, never_marginal : BOOLEAN, aggressive : BOOLEAN,
               active : 0 .. LastNode + 1]
  /\ phase \in MakingPhases \cup {"made"} => pass.active = 0
  /\ phase \in MakingPhases \cup SearchPhases \cup {"made", "pass"} => pass.marginal < MARGINAL_CUTOFF

SearchShape ==
  /\ search \in [node : Nat, move : Nat, direction : {-1, 1}, best_stress : Int,
                 best_move : Nat, old_location : Int]
  /\ phase \in SearchPhases =>
       /\ pass.iteration < MAX_ITERATIONS
       /\ search.node <= LastNode + 1 /\ LastNode + 1 - search.node <= pass.active

\* What a move is judged by, and where the node is when it is tried at a distance.
JudgedBy(links, aggressive, moved, n) ==
  moved.global_stress - IF aggressive THEN moved.stress[links.next[n]] ELSE 0

Tried(links, list0, s, distance) ==
  move_or_swap(links, list0, s.node, list0.location[s.node] + distance * s.direction)

\* What is known of the node and of the best move so far: that is less than the
\* threshold worse than none.
BestMove(links, K, aggressive, threshold, list0, s) ==
  LET worst == JudgedBy(links, aggressive, list0, s.node) + threshold
  IN  /\ s.node \in 0 .. K
      /\ SoundList(links, list0, K)
      /\ s.best_stress <= worst
      /\ s.best_move # 0 => JudgedBy(links, aggressive, Tried(links, list0, s, s.best_move), s.node) < worst

Trial ==
  /\ BestMove(t, LastNode, pass.aggressive, pass.threshold, before, search)
  /\ phase = "try" => m = before
  /\ phase = "take back" =>
       m = Tried(t, before, search, search.move) /\ search.old_location = before.location[search.node]

ListInv ==
  /\ CullInv
  /\ ListShape
  /\ phase \in MakingPhases => SoundLayout(list, LastNode)
  /\ phase = "listing" => Following
  /\ PassShape
  /\ SearchShape
  /\ phase \in TrialPhases => Trial
  /\ phase \in {"optimized", "done"} => Lowest = 0
  /\ phase # "abort"

--------------------------------------------------------------------------------
(* Making the list *)

\* How a list of nodes 0 to K is known from the state.
LEMMA ShapeOf ==
  ASSUME NEW K \in Nat, SoundList(Links, m, K), flattened => t = flatten(Links, m)
  PROVE  ListShape /\ LastNode = K /\ Nodes = 0 .. K
<1>1. Nodes = 0 .. K
  BY DEF SoundList, Mapped, Nodes
<1>2. LastNode = K
  BY <1>1, CountNodes DEF LastNode
<1> QED  BY <1>1, <1>2 DEF ListShape

LEMMA ShapeOfNext ==
  ASSUME NEW K \in Nat, SoundList(Links', m', K), flattened' => t' = flatten(Links', m')
  PROVE  ListShape' /\ LastNode' = K /\ Nodes' = 0 .. K
<1>1. Nodes' = 0 .. K
  BY DEF SoundList, Mapped, Nodes
<1>2. LastNode' = K
  BY <1>1, CountNodes DEF LastNode
<1> QED  BY <1>1, <1>2 DEF ListShape, SoundList, Ring, Moves, Mapped, Exact, StressOf, TargetLocation, flatten

LEMMA ListInitInv == ListInit => ListInv
<1> SUFFICES ASSUME ListInit PROVE ListInv
  OBVIOUS
<1> USE LinkedListAssumption
<1>1. /\ Init /\ t = FirstNode.t /\ m = FirstNode.m /\ c = FirstNode.c
      /\ pass = [iteration |-> 0, threshold |-> INITIAL_THRESHOLD, marginal |-> 0,
                 never_marginal |-> TRUE, aggressive |-> FALSE, active |-> 0]
      /\ search = NoSearch
  BY DEF ListInit, MakeInit
<1>2. CullInv /\ phase = "raw"
  BY <1>1, CullInit DEF Init
<1>3. list = FirstNode
  BY <1>1 DEF list, FirstNode
<1>4. SoundLayout(list, 0) /\ list.t = t /\ list.m = m
  BY <1>3, FirstNodeSound DEF list
<1>5. Links = t /\ ~ flattened
  BY <1>2 DEF Links, flattened
<1>6. ListShape /\ LastNode = 0
  <2>1. SoundList(Links, m, 0)
    BY <1>4, <1>5 DEF SoundLayout
  <2> QED  BY <1>5, <2>1, ShapeOf
<1>7. PassShape
  BY <1>1, <1>2, <1>6 DEF PassShape, MakingPhases
<1>8. SearchShape
  BY <1>1, <1>2 DEF SearchShape, SearchPhases, TrialPhases, NoSearch
<1> QED  BY <1>2, <1>4, <1>6, <1>7, <1>8 DEF ListInv, TrialPhases

\* While the list is being made the optimizer has not begun.
LEMMA MakingStep ==
  ASSUME ListInv, phase \in MakingPhases, phase' \in MakingPhases \cup {"made"},
         UNCHANGED <<pass, search>>, ListShape'
  PROVE  PassShape' /\ SearchShape'
<1>1. /\ pass \in [iteration : 0 .. MAX_ITERATIONS, threshold : 0 .. INITIAL_THRESHOLD,
                   marginal : 0 .. MARGINAL_CUTOFF, never_marginal : BOOLEAN, aggressive : BOOLEAN,
                   active : 0 .. LastNode + 1]
      /\ pass.active = 0 /\ pass.marginal < MARGINAL_CUTOFF
  BY DEF ListInv, PassShape
<1>2. LastNode' \in Nat /\ LastNode \in Nat
  BY DEF ListInv, ListShape
<1>3. 0 \in 0 .. LastNode' + 1
  <2> DEFINE K == LastNode'
  <2>1. K \in Nat
    BY <1>2
  <2> HIDE DEF K
  <2>2. 0 \in 0 .. K + 1
    BY <2>1
  <2> QED  BY <2>2 DEF K
<1>4. pass' \in [iteration : 0 .. MAX_ITERATIONS, threshold : 0 .. INITIAL_THRESHOLD,
                 marginal : 0 .. MARGINAL_CUTOFF, never_marginal : BOOLEAN, aggressive : BOOLEAN,
                 active : 0 .. LastNode' + 1]
  BY <1>1, <1>3
<1>5. PassShape'
  BY <1>1, <1>4 DEF PassShape
<1>6. SearchShape'
  BY DEF ListInv, SearchShape, SearchPhases, TrialPhases, MakingPhases
<1> QED  BY <1>5, <1>6

\* Neither the list nor the optimizer's state, while it is being made.
LEMMA MakingFrame ==
  ASSUME ListInv, phase \in MakingPhases, phase' \in MakingPhases \ {"listing"}, CullInv',
         UNCHANGED <<t, m, c, pass, search>>
  PROVE  ListInv'
<1>1. ~ flattened /\ ~ flattened'
  BY DEF flattened, MakingPhases
<1>2. Links = t /\ Links' = t
  BY <1>1 DEF Links
<1>3. ListShape /\ SoundLayout(list, LastNode)
  BY DEF ListInv
<1>4. ListShape' /\ LastNode' = LastNode
  <2>1. LastNode \in Nat /\ SoundList(Links, m, LastNode)
    BY <1>3 DEF ListShape
  <2> DEFINE K == LastNode
  <2>2. K \in Nat /\ SoundList(Links', m', K)
    BY <1>2, <2>1
  <2> HIDE DEF K
  <2>3. ListShape' /\ LastNode' = K
    BY <1>1, <2>2, ShapeOfNext
  <2> QED  BY <2>3 DEF K
<1>5. PassShape' /\ SearchShape'
  BY <1>4, MakingStep
<1>6. list' = list
  BY DEF list
<1>7. SoundLayout(list, LastNode)'
  BY <1>3, <1>4, <1>6
<1>8. phase' \notin {"listing", "optimized", "done", "abort"} /\ phase' \notin TrialPhases
  BY DEF MakingPhases, TrialPhases
<1> QED  BY <1>4, <1>5, <1>7, <1>8 DEF ListInv

LEMMA CullStepSound ==
  ASSUME ListInv, Cull, UNCHANGED <<pass, search, before>>
  PROVE  ListInv'
<1>1. CullInv /\ UNCHANGED <<t, m, c>>
  BY DEF ListInv, Cull
<1>2. CASE CullByParameters
  <2>1. phase = "raw" /\ BeginCull(array_total_accesses(log_strides, parameters)) /\ phase' = "culling"
    BY <1>2 DEF CullByParameters, BeginCull
  <2>2. array_total_accesses(log_strides, parameters) \in Int
    BY <1>1, TotalAccesses DEF CullInv, CullShape
  <2>3. CullInv'
    BY <1>1, <2>1, <2>2, CullBegins
  <2> QED  BY <1>1, <2>1, <2>3, MakingFrame DEF MakingPhases
<1>3. CASE KeepStride
  <2>1. CullInv'
    BY <1>1, <1>3, KeepSound
  <2>2. phase = "culling" /\ phase' # "assertion"
    BY <1>3, <2>1 DEF KeepStride, CullInv
  <2>3. phase' = "culling"
    BY <1>3, <2>2 DEF KeepStride
  <2> QED  BY <1>1, <2>1, <2>2, <2>3, MakingFrame DEF MakingPhases
<1>4. CASE CullStride
  <2>1. CullInv'
    BY <1>1, <1>4, CullStrideSound
  <2>2. phase = "culling" /\ phase' = "culling"
    BY <1>4 DEF CullStride
  <2> QED  BY <1>1, <2>1, <2>2, MakingFrame DEF MakingPhases
<1>5. CASE EndCull
  <2>1. CullInv' /\ phase' \in {"culled", "IndexError"}
    BY <1>1, <1>5, EndSound
  <2>2. phase = "culling"
    BY <1>5 DEF EndCull
  <2> QED  BY <1>1, <2>1, <2>2, MakingFrame DEF MakingPhases
<1> QED  BY <1>2, <1>3, <1>4, <1>5 DEF Cull, CullNext

\* A sound layout in the phase in which nodes are added.
LEMMA ListingNext ==
  ASSUME ListInv, phase \in MakingPhases, phase' = "listing", CullInv', UNCHANGED <<pass, search>>,
         NEW K \in Nat, SoundLayout(list', K), (LastNode' = K => Following')
  PROVE  ListInv'
<1>1. ~ flattened' /\ Links' = t' /\ list'.t = t' /\ list'.m = m'
  BY DEF flattened, Links, list
<1>2. SoundList(Links', m', K)
  BY <1>1 DEF SoundLayout
<1>3. ListShape' /\ LastNode' = K
  BY <1>1, <1>2, ShapeOfNext
<1>4. PassShape' /\ SearchShape'
  BY <1>3, MakingStep DEF MakingPhases
<1>5. SoundLayout(list, LastNode)'
  BY <1>3
<1> QED  BY <1>3, <1>4, <1>5 DEF ListInv, TrialPhases

LEMMA NewListSound ==
  ASSUME ListInv, NewList, UNCHANGED <<pass, search, before>>
  PROVE  ListInv'
<1>1. /\ phase = "culled" /\ phase' = "listing"
      /\ t' = FirstNode.t /\ m' = FirstNode.m /\ c' = FirstNode.c
      /\ UNCHANGED <<original, parameters, log_strides, culled_strides, stride_delta, round>>
  BY DEF NewList
<1>2. CullInv'
  BY <1>1, CullFrame DEF ListInv
<1>3. list' = FirstNode
  BY <1>1 DEF list, FirstNode
<1>4. SoundLayout(list', 0)
  BY <1>3, FirstNodeSound
<1>5. LastNode' = 0 => Following'
  <2>1. Len(log_strides') \in Nat
    BY <1>2 DEF CullInv, CullShape
  <2> QED  BY <2>1 DEF Following
<1> QED  BY <1>1, <1>2, <1>4, <1>5, ListingNext DEF MakingPhases

\* The location is free, and the node follows its stride.
LEMMA AddNodeSound ==
  ASSUME ListInv, AddNode, UNCHANGED <<pass, search, before>>
  PROVE  ListInv'
<1> DEFINE K == LastNode
           offset == log_strides[K + 1].linear_value
           longer == WithNode(list, offset)
<1>1. /\ phase = "listing" /\ K + 1 \in DOMAIN log_strides
      /\ UNCHANGED <<original, parameters, log_strides, culled_strides, stride_delta, round>>
      /\ IF NewLocation(list, offset) \in DOMAIN m.at
         THEN phase' = "assertion" /\ UNCHANGED <<t, m, c>>
         ELSE t' = longer.t /\ m' = longer.m /\ c' = longer.c /\ phase' = phase
  BY DEF AddNode
<1>2. /\ CullInv /\ K \in Nat /\ SoundLayout(list, K) /\ Following
      /\ list.m = m /\ list.t = t
  BY <1>1 DEF ListInv, ListShape, MakingPhases, list
<1>3. log_strides \in Seq(SoundStrides)
  BY <1>2 DEF CullInv, CullShape
<1>4. offset \in Int
  <2>1. log_strides[K + 1] \in SoundStrides
    BY <1>1, <1>3
  <2> QED  BY <2>1 DEF SoundStrides, Strides
<1> HIDE DEF offset, K, longer
<1>5. /\ SoundLayout(longer, K + 1) /\ LongerBy(list, longer, offset, K)
      /\ NewLocation(list, offset) \notin DOMAIN m.at
  BY <1>2, <1>4, WithNodeSound DEF longer
<1>6. t' = longer.t /\ m' = longer.m /\ c' = longer.c /\ phase' = "listing"
  BY <1>1, <1>5
<1>7. CullInv'
  BY <1>1, <1>2, <1>6, CullFrame
<1>8. list' = longer
  <2>1. longer = [t |-> longer.t, m |-> longer.m, c |-> longer.c]
    BY DEF longer, WithNode
  <2> QED  BY <1>6, <2>1 DEF list
<1>9. K + 1 \in 1 .. Len(log_strides) /\ Len(log_strides) \in Nat
  BY <1>1, <1>3
<1>10. LastNode' = K + 1 => Following'
  <2> SUFFICES ASSUME LastNode' = K + 1 PROVE Following'
    OBVIOUS
  <2>1. log_strides' = log_strides
    BY <1>1
  <2>2. ASSUME NEW n \in 1 .. K + 1 PROVE t'.offset[n] = log_strides[n].linear_value
    <3>1. CASE n = K + 1
      BY <1>5, <1>6, <3>1 DEF LongerBy, offset
    <3>2. CASE n # K + 1
      <4>1. n \in 1 .. K /\ n \in 0 .. K
        BY <1>2, <3>2
      <4>2. t.offset[n] = log_strides[n].linear_value
        BY <1>2, <4>1 DEF Following, K
      <4> QED  BY <1>2, <1>5, <1>6, <4>1, <4>2 DEF LongerBy
    <3> QED  BY <3>1, <3>2
  <2>3. LastNode' <= Len(log_strides')
    BY <1>2, <1>9, <2>1
  <2> QED  BY <2>1, <2>2, <2>3 DEF Following
<1>11. K + 1 \in Nat /\ SoundLayout(list', K + 1)
  BY <1>2, <1>5, <1>8
<1> QED  BY <1>1, <1>6, <1>7, <1>10, <1>11, ListingNext DEF MakingPhases

LEMMA AcceptSound ==
  ASSUME ListInv, Accept, UNCHANGED <<pass, search, before>>
  PROVE  ListInv'
<1> DEFINE K == LastNode
<1>1. /\ phase = "listing" /\ phase' = "made" /\ t' = flatten(t, m) /\ m' = m
      /\ UNCHANGED <<original, parameters, log_strides, culled_strides, stride_delta, round>>
  BY DEF Accept
<1>2. ~ flattened /\ flattened' /\ Links = t /\ Links' = unflatten(t', m')
  BY <1>1 DEF flattened, Links
<1>3. K \in Nat /\ SoundList(t, m, K)
  BY <1>2 DEF ListInv, ListShape
<1> HIDE DEF K
<1>4. Links' = t
  BY <1>1, <1>2, <1>3, FlattenBack DEF SoundList
<1>5. ListShape'
  BY <1>1, <1>3, <1>4, ShapeOfNext
<1>6. PassShape' /\ SearchShape'
  BY <1>1, <1>5, MakingStep DEF MakingPhases
<1>7. CullInv'
  BY <1>1, CullFrame DEF ListInv
<1> QED  BY <1>1, <1>5, <1>6, <1>7 DEF ListInv, MakingPhases, TrialPhases

\* How many strides to prune is a number, for the extent of a list is positive.
LEMMA PrunedInt ==
  ASSUME ListInv, phase = "listing"
  PROVE  Pruned \in Int
<1> DEFINE K == LastNode
           n == Len(log_strides)
           spread == Larger(achieved_footprint - 4 * ideal_footprint, 0)
<1>1. /\ K \in Nat /\ Nodes = 0 .. K /\ SoundLayout(list, K) /\ list.m = m /\ list.t = t /\ list.c = c
      /\ log_strides \in Seq(SoundStrides)
  BY DEF ListInv, ListShape, MakingPhases, list, CullInv, CullShape
<1>2. n \in Nat
  BY <1>1
<1>3. /\ c.min_location \in Int /\ c.max_location \in Int
      /\ \A k \in 0 .. K : c.min_location <= m.location[k] /\ m.location[k] <= c.max_location
  BY <1>1 DEF SoundLayout, Extent
<1> HIDE DEF K, n
<1>4. m.location \in [0 .. K -> Int] /\ t.offset \in [0 .. K -> Int]
  BY <1>1 DEF SoundLayout, SoundList, Mapped, Ring
<1>5. achieved_footprint \in Nat \ {0}
  <2>1. c.min_location <= c.max_location
    <3>1. 0 \in 0 .. K
      BY <1>1
    <3>2. m.location[0] \in Int /\ c.min_location <= m.location[0] /\ m.location[0] <= c.max_location
      BY <1>3, <1>4, <3>1
    <3> QED  BY <1>3, <3>2
  <2> QED  BY <1>3, <2>1 DEF achieved_footprint
<1>6. ideal_footprint \in Int
  <2> DEFINE f == IdealLocations
  <2>1. \A i \in 0 .. K : f[i] \in Int
    <3> SUFFICES ASSUME NEW i \in 0 .. K PROVE f[i] \in Int
      OBVIOUS
    <3>1. f[i] = m.location[0] + SumFunctionOnSet(t.offset, 1 .. i)
      BY <1>1 DEF IdealLocations
    <3>2. m.location[0] \in Int
      BY <1>1, <1>4
    <3>3. IsFiniteSet(1 .. i) /\ \A x \in 1 .. i : t.offset[x] \in Int
      <4>1. \A x \in 1 .. i : x \in 0 .. K
        BY <1>1
      <4>2. i \in Int /\ 1 \in Int
        BY <1>1
      <4> QED  BY <1>4, <4>1, <4>2, FS_Interval
    <3> HIDE DEF f
    <3>4. SumFunctionOnSet(t.offset, 1 .. i) \in Int
      BY <3>3, SumInt
    <3> QED  BY <3>1, <3>2, <3>4
  <2>2. ideal_footprint = Max({f[i] : i \in 0 .. K}) + 1 - Min({f[i] : i \in 0 .. K})
    BY <1>1 DEF ideal_footprint
  <2> HIDE DEF f
  <2>3. Min({f[i] : i \in 0 .. K}) \in Int /\ Max({f[i] : i \in 0 .. K}) \in Int
    BY <1>1, <2>1, Extremes
  <2> QED  BY <2>2, <2>3
<1>7. spread \in Int
  BY <1>5, <1>6, LargerInt
<1> HIDE DEF spread
<1>8. Rounded(n, 1, 10) \in Int
  <2>1. 1 \in Int /\ 10 \in Nat \ {0} /\ n \in Int
    BY <1>2
  <2> QED  BY <2>1, RoundedInt
<1>9. Rounded(n, spread, achieved_footprint) \in Int
  <2>1. n \in Int
    BY <1>2
  <2> QED  BY <1>5, <1>7, <2>1, RoundedInt
<1> QED  BY <1>8, <1>9, LargerInt DEF Pruned, spread, n

LEMMA PruneSound ==
  ASSUME ListInv, Prune, UNCHANGED <<pass, search, before>>
  PROVE  ListInv'
<1>1. phase = "listing" /\ BeginCull(Pruned) /\ phase' = "culling" /\ UNCHANGED <<t, m, c>>
  BY DEF Prune, BeginCull
<1>2. CullInv'
  BY <1>1, PrunedInt, CullBegins DEF ListInv
<1> QED  BY <1>1, <1>2, MakingFrame DEF MakingPhases

LEMMA MakeListSound ==
  ASSUME ListInv, MakeList
  PROVE  ListInv'
BY CullStepSound, NewListSound, AddNodeSound, AcceptSound, PruneSound DEF MakeList, Make

--------------------------------------------------------------------------------
(* The optimizer's steps *)

\* A list that is moved about, its nodes linked to nodes.
LEMMA ListMoves ==
  ASSUME ListInv, ~ flattened, ~ flattened', t' = t, SoundList(t, m', LastNode)
  PROVE  ListShape' /\ LastNode' = LastNode /\ Nodes' = Nodes
<1> DEFINE K == LastNode
<1>1. K \in Nat /\ Nodes = 0 .. K
  BY DEF ListInv, ListShape
<1>2. Links' = t
  BY DEF Links
<1>3. SoundList(Links', m', K)
  BY <1>2
<1> HIDE DEF K
<1>4. ListShape' /\ LastNode' = K /\ Nodes' = 0 .. K
  BY <1>1, <1>3, ShapeOfNext
<1> QED  BY <1>1, <1>4 DEF K

\* Nothing of the list but its phase.
LEMMA ListStays ==
  ASSUME ListInv, ~ flattened, ~ flattened', UNCHANGED <<t, m>>
  PROVE  ListShape' /\ LastNode' = LastNode /\ Nodes' = Nodes
<1>1. SoundList(t, m, LastNode)
  BY DEF ListInv, ListShape, Links
<1> QED  BY <1>1, ListMoves

LEMMA JudgedInt ==
  ASSUME NEW K \in Nat, NEW links, NEW x, SoundList(links, x, K), NEW n \in 0 .. K, NEW aggressive \in BOOLEAN
  PROVE  JudgedBy(links, aggressive, x, n) \in Int
<1>1. x.stress \in [0 .. K -> Int] /\ x.global_stress = SumFunction(x.stress) /\ links.next[n] \in 0 .. K
  BY RingLinks DEF SoundList, Exact
<1>2. x.global_stress \in Int
  <2>1. IsFiniteSet(0 .. K) /\ DOMAIN x.stress = 0 .. K /\ \A i \in 0 .. K : x.stress[i] \in Int
    BY <1>1, CountNodes
  <2> QED  BY <1>1, <2>1, SumInt DEF SumFunction
<1>3. CASE aggressive = TRUE
  BY <1>1, <1>2, <1>3 DEF JudgedBy
<1>4. CASE aggressive = FALSE
  BY <1>1, <1>2, <1>4 DEF JudgedBy
<1> QED  BY <1>3, <1>4

LEMMA TraceFrame ==
  ASSUME ListInv, phase \notin MakingPhases, phase' \notin MakingPhases \cup {"assertion"},
         UNCHANGED trace_vars
  PROVE  CullInv'
BY CullFrame DEF ListInv, trace_vars, MakingPhases

LEMMA BeginOptimizeSound ==
  ASSUME ListInv, BeginOptimize
  PROVE  ListInv'
<1> DEFINE K == LastNode
<1>1. phase = "made" /\ phase' = "pass" /\ t' = unflatten(t, m)
        /\ UNCHANGED <<trace_vars, m, c, pass, search, before>>
  BY DEF BeginOptimize
<1>2. CullInv'
  BY <1>1, TraceFrame DEF MakingPhases
<1>3. Links = unflatten(t, m) /\ Links' = t' /\ ~ flattened'
  BY <1>1 DEF Links, flattened
<1>4. K \in Nat /\ SoundList(Links', m', K)
  BY <1>1, <1>3 DEF ListInv, ListShape
<1> HIDE DEF K
<1>5. ListShape' /\ LastNode' = K
  BY <1>3, <1>4, ShapeOfNext
<1>6. PassShape' /\ SearchShape'
  BY <1>1, <1>5 DEF ListInv, PassShape, SearchShape, SearchPhases, TrialPhases, MakingPhases, K
<1> QED  BY <1>1, <1>2, <1>5, <1>6 DEF ListInv, MakingPhases, TrialPhases

LEMMA BeginPassSound ==
  ASSUME ListInv, BeginPass
  PROVE  ListInv'
<1> USE LinkedListAssumption
<1> DEFINE K == LastNode
<1>1. /\ phase = "pass" /\ phase' = "node" /\ pass.iteration < MAX_ITERATIONS
      /\ pass' = [pass EXCEPT !.aggressive = IsAggressive, !.active = Cardinality(Nodes)]
      /\ search' = NoSearch /\ UNCHANGED <<trace_vars, t, m, c, before>>
  BY DEF BeginPass
<1>2. CullInv'
  BY <1>1, TraceFrame DEF MakingPhases
<1>3. ListShape' /\ LastNode' = K
  BY <1>1, ListStays DEF flattened
<1>4. K \in Nat /\ Cardinality(Nodes) = K + 1
  BY CountNodes DEF ListInv, ListShape
<1>5. /\ pass \in [iteration : 0 .. MAX_ITERATIONS, threshold : 0 .. INITIAL_THRESHOLD,
                   marginal : 0 .. MARGINAL_CUTOFF, never_marginal : BOOLEAN, aggressive : BOOLEAN,
                   active : 0 .. K + 1]
      /\ pass.marginal < MARGINAL_CUTOFF
  BY <1>1 DEF ListInv, PassShape
<1>6. IsAggressive \in BOOLEAN
  <2>1. pass.never_marginal \in BOOLEAN
    BY <1>5
  <2> QED  BY <2>1 DEF IsAggressive
<1> HIDE DEF K
<1>7. /\ pass' \in [iteration : 0 .. MAX_ITERATIONS, threshold : 0 .. INITIAL_THRESHOLD,
                    marginal : 0 .. MARGINAL_CUTOFF, never_marginal : BOOLEAN, aggressive : BOOLEAN,
                    active : 0 .. K + 1]
      /\ pass'.marginal = pass.marginal /\ pass'.active = K + 1 /\ pass'.iteration = pass.iteration
  <2>1. K + 1 \in 0 .. K + 1
    BY <1>4
  <2> HIDE DEF IsAggressive
  <2> QED  BY <1>1, <1>4, <1>5, <1>6, <2>1
<1>8. PassShape'
  BY <1>1, <1>3, <1>5, <1>7 DEF PassShape, MakingPhases
<1>9. SearchShape'
  <2>1. search'.node = 0 /\ search' \in [node : Nat, move : Nat, direction : {-1, 1}, best_stress : Int,
                                         best_move : Nat, old_location : Int]
    BY <1>1 DEF NoSearch
  <2>2. 0 <= LastNode' + 1 /\ LastNode' + 1 - 0 <= pass'.active
    BY <1>3, <1>4, <1>7
  <2> QED  BY <1>1, <1>7, <2>1, <2>2 DEF SearchShape
<1> QED  BY <1>1, <1>2, <1>3, <1>8, <1>9 DEF ListInv, MakingPhases, TrialPhases

SearchRecords ==
  [node : Nat, move : Nat, direction : {-1, 1}, best_stress : Int, best_move : Nat, old_location : Int]

PassRecords(K) ==
  [iteration : 0 .. MAX_ITERATIONS, threshold : 0 .. INITIAL_THRESHOLD, marginal : 0 .. MARGINAL_CUTOFF,
   never_marginal : BOOLEAN, aggressive : BOOLEAN, active : 0 .. K + 1]

\* During the search the links are nodes.
LEMMA SearchFacts ==
  ASSUME ListInv, phase \in SearchPhases
  PROVE  /\ LastNode \in Nat /\ Nodes = 0 .. LastNode /\ SoundList(t, m, LastNode)
         /\ search \in SearchRecords /\ search.node <= LastNode + 1
         /\ LastNode + 1 - search.node <= pass.active
         /\ pass \in PassRecords(LastNode) /\ pass.marginal < MARGINAL_CUTOFF
         /\ pass.iteration < MAX_ITERATIONS
         /\ m.location \in [0 .. LastNode -> Int]
<1>1. ~ flattened
  BY DEF flattened, SearchPhases, TrialPhases
<1>2. LastNode \in Nat /\ Nodes = 0 .. LastNode /\ SoundList(t, m, LastNode)
  BY <1>1 DEF ListInv, ListShape, Links
<1>3. m.location \in [0 .. LastNode -> Int]
  BY <1>2 DEF SoundList, Mapped
<1> QED  BY <1>2, <1>3 DEF ListInv, SearchShape, PassShape, SearchRecords, PassRecords

LEMMA SearchStep ==
  ASSUME ListInv, phase \in SearchPhases, phase' \in SearchPhases, t' = t, UNCHANGED trace_vars,
         SoundList(t, m', LastNode),
         LastNode' = LastNode /\ Nodes' = Nodes =>
           PassShape' /\ SearchShape' /\ (phase' \in TrialPhases => Trial')
  PROVE  ListInv'
<1>1. ~ flattened /\ ~ flattened'
  BY DEF flattened, SearchPhases, TrialPhases
<1>2. ListShape' /\ LastNode' = LastNode /\ Nodes' = Nodes
  BY <1>1, ListMoves
<1>3. CullInv'
  BY TraceFrame DEF SearchPhases, TrialPhases, MakingPhases
<1> QED  BY <1>2, <1>3 DEF ListInv, SearchPhases, TrialPhases, MakingPhases

LEMMA PassStays ==
  ASSUME ListInv, phase \in SearchPhases, phase' \in SearchPhases, pass' = pass, LastNode' = LastNode
  PROVE  PassShape'
BY DEF ListInv, PassShape, SearchPhases, TrialPhases, MakingPhases

LEMMA SkipSound ==
  ASSUME ListInv, Skip
  PROVE  ListInv'
<1> DEFINE K == LastNode
<1>1. /\ phase = "node" /\ phase' = "node" /\ search.node \in Nodes
      /\ pass' = [pass EXCEPT !.active = @ - 1]
      /\ search' = [search EXCEPT !.node = @ + 1]
      /\ UNCHANGED <<trace_vars, t, m, c, before>>
  BY DEF Skip
<1>2. /\ K \in Nat /\ Nodes = 0 .. K /\ SoundList(t, m, K) /\ search \in SearchRecords
      /\ K + 1 - search.node <= pass.active /\ pass \in PassRecords(K)
      /\ pass.marginal < MARGINAL_CUTOFF /\ pass.iteration < MAX_ITERATIONS
  BY <1>1, SearchFacts DEF SearchPhases, TrialPhases
<1> HIDE DEF K
<1>3. pass.active \in 0 .. K + 1 /\ search.node \in 0 .. K
  BY <1>1, <1>2 DEF PassRecords
<1>4. /\ pass' \in PassRecords(K) /\ pass'.active = pass.active - 1 /\ pass'.marginal = pass.marginal
      /\ pass'.iteration = pass.iteration
  <2>1. pass.active - 1 \in 0 .. K + 1
    BY <1>2, <1>3
  <2> QED  BY <1>1, <1>2, <2>1 DEF PassRecords
<1>5. search' \in SearchRecords /\ search'.node = search.node + 1
  <2> DEFINE j == search.node + 1
  <2>1. j \in Nat /\ search' = [search EXCEPT !.node = j]
    BY <1>1, <1>3
  <2> HIDE DEF j
  <2>2. search' \in SearchRecords /\ search'.node = j
    BY <1>2, <2>1 DEF SearchRecords
  <2> QED  BY <2>2 DEF j
<1>6. search'.node <= K + 1 /\ K + 1 - search'.node <= pass'.active
  BY <1>2, <1>3, <1>4, <1>5
<1>7. LastNode' = K => PassShape' /\ SearchShape'
  BY <1>1, <1>2, <1>4, <1>5, <1>6
       DEF PassShape, SearchShape, PassRecords, SearchRecords, SearchPhases, TrialPhases, MakingPhases
<1> QED  BY <1>1, <1>2, <1>7, SearchStep DEF SearchPhases, TrialPhases, K

LEMMA ConsiderSound ==
  ASSUME ListInv, Consider
  PROVE  ListInv'
<1> DEFINE K == LastNode
           n == search.node
           ideal_move == TargetLocation(t, m, n) - m.location[n]
           direction == IF ideal_move > 0 THEN 1 ELSE -1
           worst == JudgedBy(t, pass.aggressive, m, n) + pass.threshold
<1>1. /\ phase = "node" /\ phase' = "try" /\ n \in Nodes
      /\ search' = [search EXCEPT !.move = Abs(ideal_move), !.direction = direction,
                                  !.best_stress = worst, !.best_move = 0]
      /\ before' = m /\ UNCHANGED <<trace_vars, t, m, c, pass>>
  BY DEF Consider, Judged, JudgedBy
<1>2. /\ K \in Nat /\ Nodes = 0 .. K /\ SoundList(t, m, K) /\ search \in SearchRecords
      /\ K + 1 - n <= pass.active /\ pass \in PassRecords(K) /\ n <= K + 1
      /\ m.location \in [0 .. K -> Int] /\ pass.iteration < MAX_ITERATIONS
  BY <1>1, SearchFacts DEF SearchPhases, TrialPhases
<1> HIDE DEF K
<1>3. n \in 0 .. K /\ pass.threshold \in Int /\ pass.aggressive \in BOOLEAN
  BY <1>1, <1>2, LinkedListAssumption DEF PassRecords
<1>4. Abs(ideal_move) \in Nat
  <2>1. TargetLocation(t, m, n) \in Int /\ m.location[n] \in Int
    BY <1>2, <1>3, StressInt DEF SoundList
  <2>2. ideal_move \in Int
    BY <2>1
  <2> HIDE DEF ideal_move
  <2> QED  BY <2>2, AbsNat
<1>5. worst \in Int
  <2>1. JudgedBy(t, pass.aggressive, m, n) \in Int
    BY <1>2, <1>3, JudgedInt
  <2> QED  BY <1>3, <2>1
<1>6. direction \in {-1, 1}
  OBVIOUS
<1> HIDE DEF ideal_move, direction, worst
<1>7. search' \in SearchRecords /\ search'.node = n /\ search'.best_stress = worst /\ search'.best_move = 0
  BY <1>1, <1>2, <1>4, <1>5, <1>6 DEF SearchRecords
<1>8. SearchShape' \/ LastNode' # K
  BY <1>1, <1>2, <1>7 DEF SearchShape, SearchRecords
<1>9. Trial' \/ LastNode' # K
  <2>1. BestMove(t, K, pass.aggressive, pass.threshold, m, search')
    <3>1. worst <= worst
      BY <1>5
    <3> QED  BY <1>2, <1>3, <1>7, <3>1 DEF BestMove, worst
  <2> QED  BY <1>1, <2>1 DEF Trial
<1> QED  BY <1>1, <1>2, <1>8, <1>9, PassStays, SearchStep DEF SearchPhases, TrialPhases, K

\* Both try and take back move the node of the list there was before.
LEMMA TrialFacts ==
  ASSUME ListInv, phase \in TrialPhases, NEW k \in Nat
  PROVE  /\ Trial
         /\ before.location \in [0 .. LastNode -> Int] /\ search.node \in 0 .. LastNode
         /\ SoundList(t, before, LastNode) /\ LastNode \in Nat
         /\ before.location[search.node] + k * search.direction \in Int
         /\ SoundList(t, Tried(t, before, search, k), LastNode)
         /\ JudgedBy(t, pass.aggressive, Tried(t, before, search, k), search.node) \in Int
         /\ JudgedBy(t, pass.aggressive, before, search.node) + pass.threshold \in Int
         /\ search.best_stress \in Int
<1> DEFINE K == LastNode
           n == search.node
           d == search.direction
           loc == before.location[n] + k * d
<1>1. K \in Nat /\ Nodes = 0 .. K /\ search \in SearchRecords /\ pass \in PassRecords(K)
  BY SearchFacts DEF SearchPhases, TrialPhases
<1>2. Trial /\ n \in 0 .. K /\ SoundList(t, before, K)
  BY DEF ListInv, Trial, BestMove, TrialPhases
<1> HIDE DEF K
<1>3. before.location \in [0 .. K -> Int]
  BY <1>2 DEF SoundList, Mapped
<1>4. d \in {-1, 1} /\ search.best_stress \in Int /\ pass.threshold \in Int /\ pass.aggressive \in BOOLEAN
  <2>1. d \in {-1, 1} /\ search.best_stress \in Int
    BY <1>1 DEF SearchRecords
  <2>2. pass.threshold \in 0 .. INITIAL_THRESHOLD /\ pass.aggressive \in BOOLEAN
    BY <1>1 DEF PassRecords
  <2> QED  BY <2>1, <2>2, LinkedListAssumption
<1>5. loc \in Int
  <2>1. before.location[n] \in Int
    BY <1>2, <1>3
  <2> HIDE DEF d
  <2>2. k * d \in Int
    BY <1>4
  <2> QED  BY <2>1, <2>2
<1>6. Tried(t, before, search, k) = move_or_swap(t, before, n, loc)
  BY DEF Tried
<1> HIDE DEF loc, n
<1>7. SoundList(t, Tried(t, before, search, k), K)
  BY <1>1, <1>2, <1>5, <1>6, MoveSound
<1>8. /\ JudgedBy(t, pass.aggressive, Tried(t, before, search, k), n) \in Int
      /\ JudgedBy(t, pass.aggressive, before, n) \in Int
  BY <1>1, <1>2, <1>4, <1>7, JudgedInt
<1>9. JudgedBy(t, pass.aggressive, before, n) + pass.threshold \in Int
  <2> DEFINE a == JudgedBy(t, pass.aggressive, before, n)
             b == pass.threshold
  <2>1. a \in Int /\ b \in Int
    BY <1>4, <1>8
  <2> HIDE DEF a, b
  <2>2. a + b \in Int
    BY <2>1
  <2> QED  BY <2>2 DEF a, b
<1> QED  BY <1>1, <1>2, <1>3, <1>4, <1>5, <1>7, <1>8, <1>9 DEF K, n, loc

LEMMA TrySound ==
  ASSUME ListInv, Try
  PROVE  ListInv'
<1> DEFINE K == LastNode
           n == search.node
           old == m.location[n]
<1>1. /\ phase = "try" /\ phase' = "take back" /\ search.move > 0
      /\ m' = move_or_swap(t, m, n, m.location[n] + search.move * search.direction)
      /\ search' = [search EXCEPT !.old_location = old]
      /\ UNCHANGED <<trace_vars, t, c, pass, before>>
  BY DEF Try
<1> HIDE DEF old
<1>2. /\ Nodes = 0 .. K /\ search \in SearchRecords /\ n <= K + 1
      /\ K + 1 - n <= pass.active /\ pass.iteration < MAX_ITERATIONS
  BY <1>1, SearchFacts DEF SearchPhases, TrialPhases
<1>3. search.move \in Nat
  BY <1>2 DEF SearchRecords
<1>4. /\ Trial /\ m = before /\ before.location \in [0 .. K -> Int] /\ n \in 0 .. K
      /\ SoundList(t, Tried(t, before, search, search.move), K)
  BY <1>1, <1>3, TrialFacts DEF Trial, TrialPhases
<1>5. m' = Tried(t, before, search, search.move)
  BY <1>1, <1>4 DEF Tried
<1> HIDE DEF K
<1>6. /\ search' \in SearchRecords /\ search'.node = n /\ search'.move = search.move
      /\ search'.direction = search.direction /\ search'.old_location = old
      /\ search'.best_stress = search.best_stress /\ search'.best_move = search.best_move
  <2>1. old \in Int
    BY <1>4 DEF old
  <2> QED  BY <1>1, <1>2, <2>1 DEF SearchRecords
<1>7. LastNode' = K => SearchShape'
  BY <1>1, <1>2, <1>6 DEF SearchShape, SearchRecords
<1>8. LastNode' = K => Trial'
  <2>1. BestMove(t, K, pass.aggressive, pass.threshold, before, search')
    BY <1>4, <1>6 DEF Trial, BestMove, Tried, K
  <2>2. m' = Tried(t, before, search', search'.move)
    BY <1>5, <1>6 DEF Tried
  <2>3. search'.old_location = before.location[search'.node]
    BY <1>4, <1>6 DEF old
  <2> QED  BY <1>1, <2>1, <2>2, <2>3 DEF Trial
<1> QED  BY <1>1, <1>4, <1>5, <1>7, <1>8, PassStays, SearchStep DEF SearchPhases, TrialPhases, K

\* The list is what it was before the trial.
LEMMA TakeBackSound ==
  ASSUME ListInv, TakeBack
  PROVE  ListInv'
<1> DEFINE K == LastNode
           n == search.node
           old == search.old_location
           judged == JudgedBy(t, pass.aggressive, m, n)
           worst == JudgedBy(t, pass.aggressive, before, n) + pass.threshold
           half == search.move \div 2
           best_stress == Smaller(search.best_stress, judged)
           best_move == IF judged < search.best_stress THEN search.move ELSE search.best_move
<1>1. /\ phase = "take back" /\ phase' = "try"
      /\ m' = move_or_swap(t, m, n, old)
      /\ search' = [search EXCEPT !.move = half, !.best_stress = best_stress, !.best_move = best_move]
      /\ UNCHANGED <<trace_vars, t, c, pass, before>>
  BY DEF TakeBack, Judged, JudgedBy
<1>2. /\ Nodes = 0 .. K /\ search \in SearchRecords /\ n <= K + 1
      /\ K + 1 - n <= pass.active /\ pass.iteration < MAX_ITERATIONS
  BY <1>1, SearchFacts DEF SearchPhases, TrialPhases
<1>3. search.move \in Nat /\ search.best_move \in Nat
  BY <1>2 DEF SearchRecords
<1>4. /\ Trial /\ m = Tried(t, before, search, search.move) /\ old = before.location[n] /\ n \in 0 .. K
      /\ SoundList(t, before, K) /\ K \in Nat
      /\ before.location[n] + search.move * search.direction \in Int
      /\ judged \in Int /\ worst \in Int /\ search.best_stress \in Int
  BY <1>1, <1>3, TrialFacts DEF Trial, TrialPhases
<1>5. m' = before
  <2> DEFINE loc == before.location[n] + search.move * search.direction
  <2>1. m = move_or_swap(t, before, n, loc) /\ loc \in Int
    BY <1>4 DEF Tried
  <2> HIDE DEF loc, n, K
  <2>2. move_or_swap(t, move_or_swap(t, before, n, loc), n, before.location[n]) = before
    BY <1>4, <2>1, MoveBack
  <2> QED  BY <1>1, <1>4, <2>1, <2>2
<1>6. half \in Nat /\ best_stress \in Int /\ best_move \in Nat
  <2>1. half \in Nat
    BY <1>3
  <2>2. best_stress \in Int
    BY <1>4, LargerInt
  <2> QED  BY <1>3, <2>1, <2>2
<1>7. best_stress <= worst
      /\ (best_move # 0 => JudgedBy(t, pass.aggressive, Tried(t, before, search, best_move), n) < worst)
  <2>1. /\ search.best_stress <= worst
        /\ search.best_move # 0 =>
             JudgedBy(t, pass.aggressive, Tried(t, before, search, search.best_move), n) < worst
    BY <1>4 DEF Trial, BestMove
  <2>2. best_stress <= search.best_stress
    <3> HIDE DEF judged
    <3> QED  BY <1>4 DEF Smaller
  <2>3. best_stress <= worst
    <3> HIDE DEF best_stress, worst
    <3> QED  BY <1>4, <1>6, <2>1, <2>2
  <2>4. CASE judged < search.best_stress
    <3>1. judged < worst
      <4> HIDE DEF judged, worst
      <4> QED  BY <1>4, <2>1, <2>4
    <3>2. best_move = search.move
      BY <2>4
    <3>3. JudgedBy(t, pass.aggressive, Tried(t, before, search, best_move), n) = judged
      BY <1>4, <3>2
    <3> QED  BY <2>3, <3>1, <3>3
  <2>5. CASE ~ (judged < search.best_stress)
    <3>1. best_move = search.best_move
      BY <2>5
    <3> QED  BY <2>1, <2>3, <3>1
  <2> QED  BY <2>4, <2>5
<1> HIDE DEF K, half, best_stress, best_move
<1>8. /\ search' \in SearchRecords /\ search'.node = n /\ search'.direction = search.direction
      /\ search'.best_stress = best_stress /\ search'.best_move = best_move
  BY <1>1, <1>2, <1>6 DEF SearchRecords
<1>9. LastNode' = K => SearchShape'
  BY <1>1, <1>2, <1>8 DEF SearchShape, SearchRecords
<1>10. LastNode' = K => Trial'
  <2>1. BestMove(t, K, pass.aggressive, pass.threshold, before, search')
    <3>1. Tried(t, before, search', best_move) = Tried(t, before, search, best_move)
      BY <1>8 DEF Tried
    <3> QED  BY <1>4, <1>7, <1>8, <3>1 DEF BestMove
  <2> QED  BY <1>1, <1>5, <2>1 DEF Trial
<1> QED  BY <1>1, <1>4, <1>5, <1>9, <1>10, PassStays, SearchStep DEF SearchPhases, TrialPhases, K

LEMMA MoveNodeSound ==
  ASSUME ListInv, MoveNode
  PROVE  ListInv'
<1> DEFINE K == LastNode
           n == search.node
           next == n + 1
<1>1. /\ phase = "try" /\ phase' = "node"
      /\ m' = IF search.best_move = 0 THEN m
              ELSE move_or_swap(t, m, n, m.location[n] + search.best_move * search.direction)
      /\ search' = [NoSearch EXCEPT !.node = next]
      /\ UNCHANGED <<trace_vars, t, c, pass, before>>
  BY DEF MoveNode
<1>2. /\ K \in Nat /\ Nodes = 0 .. K /\ search \in SearchRecords /\ SoundList(t, m, K)
      /\ K + 1 - n <= pass.active /\ pass.iteration < MAX_ITERATIONS /\ pass \in PassRecords(K)
  BY <1>1, SearchFacts DEF SearchPhases
<1>3. search.best_move \in Nat
  BY <1>2 DEF SearchRecords
<1>4. m = before /\ n \in 0 .. K /\ SoundList(t, Tried(t, before, search, search.best_move), K)
  BY <1>1, <1>3, TrialFacts DEF Trial, TrialPhases
<1>5. SoundList(t, m', K)
  BY <1>1, <1>2, <1>4 DEF Tried
<1>6. pass.active \in 0 .. K + 1
  BY <1>2 DEF PassRecords
<1> HIDE DEF K
<1>7. next \in Nat /\ next <= K + 1 /\ K + 1 - next <= pass.active
  BY <1>2, <1>4, <1>6
<1> HIDE DEF next
<1>8. search' \in SearchRecords /\ search'.node = next
  BY <1>1, <1>7 DEF SearchRecords, NoSearch
<1>9. LastNode' = K => SearchShape'
  BY <1>1, <1>2, <1>7, <1>8 DEF SearchShape, SearchRecords
<1> QED  BY <1>1, <1>5, <1>9, PassStays, SearchStep DEF SearchPhases, TrialPhases, K

LEMMA EndPassSound ==
  ASSUME ListInv, EndPass
  PROVE  ListInv'
<1> USE LinkedListAssumption
<1> DEFINE K == LastNode
<1>1. PICK marginal \in MayBeMarginal :
        /\ pass' = [pass EXCEPT !.iteration = @ + 1, !.threshold = (@ * 98) \div 100,
                                !.marginal = IF marginal THEN @ + 1 ELSE 0,
                                !.never_marginal = @ /\ ~ marginal]
        /\ phase' = IF Stops(marginal) THEN "cleanup" ELSE "pass"
  BY DEF EndPass
<1>2. phase = "node" /\ search' = NoSearch /\ UNCHANGED <<trace_vars, t, m, c, before>>
  BY DEF EndPass
<1>3. /\ K \in Nat /\ Nodes = 0 .. K /\ pass \in PassRecords(K) /\ pass.marginal < MARGINAL_CUTOFF
      /\ pass.iteration < MAX_ITERATIONS
  BY <1>2, SearchFacts DEF SearchPhases
<1>4. CullInv'
  BY <1>1, <1>2, TraceFrame DEF MakingPhases
<1>5. ListShape' /\ LastNode' = K
  BY <1>1, <1>2, ListStays DEF flattened
<1> HIDE DEF K
<1>6. marginal \in BOOLEAN
  BY DEF MayBeMarginal
<1> DEFINE iteration == pass.iteration + 1
           threshold == (pass.threshold * 98) \div 100
           marginals == IF marginal THEN pass.marginal + 1 ELSE 0
           never == pass.never_marginal /\ ~ marginal
<1>7. /\ iteration \in 0 .. MAX_ITERATIONS /\ marginals \in 0 .. MARGINAL_CUTOFF /\ never \in BOOLEAN
      /\ threshold \in 0 .. INITIAL_THRESHOLD
  <2>1. /\ pass.iteration \in 0 .. MAX_ITERATIONS /\ pass.marginal \in 0 .. MARGINAL_CUTOFF
        /\ pass.threshold \in 0 .. INITIAL_THRESHOLD /\ pass.never_marginal \in BOOLEAN
    BY <1>3 DEF PassRecords
  <2>2. iteration \in 0 .. MAX_ITERATIONS
    BY <1>3, <2>1
  <2>3. marginals \in 0 .. MARGINAL_CUTOFF
    BY <1>3, <1>6, <2>1
  <2>4. threshold \in 0 .. INITIAL_THRESHOLD
    BY <2>1
  <2>5. never \in BOOLEAN
    OBVIOUS
  <2> QED  BY <2>2, <2>3, <2>4, <2>5
<1>8. pass' = [pass EXCEPT !.iteration = iteration, !.threshold = threshold, !.marginal = marginals,
                           !.never_marginal = never]
  BY <1>1, <1>3 DEF PassRecords
<1>9. phase' \in {"cleanup", "pass"} /\ (phase' = "pass" => marginals < MARGINAL_CUTOFF)
  <2>1. phase' = "pass" => ~ Stops(marginal)
    BY <1>1
  <2>2. ~ Stops(marginal) => ~ (marginal /\ pass.marginal + 1 = MARGINAL_CUTOFF)
    BY DEF Stops
  <2>3. pass.marginal \in 0 .. MARGINAL_CUTOFF
    BY <1>3 DEF PassRecords
  <2>4. ~ (marginal /\ pass.marginal + 1 = MARGINAL_CUTOFF) => marginals < MARGINAL_CUTOFF
    BY <1>3, <1>6, <2>3
  <2> QED  BY <1>1, <2>1, <2>2, <2>4
<1> HIDE DEF iteration, threshold, marginals, never
<1>10. pass' \in PassRecords(K) /\ pass'.marginal = marginals
  BY <1>3, <1>7, <1>8 DEF PassRecords
<1>11. PassShape'
  BY <1>5, <1>9, <1>10 DEF PassShape, PassRecords, MakingPhases, SearchPhases
<1>12. SearchShape'
  <2>1. search' \in SearchRecords
    BY <1>2 DEF SearchRecords, NoSearch
  <2> QED  BY <1>9, <2>1 DEF SearchShape, SearchRecords, SearchPhases
<1> QED  BY <1>4, <1>5, <1>9, <1>11, <1>12 DEF ListInv, MakingPhases, TrialPhases

--------------------------------------------------------------------------------
(* After the search *)

\* What is written into two fields of a list's records of its moves.
LEMMA MovesExcept ==
  ASSUME NEW r, Moves(r), NEW p, NEW q
  PROVE  [r EXCEPT !.location = p, !.at = q]
           = [location |-> p, at |-> q, stress |-> r.stress, global_stress |-> r.global_stress]
<1> DEFINE F == {"location", "at", "stress", "global_stress"}
           s == [location |-> r.location, at |-> r.at, stress |-> r.stress,
                 global_stress |-> r.global_stress]
           e == [r EXCEPT !.location = p, !.at = q]
<1>1. DOMAIN s = F
  OBVIOUS
<1>2. r = s
  BY DEF Moves
<1> HIDE DEF s
<1>3. DOMAIN r = F
  BY <1>1, <1>2
<1>4. DOMAIN e = F /\ e = [x \in DOMAIN e |-> e[x]]
  BY <1>3
<1>5. e.location = p /\ e.at = q /\ e.stress = r.stress /\ e.global_stress = r.global_stress
  BY <1>3
<1> DEFINE u == [location |-> p, at |-> q, stress |-> r.stress, global_stress |-> r.global_stress]
<1>6. DOMAIN u = F /\ u = [x \in DOMAIN u |-> u[x]]
      /\ u.location = p /\ u.at = q /\ u.stress = r.stress /\ u.global_stress = r.global_stress
  OBVIOUS
<1> HIDE DEF e, u
<1>7. \A x \in F : e[x] = u[x]
  BY <1>5, <1>6
<1> HIDE DEF F
<1>8. e = u
  BY <1>4, <1>6, <1>7
<1> QED  BY <1>8 DEF e, u

LoweredBy(location, x, low, K) == location = [n \in 0 .. K |-> x.location[n] - low]

MovedTo(y, x, location, K) ==
  y = [x EXCEPT !.location = location,
                !.at = [l \in {location[n] : n \in 0 .. K} |-> CHOOSE n \in 0 .. K : location[n] = l]]

\* A list moved as a whole, with a dictionary of its own: every node is as far from the
\* one before it as it was.
LEMMA LoweredSound ==
  ASSUME NEW K \in Nat, NEW links, NEW x, SoundList(links, x, K), NEW low \in Int,
         NEW location, LoweredBy(location, x, low, K), NEW y, MovedTo(y, x, location, K)
  PROVE  /\ SoundList(links, y, K)
         /\ y.location = location /\ y.stress = x.stress /\ DOMAIN y.at = {location[n] : n \in 0 .. K}
         /\ \A n \in 0 .. K : StressOf(links, y, n) = x.stress[n]
<1> DEFINE places == {location[n] : n \in 0 .. K}
           at == [l \in places |-> CHOOSE n \in 0 .. K : location[n] = l]
<1>1. /\ Ring(links, K) /\ Moves(x) /\ Mapped(x, K) /\ Exact(links, x, K)
      /\ x.location \in [0 .. K -> Int]
      /\ \A n \in 0 .. K : x.at[x.location[n]] = n
  BY DEF SoundList, Mapped
<1>2. y = [location |-> location, at |-> at, stress |-> x.stress, global_stress |-> x.global_stress]
  <2> HIDE DEF at
  <2>1. y = [x EXCEPT !.location = location, !.at = at]
    BY DEF at, places, MovedTo
  <2> QED  BY <1>1, <2>1, MovesExcept
<1>3. location \in [0 .. K -> Int] /\ \A n \in 0 .. K : location[n] \in Int /\ location[n] = x.location[n] - low
  BY <1>1 DEF LoweredBy
<1>4. \A n, k \in 0 .. K : location[n] = location[k] => n = k
  <2> SUFFICES ASSUME NEW n \in 0 .. K, NEW k \in 0 .. K, location[n] = location[k] PROVE n = k
    OBVIOUS
  <2>1. x.location[n] \in Int /\ x.location[k] \in Int
    BY <1>1
  <2>2. x.location[n] = x.location[k]
    BY <1>3, <2>1
  <2> QED  BY <1>1, <2>2
<1>5. DOMAIN at = places /\ \A n \in 0 .. K : location[n] \in places /\ at[location[n]] = n
  <2> SUFFICES ASSUME NEW n \in 0 .. K PROVE location[n] \in places /\ at[location[n]] = n
    OBVIOUS
  <2>1. location[n] \in places
    OBVIOUS
  <2>2. at[location[n]] = CHOOSE k \in 0 .. K : location[k] = location[n]
    BY <2>1
  <2>3. (CHOOSE k \in 0 .. K : location[k] = location[n]) = n
    BY <1>4
  <2> QED  BY <2>1, <2>2, <2>3
<1>6. \A l \in places : \E n \in 0 .. K : l = location[n]
  OBVIOUS
<1> HIDE DEF at, places
<1>7. at \in [places -> 0 .. K] /\ \A l \in places : at[l] \in 0 .. K /\ location[at[l]] = l
  <2>1. ASSUME NEW l \in places PROVE at[l] \in 0 .. K /\ location[at[l]] = l
    BY <1>5, <1>6
  <2>2. at = [l \in places |-> at[l]]
    BY DEF at
  <2> QED  BY <2>1, <2>2
<1>8. y.location = location /\ y.at = at /\ y.stress = x.stress /\ y.global_stress = x.global_stress /\ Moves(y)
  BY <1>2 DEF Moves
<1>9. Mapped(y, K)
  BY <1>3, <1>5, <1>7, <1>8 DEF Mapped
<1>10. ASSUME NEW n \in 0 .. K PROVE StressOf(links, y, n) = x.stress[n]
  <2>1. x.stress[n] = StressOf(links, x, n)
    BY <1>1 DEF Exact
  <2>2. links.prev[n] \in 0 .. K /\ links.offset[n] \in Int
    BY <1>1, RingLinks
  <2> DEFINE b == x.location[n]
             p == x.location[links.prev[n]]
             o == links.offset[n]
  <2>3. b \in Int /\ p \in Int /\ o \in Int
    BY <1>1, <2>2
  <2>4. location[n] = b - low /\ location[links.prev[n]] = p - low
    BY <1>3, <2>2
  <2>5. location[n] - (location[links.prev[n]] + o) = b - (p + o)
    <3> HIDE DEF b, p, o
    <3> QED  BY <2>3, <2>4
  <2>6. y.location[n] - TargetLocation(links, y, n) = x.location[n] - TargetLocation(links, x, n)
    BY <1>8, <2>5 DEF TargetLocation
  <2>7. StressOf(links, y, n) = StressOf(links, x, n)
    BY <2>6 DEF StressOf
  <2> QED  BY <2>1, <2>7
<1>11. Exact(links, y, K)
  BY <1>1, <1>8, <1>10 DEF Exact
<1> QED  BY <1>1, <1>8, <1>9, <1>10, <1>11, <1>5 DEF SoundList, places

\* The dictionary of a sound list has its locations.
LEMMA LowestPlace ==
  ASSUME NEW K \in Nat, NEW links, NEW x, SoundList(links, x, K)
  PROVE  /\ DOMAIN x.at = {x.location[n] : n \in 0 .. K}
         /\ Min(DOMAIN x.at) \in Int
         /\ \E n \in 0 .. K : x.location[n] = Min(DOMAIN x.at)
         /\ \A n \in 0 .. K : Min(DOMAIN x.at) <= x.location[n]
<1> DEFINE S == {x.location[n] : n \in 0 .. K}
<1>1. DOMAIN x.at = S
  <2>1. \A n \in 0 .. K : x.location[n] \in DOMAIN x.at
    BY DEF SoundList, Mapped
  <2>2. \A l \in DOMAIN x.at : x.at[l] \in 0 .. K /\ x.location[x.at[l]] = l
    BY DEF SoundList, Mapped
  <2> QED  BY <2>1, <2>2
<1>2. \A n \in 0 .. K : x.location[n] \in Int
  BY DEF SoundList, Mapped
<1>3. Min(S) \in S /\ Min(S) \in Int /\ \A z \in S : Min(S) <= z
  <2> DEFINE f == x.location
  <2>1. \A n \in 0 .. K : f[n] \in Int
    BY <1>2
  <2>2. S = {f[n] : n \in 0 .. K}
    OBVIOUS
  <2> HIDE DEF f, S
  <2> QED  BY <2>1, <2>2, Extremes
<1>4. \A n \in 0 .. K : x.location[n] \in S
  OBVIOUS
<1>5. \A z \in S : \E n \in 0 .. K : x.location[n] = z
  OBVIOUS
<1> HIDE DEF S
<1>6. DOMAIN x.at = {x.location[n] : n \in 0 .. K}
  BY <1>1 DEF S
<1> QED  BY <1>1, <1>3, <1>4, <1>5, <1>6

LEMMA LoweredToZero ==
  ASSUME NEW K \in Nat, NEW links, NEW x, SoundList(links, x, K), NEW location,
         LoweredBy(location, x, Min(DOMAIN x.at), K)
  PROVE  Min({location[n] : n \in 0 .. K}) = 0
<1> DEFINE low == Min(DOMAIN x.at)
           S == {location[n] : n \in 0 .. K}
<1>1. /\ low \in Int /\ (\E n \in 0 .. K : x.location[n] = low)
      /\ \A n \in 0 .. K : low <= x.location[n]
  BY LowestPlace
<1>2. \A n \in 0 .. K : x.location[n] \in Int /\ location[n] = x.location[n] - low
  BY DEF SoundList, Mapped, LoweredBy
<1> HIDE DEF low
<1>3. \A n \in 0 .. K : location[n] \in Int /\ 0 <= location[n]
  BY <1>1, <1>2
<1>4. PICK n \in 0 .. K : x.location[n] = low
  BY <1>1
<1>5. location[n] = 0
  BY <1>1, <1>2, <1>4
<1>6. S \subseteq Int /\ 0 \in S /\ \A y \in S : 0 <= y
  BY <1>3, <1>5
<1> HIDE DEF S
<1>7. Min(S) = 0
  BY <1>6, MinIs
<1> QED  BY <1>7 DEF S

\* The passes are over, and nothing of them changes.
LEMMA SearchOver ==
  ASSUME ListInv, phase \notin MakingPhases, phase' \in {"optimized", "done"}, ListShape',
         LastNode' = LastNode, UNCHANGED <<trace_vars, pass, search>>, Lowest' = 0
  PROVE  ListInv'
<1>1. CullInv'
  BY TraceFrame DEF MakingPhases
<1>2. PassShape' /\ SearchShape'
  BY DEF ListInv, PassShape, SearchShape, SearchPhases, MakingPhases
<1> QED  BY <1>1, <1>2 DEF ListInv, MakingPhases, TrialPhases

\* The checks of cleanup() find the list well mapped and, shifted, as stressed as it was.
LEMMA CleanupSound ==
  ASSUME ListInv, Cleanup
  PROVE  ListInv'
<1> DEFINE K == LastNode
           y == Shifted
<1>1. phase = "cleanup" /\ UNCHANGED <<trace_vars, c, pass, search, before>>
  BY DEF Cleanup
<1>2. K \in Nat /\ Nodes = 0 .. K /\ SoundList(t, m, K)
  BY <1>1 DEF ListInv, ListShape, Links, flattened
<1> DEFINE location == [n \in 0 .. K |-> m.location[n] - Min(DOMAIN m.at)]
<1>3. MovedTo(y, m, location, K)
  BY <1>2 DEF Shifted, Lowest, MovedTo
<1>4. Min(DOMAIN m.at) \in Int
  BY <1>2, LowestPlace
<1>6. LoweredBy(location, m, Min(DOMAIN m.at), K)
  BY DEF LoweredBy
<1> HIDE DEF y, K, location
<1>5. Min({location[n] : n \in 0 .. K}) = 0
  BY <1>2, <1>6, LoweredToZero
<1>7. /\ SoundList(t, y, K) /\ DOMAIN y.at = {location[n] : n \in 0 .. K} /\ y.stress = m.stress
      /\ \A n \in 0 .. K : StressOf(t, y, n) = m.stress[n]
  BY <1>2, <1>3, <1>4, <1>6, LoweredSound
<1>8. WellMapped(m)
  BY <1>2 DEF WellMapped, SoundList, Mapped
<1>9. Restressed(y)
  BY <1>2, <1>7 DEF Restressed
<1>10. m' = y /\ t' = flatten(t, y) /\ phase' = "optimized"
  BY <1>8, <1>9 DEF Cleanup, y
<1>11. unflatten(flatten(t, y), y) = t
  BY <1>2, <1>7, FlattenBack DEF SoundList
<1>12. Links' = t
  BY <1>10, <1>11 DEF Links, flattened
<1>13. SoundList(Links', m', K) /\ (flattened' => t' = flatten(Links', m'))
  BY <1>7, <1>10, <1>12
<1>14. ListShape' /\ LastNode' = K
  BY <1>2, <1>13, ShapeOfNext
<1>15. Lowest' = 0
  BY <1>5, <1>7, <1>10 DEF Lowest
<1> QED  BY <1>1, <1>10, <1>14, <1>15, SearchOver DEF K, MakingPhases

Hops(h, K, first, next) ==
  h = [k \in 0 .. K |-> IF k = 0 THEN first ELSE next[h[k - 1]]]

\* The walk that starts at the first node meets them in order.
LEMMA HopsInOrder ==
  ASSUME NEW K \in Nat, NEW links, Ring(links, K), NEW h, Hops(h, K, 0, links.next)
  PROVE  \A k \in 0 .. K : h[k] = k
<1> DEFINE e(g, k) == IF k = 0 THEN 0 ELSE links.next[g[k - 1]]
           T == {k \in 0 .. K : h[k] # k}
<1> SUFFICES ASSUME T # {} PROVE FALSE
  OBVIOUS
<1>1. PICK k \in T : \A j \in T : k <= j
  <2>1. T \subseteq Nat
    OBVIOUS
  <2> HIDE DEF T
  <2> QED  BY <2>1, LeastNatural
<1>2. k \in 0 .. K /\ h[k] # k
  BY <1>1
<1>3. h = [j \in 0 .. K |-> e(h, j)]
  BY DEF Hops
<1> HIDE DEF e
<1>4. h[k] = e(h, k)
  BY <1>2, <1>3
<1>5. k # 0
  BY <1>2, <1>4 DEF e
<1>6. k - 1 \in 0 .. K /\ ~ (k <= k - 1) /\ k - 1 # K /\ k - 1 + 1 = k
  BY <1>2, <1>5
<1>7. h[k - 1] = k - 1
  BY <1>1, <1>6
<1>8. links.next[k - 1] = k
  BY <1>6 DEF Ring
<1> QED  BY <1>2, <1>4, <1>5, <1>7, <1>8 DEF e

LEMMA HopsExist ==
  ASSUME NEW K \in Nat, NEW links, Ring(links, K)
  PROVE  \E h : Hops(h, K, 0, links.next)
<1> DEFINE h == [k \in 0 .. K |-> k]
<1>1. ASSUME NEW k \in 0 .. K PROVE (IF k = 0 THEN 0 ELSE links.next[h[k - 1]]) = k
  <2>1. CASE k = 0
    BY <2>1
  <2>2. CASE k # 0
    <3>1. k - 1 \in 0 .. K /\ k - 1 # K /\ k - 1 + 1 = k
      BY <2>2
    <3>2. links.next[k - 1] = k /\ h[k - 1] = k - 1
      BY <3>1 DEF Ring
    <3> QED  BY <2>2, <3>2
  <2> QED  BY <2>1, <2>2
<1>2. h = [k \in 0 .. K |-> IF k = 0 THEN 0 ELSE links.next[h[k - 1]]]
  BY <1>1
<1>3. Hops(h, K, 0, links.next)
  BY <1>2 DEF Hops
<1> QED  BY <1>3


\* What the audit asks of a walk h over the list.
Audited(links, x, h, K) ==
  /\ \A k \in 0 .. K :
       /\ Expanded(links, x.location[h[k]]) = x.location[links.next[h[k]]]
       /\ k > 0 => /\ x.location[h[k]] # x.location[0]
                   /\ StressOf(links, x, h[k]) = x.stress[h[k]]
  /\ x.location[links.next[h[K]]] = x.location[0]
  /\ x.global_stress = SumFunction([k \in 0 .. K |-> x.stress[h[k]]])

LEMMA WalkPasses ==
  ASSUME NEW K \in Nat, NEW links, SoundList(links, m, K), NEW h, \A k \in 0 .. K : h[k] = k
  PROVE  Audited(links, m, h, K)
<1>1. /\ Ring(links, K) /\ m.location \in [0 .. K -> Int]
      /\ \A n \in 0 .. K : m.at[m.location[n]] = n
  BY DEF SoundList, Mapped
<1>2. /\ m.stress \in [0 .. K -> Int] /\ m.global_stress = SumFunction(m.stress)
      /\ \A n \in 0 .. K : m.stress[n] = StressOf(links, m, n)
  BY DEF SoundList, Exact
<1>3. 0 \in 0 .. K /\ K \in 0 .. K
  OBVIOUS
<1>4. ASSUME NEW k \in 0 .. K
      PROVE  /\ Expanded(links, m.location[h[k]]) = m.location[links.next[h[k]]]
             /\ k > 0 => /\ m.location[h[k]] # m.location[0]
                         /\ StressOf(links, m, h[k]) = m.stress[h[k]]
  <2>1. h[k] = k
    OBVIOUS
  <2>2. m.at[m.location[k]] = k /\ m.at[m.location[0]] = 0
    BY <1>1, <1>3
  <2>3. Expanded(links, m.location[k]) = m.location[links.next[k]]
    BY <2>2 DEF Expanded
  <2>4. k > 0 => m.location[k] # m.location[0]
    BY <2>2
  <2> QED  BY <1>2, <2>1, <2>3, <2>4
<1>5. m.location[links.next[h[K]]] = m.location[0]
  <2>1. links.next[K] = 0
    BY <1>1, <1>3 DEF Ring
  <2> QED  BY <1>3, <2>1
<1>6. [k \in 0 .. K |-> m.stress[h[k]]] = m.stress
  BY <1>2
<1> QED  BY <1>2, <1>4, <1>5, <1>6 DEF Audited

\* The walk along a sound list that begins at zero passes the audit.
LEMMA AuditPasses ==
  ASSUME NEW links, LastNode \in Nat, SoundList(links, m, LastNode), Lowest = 0
  PROVE  Passes(links)
<1> DEFINE K == LastNode
           h == CHOOSE g : Hops(g, K, m.at[m.location[0]], links.next)
<1>1. Ring(links, K) /\ m.at[m.location[0]] = 0
  BY DEF SoundList, Mapped
<1>2. Passes(links) <=> Lowest = 0 /\ Audited(links, m, h, K)
  BY DEF Passes, Audited, Hops
<1> HIDE DEF K
<1>3. K \in Nat /\ SoundList(links, m, K)
  BY DEF K
<1>4. Hops(h, K, 0, links.next)
  BY <1>1, <1>3, HopsExist
<1> HIDE DEF h
<1>5. \A k \in 0 .. K : h[k] = k
  BY <1>1, <1>3, <1>4, HopsInOrder
<1>6. Audited(links, m, h, K)
  BY <1>3, <1>5, WalkPasses
<1> QED  BY <1>2, <1>6

\* The audit of the list that was shifted passes.
LEMMA AuditSound ==
  ASSUME ListInv, Audit
  PROVE  ListInv'
<1> DEFINE K == LastNode
           u == unflatten(t, m)
<1>1. phase = "optimized" /\ UNCHANGED <<trace_vars, m, c, pass, search, before>>
  BY DEF Audit
<1>2. K \in Nat /\ SoundList(u, m, K) /\ t = flatten(u, m) /\ Lowest = 0
  BY <1>1 DEF ListInv, ListShape, Links, flattened
<1> HIDE DEF u
<1>3. Passes(u)
  BY <1>2, AuditPasses
<1>4. phase' = "done" /\ t' = t
  BY <1>2, <1>3 DEF Audit, u
<1>5. Links' = u
  BY <1>1, <1>4 DEF Links, flattened, u
<1> HIDE DEF K
<1>6. SoundList(Links', m', K) /\ (flattened' => t' = flatten(Links', m'))
  BY <1>1, <1>2, <1>4, <1>5
<1>7. ListShape' /\ LastNode' = K
  BY <1>2, <1>6, ShapeOfNext
<1>8. Lowest' = 0
  BY <1>1, <1>2 DEF Lowest
<1> QED  BY <1>1, <1>4, <1>7, <1>8, SearchOver DEF K, MakingPhases

\* The invariant is of the variables alone.
LEMMA ListStutters ==
  ASSUME ListInv, UNCHANGED vars
  PROVE  ListInv'
<1>1. /\ UNCHANGED <<original, parameters, log_strides, culled_strides, stride_delta, round, phase>>
      /\ UNCHANGED <<t, m, c, pass, search, before>>
  BY DEF vars, making_vars, cull_vars
<1>2. Current' = Current
  BY <1>1 DEF Current
<1>3. CullShape' /\ DeltaIsLead' /\ NothingLost' /\ SmallestFirst'
  BY <1>1, <1>2 DEF ListInv, CullInv, CullShape, DeltaIsLead, NothingLost, SmallestFirst
<1>4. CullInv'
  BY <1>1, <1>3 DEF ListInv, CullInv
<1>5. flattened' = flattened /\ list' = list
  BY <1>1 DEF flattened, list
<1>6. Links' = Links
  BY <1>1, <1>5 DEF Links
<1>7. LastNode' = LastNode /\ Nodes' = Nodes /\ Lowest' = Lowest
  BY <1>1 DEF LastNode, Nodes, Lowest
<1>8. ListShape' /\ (phase \in MakingPhases => SoundLayout(list, LastNode))'
  BY <1>1, <1>5, <1>6, <1>7 DEF ListInv, ListShape
<1>9. (phase = "listing" => Following)' /\ PassShape' /\ SearchShape'
  BY <1>1, <1>7 DEF ListInv, Following, PassShape, SearchShape
<1>10. (phase \in TrialPhases => Trial)'
  BY <1>1, <1>7 DEF ListInv, Trial
<1> QED  BY <1>1, <1>4, <1>7, <1>8, <1>9, <1>10 DEF ListInv

LEMMA ListInvStep == ListInv /\ [Next]_vars => ListInv'
<1> SUFFICES ASSUME ListInv, [Next]_vars PROVE ListInv'
  OBVIOUS
<1>1. CASE MakeList
  BY <1>1, MakeListSound
<1>2. CASE BeginOptimize
  BY <1>2, BeginOptimizeSound
<1>3. CASE BeginPass
  BY <1>3, BeginPassSound
<1>4. CASE Skip
  BY <1>4, SkipSound
<1>5. CASE Consider
  BY <1>5, ConsiderSound
<1>6. CASE Try
  BY <1>6, TrySound
<1>7. CASE TakeBack
  BY <1>7, TakeBackSound
<1>8. CASE MoveNode
  BY <1>8, MoveNodeSound
<1>9. CASE EndPass
  BY <1>9, EndPassSound
<1>10. CASE Cleanup
  BY <1>10, CleanupSound
<1>11. CASE Audit
  BY <1>11, AuditSound
<1>12. CASE UNCHANGED vars
  BY <1>12, ListStutters
<1>13. CASE Terminated
  BY <1>12, <1>13 DEF Terminated
<1> QED
  BY <1>1, <1>2, <1>3, <1>4, <1>5, <1>6, <1>7, <1>8, <1>9, <1>10, <1>11, <1>12, <1>13 DEF Next

\* The invariant holds in every reachable state, whatever the traces and the constants.
THEOREM ListInvariant == Spec => []ListInv
<1>1. ListInit => ListInv
  BY ListInitInv
<1> QED  BY <1>1, ListInvStep, PTL DEF Spec

--------------------------------------------------------------------------------
(* What the invariant says *)

\* Strides, passes and searches have their types.
LEMMA ListTypes == ListInv => TypeOK
<1> SUFFICES ASSUME ListInv PROVE TypeOK
  OBVIOUS
<1> DEFINE K == LastNode
<1>1. K \in Nat /\ Nodes = 0 .. K /\ SoundList(Links, m, K) /\ (flattened => t = flatten(Links, m))
  BY DEF ListInv, ListShape
<1>2. ~ flattened => t = Links
  BY DEF Links
<1>3. log_strides \in Seq(SoundStrides)
  BY DEF ListInv, CullInv, CullShape
<1>4. /\ pass.iteration \in 0 .. MAX_ITERATIONS /\ pass.threshold \in 0 .. INITIAL_THRESHOLD
      /\ pass.marginal \in 0 .. MARGINAL_CUTOFF /\ pass.active \in 0 .. K + 1
      /\ search.move \in Nat /\ search.best_move \in Nat
  BY DEF ListInv, PassShape, SearchShape
<1> HIDE DEF K
<1>5. \A i \in DOMAIN log_strides :
        /\ log_strides[i].magnitude \in Nat /\ log_strides[i].linear_value \in Int
        /\ log_strides[i].linear_fractional_err \in -7 .. 0
  <2>1. \A i \in DOMAIN log_strides : log_strides[i] \in SoundStrides
    BY <1>3
  <2> QED  BY <2>1 DEF SoundStrides, Strides
<1>6. DOMAIN t.offset = 0 .. K /\ DOMAIN t.prev = 0 .. K /\ DOMAIN t.next = 0 .. K /\ DOMAIN m.stress = 0 .. K
  <2>1. /\ Ring(Links, K) /\ Mapped(m, K) /\ m.stress \in [0 .. K -> Int]
        /\ DOMAIN Links.offset = 0 .. K /\ DOMAIN Links.prev = 0 .. K /\ DOMAIN Links.next = 0 .. K
    BY <1>1 DEF SoundList, Ring, Exact
  <2>2. flattened => DOMAIN t.offset = 0 .. K /\ DOMAIN t.prev = 0 .. K /\ DOMAIN t.next = 0 .. K
    BY <1>1, <2>1, FlattenBack
  <2> QED  BY <1>2, <2>1, <2>2
<1>7. Cardinality(Nodes) = K + 1
  BY <1>1, CountNodes
<1> QED  BY <1>1, <1>4, <1>5, <1>6, <1>7 DEF TypeOK, K

\* The remainder that links the last node to the first.
LEMMA NextOf ==
  ASSUME NEW K \in Nat, NEW n \in 0 .. K
  PROVE  (n + 1) % (K + 1) = IF n = K THEN 0 ELSE n + 1
<1> DEFINE d == K + 1
           a == n + 1
           q == IF n = K THEN 1 ELSE 0
<1>1. d \in Nat \ {0} /\ a \in Int /\ q \in Int /\ d * q <= a /\ a < d * q + d
  OBVIOUS
<1>2. a - d * q = IF n = K THEN 0 ELSE n + 1
  OBVIOUS
<1> HIDE DEF d, a, q
<1>3. a \div d = q
  BY <1>1, QuotientIs
<1>4. a = d * (a \div d) + (a % d) /\ a % d \in Int
  BY <1>1
<1> QED  BY <1>1, <1>2, <1>3, <1>4 DEF d, a

LEMMA ListIsSound == ListInv => ListSound
<1> SUFFICES ASSUME ListInv PROVE TypeOK /\ MapInverse /\ StressExact /\ LinksInOrder
  BY DEF ListSound
<1> DEFINE K == LastNode
<1>1. K \in Nat /\ Nodes = 0 .. K /\ SoundList(Links, m, K) /\ (flattened => t = flatten(Links, m))
  BY DEF ListInv, ListShape
<1>2. ~ flattened => t = Links
  BY DEF Links
<1> HIDE DEF K
<1>3. TypeOK
  BY ListTypes
<1>4. MapInverse
  BY <1>1 DEF MapInverse, SoundList, Mapped
<1>5. StressExact
  BY <1>1, <1>2 DEF StressExact, SoundList, Exact
<1>6. LinksInOrder
  <2>1. Ring(Links, K) /\ Mapped(m, K)
    BY <1>1 DEF SoundList
  <2>2. ASSUME NEW n \in 0 .. K
        PROVE  /\ Links.next[n] = (n + 1) % (K + 1)
               /\ Links.prev[n] = IF n = 0 THEN K ELSE n - 1
    BY <1>1, <2>1, NextOf DEF Ring
  <2>3. flattened =>
          \A n \in 0 .. K : t.next[n] = m.location[Links.next[n]] /\ t.prev[n] = m.location[Links.prev[n]]
    BY <1>1, <2>1, FlattenBack
  <2>4. ASSUME NEW n \in 0 .. K
        PROVE  /\ t.next[n] = IF flattened THEN m.location[(n + 1) % (K + 1)] ELSE (n + 1) % (K + 1)
               /\ t.prev[n] =
                    IF flattened THEN m.location[IF n = 0 THEN K ELSE n - 1]
                    ELSE IF n = 0 THEN K ELSE n - 1
    BY <1>2, <2>2, <2>3
  <2> QED  BY <1>1, <2>4 DEF LinksInOrder, K
<1> QED  BY <1>3, <1>4, <1>5, <1>6

LEMMA ListFollows == ListInv => FollowsTrace
<1> SUFFICES ASSUME ListInv, phase = "listing" PROVE FollowsTrace
  BY DEF FollowsTrace
<1> DEFINE K == LastNode
           S == {m.location[n] : n \in 0 .. K}
<1>1. /\ K \in Nat /\ Nodes = 0 .. K /\ SoundLayout(list, K) /\ Following
      /\ list.t = t /\ list.m = m /\ list.c = c
  BY DEF ListInv, ListShape, MakingPhases, list
<1>2. /\ m.location \in [0 .. K -> Int] /\ Extent(m, c, K)
      /\ m.location[K] = SumFunction(t.offset) + c.permanent_placement_delta
  BY <1>1 DEF SoundLayout, SoundList, Mapped, Drifts
<1> HIDE DEF K
<1>3. /\ S \subseteq Int
      /\ c.min_location \in S /\ \A x \in S : c.min_location <= x
      /\ c.max_location \in S /\ \A x \in S : x <= c.max_location
  BY <1>2 DEF Extent
<1>4. S = {m.location[n] : n \in Nodes}
  BY <1>1
<1> HIDE DEF S
<1>5. c.min_location = Min(S) /\ c.max_location = Max(S)
  BY <1>3, MinIs, MaxIs
<1> QED  BY <1>1, <1>2, <1>4, <1>5 DEF FollowsTrace, Following, K

LEMMA TrialIsUndone == ListInv => TrialLeavesNoTrace
BY DEF ListInv, TrialLeavesNoTrace, Trial, TrialPhases

LEMMA NothingAborts == ListInv => NeverAborts
BY DEF ListInv, CullInv, NeverAborts

\* What MoveNode does it has tried: the move is its best.
LEMMA MoveAccepted ==
  ASSUME ListInv, MoveNode, m' # m
  PROVE  Judged(m', search.node) < Judged(before, search.node) + pass.threshold
<1> DEFINE n == search.node
           distance == search.best_move
<1>1. /\ phase = "try"
      /\ m' = IF distance = 0 THEN m ELSE move_or_swap(t, m, n, m.location[n] + distance * search.direction)
  BY DEF MoveNode
<1>2. Trial /\ m = before
  BY <1>1 DEF ListInv, TrialPhases, Trial
<1>3. distance # 0 /\ m' = Tried(t, before, search, distance)
  BY <1>1, <1>2 DEF Tried
<1>4. JudgedBy(t, pass.aggressive, m', n) < JudgedBy(t, pass.aggressive, before, n) + pass.threshold
  BY <1>2, <1>3 DEF Trial, BestMove
<1> QED  BY <1>4 DEF Judged, JudgedBy

Accepts ==
  phase = "try" /\ m' # m /\ search'.node # search.node =>
    Judged(m', search.node) < Judged(before, search.node) + pass.threshold

LEMMA StepAccepts == ListInv /\ [Next]_vars => Accepts
<1> SUFFICES ASSUME ListInv, [Next]_vars, phase = "try", m' # m, search'.node # search.node
             PROVE  Judged(m', search.node) < Judged(before, search.node) + pass.threshold
  BY DEF Accepts
<1>1. CASE MoveNode
  BY <1>1, MoveAccepted
<1>2. CASE Try
  <2>1. search'.node = search.node
    BY <1>2 DEF Try, ListInv, SearchShape
  <2> QED  BY <2>1
<1>3. CASE UNCHANGED vars
  BY <1>3 DEF vars, making_vars
<1>4. ~ MakeList
  BY DEF MakeList, Make, Cull, CullByParameters, CullNext, KeepStride, CullStride, EndCull, NewList,
       AddNode, Accept, Prune
<1>5. ~ (BeginOptimize \/ BeginPass \/ Skip \/ Consider \/ TakeBack \/ EndPass \/ Cleanup \/ Audit \/ Terminated)
  BY DEF BeginOptimize, BeginPass, Skip, Consider, TakeBack, EndPass, Cleanup, Audit, Terminated
<1> QED  BY <1>1, <1>2, <1>3, <1>4, <1>5 DEF Next

--------------------------------------------------------------------------------
(* The theorems *)

\* After any number of culls, the delta that cull() works off is exactly the lead of the
\* strides that are left over the original ones, each stride keeps its magnitude, and
\* none is lost: however long the trace and whatever its strides.
THEOREM CulledStandsForOriginal == Spec => []StandsForOriginal
<1>1. ListInv => StandsForOriginal
  BY CullInvariants DEF ListInv
<1> QED  BY <1>1, ListInvariant, PTL

\* Every size loses its share evenly over the trace, and the smallest sizes first.
THEOREM CullingIsEven == Spec => []CullsEvenly
<1>1. ListInv => CullsEvenly
  BY CullInvariants DEF ListInv
<1> QED  BY <1>1, ListInvariant, PTL

\* While the list is made, each node is that of its stride, the extent kept of the list
\* is exact, and the permanent deviation is how far it has left the trace.
THEOREM ListFollowsTrace == Spec => []FollowsTrace
BY ListFollows, ListInvariant, PTL

\* The dictionary of locations, the stresses and their sum, all only ever adjusted, and
\* the links stay right, through additions, trials, exchanges, flattening and the shift.
THEOREM ListStaysSound == Spec => []ListSound
BY ListIsSound, ListInvariant, PTL

\* Taking a trial back makes the list what it was, also when two nodes were exchanged.
THEOREM TrialsAreUndone == Spec => []TrialLeavesNoTrace
BY TrialIsUndone, ListInvariant, PTL

\* No assertion of the culling or the placement fails, and neither cleanup() nor audit()
\* ends the program.
THEOREM ListNeverAborts == Spec => []NeverAborts
BY NothingAborts, ListInvariant, PTL

\* A node moves for good only when the move is less than the threshold worse than none.
THEOREM MovesWithinThreshold == Spec => AcceptsWithinThreshold
<1>1. ListInv /\ [Next]_vars => [Accepts]_vars
  BY StepAccepts
<1>2. Spec => [][Accepts]_vars
  BY <1>1, ListInvariant, PTL DEF Spec
<1> QED  BY <1>2 DEF AcceptsWithinThreshold, Accepts
================================================================================
