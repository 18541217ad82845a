------------------------------ MODULE SumTheorems ------------------------------
(***************************************************************************)
(* What a sum over a finite set is: SumFunctionOnSet of the community      *)
(* module Functions, for every function and every finite set.  The sum is  *)
(* defined by recursion over subsets.  Facts about it are proved by a      *)
(* smallest counterexample, which a set of finite sets always has.         *)
(***************************************************************************)
EXTENDS Integers, FiniteSets, Functions, FiniteSetTheorems, WellFoundedInduction, TLAPS

--------------------------------------------------------------------------------
(* The recursion *)

Pick(s) == CHOOSE x \in s : TRUE

\* g is what the recursion defines on the subsets of S.
IsFold(g, f, S) ==
  g = [s \in SUBSET S |-> IF s = {} THEN 0 ELSE f[Pick(s)] + g[s \ {Pick(s)}]]

\* The sum is the last value of the function that is chosen.
LEMMA SumIsChosen ==
  ASSUME NEW f, NEW S
  PROVE  SumFunctionOnSet(f, S) = (CHOOSE g : IsFold(g, f, S))[S]
BY DEF SumFunctionOnSet, FoldFunctionOnSet, MapThenFoldSet, IsFold, Pick

\* A set of finite sets, none of them empty, has one that none of them is
\* a proper subset of.
LEMMA SmallestSet ==
  ASSUME NEW S, IsFiniteSet(S), NEW T \in SUBSET SUBSET S, T # {}
  PROVE  \E x \in T : \A y \in T : y \subseteq x => y = x
<1>1. T \subseteq FiniteSubsetsOf(S)
  BY FS_Subset DEF FiniteSubsetsOf
<1>2. PICK x \in T : \A y \in T : <<y, x>> \notin StrictSubsetOrdering(S)
  <2>1. IsWellFoundedOn(StrictSubsetOrdering(S), FiniteSubsetsOf(S))
    BY FS_StrictSubsetOrderingWellFounded
  <2> QED
    BY <1>1, <2>1, WFMin
<1>3. \A y \in T : y \subseteq x => y = x
  BY <1>2 DEF StrictSubsetOrdering
<1> QED
  BY <1>3

\* A set of natural numbers that is not empty has a least element.
LEMMA LeastNatural ==
  ASSUME NEW T, T \subseteq Nat, T # {}
  PROVE  \E x \in T : \A y \in T : x <= y
<1> DEFINE Below == {0 .. x : x \in T}
<1>1. Below \subseteq FiniteSubsetsOf(Nat)
  <2>1. ASSUME NEW x \in T PROVE 0 .. x \in FiniteSubsetsOf(Nat)
    BY FS_Interval DEF FiniteSubsetsOf
  <2> QED
    BY <2>1
<1>2. PICK b \in Below : \A c \in Below : ~ (<<c, b>> \in StrictSubsetOrdering(Nat))
  <2>1. Below # {}
    OBVIOUS
  <2>2. IsWellFoundedOn(StrictSubsetOrdering(Nat), FiniteSubsetsOf(Nat))
    BY FS_StrictSubsetOrderingWellFounded
  <2> HIDE DEF Below
  <2> QED
    BY <1>1, <2>1, <2>2, WFMin
<1>3. PICK x \in T : b = 0 .. x
  BY <1>2
<1>4. ASSUME NEW y \in T, y < x PROVE FALSE
  <2>1. 0 .. y \subseteq Nat /\ 0 .. x \subseteq Nat /\ 0 .. y \subseteq 0 .. x
    BY <1>4
  <2>2. x \in 0 .. x /\ x \notin 0 .. y
    BY <1>4
  <2>3. <<0 .. y, 0 .. x>> \in StrictSubsetOrdering(Nat)
    BY <2>1, <2>2 DEF StrictSubsetOrdering
  <2> QED
    BY <2>3, <1>2, <1>3
<1> QED
  BY <1>4

\* So has a set of integers none of which is less than b, and one with none more
\* has a greatest.
LEMMA LeastInteger ==
  ASSUME NEW T, T \subseteq Int, T # {}, NEW b \in Int, \A x \in T : b <= x
  PROVE  \E x \in T : \A y \in T : x <= y
<1> DEFINE U == {x - b : x \in T}
<1>1. U \subseteq Nat /\ U # {}
  <2>1. \A x \in T : x - b \in Nat
    OBVIOUS
  <2> QED  BY <2>1
<1>2. PICK u \in U : \A v \in U : u <= v
  <2> HIDE DEF U
  <2> QED  BY <1>1, LeastNatural
<1>3. PICK x \in T : u = x - b
  BY <1>2
<1>4. ASSUME NEW y \in T PROVE x <= y
  <2>1. x - b <= y - b
    BY <1>2, <1>3
  <2> QED  BY <2>1
<1> QED  BY <1>4

LEMMA GreatestInteger ==
  ASSUME NEW T, T \subseteq Int, T # {}, NEW b \in Int, \A x \in T : x <= b
  PROVE  \E x \in T : \A y \in T : y <= x
<1> DEFINE U == {b - x : x \in T}
<1>1. U \subseteq Nat /\ U # {}
  OBVIOUS
<1>2. PICK u \in U : \A v \in U : u <= v
  <2> HIDE DEF U
  <2> QED  BY <1>1, LeastNatural
<1>3. PICK x \in T : u = b - x
  BY <1>2
<1>4. ASSUME NEW y \in T PROVE y <= x
  <2>1. b - x <= b - y
    BY <1>2, <1>3
  <2> QED  BY <2>1
<1> QED  BY <1>4

\* One step of the recursion.
LEMMA FoldStep ==
  ASSUME NEW g, NEW f, NEW S, IsFold(g, f, S), NEW s \in SUBSET S
  PROVE  /\ s = {} => g[s] = 0
         /\ s # {} => /\ Pick(s) \in s
                      /\ g[s] = f[Pick(s)] + g[s \ {Pick(s)}]
<1>1. s # {} => Pick(s) \in s
  BY DEF Pick
<1>2. g[s] = IF s = {} THEN 0 ELSE f[Pick(s)] + g[s \ {Pick(s)}]
  <2> DEFINE e(h, t) == IF t = {} THEN 0 ELSE f[Pick(t)] + h[t \ {Pick(t)}]
  <2>1. g = [t \in SUBSET S |-> e(g, t)]
    BY DEF IsFold
  <2> HIDE DEF e
  <2>2. g[s] = e(g, s)
    BY <2>1
  <2> QED  BY <2>2 DEF e
<1> QED
  BY <1>1, <1>2

\* The recursion has one solution at most.
LEMMA FoldsAgree ==
  ASSUME NEW f, NEW A, NEW B, NEW g, NEW h, IsFold(g, f, A), IsFold(h, f, B),
         NEW S \in SUBSET A, S \in SUBSET B, IsFiniteSet(S)
  PROVE  g[S] = h[S]
<1> DEFINE T == {s \in SUBSET S : g[s] # h[s]}
<1> SUFFICES ASSUME T # {} PROVE FALSE
  OBVIOUS
<1>1. PICK x \in T : \A y \in T : y \subseteq x => y = x
  <2>1. T \in SUBSET SUBSET S
    OBVIOUS
  <2> HIDE DEF T
  <2> QED  BY <2>1, SmallestSet
<1>2. x \in SUBSET A /\ x \in SUBSET B /\ x \in SUBSET S /\ g[x] # h[x]
  OBVIOUS
<1>3. x # {}
  <2> SUFFICES ASSUME x = {} PROVE FALSE
    OBVIOUS
  <2>1. g[x] = 0 /\ h[x] = 0
    BY <1>2, FoldStep
  <2> QED  BY <1>2, <2>1
<1> DEFINE y == x \ {Pick(x)}
<1>4. Pick(x) \in x /\ g[x] = f[Pick(x)] + g[y] /\ h[x] = f[Pick(x)] + h[y]
  BY <1>2, <1>3, FoldStep
<1>5. y \notin T
  BY <1>1, <1>4
<1>6. g[y] = h[y]
  BY <1>2, <1>5
<1> QED  BY <1>2, <1>4, <1>6

\* It has one, on the subsets of a finite set.
LEMMA FoldExists ==
  ASSUME NEW f, NEW S, IsFiniteSet(S)
  PROVE  \E g : IsFold(g, f, S)
<1> DEFINE T == {s \in SUBSET S : ~ \E g : IsFold(g, f, s)}
<1> SUFFICES ASSUME T # {} PROVE FALSE
  OBVIOUS
<1>1. PICK x \in T : \A y \in T : y \subseteq x => y = x
  <2>1. T \in SUBSET SUBSET S
    OBVIOUS
  <2> HIDE DEF T
  <2> QED  BY <2>1, SmallestSet
<1> DEFINE G(u) == CHOOSE g : IsFold(g, f, u)
           g == [s \in SUBSET x |-> IF s = {} THEN 0
                                    ELSE f[Pick(s)] + G(s \ {Pick(s)})[s \ {Pick(s)}]]
<1>2. \A u \in SUBSET x : u # x => IsFold(G(u), f, u) /\ IsFiniteSet(u)
  <2> SUFFICES ASSUME NEW u \in SUBSET x, u # x PROVE IsFold(G(u), f, u) /\ IsFiniteSet(u)
    OBVIOUS
  <2>1. u \notin T /\ u \in SUBSET S
    BY <1>1
  <2>2. \E h : IsFold(h, f, u)
    BY <2>1
  <2> QED  BY <2>1, <2>2, FS_Subset
<1>3. \A u \in SUBSET x : u # x => G(u)[u] = g[u]
  <2> SUFFICES ASSUME NEW u \in SUBSET x, u # x PROVE G(u)[u] = g[u]
    OBVIOUS
  <2>0. IsFold(G(u), f, u) /\ u \in SUBSET u
    BY <1>2
  <2> DEFINE h == G(u)
             w == u \ {Pick(u)}
  <2> HIDE DEF G
  <2>1. CASE u = {}
    <3>1. h[u] = 0
      BY <2>0, <2>1, FoldStep
    <3> QED  BY <2>1, <3>1
  <2>2. CASE u # {}
    <3>1. Pick(u) \in u /\ h[u] = f[Pick(u)] + h[w]
      BY <2>0, <2>2, FoldStep
    <3>2. w \in SUBSET x /\ w # x /\ w \in SUBSET u /\ w \in SUBSET w
      BY <3>1
    <3>3. IsFold(G(w), f, w) /\ IsFiniteSet(w)
      BY <1>2, <3>2
    <3>4. h[w] = G(w)[w]
      <4>1. IsFold(h, f, u)
        BY <2>0
      <4> HIDE DEF h, w
      <4> QED  BY <3>2, <3>3, <4>1, FoldsAgree
    <3>5. g[u] = f[Pick(u)] + G(w)[w]
      BY <2>2
    <3> QED  BY <3>1, <3>4, <3>5
  <2> QED  BY <2>1, <2>2
<1>4. \A s \in SUBSET x : s # {} => Pick(s) \in s
  BY DEF Pick
<1>5. \A s \in SUBSET x :
        g[s] = IF s = {} THEN 0 ELSE f[Pick(s)] + g[s \ {Pick(s)}]
  <2> SUFFICES ASSUME NEW s \in SUBSET x
               PROVE  g[s] = IF s = {} THEN 0 ELSE f[Pick(s)] + g[s \ {Pick(s)}]
    OBVIOUS
  <2> DEFINE u == s \ {Pick(s)}
  <2>0. CASE s = {}
    BY <2>0
  <2>1. g[s] = IF s = {} THEN 0 ELSE f[Pick(s)] + G(u)[u]
    OBVIOUS
  <2>2. CASE s # {}
    <3>1. u \in SUBSET x /\ u # x
      BY <1>4, <2>2
    <3>2. G(u)[u] = g[u]
      BY <1>3, <3>1
    <3> HIDE DEF g, G
    <3> QED  BY <2>1, <2>2, <3>2
  <2> QED  BY <2>0, <2>2
<1>6. IsFold(g, f, x)
  <2>1. g = [s \in SUBSET x |-> g[s]]
    OBVIOUS
  <2> HIDE DEF g
  <2> QED  BY <1>5, <2>1 DEF IsFold
<1> QED  BY <1>6

--------------------------------------------------------------------------------
(* What follows for sums *)

\* The sum over a finite set, one element at a time.
LEMMA SumStep ==
  ASSUME NEW f, NEW S, IsFiniteSet(S)
  PROVE  /\ S = {} => SumFunctionOnSet(f, S) = 0
         /\ S # {} => /\ Pick(S) \in S
                      /\ SumFunctionOnSet(f, S) = f[Pick(S)] + SumFunctionOnSet(f, S \ {Pick(S)})
<1> DEFINE G(u) == CHOOSE g : IsFold(g, f, u)
           u == S \ {Pick(S)}
<1>1. \A s \in SUBSET S : /\ IsFiniteSet(s) /\ IsFold(G(s), f, s)
                          /\ SumFunctionOnSet(f, s) = G(s)[s]
  <2> SUFFICES ASSUME NEW s \in SUBSET S
               PROVE  IsFiniteSet(s) /\ IsFold(G(s), f, s) /\ SumFunctionOnSet(f, s) = G(s)[s]
    OBVIOUS
  <2>1. IsFiniteSet(s)
    BY FS_Subset
  <2>2. \E g : IsFold(g, f, s)
    BY <2>1, FoldExists
  <2> QED  BY <2>1, <2>2, SumIsChosen
<1> DEFINE h == G(S)
<1>2. IsFold(h, f, S) /\ S \in SUBSET S /\ SumFunctionOnSet(f, S) = h[S]
  BY <1>1
<1>3. IsFold(G(u), f, u) /\ IsFiniteSet(u) /\ u \in SUBSET u /\ SumFunctionOnSet(f, u) = G(u)[u]
  BY <1>1
<1> HIDE DEF G, h
<1>4. G(u)[u] = h[u]
  <2>1. u \in SUBSET S
    OBVIOUS
  <2> HIDE DEF u
  <2> QED  BY <1>2, <1>3, <2>1, FoldsAgree
<1>5. /\ S = {} => h[S] = 0
      /\ S # {} => Pick(S) \in S /\ h[S] = f[Pick(S)] + h[u]
  BY <1>2, FoldStep
<1> QED  BY <1>2, <1>3, <1>4, <1>5

\* What is summed are integers.
LEMMA SumInt ==
  ASSUME NEW f, NEW S, IsFiniteSet(S), \A x \in S : f[x] \in Int
  PROVE  SumFunctionOnSet(f, S) \in Int
<1> DEFINE T == {s \in SUBSET S : SumFunctionOnSet(f, s) \notin Int}
<1> SUFFICES ASSUME T # {} PROVE FALSE
  OBVIOUS
<1>1. PICK x \in T : \A y \in T : y \subseteq x => y = x
  <2>1. T \in SUBSET SUBSET S
    OBVIOUS
  <2> HIDE DEF T
  <2> QED  BY <2>1, SmallestSet
<1>2. x \in SUBSET S /\ IsFiniteSet(x)
  BY FS_Subset
<1>3. x # {} /\ Pick(x) \in x /\ SumFunctionOnSet(f, x) = f[Pick(x)] + SumFunctionOnSet(f, x \ {Pick(x)})
  BY <1>2, SumStep
<1>4. SumFunctionOnSet(f, x \ {Pick(x)}) \in Int
  BY <1>1, <1>2, <1>3
<1> QED  BY <1>2, <1>3, <1>4

\* Nothing is the sum over no element.
LEMMA SumEmpty == ASSUME NEW f PROVE SumFunctionOnSet(f, {}) = 0
BY SumStep, FS_EmptySet

\* Any element can be taken out first.
LEMMA SumRemove ==
  ASSUME NEW f, NEW S, IsFiniteSet(S), \A x \in S : f[x] \in Int, NEW e \in S
  PROVE  SumFunctionOnSet(f, S) = f[e] + SumFunctionOnSet(f, S \ {e})
<1> DEFINE T == {s \in SUBSET S : \E d \in s :
                   SumFunctionOnSet(f, s) # f[d] + SumFunctionOnSet(f, s \ {d})}
<1> SUFFICES ASSUME T # {} PROVE FALSE
  OBVIOUS
<1>1. PICK x \in T : \A y \in T : y \subseteq x => y = x
  <2>1. T \in SUBSET SUBSET S
    OBVIOUS
  <2> HIDE DEF T
  <2> QED  BY <2>1, SmallestSet
<1>2. PICK d \in x : SumFunctionOnSet(f, x) # f[d] + SumFunctionOnSet(f, x \ {d})
  OBVIOUS
<1>3. \A s \in SUBSET S : IsFiniteSet(s) /\ SumFunctionOnSet(f, s) \in Int
  BY FS_Subset, SumInt
<1> DEFINE p == Pick(x)
<1>4. p \in x /\ p # d /\ SumFunctionOnSet(f, x) = f[p] + SumFunctionOnSet(f, x \ {p})
  <2>1. IsFiniteSet(x) /\ x # {}
    BY <1>2, <1>3
  <2>2. p \in x /\ SumFunctionOnSet(f, x) = f[p] + SumFunctionOnSet(f, x \ {p})
    BY <2>1, SumStep
  <2> HIDE DEF p
  <2> QED  BY <1>2, <2>2
<1>5. SumFunctionOnSet(f, x \ {p}) = f[d] + SumFunctionOnSet(f, (x \ {p}) \ {d})
  <2>1. x \ {p} \notin T
    BY <1>1, <1>4
  <2> QED  BY <1>2, <1>4, <2>1
<1>6. SumFunctionOnSet(f, x \ {d}) = f[p] + SumFunctionOnSet(f, (x \ {d}) \ {p})
  <2>1. x \ {d} \notin T
    BY <1>1, <1>2
  <2> QED  BY <1>2, <1>4, <2>1
<1>7. (x \ {p}) \ {d} = (x \ {d}) \ {p} /\ (x \ {p}) \ {d} \in SUBSET S
  OBVIOUS
<1>8. SumFunctionOnSet(f, (x \ {p}) \ {d}) \in Int /\ f[p] \in Int /\ f[d] \in Int
  BY <1>3, <1>4, <1>7
<1> DEFINE rest == SumFunctionOnSet(f, (x \ {p}) \ {d})
<1>9. SumFunctionOnSet(f, x) = f[p] + (f[d] + rest) /\ SumFunctionOnSet(f, x \ {d}) = f[p] + rest
  BY <1>4, <1>5, <1>6, <1>7
<1>10. SumFunctionOnSet(f, x) # f[d] + (f[p] + rest)
  BY <1>2, <1>9
<1>11. rest \in Int /\ f[p] \in Int /\ f[d] \in Int
  BY <1>8
<1> HIDE DEF p, T, rest
<1> QED  BY <1>9, <1>10, <1>11

\* One element more.
LEMMA SumAdd ==
  ASSUME NEW f, NEW S, IsFiniteSet(S), \A x \in S : f[x] \in Int, NEW e, e \notin S, f[e] \in Int
  PROVE  SumFunctionOnSet(f, S \cup {e}) = f[e] + SumFunctionOnSet(f, S)
<1>1. IsFiniteSet(S \cup {e}) /\ e \in S \cup {e} /\ (S \cup {e}) \ {e} = S
  BY FS_AddElement
<1> DEFINE U == S \cup {e}
<1>2. \A x \in U : f[x] \in Int
  OBVIOUS
<1> HIDE DEF U
<1>3. SumFunctionOnSet(f, U) = f[e] + SumFunctionOnSet(f, U \ {e})
  BY <1>1, <1>2, SumRemove DEF U
<1> QED  BY <1>1, <1>3 DEF U

\* The sum depends on what is summed only.
LEMMA SumSame ==
  ASSUME NEW f, NEW g, NEW S, IsFiniteSet(S), \A x \in S : f[x] = g[x]
  PROVE  SumFunctionOnSet(f, S) = SumFunctionOnSet(g, S)
<1> DEFINE T == {s \in SUBSET S : SumFunctionOnSet(f, s) # SumFunctionOnSet(g, s)}
<1> SUFFICES ASSUME T # {} PROVE FALSE
  OBVIOUS
<1>1. PICK x \in T : \A y \in T : y \subseteq x => y = x
  <2>1. T \in SUBSET SUBSET S
    OBVIOUS
  <2> HIDE DEF T
  <2> QED  BY <2>1, SmallestSet
<1>2. x \in SUBSET S /\ IsFiniteSet(x)
  BY FS_Subset
<1>3. x # {}
  BY SumEmpty
<1> DEFINE p == Pick(x)
<1>4. /\ p \in x
      /\ SumFunctionOnSet(f, x) = f[p] + SumFunctionOnSet(f, x \ {p})
      /\ SumFunctionOnSet(g, x) = g[p] + SumFunctionOnSet(g, x \ {p})
  BY <1>2, <1>3, SumStep
<1>5. SumFunctionOnSet(f, x \ {p}) = SumFunctionOnSet(g, x \ {p})
  BY <1>1, <1>2, <1>4
<1> QED  BY <1>2, <1>4, <1>5

\* One value changes.
LEMMA SumChange ==
  ASSUME NEW f, NEW g, NEW S, IsFiniteSet(S),
         \A x \in S : f[x] \in Int, NEW e \in S, g[e] \in Int, \A x \in S \ {e} : f[x] = g[x]
  PROVE  SumFunctionOnSet(g, S) = SumFunctionOnSet(f, S) - f[e] + g[e]
<1>1. IsFiniteSet(S \ {e}) /\ SumFunctionOnSet(f, S \ {e}) \in Int
  BY FS_RemoveElement, SumInt
<1>2. \A x \in S : g[x] \in Int
  OBVIOUS
<1>3. SumFunctionOnSet(f, S) = f[e] + SumFunctionOnSet(f, S \ {e})
  BY SumRemove
<1>4. SumFunctionOnSet(g, S) = g[e] + SumFunctionOnSet(g, S \ {e})
  BY <1>2, SumRemove
<1>5. SumFunctionOnSet(f, S \ {e}) = SumFunctionOnSet(g, S \ {e})
  BY <1>1, SumSame
<1> QED  BY <1>1, <1>3, <1>4, <1>5

\* So does a function that is changed at one element.
LEMMA SumExcept ==
  ASSUME NEW S, IsFiniteSet(S), NEW f \in [S -> Int], NEW e \in S, NEW v \in Int
  PROVE  /\ SumFunction([f EXCEPT ![e] = v]) = SumFunction(f) - f[e] + v
         /\ SumFunction(f) \in Int
<1> DEFINE g == [f EXCEPT ![e] = v]
<1>1. (\A x \in S : f[x] \in Int) /\ g[e] = v /\ (\A x \in S \ {e} : f[x] = g[x]) /\ DOMAIN g = S
  OBVIOUS
<1> HIDE DEF g
<1>2. SumFunctionOnSet(g, S) = SumFunctionOnSet(f, S) - f[e] + g[e]
  BY <1>1, SumChange
<1>3. SumFunctionOnSet(f, S) \in Int
  BY <1>1, SumInt
<1>4. SumFunction(g) = SumFunctionOnSet(g, S) /\ SumFunction(f) = SumFunctionOnSet(f, S)
  BY <1>1 DEF SumFunction
<1> QED  BY <1>1, <1>2, <1>3, <1>4 DEF g

\* What is never less sums up to no less.
LEMMA SumMonotone ==
  ASSUME NEW f, NEW g, NEW S, IsFiniteSet(S),
         \A x \in S : f[x] \in Int /\ g[x] \in Int /\ f[x] <= g[x]
  PROVE  SumFunctionOnSet(f, S) <= SumFunctionOnSet(g, S)
<1> DEFINE T == {s \in SUBSET S : ~ (SumFunctionOnSet(f, s) <= SumFunctionOnSet(g, s))}
<1> SUFFICES ASSUME T # {} PROVE FALSE
  OBVIOUS
<1>1. PICK x \in T : \A y \in T : y \subseteq x => y = x
  <2>1. T \in SUBSET SUBSET S
    OBVIOUS
  <2> HIDE DEF T
  <2> QED  BY <2>1, SmallestSet
<1>2. x \in SUBSET S /\ IsFiniteSet(x) /\ ~ (SumFunctionOnSet(f, x) <= SumFunctionOnSet(g, x))
  BY FS_Subset
<1>3. x # {}
  BY <1>2, SumEmpty
<1> DEFINE p == Pick(x)
           y == x \ {p}
<1>4. /\ p \in x
      /\ SumFunctionOnSet(f, x) = f[p] + SumFunctionOnSet(f, y)
      /\ SumFunctionOnSet(g, x) = g[p] + SumFunctionOnSet(g, y)
  BY <1>2, <1>3, SumStep
<1>5. SumFunctionOnSet(f, y) <= SumFunctionOnSet(g, y)
  BY <1>1, <1>2, <1>4
<1>6. SumFunctionOnSet(f, y) \in Int /\ SumFunctionOnSet(g, y) \in Int
  <2>1. y \in SUBSET S /\ IsFiniteSet(y)
    BY <1>2, FS_Subset
  <2> HIDE DEF y
  <2> QED  BY <2>1, SumInt
<1>7. f[p] \in Int /\ g[p] \in Int /\ f[p] <= g[p]
  BY <1>2, <1>4
<1> HIDE DEF p, y
<1> QED  BY <1>2, <1>4, <1>5, <1>6, <1>7

\* A sum of zeros.
LEMMA SumZero ==
  ASSUME NEW f, NEW S, IsFiniteSet(S), \A x \in S : f[x] = 0
  PROVE  SumFunctionOnSet(f, S) = 0
<1> DEFINE T == {s \in SUBSET S : SumFunctionOnSet(f, s) # 0}
<1> SUFFICES ASSUME T # {} PROVE FALSE
  OBVIOUS
<1>1. PICK x \in T : \A y \in T : y \subseteq x => y = x
  <2>1. T \in SUBSET SUBSET S
    OBVIOUS
  <2> HIDE DEF T
  <2> QED  BY <2>1, SmallestSet
<1>2. x \in SUBSET S /\ IsFiniteSet(x) /\ x # {}
  BY FS_Subset, SumEmpty
<1>3. Pick(x) \in x /\ SumFunctionOnSet(f, x) = f[Pick(x)] + SumFunctionOnSet(f, x \ {Pick(x)})
  BY <1>2, SumStep
<1>4. SumFunctionOnSet(f, x \ {Pick(x)}) = 0
  BY <1>1, <1>2, <1>3
<1> QED  BY <1>2, <1>3, <1>4

\* What is zero need not be summed.
LEMMA SumDropZeros ==
  ASSUME NEW f, NEW T, IsFiniteSet(T), NEW S \in SUBSET T,
         \A x \in T : f[x] \in Int, \A x \in T \ S : f[x] = 0
  PROVE  SumFunctionOnSet(f, S) = SumFunctionOnSet(f, T)
<1> DEFINE Bad == {s \in SUBSET T : S \subseteq s /\ SumFunctionOnSet(f, s) # SumFunctionOnSet(f, S)}
<1>1. ASSUME Bad # {} PROVE FALSE
  <2>1. PICK s \in Bad : \A t \in Bad : t \subseteq s => t = s
    <3>1. Bad \in SUBSET SUBSET T
      OBVIOUS
    <3> HIDE DEF Bad
    <3> QED  BY <1>1, <3>1, SmallestSet
  <2>2. s \in SUBSET T /\ S \subseteq s /\ IsFiniteSet(s) /\ s # S
    BY FS_Subset
  <2>3. PICK e \in s : e \notin S
    BY <2>2
  <2>4. SumFunctionOnSet(f, s) = f[e] + SumFunctionOnSet(f, s \ {e})
    BY <2>2, SumRemove
  <2>5. s \ {e} \notin Bad
    BY <2>1
  <2>6. SumFunctionOnSet(f, s \ {e}) = SumFunctionOnSet(f, S)
    BY <2>2, <2>3, <2>5
  <2>7. f[e] = 0 /\ SumFunctionOnSet(f, S) \in Int
    BY <2>2, <2>3, FS_Subset, SumInt
  <2> QED  BY <2>1, <2>4, <2>6, <2>7
<1> QED  BY <1>1

\* A sum of natural numbers is one, and no less than any of them.
LEMMA SumNat ==
  ASSUME NEW f, NEW S, IsFiniteSet(S), \A x \in S : f[x] \in Nat
  PROVE  /\ SumFunctionOnSet(f, S) \in Nat
         /\ \A e \in S : f[e] <= SumFunctionOnSet(f, S)
<1> DEFINE zero == [x \in S |-> 0]
<1>1. ASSUME NEW s \in SUBSET S PROVE SumFunctionOnSet(f, s) \in Nat
  <2>1. IsFiniteSet(s) /\ \A x \in s : f[x] \in Int /\ zero[x] \in Int /\ zero[x] <= f[x]
    BY FS_Subset
  <2>2. \A x \in s : zero[x] = 0
    OBVIOUS
  <2> HIDE DEF zero
  <2>3. SumFunctionOnSet(f, s) \in Int /\ SumFunctionOnSet(zero, s) = 0
    BY <2>1, <2>2, SumInt, SumZero
  <2>4. SumFunctionOnSet(zero, s) <= SumFunctionOnSet(f, s)
    BY <2>1, SumMonotone
  <2> QED  BY <2>3, <2>4
<1>2. ASSUME NEW e \in S PROVE f[e] <= SumFunctionOnSet(f, S)
  <2>1. SumFunctionOnSet(f, S) = f[e] + SumFunctionOnSet(f, S \ {e})
    BY SumRemove
  <2>2. SumFunctionOnSet(f, S \ {e}) \in Nat /\ f[e] \in Nat
    BY <1>1
  <2> QED  BY <2>1, <2>2
<1> QED  BY <1>1, <1>2

\* A part of what is summed is no more than all.
LEMMA SumSubset ==
  ASSUME NEW f, NEW T, IsFiniteSet(T), \A x \in T : f[x] \in Nat, NEW S \in SUBSET T
  PROVE  SumFunctionOnSet(f, S) <= SumFunctionOnSet(f, T)
<1> DEFINE g == [x \in T |-> IF x \in S THEN f[x] ELSE 0]
<1>1. /\ \A x \in T : g[x] \in Int /\ f[x] \in Int /\ g[x] <= f[x]
      /\ \A x \in T \ S : g[x] = 0
      /\ \A x \in S : f[x] = g[x]
  OBVIOUS
<1>2. IsFiniteSet(S)
  BY FS_Subset
<1> HIDE DEF g
<1>3. SumFunctionOnSet(g, S) = SumFunctionOnSet(g, T)
  BY <1>1, SumDropZeros
<1>4. SumFunctionOnSet(f, S) = SumFunctionOnSet(g, S)
  BY <1>1, <1>2, SumSame
<1>5. SumFunctionOnSet(g, T) <= SumFunctionOnSet(f, T)
  BY <1>1, SumMonotone
<1> QED  BY <1>3, <1>4, <1>5

\* Two sets that have nothing in common.
LEMMA SumDisjoint ==
  ASSUME NEW f, NEW S, IsFiniteSet(S), NEW T, IsFiniteSet(T), S \cap T = {},
         \A x \in S \cup T : f[x] \in Int
  PROVE  SumFunctionOnSet(f, S \cup T) = SumFunctionOnSet(f, S) + SumFunctionOnSet(f, T)
<1> DEFINE Bad == {s \in SUBSET S : SumFunctionOnSet(f, s \cup T) # SumFunctionOnSet(f, s) + SumFunctionOnSet(f, T)}
<1> SUFFICES ASSUME Bad # {} PROVE FALSE
  OBVIOUS
<1>1. PICK s \in Bad : \A y \in Bad : y \subseteq s => y = s
  <2>1. Bad \in SUBSET SUBSET S
    OBVIOUS
  <2> HIDE DEF Bad
  <2> QED  BY <2>1, SmallestSet
<1>2. /\ s \in SUBSET S /\ IsFiniteSet(s)
      /\ SumFunctionOnSet(f, s \cup T) # SumFunctionOnSet(f, s) + SumFunctionOnSet(f, T)
  BY FS_Subset
<1>3. SumFunctionOnSet(f, T) \in Int
  BY SumInt
<1>4. s # {}
  <2> SUFFICES ASSUME s = {} PROVE FALSE
    OBVIOUS
  <2>1. s \cup T = T /\ SumFunctionOnSet(f, s) = 0
    BY SumEmpty
  <2> QED  BY <1>2, <1>3, <2>1
<1> PICK p \in s : TRUE
  BY <1>4
<1> DEFINE y == s \ {p}
<1>5. y \in SUBSET S /\ IsFiniteSet(y) /\ SumFunctionOnSet(f, y \cup T) = SumFunctionOnSet(f, y) + SumFunctionOnSet(f, T)
  BY <1>1, <1>2, FS_Subset
<1>6. SumFunctionOnSet(f, s) = f[p] + SumFunctionOnSet(f, y)
  BY <1>2, SumRemove
<1>7. SumFunctionOnSet(f, y) \in Int /\ f[p] \in Int
  <2>1. \A x \in y : f[x] \in Int
    BY <1>2
  <2> HIDE DEF y
  <2> QED  BY <1>2, <1>5, <2>1, SumInt
<1>8. SumFunctionOnSet(f, s \cup T) = f[p] + SumFunctionOnSet(f, y \cup T)
  <2> DEFINE U == y \cup T
  <2>1. s \cup T = U \cup {p} /\ p \notin U
    BY <1>2
  <2>2. IsFiniteSet(U) /\ \A x \in U : f[x] \in Int
    BY <1>2, <1>5, FS_Union
  <2> HIDE DEF U, y
  <2>3. SumFunctionOnSet(f, U \cup {p}) = f[p] + SumFunctionOnSet(f, U)
    BY <1>7, <2>1, <2>2, SumAdd
  <2> QED  BY <2>1, <2>3 DEF U
<1> HIDE DEF y
<1> QED  BY <1>2, <1>3, <1>5, <1>6, <1>7, <1>8

\* What is summed may be renamed: h takes each element of S to one of its own.
LEMMA SumRenamed ==
  ASSUME NEW f, NEW g, NEW h, NEW S, IsFiniteSet(S),
         \A x \in S : f[x] \in Int /\ g[h[x]] = f[x],
         \A x, y \in S : h[x] = h[y] => x = y
  PROVE  SumFunctionOnSet(g, {h[x] : x \in S}) = SumFunctionOnSet(f, S)
<1> DEFINE Image(s) == {h[x] : x \in s}
           T == {s \in SUBSET S : SumFunctionOnSet(g, Image(s)) # SumFunctionOnSet(f, s)}
<1> SUFFICES ASSUME T # {} PROVE FALSE
  OBVIOUS
<1>1. PICK s \in T : \A y \in T : y \subseteq s => y = s
  <2>1. T \in SUBSET SUBSET S
    OBVIOUS
  <2> HIDE DEF T
  <2> QED  BY <2>1, SmallestSet
<1>2. s \in SUBSET S /\ IsFiniteSet(s) /\ SumFunctionOnSet(g, Image(s)) # SumFunctionOnSet(f, s)
  BY FS_Subset
<1>3. s # {}
  BY <1>2, SumEmpty
<1> PICK p \in s : TRUE
  BY <1>3
<1> DEFINE y == s \ {p}
<1>4. SumFunctionOnSet(f, s) = f[p] + SumFunctionOnSet(f, y)
  BY <1>2, SumRemove
<1>5. SumFunctionOnSet(g, Image(y)) = SumFunctionOnSet(f, y)
  BY <1>1, <1>2
<1>6. Image(s) = Image(y) \cup {h[p]} /\ h[p] \notin Image(y)
  BY <1>2
<1>7. IsFiniteSet(Image(y)) /\ (\A z \in Image(y) : g[z] \in Int) /\ g[h[p]] = f[p] /\ f[p] \in Int
  <2>1. IsFiniteSet(y) /\ y \in SUBSET S
    BY <1>2, FS_Subset
  <2>2. IsFiniteSet(Image(y))
    <3>1. [z \in y |-> h[z]] \in Surjection(y, Image(y))
      BY DEF Surjection
    <3> HIDE DEF y, Image
    <3> QED  BY <2>1, <3>1, FS_Surjection
  <2> QED  BY <1>2, <2>1, <2>2
<1> HIDE DEF Image, y
<1>8. SumFunctionOnSet(g, Image(y) \cup {h[p]}) = g[h[p]] + SumFunctionOnSet(g, Image(y))
  BY <1>6, <1>7, SumAdd
<1> QED  BY <1>2, <1>4, <1>5, <1>6, <1>7, <1>8

\* The parts of a set, each element being in the part that b says, sum up to the whole.
LEMMA SumOfParts ==
  ASSUME NEW f, NEW S, IsFiniteSet(S), \A x \in S : f[x] \in Int,
         NEW I, IsFiniteSet(I), NEW b, \A x \in S : b[x] \in I
  PROVE  SumFunctionOnSet([i \in I |-> SumFunctionOnSet(f, {x \in S : b[x] = i})], I)
           = SumFunctionOnSet(f, S)
<1> DEFINE Part(s, i) == {x \in s : b[x] = i}
           Parts(s) == [i \in I |-> SumFunctionOnSet(f, Part(s, i))]
           T == {s \in SUBSET S : SumFunctionOnSet(Parts(s), I) # SumFunctionOnSet(f, s)}
<1> SUFFICES ASSUME T # {} PROVE FALSE
  OBVIOUS
<1>1. PICK x \in T : \A y \in T : y \subseteq x => y = x
  <2>1. T \in SUBSET SUBSET S
    OBVIOUS
  <2> HIDE DEF T
  <2> QED  BY <2>1, SmallestSet
<1>2. \A s \in SUBSET S : /\ IsFiniteSet(s) /\ SumFunctionOnSet(f, s) \in Int
                          /\ \A i \in I : Part(s, i) \in SUBSET S
  BY FS_Subset, SumInt
<1>3. \A s \in SUBSET S : \A i \in I : Parts(s)[i] = SumFunctionOnSet(f, Part(s, i)) /\ Parts(s)[i] \in Int
  BY <1>2
<1>4. x \in SUBSET S /\ SumFunctionOnSet(Parts(x), I) # SumFunctionOnSet(f, x)
  OBVIOUS
<1>5. x # {}
  <2> SUFFICES ASSUME x = {} PROVE FALSE
    OBVIOUS
  <2>1. \A i \in I : Part(x, i) = {}
    OBVIOUS
  <2>2. \A i \in I : Parts(x)[i] = 0
    BY <1>3, <2>1, SumEmpty
  <2> HIDE DEF Parts
  <2>3. SumFunctionOnSet(Parts(x), I) = 0
    BY <2>2, SumZero
  <2> QED  BY <1>4, <2>3, SumEmpty
<1> DEFINE p == Pick(x)
           y == x \ {p}
<1>6. p \in x /\ SumFunctionOnSet(f, x) = f[p] + SumFunctionOnSet(f, y)
  BY <1>2, <1>4, <1>5, SumStep
<1>7. SumFunctionOnSet(Parts(y), I) = SumFunctionOnSet(f, y) /\ y \in SUBSET S
  BY <1>1, <1>4, <1>6
<1>8. b[p] \in I /\ f[p] \in Int /\ SumFunctionOnSet(f, y) \in Int
  BY <1>2, <1>4, <1>6, <1>7
<1>9. \A i \in I \ {b[p]} : Parts(y)[i] = Parts(x)[i]
  <2>1. \A i \in I \ {b[p]} : Part(y, i) = Part(x, i)
    OBVIOUS
  <2> QED  BY <1>3, <1>4, <1>7, <2>1
<1>10. Parts(x)[b[p]] = f[p] + Parts(y)[b[p]]
  <2> DEFINE P == Part(y, b[p])
  <2>1. Part(x, b[p]) = P \cup {p} /\ p \notin P
    BY <1>6
  <2>2. IsFiniteSet(P) /\ \A z \in P : f[z] \in Int
    BY <1>2, <1>7, <1>8
  <2> HIDE DEF P, p
  <2>3. SumFunctionOnSet(f, P \cup {p}) = f[p] + SumFunctionOnSet(f, P)
    BY <1>8, <2>1, <2>2, SumAdd
  <2>4. Parts(x)[b[p]] = SumFunctionOnSet(f, Part(x, b[p])) /\ Parts(y)[b[p]] = SumFunctionOnSet(f, P)
    BY <1>3, <1>4, <1>7, <1>8 DEF P
  <2> QED  BY <2>1, <2>3, <2>4
<1>11. /\ \A i \in I : Parts(x)[i] \in Int /\ Parts(y)[i] \in Int
       /\ SumFunctionOnSet(Parts(y), I) \in Int
  <2>1. \A i \in I : Parts(x)[i] \in Int /\ Parts(y)[i] \in Int
    BY <1>3, <1>4, <1>7
  <2> HIDE DEF Parts
  <2> QED  BY <2>1, SumInt
<1> HIDE DEF Parts, p, y
<1>12. SumFunctionOnSet(Parts(x), I) = SumFunctionOnSet(Parts(y), I) - Parts(y)[b[p]] + Parts(x)[b[p]]
  BY <1>8, <1>9, <1>11, SumChange
<1> QED  BY <1>4, <1>6, <1>7, <1>8, <1>10, <1>11, <1>12

\* A dictionary that counts d more for e, and has it as a key from now on.
LEMMA SumCount ==
  ASSUME NEW f, NEW g, NEW e, NEW d \in Int,
         IsFiniteSet(DOMAIN f), \A x \in DOMAIN f : f[x] \in Int,
         DOMAIN g = DOMAIN f \cup {e}, \A x \in DOMAIN f : x # e => g[x] = f[x],
         g[e] = (IF e \in DOMAIN f THEN f[e] ELSE 0) + d
  PROVE  SumFunction(g) = SumFunction(f) + d /\ SumFunction(f) \in Int
<1> DEFINE S == DOMAIN f
<1>1. SumFunction(f) = SumFunctionOnSet(f, S) /\ SumFunction(g) = SumFunctionOnSet(g, S \cup {e})
  BY DEF SumFunction
<1>2. SumFunctionOnSet(f, S) \in Int
  BY SumInt
<1>3. CASE e \in S
  <2>1. S \cup {e} = S /\ g[e] = f[e] + d /\ f[e] \in Int
    BY <1>3
  <2>2. SumFunctionOnSet(g, S) = SumFunctionOnSet(f, S) - f[e] + g[e]
    <3>1. g[e] \in Int /\ \A x \in S \ {e} : f[x] = g[x]
      BY <2>1
    <3>2. IsFiniteSet(S) /\ \A x \in S : f[x] \in Int
      OBVIOUS
    <3> HIDE DEF S
    <3> QED  BY <1>3, <3>1, <3>2, SumChange
  <2> HIDE DEF S
  <2>3. SumFunctionOnSet(g, S) = SumFunctionOnSet(f, S) + d
    BY <1>2, <2>1, <2>2
  <2>4. SumFunction(g) = SumFunctionOnSet(g, S)
    BY <1>1, <2>1
  <2> QED  BY <1>1, <1>2, <2>3, <2>4
<1>4. CASE e \notin S
  <2>1. g[e] = d /\ \A x \in S : f[x] = g[x] /\ g[x] \in Int
    BY <1>4
  <2>2. IsFiniteSet(S)
    OBVIOUS
  <2> HIDE DEF S
  <2>3. SumFunctionOnSet(g, S \cup {e}) = g[e] + SumFunctionOnSet(g, S)
    BY <1>4, <2>1, <2>2, SumAdd
  <2>4. SumFunctionOnSet(g, S) = SumFunctionOnSet(f, S)
    BY <2>1, <2>2, SumSame
  <2> QED  BY <1>1, <1>2, <2>1, <2>3, <2>4
<1> QED  BY <1>1, <1>2, <1>3, <1>4
--------------------------------------------------------------------------------
(* Ranks *)

\* How many elements of a set of integers are i or less.
Rank(T, i) == Cardinality({j \in T : j <= i})

\* A rank is one of the numbers up to that of the elements.
LEMMA RankRange ==
  ASSUME NEW T, IsFiniteSet(T), T \subseteq Int, NEW i \in T
  PROVE  IsFiniteSet({j \in T : j <= i}) /\ Rank(T, i) \in 1 .. Cardinality(T)
<1>1. PICK S : S = {j \in T : j <= i}
  OBVIOUS
<1>2. S \subseteq T /\ i \in S
  BY <1>1
<1>3. IsFiniteSet(S) /\ Cardinality(S) <= Cardinality(T) /\ Cardinality(S) \in Nat /\ Cardinality(T) \in Nat
  BY <1>2, FS_Subset, FS_CardinalityType
<1>4. Cardinality(S) # 0
  BY <1>2, <1>3, FS_EmptySet
<1> QED  BY <1>1, <1>3, <1>4 DEF Rank

\* A greater element comes last, and leaves the others as they are.
LEMMA RankLast ==
  ASSUME NEW T, IsFiniteSet(T), T \subseteq Int, NEW e \in Int, \A i \in T : i < e
  PROVE  /\ Rank(T \cup {e}, e) = Cardinality(T) + 1 /\ Cardinality(T \cup {e}) = Cardinality(T) + 1
         /\ \A i \in T : Rank(T \cup {e}, i) = Rank(T, i)
<1>1. e \notin T /\ \A i \in T : i \in Int /\ i <= e /\ ~ (e <= i)
  OBVIOUS
<1>2. {j \in T \cup {e} : j <= e} = T \cup {e}
  <2>1. \A j \in T \cup {e} : j <= e
    <3>1. e <= e /\ \A j \in T : j <= e
      BY <1>1
    <3> QED  BY <3>1
  <2> QED  BY <2>1
<1>3. Cardinality(T \cup {e}) = Cardinality(T) + 1
  BY <1>1, FS_AddElement
<1>4. \A i \in T : {j \in T \cup {e} : j <= i} = {j \in T : j <= i}
  BY <1>1
<1> QED  BY <1>2, <1>3, <1>4 DEF Rank

\* Every number up to that of its elements is the rank of exactly one element of a set of integers.
LEMMA RankedOnce ==
  ASSUME NEW T, IsFiniteSet(T), T \subseteq Int, NEW n \in 1 .. Cardinality(T)
  PROVE  /\ \E i \in T : Rank(T, i) = n
         /\ \A i, j \in T : Rank(T, i) = Rank(T, j) => i = j
<1>1. \A i \in T : /\ IsFiniteSet({j \in T : j <= i}) /\ Rank(T, i) \in 1 .. Cardinality(T)
  BY RankRange
<1>2. ASSUME NEW i \in T, NEW j \in T, i < j PROVE Rank(T, i) < Rank(T, j)
  <2>1. PICK S : S = {k \in T : k <= i}
    OBVIOUS
  <2>2. PICK R : R = {k \in T : k <= j}
    OBVIOUS
  <2>3. S \subseteq R /\ j \in R /\ j \notin S
    <3>1. i \in Int /\ j \in Int /\ i < j
      BY <1>2
    <3>2. \A k \in T : k \in Int
      OBVIOUS
    <3>3. ASSUME NEW k \in S PROVE k \in R
      <4>1. k \in T /\ k \in Int /\ k <= i
        BY <2>1, <3>2
      <4>2. k <= j
        BY <3>1, <4>1
      <4> QED  BY <2>2, <4>1, <4>2
    <3>4. j <= j /\ ~ (j <= i)
      BY <3>1
    <3> QED  BY <2>1, <2>2, <3>3, <3>4
  <2>4. IsFiniteSet(R) /\ Cardinality(R) \in Nat /\ Cardinality(S) \in Nat
    BY <1>1, <2>1, <2>2, FS_CardinalityType
  <2>5. Cardinality(S) <= Cardinality(R) /\ (Cardinality(S) = Cardinality(R) => S = R)
    BY <2>3, <2>4, FS_Subset
  <2> QED  BY <2>1, <2>2, <2>3, <2>4, <2>5 DEF Rank
<1>3. ASSUME NEW i \in T, NEW j \in T, Rank(T, i) = Rank(T, j) PROVE i = j
  <2>1. i \in Int /\ j \in Int /\ Rank(T, i) \in Int /\ Rank(T, j) \in Int
    <3>1. PICK card \in Nat : card = Cardinality(T)
      BY FS_CardinalityType
    <3>2. Rank(T, i) \in 1 .. card /\ Rank(T, j) \in 1 .. card
      BY <1>1, <3>1, Zenon
    <3> QED  BY <3>2
  <2>2. ~ (i < j) /\ ~ (j < i)
    BY <1>2, <1>3, <2>1
  <2> QED  BY <2>1, <2>2
<1>4. \E i \in T : Rank(T, i) = n
  <2>1. PICK card : card = Cardinality(T)
    OBVIOUS
  <2>2. card \in Nat /\ n \in 1 .. card
    BY <2>1, FS_CardinalityType
  <2>3. PICK f : f = [i \in T |-> Rank(T, i)]
    OBVIOUS
  <2>4. f \in [T -> 1 .. card] /\ \A i, j \in T : f[i] = f[j] => i = j
    BY <1>1, <1>3, <2>1, <2>3
  <2>5. f \in Injection(T, 1 .. card)
    BY <2>4 DEF Injection, IsInjective
  <2>6. IsFiniteSet(1 .. card) /\ Cardinality(1 .. card) = card
    BY <2>2, FS_Interval
  <2>7. f \in Surjection(T, 1 .. card)
    BY <2>1, <2>5, <2>6, FS_Injection
  <2>8. \E i \in T : f[i] = n
    BY <2>2, <2>7 DEF Surjection
  <2> QED  BY <2>3, <2>8
<1> QED  BY <1>3, <1>4

================================================================================
