---------------------------- MODULE Sums_proofs -----------------------------
(***************************************************************************)
(* Induction over finite data, and sums.  The totals of this project       *)
(* (TotalOf, LyapunovV, the debt bound) are folds of the community module  *)
(* Functions: a recursive function that CHOOSE picks.  The lemmas below    *)
(* establish that such a function exists, so that its defining equation    *)
(* may be used, and from it the laws a proof about totals needs: how a sum *)
(* changes when one term changes and when a term is added, how samples are *)
(* counted value by value, and how a sum compares with that of squares.    *)
(* Induction is stated about a set of sets, so that it can be instantiated.*)
(***************************************************************************)
EXTENDS Integers, Functions, FiniteSetTheorems, TLAPS

\* A set of subsets of S that holds {} and is closed under adding an element
\* holds S.
LEMMA FiniteSetInduction ==
    ASSUME NEW S, IsFiniteSet(S), NEW P, {} \in P,
           \A T \in SUBSET S, x \in S : T \in P /\ x \notin T => T \cup {x} \in P
    PROVE  S \in P
<1> DEFINE Bad == (SUBSET S) \ P
<1>1. ASSUME Bad # {} PROVE FALSE
  <2>1. IsWellFoundedOn(StrictSubsetOrdering(S), SUBSET S)
    BY FS_StrictSubsetOrderingWellFounded, FS_FiniteSubsetsOfFinite
  <2>2. PICK D \in Bad : \A E \in Bad : <<E, D>> \notin StrictSubsetOrdering(S)
    <3>1. Bad \subseteq SUBSET S
      OBVIOUS
    <3> HIDE DEF Bad
    <3> QED BY <1>1, <2>1, <3>1, WFMin
  <2>3. PICK x \in D : TRUE
    BY <2>2
  <2>4. <<D \ {x}, D>> \in StrictSubsetOrdering(S)
    BY <2>2, <2>3 DEF StrictSubsetOrdering
  <2>5. D \ {x} \in P
    BY <2>2, <2>4
  <2>6. (D \ {x}) \cup {x} = D
    BY <2>3
  <2>7. D \in P
    <3>1. D \ {x} \in SUBSET S /\ x \in S /\ x \notin D \ {x}
      BY <2>2, <2>3
    <3> QED BY <2>5, <2>6, <3>1
  <2> QED BY <2>2, <2>7
<1> QED BY <1>1

\* A set of naturals that holds 0 and is closed under successor is Nat.
LEMMA NatSetInduction ==
    ASSUME NEW P, 0 \in P, \A n \in Nat : n \in P => n + 1 \in P
    PROVE  \A n \in Nat : n \in P
<1> DEFINE Bad  == Nat \ P
           Less == OpToRel(<, Nat)
<1>1. IsWellFoundedOn(Less, Nat)
  BY NatLessThanWellFounded
<1>2. \A m, n \in Nat : m < n => <<m, n>> \in Less
  BY DEF OpToRel
<1> HIDE DEF Less
<1>3. ASSUME Bad # {} PROVE FALSE
  <2>1. PICK n \in Bad : \A m \in Bad : <<m, n>> \notin Less
    <3>1. Bad \subseteq Nat
      OBVIOUS
    <3> HIDE DEF Bad
    <3> QED BY <1>1, <1>3, <3>1, WFMin
  <2>2. n - 1 \in Nat /\ n - 1 < n /\ (n - 1) + 1 = n
    BY <2>1
  <2>3. n - 1 \in P
    BY <1>2, <2>1, <2>2
  <2> QED BY <2>1, <2>2, <2>3
<1> QED BY <1>3

\* Induction along an interval.
LEMMA IntervalInduction ==
    ASSUME NEW m \in Int, NEW n \in Int, NEW P,
           m \in P, \A k \in m + 1 .. n : k - 1 \in P => k \in P
    PROVE  \A k \in m .. n : k \in P
<1> DEFINE Q == {d \in Nat : m + d <= n => m + d \in P}
<1>1. 0 \in Q
  BY m + 0 = m
<1>2. ASSUME NEW d \in Nat, d \in Q PROVE d + 1 \in Q
  <2>1. CASE m + (d + 1) <= n
    <3>1. m + (d + 1) \in m + 1 .. n /\ (m + (d + 1)) - 1 = m + d /\ m + d <= n
      BY <2>1
    <3>2. m + d \in P
      BY <1>2, <3>1
    <3> QED BY <3>1, <3>2
  <2> QED BY <2>1
<1>3. \A d \in Nat : d \in Q
  <2> HIDE DEF Q
  <2> QED BY <1>1, <1>2, NatSetInduction
<1> SUFFICES ASSUME NEW k \in m .. n PROVE k \in P
  OBVIOUS
<1>4. k - m \in Nat /\ m + (k - m) = k /\ k <= n
  OBVIOUS
<1>5. k - m \in Q
  BY <1>3, <1>4
<1> QED BY <1>4, <1>5

\* g is the recursion along m .. n that starts with base.
Recursion(g, m, n, base, step) ==
    \A k \in m .. n : g[k] = IF k = m THEN base ELSE step[<<k, g[k - 1]>>]

\* A recursion whose step is a function on S has a solution.
LEMMA RecursionExists ==
    ASSUME NEW m \in Int, NEW n \in Int, m <= n, NEW S, NEW base \in S,
           NEW step \in [Int \X S -> S]
    PROVE  \E g \in [m .. n -> S] : Recursion(g, m, n, base, step)
<1> DEFINE Solves(g, j) ==
              /\ g \in [m .. j -> S]
              /\ \A k \in m .. j : g[k] = IF k = m THEN base ELSE step[<<k, g[k - 1]>>]
           P == {j \in m .. n : \E g : Solves(g, j)}
<1>1. m \in P
  <2>1. Solves([k \in m .. m |-> base], m)
    OBVIOUS
  <2> HIDE DEF Solves
  <2> QED BY <2>1
<1>2. ASSUME NEW j \in m + 1 .. n, j - 1 \in P PROVE j \in P
  <2> PICK g : Solves(g, j - 1)
    BY <1>2
  <2> DEFINE v == step[<<j, g[j - 1]>>]
             h == [k \in m .. j |-> IF k = j THEN v ELSE g[k]]
  <2>1. j - 1 \in m .. j - 1 /\ j \in Int /\ g[j - 1] \in S
    OBVIOUS
  <2>2. v \in S
    BY <2>1
  <2>3. \A k \in m .. j - 1 : /\ g[k] \in S
                              /\ g[k] = IF k = m THEN base ELSE step[<<k, g[k - 1]>>]
    OBVIOUS
  <2> HIDE DEF v
  <2>4. h \in [m .. j -> S] /\ h[j] = v /\ \A k \in m .. j - 1 : h[k] = g[k]
    BY <2>2, <2>3
  <2> HIDE DEF h
  <2>5. ASSUME NEW k \in m .. j PROVE h[k] = IF k = m THEN base ELSE step[<<k, h[k - 1]>>]
    <3>1. CASE k = j
      <4>1. k # m /\ k - 1 \in m .. j - 1
        BY <3>1
      <4> QED BY <2>4, <3>1, <4>1 DEF v
    <3>2. CASE k # j
      <4>1. k \in m .. j - 1
        BY <3>2
      <4>2. k # m => k - 1 \in m .. j - 1
        BY <4>1
      <4> QED BY <2>3, <2>4, <4>1, <4>2
    <3> QED BY <3>1, <3>2
  <2>6. Solves(h, j)
    BY <2>4, <2>5
  <2> HIDE DEF Solves
  <2> QED BY <2>6
<1>3. n \in P
  <2> HIDE DEF P
  <2>1. \A k \in m .. n : k \in P
    BY <1>1, <1>2, IntervalInduction
  <2> QED BY <2>1
<1> QED BY <1>3 DEF Recursion

-----------------------------------------------------------------------------
(* The recursion behind a sum has a solution.                              *)

\* The element the fold takes out of a set.
Picked(s) == CHOOSE x \in s : TRUE

\* g is the sum of f over every set in D.
Adds(g, f, D) ==
    g = [s \in D |-> IF s = {} THEN 0 ELSE f[Picked(s)] + g[s \ {Picked(s)}]]

Smaller(S, n) == {s \in SUBSET S : Cardinality(s) <= n}

LEMMA SumRecursionExists ==
    ASSUME NEW S, IsFiniteSet(S), NEW f, \A x \in S : f[x] \in Int
    PROVE  \E g \in [SUBSET S -> Int] : Adds(g, f, SUBSET S)
<1> DEFINE P == {n \in Nat : \E g \in [Smaller(S, n) -> Int] : Adds(g, f, Smaller(S, n))}
<1>1. ASSUME NEW s \in SUBSET S
      PROVE  /\ IsFiniteSet(s) /\ Cardinality(s) \in Nat
             /\ Cardinality(s) = 0 <=> s = {}
             /\ s # {} => /\ Picked(s) \in s /\ f[Picked(s)] \in Int
                          /\ s \ {Picked(s)} \in SUBSET S
                          /\ Cardinality(s \ {Picked(s)}) = Cardinality(s) - 1
  <2>1. IsFiniteSet(s) /\ Cardinality(s) \in Nat /\ (Cardinality(s) = 0 <=> s = {})
    BY FS_Subset, FS_CardinalityType, FS_EmptySet
  <2>2. s # {} => Picked(s) \in s
    BY DEF Picked
  <2> QED BY <2>1, <2>2, FS_RemoveElement
<1>2. \A s \in SUBSET S : Cardinality(s) \in Nat /\ (Cardinality(s) = 0 <=> s = {})
  BY <1>1
<1>3. 0 \in P
  <2> DEFINE g == [s \in Smaller(S, 0) |-> 0]
  <2>1. ASSUME NEW s \in Smaller(S, 0) PROVE s = {}
    <3>1. s \in SUBSET S /\ Cardinality(s) <= 0
      BY DEF Smaller
    <3>2. Cardinality(s) \in Nat /\ (Cardinality(s) = 0 <=> s = {})
      BY <1>2, <3>1
    <3> QED BY <3>1, <3>2
  <2>2. g \in [Smaller(S, 0) -> Int] /\ Adds(g, f, Smaller(S, 0))
    BY <2>1 DEF Adds
  <2> QED BY <2>2
<1>4. ASSUME NEW n \in Nat, n \in P PROVE n + 1 \in P
  <2> PICK g \in [Smaller(S, n) -> Int] : Adds(g, f, Smaller(S, n))
    BY <1>4
  <2> DEFINE h == [s \in Smaller(S, n + 1) |->
                      IF s = {} THEN 0 ELSE f[Picked(s)] + g[s \ {Picked(s)}]]
  <2>1. ASSUME NEW s \in Smaller(S, n + 1), s # {}
        PROVE  f[Picked(s)] \in Int /\ s \ {Picked(s)} \in Smaller(S, n)
    BY <1>1, <2>1 DEF Smaller
  <2>2. h \in [Smaller(S, n + 1) -> Int]
    BY <2>1
  <2>3. \A s \in Smaller(S, n) : s \in Smaller(S, n + 1) /\ h[s] = g[s]
    <3> SUFFICES ASSUME NEW s \in Smaller(S, n)
                 PROVE  s \in Smaller(S, n + 1) /\ h[s] = g[s]
      OBVIOUS
    <3>1. s \in Smaller(S, n + 1)
      <4>1. s \in SUBSET S /\ Cardinality(s) <= n
        BY DEF Smaller
      <4>2. Cardinality(s) \in Nat
        BY <1>2, <4>1
      <4>3. Cardinality(s) <= n + 1
        BY <4>1, <4>2
      <4> QED BY <4>1, <4>3 DEF Smaller
    <3>2. g[s] = IF s = {} THEN 0 ELSE f[Picked(s)] + g[s \ {Picked(s)}]
      BY DEF Adds
    <3> QED BY <3>1, <3>2
  <2>4. Adds(h, f, Smaller(S, n + 1))
    <3>1. \A s \in Smaller(S, n + 1) :
              h[s] = IF s = {} THEN 0 ELSE f[Picked(s)] + h[s \ {Picked(s)}]
      BY <2>1, <2>3
    <3> HIDE DEF h
    <3> QED BY <2>2, <3>1 DEF Adds
  <2> HIDE DEF h
  <2>5. n + 1 \in Nat
    OBVIOUS
  <2> QED BY <2>2, <2>4, <2>5
<1>5. Cardinality(S) \in P
  <2> HIDE DEF P
  <2>1. \A n \in Nat : n \in P
    BY <1>3, <1>4, NatSetInduction
  <2> QED BY <2>1, FS_CardinalityType
<1>6. Smaller(S, Cardinality(S)) = SUBSET S
  BY FS_Subset DEF Smaller
<1> QED BY <1>5, <1>6

LEMMA SumRecursionUnique ==
    ASSUME NEW S, IsFiniteSet(S), NEW f, NEW D, NEW E,
           SUBSET S \subseteq D, SUBSET S \subseteq E,
           NEW g, Adds(g, f, D), NEW h, Adds(h, f, E)
    PROVE  g[S] = h[S]
<1> DEFINE Bad == {s \in SUBSET S : g[s] # h[s]}
<1>1. ASSUME Bad # {} PROVE FALSE
  <2>1. IsWellFoundedOn(StrictSubsetOrdering(S), SUBSET S)
    BY FS_StrictSubsetOrderingWellFounded, FS_FiniteSubsetsOfFinite
  <2>2. PICK s \in Bad : \A t \in Bad : <<t, s>> \notin StrictSubsetOrdering(S)
    <3>1. Bad \subseteq SUBSET S
      OBVIOUS
    <3> HIDE DEF Bad
    <3> QED BY <1>1, <2>1, <3>1, WFMin
  <2>3. /\ g[s] = IF s = {} THEN 0 ELSE f[Picked(s)] + g[s \ {Picked(s)}]
        /\ h[s] = IF s = {} THEN 0 ELSE f[Picked(s)] + h[s \ {Picked(s)}]
    <3>1. s \in D /\ s \in E
      BY <2>2
    <3> QED BY <3>1 DEF Adds
  <2>4. s # {} => g[s \ {Picked(s)}] = h[s \ {Picked(s)}]
    <3> SUFFICES ASSUME s # {} PROVE g[s \ {Picked(s)}] = h[s \ {Picked(s)}]
      OBVIOUS
    <3>1. Picked(s) \in s
      BY DEF Picked
    <3>2. <<s \ {Picked(s)}, s>> \in StrictSubsetOrdering(S)
      BY <2>2, <3>1 DEF StrictSubsetOrdering
    <3>3. s \ {Picked(s)} \in SUBSET S
      BY <2>2
    <3> QED BY <2>2, <3>2, <3>3
  <2> QED BY <2>2, <2>3, <2>4
<1> QED BY <1>1

-----------------------------------------------------------------------------
(* Laws of sums.                                                           *)

\* The terms of a sum are integers, and there are finitely many.
Summable(f, S) == IsFiniteSet(S) /\ \A x \in S : f[x] \in Int

LEMMA SumSolves ==
    ASSUME NEW f, NEW S, Summable(f, S)
    PROVE  \E g : SumFunctionOnSet(f, S) = g[S] /\ Adds(g, f, SUBSET S)
<1> DEFINE Q(g) == g = [s \in SUBSET S |->
                          IF s = {} THEN 0
                          ELSE f[CHOOSE x \in s : TRUE] + g[s \ {CHOOSE x \in s : TRUE}]]
           iter == CHOOSE g : Q(g)
<1>1. SumFunctionOnSet(f, S) = iter[S]
  BY DEF SumFunctionOnSet, FoldFunctionOnSet, MapThenFoldSet
<1>2. \E g : Q(g)
  <2>1. PICK g \in [SUBSET S -> Int] : Adds(g, f, SUBSET S)
    BY SumRecursionExists DEF Summable
  <2>2. Q(g)
    BY <2>1 DEF Adds, Picked
  <2> HIDE DEF Q
  <2> QED BY <2>2
<1>3. Q(iter)
  <2> HIDE DEF Q
  <2> QED BY <1>2
<1>4. Adds(iter, f, SUBSET S)
  <2> HIDE DEF iter
  <2> QED BY <1>3 DEF Adds, Picked
<1> HIDE DEF iter
<1> QED BY <1>1, <1>4

LEMMA SummableSubset ==
    ASSUME NEW f, NEW S, Summable(f, S), NEW T \in SUBSET S
    PROVE  Summable(f, T)
  BY FS_Subset DEF Summable

LEMMA SumEmpty == ASSUME NEW f PROVE SumFunctionOnSet(f, {}) = 0
<1>1. PICK g : SumFunctionOnSet(f, {}) = g[{}] /\ Adds(g, f, SUBSET {})
  BY SumSolves, FS_EmptySet DEF Summable
<1> QED BY <1>1 DEF Adds

LEMMA SumPicked ==
    ASSUME NEW f, NEW S, Summable(f, S), S # {}
    PROVE  SumFunctionOnSet(f, S)
              = f[Picked(S)] + SumFunctionOnSet(f, S \ {Picked(S)})
<1> DEFINE R == S \ {Picked(S)}
<1>1. R \in SUBSET S /\ Summable(f, R)
  BY SummableSubset
<1>2. PICK g : SumFunctionOnSet(f, S) = g[S] /\ Adds(g, f, SUBSET S)
  BY SumSolves
<1>3. PICK h : SumFunctionOnSet(f, R) = h[R] /\ Adds(h, f, SUBSET R)
  BY <1>1, SumSolves
<1>4. g[R] = h[R]
  <2>1. IsFiniteSet(R) /\ SUBSET R \subseteq SUBSET S /\ SUBSET R \subseteq SUBSET R
    BY <1>1 DEF Summable
  <2> HIDE DEF R
  <2> QED BY <1>2, <1>3, <2>1, SumRecursionUnique
<1>5. g[S] = f[Picked(S)] + g[R]
  BY <1>2 DEF Adds
<1> QED BY <1>2, <1>3, <1>4, <1>5

LEMMA SumType ==
    ASSUME NEW f, NEW S, Summable(f, S)
    PROVE  SumFunctionOnSet(f, S) \in Int
<1> DEFINE Bad == {s \in SUBSET S : SumFunctionOnSet(f, s) \notin Int}
<1>1. ASSUME Bad # {} PROVE FALSE
  <2>1. IsWellFoundedOn(StrictSubsetOrdering(S), SUBSET S)
    BY FS_StrictSubsetOrderingWellFounded, FS_FiniteSubsetsOfFinite DEF Summable
  <2>2. PICK s \in Bad : \A t \in Bad : <<t, s>> \notin StrictSubsetOrdering(S)
    <3>1. Bad \subseteq SUBSET S
      OBVIOUS
    <3> HIDE DEF Bad
    <3> QED BY <1>1, <2>1, <3>1, WFMin
  <2>3. s # {}
    BY <2>2, SumEmpty
  <2>4. Picked(s) \in s
    BY <2>3 DEF Picked
  <2>5. SumFunctionOnSet(f, s) = f[Picked(s)] + SumFunctionOnSet(f, s \ {Picked(s)})
    BY <2>2, <2>3, SummableSubset, SumPicked
  <2>6. SumFunctionOnSet(f, s \ {Picked(s)}) \in Int
    <3>1. <<s \ {Picked(s)}, s>> \in StrictSubsetOrdering(S)
      BY <2>2, <2>4 DEF StrictSubsetOrdering
    <3>2. s \ {Picked(s)} \in SUBSET S
      BY <2>2
    <3> QED BY <2>2, <3>1, <3>2
  <2>7. f[Picked(s)] \in Int
    BY <2>2, <2>4 DEF Summable
  <2> QED BY <2>2, <2>5, <2>6, <2>7
<1> QED BY <1>1

\* Whichever element is taken out, the rest of the sum is the same.
LEMMA SumRemove ==
    ASSUME NEW f, NEW S, Summable(f, S), NEW x \in S
    PROVE  SumFunctionOnSet(f, S) = f[x] + SumFunctionOnSet(f, S \ {x})
<1> DEFINE Splits(s) == \A e \in s :
                           SumFunctionOnSet(f, s) = f[e] + SumFunctionOnSet(f, s \ {e})
           Bad == {s \in SUBSET S : ~Splits(s)}
<1>1. ASSUME Bad # {} PROVE FALSE
  <2>1. IsWellFoundedOn(StrictSubsetOrdering(S), SUBSET S)
    BY FS_StrictSubsetOrderingWellFounded, FS_FiniteSubsetsOfFinite DEF Summable
  <2>2. PICK s \in Bad : \A t \in Bad : <<t, s>> \notin StrictSubsetOrdering(S)
    <3>1. Bad \subseteq SUBSET S
      OBVIOUS
    <3> HIDE DEF Bad
    <3> QED BY <1>1, <2>1, <3>1, WFMin
  <2> DEFINE y == Picked(s)
  <2>3. PICK e \in s : SumFunctionOnSet(f, s) # f[e] + SumFunctionOnSet(f, s \ {e})
    BY <2>2
  <2>4. y \in s /\ s \in SUBSET S
    BY <2>2, <2>3 DEF Picked
  <2>5. SumFunctionOnSet(f, s) = f[y] + SumFunctionOnSet(f, s \ {y})
    BY <2>3, <2>4, SummableSubset, SumPicked
  <2> HIDE DEF y
  <2>6. e # y
    BY <2>3, <2>5
  <2>7. \A t \in SUBSET S : <<t, s>> \in StrictSubsetOrdering(S) => Splits(t)
    BY <2>2
  <2>8. /\ SumFunctionOnSet(f, s \ {y}) = f[e] + SumFunctionOnSet(f, (s \ {y}) \ {e})
        /\ SumFunctionOnSet(f, s \ {e}) = f[y] + SumFunctionOnSet(f, (s \ {e}) \ {y})
    <3>1. /\ s \ {y} \in SUBSET S /\ <<s \ {y}, s>> \in StrictSubsetOrdering(S)
          /\ s \ {e} \in SUBSET S /\ <<s \ {e}, s>> \in StrictSubsetOrdering(S)
      BY <2>3, <2>4 DEF StrictSubsetOrdering
    <3> QED BY <2>3, <2>4, <2>6, <2>7, <3>1
  <2>9. (s \ {y}) \ {e} = (s \ {e}) \ {y}
    OBVIOUS
  <2>10. f[e] \in Int /\ f[y] \in Int /\ SumFunctionOnSet(f, (s \ {e}) \ {y}) \in Int
    <3>1. (s \ {e}) \ {y} \in SUBSET S
      BY <2>4
    <3>2. Summable(f, (s \ {e}) \ {y})
      BY <3>1, SummableSubset
    <3> QED BY <2>3, <2>4, <3>2, SumType DEF Summable
  <2>11. \A a, b, c \in Int : a + (b + c) = b + (a + c)
    OBVIOUS
  <2>12. SumFunctionOnSet(f, s) = f[e] + SumFunctionOnSet(f, s \ {e})
    <3>1. SumFunctionOnSet(f, s)
            = f[y] + (f[e] + SumFunctionOnSet(f, (s \ {e}) \ {y}))
      BY <2>5, <2>8, <2>9
    <3>2. f[y] + (f[e] + SumFunctionOnSet(f, (s \ {e}) \ {y}))
            = f[e] + (f[y] + SumFunctionOnSet(f, (s \ {e}) \ {y}))
      BY <2>10, <2>11
    <3> QED BY <2>8, <3>1, <3>2
  <2> QED BY <2>3, <2>12
<1>2. Splits(S)
  BY <1>1
<1> QED BY <1>2

\* A sum depends on its terms only.
LEMMA SumSame ==
    ASSUME NEW f, NEW g, NEW S, Summable(f, S), \A x \in S : g[x] = f[x]
    PROVE  SumFunctionOnSet(g, S) = SumFunctionOnSet(f, S)
<1> DEFINE P == {T \in SUBSET S : SumFunctionOnSet(g, T) = SumFunctionOnSet(f, T)}
<1>1. {} \in P
  BY SumEmpty
<1>2. ASSUME NEW T \in SUBSET S, NEW x \in S, T \in P, x \notin T
      PROVE  T \cup {x} \in P
  <2> DEFINE U == T \cup {x}
  <2>1. U \in SUBSET S /\ x \in U /\ U \ {x} = T
    BY <1>2
  <2>2. Summable(f, U)
    BY <2>1, SummableSubset
  <2>3. Summable(g, U)
    BY <2>1, <2>2 DEF Summable
  <2> HIDE DEF U
  <2>4. /\ SumFunctionOnSet(f, U) = f[x] + SumFunctionOnSet(f, U \ {x})
        /\ SumFunctionOnSet(g, U) = g[x] + SumFunctionOnSet(g, U \ {x})
    BY <2>1, <2>2, <2>3, SumRemove
  <2>5. SumFunctionOnSet(g, U) = SumFunctionOnSet(f, U)
    BY <1>2, <2>1, <2>4
  <2> QED BY <2>1, <2>5 DEF U
<1>3. IsFiniteSet(S)
  BY DEF Summable
<1> HIDE DEF P
<1>4. S \in P
  BY <1>1, <1>2, <1>3, FiniteSetInduction
<1> QED BY <1>4 DEF P

LEMMA SumZero ==
    ASSUME NEW f, NEW S, IsFiniteSet(S), \A x \in S : f[x] = 0
    PROVE  SumFunctionOnSet(f, S) = 0
<1> DEFINE P == {T \in SUBSET S : SumFunctionOnSet(f, T) = 0}
<1>1. {} \in P
  BY SumEmpty
<1>2. ASSUME NEW T \in SUBSET S, NEW x \in S, T \in P, x \notin T
      PROVE  T \cup {x} \in P
  <2> DEFINE U == T \cup {x}
  <2>1. U \in SUBSET S /\ x \in U /\ U \ {x} = T
    BY <1>2
  <2>2. Summable(f, S)
    BY DEF Summable
  <2>3. Summable(f, U)
    BY <2>1, <2>2, SummableSubset
  <2> HIDE DEF U
  <2>4. SumFunctionOnSet(f, U) = f[x] + SumFunctionOnSet(f, U \ {x})
    BY <2>1, <2>3, SumRemove
  <2>5. SumFunctionOnSet(f, U) = 0
    BY <1>2, <2>1, <2>4
  <2> QED BY <2>1, <2>5 DEF U
<1> HIDE DEF P
<1>3. S \in P
  BY <1>1, <1>2, FiniteSetInduction
<1> QED BY <1>3 DEF P

LEMMA SumNatural ==
    ASSUME NEW f, NEW S, IsFiniteSet(S), \A x \in S : f[x] \in Nat
    PROVE  SumFunctionOnSet(f, S) \in Nat
<1> DEFINE P == {T \in SUBSET S : SumFunctionOnSet(f, T) \in Nat}
<1>1. {} \in P
  BY SumEmpty
<1>2. ASSUME NEW T \in SUBSET S, NEW x \in S, T \in P, x \notin T
      PROVE  T \cup {x} \in P
  <2> DEFINE U == T \cup {x}
  <2>1. U \in SUBSET S /\ x \in U /\ U \ {x} = T
    BY <1>2
  <2>2. Summable(f, S)
    BY DEF Summable
  <2>3. Summable(f, U)
    BY <2>1, <2>2, SummableSubset
  <2> HIDE DEF U
  <2>4. SumFunctionOnSet(f, U) = f[x] + SumFunctionOnSet(f, U \ {x})
    BY <2>1, <2>3, SumRemove
  <2>5. f[x] \in Nat /\ SumFunctionOnSet(f, T) \in Nat
    BY <1>2
  <2>6. SumFunctionOnSet(f, U) \in Nat
    BY <2>1, <2>4, <2>5
  <2> QED BY <2>1, <2>6 DEF U
<1> HIDE DEF P
<1>3. S \in P
  BY <1>1, <1>2, FiniteSetInduction
<1> QED BY <1>3 DEF P

\* When one term changes, the sum changes by as much.
LEMMA SumChange ==
    ASSUME NEW f, NEW g, NEW S, Summable(f, S), Summable(g, S), NEW x \in S,
           \A y \in S \ {x} : g[y] = f[y]
    PROVE  SumFunctionOnSet(g, S) = SumFunctionOnSet(f, S) + (g[x] - f[x])
<1>1. S \ {x} \in SUBSET S
  OBVIOUS
<1>2. Summable(f, S \ {x})
  BY <1>1, SummableSubset
<1>3. SumFunctionOnSet(g, S \ {x}) = SumFunctionOnSet(f, S \ {x})
  BY <1>2, SumSame
<1>4. /\ SumFunctionOnSet(f, S) = f[x] + SumFunctionOnSet(f, S \ {x})
      /\ SumFunctionOnSet(g, S) = g[x] + SumFunctionOnSet(g, S \ {x})
  BY SumRemove
<1>5. SumFunctionOnSet(f, S \ {x}) \in Int /\ f[x] \in Int /\ g[x] \in Int
  BY <1>2, SumType DEF Summable
<1> QED BY <1>3, <1>4, <1>5

\* A new term is added to the sum.
LEMMA SumAdd ==
    ASSUME NEW f, NEW g, NEW S, Summable(f, S), NEW x, x \notin S, g[x] \in Int,
           \A y \in S : g[y] = f[y]
    PROVE  SumFunctionOnSet(g, S \cup {x}) = SumFunctionOnSet(f, S) + g[x]
<1> DEFINE U == S \cup {x}
<1>1. Summable(g, U)
  BY FS_AddElement DEF Summable
<1>2. x \in U /\ U \ {x} = S
  OBVIOUS
<1> HIDE DEF U
<1>3. SumFunctionOnSet(g, U) = g[x] + SumFunctionOnSet(g, S)
  BY <1>1, <1>2, SumRemove
<1>4. SumFunctionOnSet(g, S) = SumFunctionOnSet(f, S) /\ SumFunctionOnSet(f, S) \in Int
  BY SumSame, SumType
<1> QED BY <1>3, <1>4 DEF U

\* A sum of naturals is at least each of its terms.
LEMMA SumAtLeastTerm ==
    ASSUME NEW f, NEW S, IsFiniteSet(S), \A y \in S : f[y] \in Nat, NEW x \in S
    PROVE  f[x] <= SumFunctionOnSet(f, S)
<1>1. Summable(f, S)
  BY DEF Summable
<1>2. SumFunctionOnSet(f, S) = f[x] + SumFunctionOnSet(f, S \ {x})
  BY <1>1, SumRemove
<1>3. SumFunctionOnSet(f, S \ {x}) \in Nat
  <2>1. S \ {x} \in SUBSET S
    OBVIOUS
  <2>2. IsFiniteSet(S \ {x})
    BY <2>1, FS_Subset
  <2> QED BY <2>2, SumNatural
<1> QED BY <1>2, <1>3

\* Larger terms, larger sum.
LEMMA SumMonotone ==
    ASSUME NEW f, NEW g, NEW S, Summable(f, S), Summable(g, S), \A x \in S : f[x] <= g[x]
    PROVE  SumFunctionOnSet(f, S) <= SumFunctionOnSet(g, S)
<1> DEFINE P == {T \in SUBSET S : SumFunctionOnSet(f, T) <= SumFunctionOnSet(g, T)}
<1>1. {} \in P
  BY SumEmpty
<1>2. ASSUME NEW T \in SUBSET S, NEW x \in S, T \in P, x \notin T
      PROVE  T \cup {x} \in P
  <2> DEFINE U == T \cup {x}
  <2>1. U \in SUBSET S /\ x \in U /\ U \ {x} = T
    BY <1>2
  <2>2. Summable(f, U) /\ Summable(g, U) /\ Summable(f, T) /\ Summable(g, T)
    <3> HIDE DEF U
    <3> QED BY <2>1, SummableSubset
  <2> HIDE DEF U
  <2>3. /\ SumFunctionOnSet(f, U) = f[x] + SumFunctionOnSet(f, T)
        /\ SumFunctionOnSet(g, U) = g[x] + SumFunctionOnSet(g, T)
    BY <2>1, <2>2, SumRemove
  <2>4. /\ SumFunctionOnSet(f, T) \in Int /\ SumFunctionOnSet(g, T) \in Int
        /\ SumFunctionOnSet(f, T) <= SumFunctionOnSet(g, T)
    BY <1>2, <2>2, SumType
  <2>5. f[x] \in Int /\ g[x] \in Int /\ f[x] <= g[x]
    BY DEF Summable
  <2>6. SumFunctionOnSet(f, U) <= SumFunctionOnSet(g, U)
    BY <2>3, <2>4, <2>5
  <2> QED BY <2>1, <2>6 DEF U
<1> HIDE DEF P
<1>3. S \in P
  BY <1>1, <1>2, FiniteSetInduction DEF Summable
<1> QED BY <1>3 DEF P

\* If one term is larger by one at least, so is the sum.
LEMMA SumGrows ==
    ASSUME NEW f, NEW g, NEW S, Summable(f, S), Summable(g, S), \A x \in S : f[x] <= g[x],
           NEW c \in S, f[c] + 1 <= g[c]
    PROVE  SumFunctionOnSet(f, S) + 1 <= SumFunctionOnSet(g, S)
<1> DEFINE R == S \ {c}
<1>1. R \in SUBSET S
  OBVIOUS
<1>2. Summable(f, R) /\ Summable(g, R)
  BY <1>1, SummableSubset
<1>3. SumFunctionOnSet(f, R) <= SumFunctionOnSet(g, R)
  BY <1>2, SumMonotone
<1>4. /\ SumFunctionOnSet(f, S) = f[c] + SumFunctionOnSet(f, R)
      /\ SumFunctionOnSet(g, S) = g[c] + SumFunctionOnSet(g, R)
  BY SumRemove
<1>5. /\ SumFunctionOnSet(f, R) \in Int /\ SumFunctionOnSet(g, R) \in Int
      /\ f[c] \in Int /\ g[c] \in Int
  BY <1>2, SumType DEF Summable
<1> HIDE DEF R
<1> QED BY <1>3, <1>4, <1>5

\* A sum of terms that are at most b.
LEMMA SumBounded ==
    ASSUME NEW f, NEW S, Summable(f, S), NEW b \in Int, \A x \in S : f[x] <= b
    PROVE  SumFunctionOnSet(f, S) <= Cardinality(S) * b
<1> DEFINE P == {T \in SUBSET S : SumFunctionOnSet(f, T) <= Cardinality(T) * b}
<1>1. {} \in P
  <2>1. Cardinality({}) = 0
    BY FS_EmptySet
  <2>2. SumFunctionOnSet(f, {}) <= Cardinality({}) * b
    BY <2>1, SumEmpty
  <2> QED BY <2>2
<1>2. ASSUME NEW T \in SUBSET S, NEW x \in S, T \in P, x \notin T
      PROVE  T \cup {x} \in P
  <2> DEFINE U == T \cup {x}
  <2>1. U \in SUBSET S /\ x \in U /\ U \ {x} = T
    BY <1>2
  <2>2. Summable(f, U) /\ Summable(f, T)
    <3> HIDE DEF U
    <3> QED BY <2>1, SummableSubset
  <2>3. Cardinality(T) \in Nat /\ Cardinality(U) = Cardinality(T) + 1
    BY <1>2, <2>2, FS_AddElement, FS_CardinalityType DEF Summable
  <2> HIDE DEF U
  <2>4. SumFunctionOnSet(f, U) = f[x] + SumFunctionOnSet(f, T)
    BY <2>1, <2>2, SumRemove
  <2>5. SumFunctionOnSet(f, T) \in Int /\ SumFunctionOnSet(f, T) <= Cardinality(T) * b
    BY <1>2, <2>2, SumType
  <2>6. f[x] \in Int /\ f[x] <= b
    BY DEF Summable
  <2>7. \A n \in Nat : (n + 1) * b = n * b + b /\ n * b \in Int
    OBVIOUS
  <2>8. SumFunctionOnSet(f, U) <= Cardinality(U) * b
    BY <2>3, <2>4, <2>5, <2>6, <2>7
  <2> QED BY <2>1, <2>8 DEF U
<1> HIDE DEF P
<1>3. S \in P
  BY <1>1, <1>2, FiniteSetInduction DEF Summable
<1> QED BY <1>3 DEF P

\* The sum over a set that has grown by one element.
LEMMA SumStep ==
    ASSUME NEW f, NEW S, Summable(f, S), NEW T \in SUBSET S, NEW x \in S, x \notin T
    PROVE  /\ SumFunctionOnSet(f, T \cup {x}) = SumFunctionOnSet(f, T) + f[x]
           /\ SumFunctionOnSet(f, T) \in Int /\ f[x] \in Int
<1>1. Summable(f, T) /\ f[x] \in Int
  BY SummableSubset DEF Summable
<1> QED BY <1>1, SumAdd, SumType

\* Adding two functions adds their sums.
LEMMA SumPlus ==
    ASSUME NEW f, NEW g, NEW h, NEW S, Summable(f, S), Summable(g, S),
           \A x \in S : h[x] = f[x] + g[x]
    PROVE  SumFunctionOnSet(h, S) = SumFunctionOnSet(f, S) + SumFunctionOnSet(g, S)
<1> DEFINE P == {T \in SUBSET S : SumFunctionOnSet(h, T)
                                      = SumFunctionOnSet(f, T) + SumFunctionOnSet(g, T)}
<1>1. {} \in P
  BY SumEmpty
<1>2. Summable(h, S)
  BY DEF Summable
<1>3. ASSUME NEW T \in SUBSET S, NEW x \in S, T \in P, x \notin T
      PROVE  T \cup {x} \in P
  <2>1. /\ SumFunctionOnSet(f, T \cup {x}) = SumFunctionOnSet(f, T) + f[x]
        /\ SumFunctionOnSet(f, T) \in Int /\ f[x] \in Int
    BY <1>3, SumStep
  <2>2. /\ SumFunctionOnSet(g, T \cup {x}) = SumFunctionOnSet(g, T) + g[x]
        /\ SumFunctionOnSet(g, T) \in Int /\ g[x] \in Int
    BY <1>3, SumStep
  <2>3. SumFunctionOnSet(h, T \cup {x}) = SumFunctionOnSet(h, T) + h[x]
    BY <1>2, <1>3, SumStep
  <2>4. /\ SumFunctionOnSet(h, T) = SumFunctionOnSet(f, T) + SumFunctionOnSet(g, T)
        /\ h[x] = f[x] + g[x]
    BY <1>3
  <2>5. SumFunctionOnSet(h, T \cup {x})
            = SumFunctionOnSet(f, T \cup {x}) + SumFunctionOnSet(g, T \cup {x})
    BY <2>1, <2>2, <2>3, <2>4
  <2> QED BY <2>5
<1> HIDE DEF P
<1>4. S \in P
  BY <1>1, <1>3, FiniteSetInduction DEF Summable
<1> QED BY <1>4 DEF P

\* Terms that are zero add nothing.
LEMMA SumSuperset ==
    ASSUME NEW f, NEW S, NEW U, Summable(f, S), S \subseteq U, IsFiniteSet(U),
           \A x \in U \ S : f[x] = 0
    PROVE  SumFunctionOnSet(f, U) = SumFunctionOnSet(f, S) /\ Summable(f, U)
<1> DEFINE P == {T \in SUBSET (U \ S) : SumFunctionOnSet(f, S \cup T) = SumFunctionOnSet(f, S)}
<1>1. {} \in P
  <2>1. S \cup {} = S
    OBVIOUS
  <2> QED BY <2>1
<1>2. Summable(f, U)
  BY DEF Summable
<1>3. ASSUME NEW T \in SUBSET (U \ S), NEW x \in U \ S, T \in P, x \notin T
      PROVE  T \cup {x} \in P
  <2> DEFINE V == S \cup T
  <2>1. V \in SUBSET U /\ x \in U /\ x \notin V /\ S \cup (T \cup {x}) = V \cup {x}
    BY <1>3
  <2>2. SumFunctionOnSet(f, V) = SumFunctionOnSet(f, S) /\ f[x] = 0
    BY <1>3
  <2> HIDE DEF V
  <2>3. /\ SumFunctionOnSet(f, V \cup {x}) = SumFunctionOnSet(f, V) + f[x]
        /\ SumFunctionOnSet(f, V) \in Int
    <3>1. V \in SUBSET U /\ x \in U /\ x \notin V
      BY <2>1
    <3>2. \A T1 \in SUBSET U : \A y \in U : y \notin T1 =>
              /\ SumFunctionOnSet(f, T1 \cup {y}) = SumFunctionOnSet(f, T1) + f[y]
              /\ SumFunctionOnSet(f, T1) \in Int
      BY <1>2, SumStep
    <3> QED BY <3>1, <3>2
  <2>4. SumFunctionOnSet(f, V \cup {x}) = SumFunctionOnSet(f, S)
    BY <2>2, <2>3
  <2> QED BY <2>1, <2>4
<1>4. IsFiniteSet(U \ S)
  BY FS_Difference
<1> HIDE DEF P
<1>5. U \ S \in P
  BY <1>1, <1>3, <1>4, FiniteSetInduction
<1>6. S \cup (U \ S) = U
  OBVIOUS
<1> QED BY <1>2, <1>5, <1>6 DEF P

\* Equal terms.
LEMMA SumConstant ==
    ASSUME NEW f, NEW S, IsFiniteSet(S), NEW c \in Int, \A x \in S : f[x] = c
    PROVE  SumFunctionOnSet(f, S) = Cardinality(S) * c
<1> DEFINE P == {T \in SUBSET S : SumFunctionOnSet(f, T) = Cardinality(T) * c}
<1>1. {} \in P
  <2>1. Cardinality({}) = 0
    BY FS_EmptySet
  <2>2. SumFunctionOnSet(f, {}) = Cardinality({}) * c
    BY <2>1, SumEmpty
  <2> QED BY <2>2
<1>2. Summable(f, S)
  BY DEF Summable
<1>3. ASSUME NEW T \in SUBSET S, NEW x \in S, T \in P, x \notin T
      PROVE  T \cup {x} \in P
  <2>1. IsFiniteSet(T)
    BY FS_Subset
  <2>2. Cardinality(T) \in Nat /\ Cardinality(T \cup {x}) = Cardinality(T) + 1
    BY <1>3, <2>1, FS_AddElement, FS_CardinalityType
  <2>3. SumFunctionOnSet(f, T \cup {x}) = SumFunctionOnSet(f, T) + f[x]
    BY <1>2, <1>3, SumStep
  <2>4. SumFunctionOnSet(f, T) = Cardinality(T) * c /\ f[x] = c
    BY <1>3
  <2>5. \A n \in Nat : (n + 1) * c = n * c + c
    OBVIOUS
  <2>6. SumFunctionOnSet(f, T \cup {x}) = Cardinality(T \cup {x}) * c
    BY <2>2, <2>3, <2>4, <2>5
  <2> QED BY <2>6
<1> HIDE DEF P
<1>4. S \in P
  BY <1>1, <1>3, FiniteSetInduction
<1> QED BY <1>4 DEF P

\* Counting a set of samples value by value: "old" and "total" are the weights
\* of the values before and after, "added" those of the samples.
Regroups(I, U, sample, weight, before, old, added, total) ==
    /\ IsFiniteSet(I) /\ IsFiniteSet(U)
    /\ sample \in [I -> U] /\ weight \in [U -> Int] /\ before \in [U -> Nat]
    /\ old = [u \in U |-> weight[u] * before[u]]
    /\ added = [i \in I |-> weight[sample[i]]]
    /\ \A u \in U : total[u] = weight[u] * (before[u] + Cardinality({i \in I : sample[i] = u}))

LEMMA SumRegrouped ==
    ASSUME NEW I, NEW U, NEW sample, NEW weight, NEW before, NEW old, NEW added, NEW total,
           Regroups(I, U, sample, weight, before, old, added, total)
    PROVE  SumFunctionOnSet(total, U) = SumFunctionOnSet(old, U) + SumFunctionOnSet(added, I)
<1> USE DEF Regroups
<1> DEFINE Of(T, u) == {i \in T : sample[i] = u}
           g(T) == [u \in U |-> weight[u] * (before[u] + Cardinality(Of(T, u)))]
           b == [u \in U |-> weight[u] * before[u]]
           w == [i \in I |-> weight[sample[i]]]
           P == {T \in SUBSET I : SumFunctionOnSet(g(T), U)
                                      = SumFunctionOnSet(b, U) + SumFunctionOnSet(w, T)}
<1>1. \A T \in SUBSET I, u \in U : IsFiniteSet(Of(T, u)) /\ Cardinality(Of(T, u)) \in Nat
  <2> SUFFICES ASSUME NEW T \in SUBSET I, NEW u \in U
               PROVE  IsFiniteSet(Of(T, u)) /\ Cardinality(Of(T, u)) \in Nat
    OBVIOUS
  <2>1. Of(T, u) \in SUBSET I
    OBVIOUS
  <2> HIDE DEF Of
  <2> QED BY <2>1, FS_Subset, FS_CardinalityType
<1>2. \A T \in SUBSET I, u \in U : weight[u] * (before[u] + Cardinality(Of(T, u))) \in Int
  <2> HIDE DEF Of
  <2> SUFFICES ASSUME NEW T \in SUBSET I, NEW u \in U
               PROVE  weight[u] * (before[u] + Cardinality(Of(T, u))) \in Int
    OBVIOUS
  <2>1. weight[u] \in Int /\ before[u] \in Nat /\ Cardinality(Of(T, u)) \in Nat
    BY <1>1
  <2> QED BY <2>1
<1>3. \A T \in SUBSET I : Summable(g(T), U)
  <2> HIDE DEF Of
  <2> QED BY <1>2 DEF Summable
<1>4. Summable(w, I)
  BY DEF Summable
<1>5. {} \in P
  <2>1. \A u \in U : Cardinality(Of({}, u)) = 0
    <3>1. \A u \in U : Of({}, u) = {}
      OBVIOUS
    <3> HIDE DEF Of
    <3> QED BY <3>1, FS_EmptySet
  <2>2. \A u \in U : g({})[u] = b[u]
    <3> HIDE DEF Of
    <3> QED BY <2>1
  <2>3. g({}) = b
    <3> HIDE DEF Of
    <3> QED BY <2>2
  <2>4. SumFunctionOnSet(b, U) \in Int
    BY <1>3, <2>3, SumType
  <2>5. SumFunctionOnSet(w, {}) = 0
    BY SumEmpty
  <2> HIDE DEF g, b, w
  <2> QED BY <2>3, <2>4, <2>5
<1>6. ASSUME NEW T \in SUBSET I, NEW x \in I, T \in P, x \notin T
      PROVE  T \cup {x} \in P
  <2> DEFINE R == T \cup {x}
             a == sample[x]
  <2>1. R \in SUBSET I /\ a \in U
    OBVIOUS
  <2>2. \A u \in U : u # a => Of(R, u) = Of(T, u)
    OBVIOUS
  <2>3. Cardinality(Of(R, a)) = Cardinality(Of(T, a)) + 1
    <3>1. Of(R, a) = Of(T, a) \cup {x} /\ x \notin Of(T, a)
      BY <1>6
    <3>2. IsFiniteSet(Of(T, a))
      BY <1>1
    <3> HIDE DEF Of
    <3> QED BY <3>1, <3>2, FS_AddElement
  <2> HIDE DEF Of, R, a
  <2>4. \A u \in U \ {a} : g(R)[u] = g(T)[u]
    BY <2>2
  <2>5. g(R)[a] - g(T)[a] = weight[a]
    <3>1. /\ weight[a] \in Int /\ before[a] \in Nat /\ Cardinality(Of(T, a)) \in Nat
      BY <1>1, <2>1
    <3>2. \A x1 \in Int, y1, z1 \in Nat : x1 * (y1 + (z1 + 1)) - x1 * (y1 + z1) = x1
      BY Z3
    <3>3. /\ g(R)[a] = weight[a] * (before[a] + (Cardinality(Of(T, a)) + 1))
          /\ g(T)[a] = weight[a] * (before[a] + Cardinality(Of(T, a)))
      BY <2>1, <2>3
    <3>4. PICK wa \in Int, ba \in Nat, ca \in Nat :
              wa = weight[a] /\ ba = before[a] /\ ca = Cardinality(Of(T, a))
      BY <3>1
    <3>5. wa * (ba + (ca + 1)) - wa * (ba + ca) = wa
      BY <3>2
    <3>6. g(R)[a] = wa * (ba + (ca + 1)) /\ g(T)[a] = wa * (ba + ca)
      BY <3>3, <3>4
    <3> HIDE DEF g
    <3> QED BY <3>4, <3>5, <3>6
  <2>6. Summable(g(R), U) /\ Summable(g(T), U)
    BY <1>3, <2>1
  <2>7. w[x] = weight[a]
    BY DEF a
  <2> HIDE DEF g, w, b
  <2>8. SumFunctionOnSet(g(R), U) = SumFunctionOnSet(g(T), U) + (g(R)[a] - g(T)[a])
    BY <2>1, <2>4, <2>6, SumChange
  <2>9. /\ SumFunctionOnSet(w, R) = SumFunctionOnSet(w, T) + w[x]
        /\ SumFunctionOnSet(w, T) \in Int /\ w[x] \in Int
    BY <1>4, <1>6, SumStep DEF R
  <2>10. SumFunctionOnSet(g(T), U) = SumFunctionOnSet(b, U) + SumFunctionOnSet(w, T)
    BY <1>6
  <2>11. SumFunctionOnSet(b, U) \in Int
    <3>1. Summable(b, U)
      <4>1. \A u \in U : weight[u] * before[u] \in Int
        OBVIOUS
      <4> QED BY <4>1 DEF b, Summable
    <3> QED BY <3>1, SumType
  <2>12. SumFunctionOnSet(g(R), U) = SumFunctionOnSet(b, U) + SumFunctionOnSet(w, R)
    BY <2>5, <2>7, <2>8, <2>9, <2>10, <2>11
  <2> QED BY <2>1, <2>12 DEF R
<1>7. I \in P
  <2> HIDE DEF P
  <2> QED BY <1>5, <1>6, FiniteSetInduction
<1>8. SumFunctionOnSet(total, U) = SumFunctionOnSet(g(I), U)
  <2>1. \A u \in U : total[u] = g(I)[u]
    OBVIOUS
  <2>2. Summable(g(I), U)
    BY <1>3
  <2> HIDE DEF g
  <2> QED BY <2>1, <2>2, SumSame
<1> QED BY <1>7, <1>8

-----------------------------------------------------------------------------
(* Means and mean squares.                                                 *)

\* The values v with the weights w: p and q are their first two moments.
Moments(w, v, p, q, S) ==
    /\ IsFiniteSet(S)
    /\ \A k \in S : /\ w[k] \in Nat \ {0} /\ v[k] \in Int
                    /\ p[k] = w[k] * v[k] /\ q[k] = w[k] * (v[k] * v[k])

\* The weighted sum of the squared distances from z.
Spread(n, p, q, z) == (q - 2 * (z * p)) + n * (z * z)

SpreadAdds(n, p, q, z, w, v) ==
    LET d == w * ((v - z) * (v - z))
    IN  /\ Spread(n + w, p + w * v, q + w * (v * v), z) = Spread(n, p, q, z) + d
        /\ d \in Nat
        /\ d = 0 <=> v = z

LEMMA SpreadGrows ==
    ASSUME NEW n \in Int, NEW p \in Int, NEW q \in Int, NEW z \in Int,
           NEW w \in Nat \ {0}, NEW v \in Int
    PROVE  SpreadAdds(n, p, q, z, w, v)
<1>1. Spread(n + w, p + w * v, q + w * (v * v), z)
          = Spread(n, p, q, z) + w * ((v - z) * (v - z))
  BY Z3 DEF Spread
<1>3. PICK d \in Int : d = v - z
  OBVIOUS
<1>4. d * d \in Nat /\ (d * d = 0 <=> d = 0)
  BY Z3
<1>5. PICK s \in Nat : s = d * d
  BY <1>4
<1>6. w * s \in Nat /\ (w * s = 0 <=> s = 0)
  BY Z3
<1>7. d = 0 <=> v = z
  BY <1>3
<1> QED BY <1>1, <1>3, <1>4, <1>5, <1>6, <1>7 DEF SpreadAdds

LEMMA MomentsStep ==
    ASSUME NEW w, NEW v, NEW p, NEW q, NEW S, Moments(w, v, p, q, S),
           NEW T \in SUBSET S, NEW x \in S, x \notin T
    PROVE  /\ w[x] \in Nat \ {0} /\ v[x] \in Int
           /\ SumFunctionOnSet(w, T) \in Int /\ SumFunctionOnSet(p, T) \in Int
           /\ SumFunctionOnSet(q, T) \in Int
           /\ SumFunctionOnSet(w, T \cup {x}) = SumFunctionOnSet(w, T) + w[x]
           /\ SumFunctionOnSet(p, T \cup {x}) = SumFunctionOnSet(p, T) + w[x] * v[x]
           /\ SumFunctionOnSet(q, T \cup {x}) = SumFunctionOnSet(q, T) + w[x] * (v[x] * v[x])
<1>1. \A k \in S : /\ w[k] \in Nat \ {0} /\ v[k] \in Int
                   /\ p[k] = w[k] * v[k] /\ q[k] = w[k] * (v[k] * v[k])
  BY DEF Moments
<1>2. \A k \in S : w[k] \in Int /\ p[k] \in Int /\ q[k] \in Int
  <2> SUFFICES ASSUME NEW k \in S PROVE w[k] \in Int /\ p[k] \in Int /\ q[k] \in Int
    OBVIOUS
  <2>1. \A a, b \in Int : a * b \in Int /\ a * (b * b) \in Int
    BY Z3
  <2> QED BY <1>1, <2>1
<1>3. Summable(w, S) /\ Summable(p, S) /\ Summable(q, S)
  BY <1>2 DEF Summable, Moments
<1>4. /\ SumFunctionOnSet(w, T \cup {x}) = SumFunctionOnSet(w, T) + w[x]
      /\ SumFunctionOnSet(w, T) \in Int
  BY <1>3, SumStep
<1>5. /\ SumFunctionOnSet(p, T \cup {x}) = SumFunctionOnSet(p, T) + p[x]
      /\ SumFunctionOnSet(p, T) \in Int
  BY <1>3, SumStep
<1>6. /\ SumFunctionOnSet(q, T \cup {x}) = SumFunctionOnSet(q, T) + q[x]
      /\ SumFunctionOnSet(q, T) \in Int
  BY <1>3, SumStep
<1> QED BY <1>1, <1>4, <1>5, <1>6

LEMMA SpreadNatural ==
    ASSUME NEW w, NEW v, NEW p, NEW q, NEW S, Moments(w, v, p, q, S), NEW z \in Int
    PROVE  LET d == Spread(SumFunctionOnSet(w, S), SumFunctionOnSet(p, S),
                           SumFunctionOnSet(q, S), z)
           IN  d \in Nat /\ (d = 0 <=> \A k \in S : v[k] = z)
<1> DEFINE d(T) == Spread(SumFunctionOnSet(w, T), SumFunctionOnSet(p, T),
                          SumFunctionOnSet(q, T), z)
           P == {T \in SUBSET S : d(T) \in Nat /\ (d(T) = 0 <=> \A k \in T : v[k] = z)}
<1>1. {} \in P
  <2>1. d({}) = 0
    BY SumEmpty DEF Spread
  <2> HIDE DEF d
  <2> QED BY <2>1
<1>2. ASSUME NEW T \in SUBSET S, NEW x \in S, T \in P, x \notin T
      PROVE  T \cup {x} \in P
  <2> DEFINE e == w[x] * ((v[x] - z) * (v[x] - z))
  <2>1. /\ w[x] \in Nat \ {0} /\ v[x] \in Int
        /\ SumFunctionOnSet(w, T) \in Int /\ SumFunctionOnSet(p, T) \in Int
        /\ SumFunctionOnSet(q, T) \in Int
        /\ SumFunctionOnSet(w, T \cup {x}) = SumFunctionOnSet(w, T) + w[x]
        /\ SumFunctionOnSet(p, T \cup {x}) = SumFunctionOnSet(p, T) + w[x] * v[x]
        /\ SumFunctionOnSet(q, T \cup {x}) = SumFunctionOnSet(q, T) + w[x] * (v[x] * v[x])
    BY <1>2, MomentsStep
  <2>2. /\ d(T \cup {x}) = d(T) + e /\ e \in Nat /\ (e = 0 <=> v[x] = z)
    <3>1. PICK n \in Int, m \in Int, r \in Int, a \in Nat \ {0}, b \in Int :
              /\ n = SumFunctionOnSet(w, T) /\ m = SumFunctionOnSet(p, T)
              /\ r = SumFunctionOnSet(q, T) /\ a = w[x] /\ b = v[x]
      BY <2>1
    <3>2. /\ Spread(n + a, m + a * b, r + a * (b * b), z)
                  = Spread(n, m, r, z) + a * ((b - z) * (b - z))
          /\ a * ((b - z) * (b - z)) \in Nat
          /\ a * ((b - z) * (b - z)) = 0 <=> b = z
      <4>1. SpreadAdds(n, m, r, z, a, b)
        BY SpreadGrows
      <4> QED BY <4>1 DEF SpreadAdds
    <3>3. /\ d(T) = Spread(n, m, r, z) /\ e = a * ((b - z) * (b - z))
          /\ d(T \cup {x}) = Spread(n + a, m + a * b, r + a * (b * b), z)
      BY <2>1, <3>1
    <3> HIDE DEF d, e
    <3> QED BY <3>1, <3>2, <3>3
  <2>3. d(T) \in Nat /\ (d(T) = 0 <=> \A k \in T : v[k] = z)
    BY <1>2
  <2> HIDE DEF d, e
  <2>4. d(T \cup {x}) \in Nat /\ (d(T \cup {x}) = 0 <=> d(T) = 0 /\ e = 0)
    BY <2>2, <2>3
  <2> QED BY <2>2, <2>3, <2>4
<1> HIDE DEF P
<1>3. S \in P
  BY <1>1, <1>2, FiniteSetInduction DEF Moments
<1> QED BY <1>3 DEF P

LEMMA MomentsSubset ==
    ASSUME NEW w, NEW v, NEW p, NEW q, NEW S, Moments(w, v, p, q, S), NEW T \in SUBSET S
    PROVE  Moments(w, v, p, q, T)
BY FS_Subset DEF Moments

\* n times the mean square less the square of the mean, and how it grows.
Variance(n, p, q) == n * q - p * p

LEMMA VarianceGrows ==
    ASSUME NEW n \in Int, NEW p \in Int, NEW q \in Int, NEW w \in Int, NEW v \in Int
    PROVE  /\ Variance(n + w, p + w * v, q + w * (v * v))
                  = Variance(n, p, q) + w * Spread(n, p, q, v)
           /\ Variance(n, p, q) \in Int
<1>1. Variance(n + w, p + w * v, q + w * (v * v)) = Variance(n, p, q) + w * Spread(n, p, q, v)
  BY Z3 DEF Variance, Spread
<1>2. Variance(n, p, q) \in Int
  BY Z3 DEF Variance
<1> QED BY <1>1, <1>2

\* The inequality of Cauchy and Schwarz: the square of the mean is at most the
\* mean of the squares, and equal to it only if all values are the same.
LEMMA VarianceNatural ==
    ASSUME NEW w, NEW v, NEW p, NEW q, NEW S, Moments(w, v, p, q, S)
    PROVE  LET c == Variance(SumFunctionOnSet(w, S), SumFunctionOnSet(p, S),
                             SumFunctionOnSet(q, S))
           IN  c \in Nat /\ (c = 0 <=> \A j, k \in S : v[j] = v[k])
<1> DEFINE c(T) == Variance(SumFunctionOnSet(w, T), SumFunctionOnSet(p, T),
                            SumFunctionOnSet(q, T))
           d(T, z) == Spread(SumFunctionOnSet(w, T), SumFunctionOnSet(p, T),
                             SumFunctionOnSet(q, T), z)
           Same(T) == \A j, k \in T : v[j] = v[k]
           P == {T \in SUBSET S : c(T) \in Nat /\ (c(T) = 0 <=> Same(T))}
<1>1. {} \in P
  <2>1. c({}) = 0
    BY SumEmpty DEF Variance
  <2> HIDE DEF c
  <2> QED BY <2>1
<1>2. ASSUME NEW T \in SUBSET S, NEW x \in S, T \in P, x \notin T
      PROVE  T \cup {x} \in P
  <2>1. /\ w[x] \in Nat \ {0} /\ v[x] \in Int
        /\ SumFunctionOnSet(w, T) \in Int /\ SumFunctionOnSet(p, T) \in Int
        /\ SumFunctionOnSet(q, T) \in Int
        /\ SumFunctionOnSet(w, T \cup {x}) = SumFunctionOnSet(w, T) + w[x]
        /\ SumFunctionOnSet(p, T \cup {x}) = SumFunctionOnSet(p, T) + w[x] * v[x]
        /\ SumFunctionOnSet(q, T \cup {x}) = SumFunctionOnSet(q, T) + w[x] * (v[x] * v[x])
    BY <1>2, MomentsStep
  <2>2. c(T \cup {x}) = c(T) + w[x] * d(T, v[x])
    <3>1. PICK n \in Int, m \in Int, r \in Int, a \in Int, b \in Int :
              /\ n = SumFunctionOnSet(w, T) /\ m = SumFunctionOnSet(p, T)
              /\ r = SumFunctionOnSet(q, T) /\ a = w[x] /\ b = v[x]
      BY <2>1
    <3>2. Variance(n + a, m + a * b, r + a * (b * b)) = Variance(n, m, r) + a * Spread(n, m, r, b)
      BY VarianceGrows
    <3>3. /\ c(T) = Variance(n, m, r) /\ w[x] * d(T, v[x]) = a * Spread(n, m, r, b)
          /\ c(T \cup {x}) = Variance(n + a, m + a * b, r + a * (b * b))
      BY <2>1, <3>1
    <3> HIDE DEF c, d
    <3> QED BY <3>2, <3>3
  <2>3. d(T, v[x]) \in Nat /\ (d(T, v[x]) = 0 <=> \A k \in T : v[k] = v[x])
    <3>1. Moments(w, v, p, q, T) /\ v[x] \in Int
      BY <2>1, MomentsSubset
    <3>2. PICK z \in Int : z = v[x]
      BY <3>1
    <3>3. d(T, z) \in Nat /\ (d(T, z) = 0 <=> \A k \in T : v[k] = z)
      BY <3>1, SpreadNatural
    <3> QED BY <3>2, <3>3
  <2>4. c(T) \in Nat /\ (c(T) = 0 <=> Same(T))
    BY <1>2
  <2>5. Same(T \cup {x}) <=> Same(T) /\ \A k \in T : v[k] = v[x]
    OBVIOUS
  <2> HIDE DEF c, d, Same
  <2>6. PICK a \in Nat \ {0}, b \in Nat : a = w[x] /\ b = d(T, v[x])
    BY <2>1, <2>3
  <2>7. a * b \in Nat /\ (a * b = 0 <=> b = 0)
    BY Z3
  <2>8. c(T \cup {x}) \in Nat /\ (c(T \cup {x}) = 0 <=> c(T) = 0 /\ b = 0)
    BY <2>2, <2>4, <2>6, <2>7
  <2>9. c(T \cup {x}) = 0 <=> Same(T \cup {x})
    BY <2>3, <2>4, <2>5, <2>6, <2>8
  <2> QED BY <2>8, <2>9
<1>3. S \in P
  <2> HIDE DEF P
  <2> QED BY <1>1, <1>2, FiniteSetInduction DEF Moments
<1> QED BY <1>3

\* A sum of squares of naturals is at most the square of the sum.
LEMMA SquaresBelow ==
    ASSUME NEW f, NEW g, NEW S, IsFiniteSet(S), \A x \in S : f[x] \in Nat /\ g[x] = f[x] * f[x]
    PROVE  SumFunctionOnSet(g, S) <= SumFunctionOnSet(f, S) * SumFunctionOnSet(f, S)
<1> DEFINE P == {T \in SUBSET S : /\ SumFunctionOnSet(f, T) \in Nat
                                  /\ SumFunctionOnSet(g, T) \in Nat
                                  /\ SumFunctionOnSet(g, T)
                                         <= SumFunctionOnSet(f, T) * SumFunctionOnSet(f, T)}
<1>1. {} \in P
  BY SumEmpty
<1>2. Summable(f, S) /\ Summable(g, S)
  <2>1. \A x \in S : f[x] * f[x] \in Int
    OBVIOUS
  <2> QED BY <2>1 DEF Summable
<1>3. ASSUME NEW T \in SUBSET S, NEW x \in S, T \in P, x \notin T
      PROVE  T \cup {x} \in P
  <2>1. PICK a \in Nat, b \in Nat, c \in Nat :
            /\ a = SumFunctionOnSet(f, T) /\ b = SumFunctionOnSet(g, T) /\ c = f[x]
            /\ b <= a * a
    BY <1>3
  <2>2. SumFunctionOnSet(f, T \cup {x}) = a + c /\ SumFunctionOnSet(g, T \cup {x}) = b + c * c
    BY <1>2, <1>3, <2>1, SumStep
  <2>3. a + c \in Nat /\ b + c * c \in Nat /\ b + c * c <= (a + c) * (a + c)
    <3>1. (a + c) * (a + c) = a * a + c * c + 2 * (a * c)
      BY Z3
    <3>2. a * c \in Nat /\ c * c \in Nat /\ a * a \in Nat
      BY Z3
    <3> QED BY <2>1, <3>1, <3>2
  <2> QED BY <2>2, <2>3
<1>4. S \in P
  <2> HIDE DEF P
  <2> QED BY <1>1, <1>3, FiniteSetInduction
<1> QED BY <1>4

=============================================================================
