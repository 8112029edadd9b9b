------------------------------ MODULE DataLemmas ------------------------------
(***************************************************************************)
(* Facts about data that the proofs of the components cite: prefix sums,   *)
(* sums over finite sets (MapThenSumSet), folds over a prefix of the       *)
(* numbers, least and greatest elements, sequences at their ends, sequences *)
(* in another order, and how many elements of a sequence are in a set.      *)
(*                                                                         *)
(* The recursive functions among them are solved by induction over data,   *)
(* which here is an argument by the least counterexample (LeastNat,        *)
(* LeastSubset): of a set of numbers, or of subsets of a finite set, for   *)
(* which a fact is false, the least one contradicts one unfolding.         *)
(***************************************************************************)
EXTENDS Sequences, FiniteSetsExt, FiniteSetTheorems, FunctionTheorems, TLAPS

\* Every set of naturals with an element has a least one: proofs by induction
\* apply it to the set of counterexamples.
LEMMA LeastNat ==
  ASSUME NEW T \in SUBSET Nat, T # {}
  PROVE  \E m \in T : \A n \in T : m <= n
  <1>1. PICK m \in T : \A n \in T : ~(<<n, m>> \in OpToRel(<, Nat))
    BY NatLessThanWellFounded, WFMin
  <1>2. ASSUME NEW n \in T, n < m PROVE FALSE
    <2>1. <<n, m>> \in OpToRel(<, Nat)
      BY <1>2 DEF OpToRel
    <2> QED
      BY <1>1, <2>1
  <1> QED
    BY <1>2

\* g[i] is the sum of the first i of the n numbers w.
IsPrefixSum(g, w, n) ==
  /\ g \in [0 .. n -> Nat]
  /\ g[0] = 0
  /\ \A i \in 1 .. n : g[i] = g[i - 1] + w[i]

\* There is such a function: each is the one for one number less and one value more.
LEMMA PrefixSumExists ==
  ASSUME NEW n \in Nat, NEW w \in [1 .. n -> Nat]
  PROVE  \E g : IsPrefixSum(g, w, n)
  <1> DEFINE Bad == {m \in 0 .. n : ~\E g : IsPrefixSum(g, w, m)}
  <1> SUFFICES ASSUME Bad # {} PROVE FALSE
    <2> n \in 0 .. n
      OBVIOUS
    <2> QED
      OBVIOUS
  <1>1. PICK m \in Bad : \A k \in Bad : m <= k
    <2> Bad \in SUBSET Nat
      OBVIOUS
    <2> HIDE DEF Bad
    <2> QED
      BY LeastNat
  <1>2. CASE m = 0
    <2>1. IsPrefixSum([i \in 0 .. 0 |-> 0], w, 0)
      BY DEF IsPrefixSum
    <2> QED
      BY <1>1, <1>2, <2>1
  <1>3. CASE m # 0
    <2>0. m - 1 \in 0 .. n
      BY <1>1, <1>3
    <2>1. PICK g : IsPrefixSum(g, w, m - 1)
      BY <1>1, <1>3, <2>0
    <2> DEFINE h == [i \in 0 .. m |-> IF i = m THEN g[m - 1] + w[m] ELSE g[i]]
    <2>2. IsPrefixSum(h, w, m)
      <3>1. /\ m \in 1 .. n
            /\ g \in [0 .. (m - 1) -> Nat] /\ g[0] = 0
            /\ \A i \in 1 .. (m - 1) : g[i] = g[i - 1] + w[i]
        BY <1>1, <1>3, <2>1 DEF IsPrefixSum
      <3>2. h \in [0 .. m -> Nat] /\ h[0] = 0
        BY <3>1
      <3>3. ASSUME NEW i \in 1 .. m PROVE h[i] = h[i - 1] + w[i]
        BY <3>1
      <3> QED
        BY <3>2, <3>3 DEF IsPrefixSum
    <2> QED
      BY <1>1, <2>2
  <1> QED
    BY <1>2, <1>3

\* The recursive function of CumulativeWeights is what its equations say.
LEMMA PrefixSumEquation ==
  ASSUME NEW n \in Nat, NEW w \in [1 .. n -> Nat], NEW g
  PROVE  g = [i \in 0 .. n |-> IF i = 0 THEN 0 ELSE g[i - 1] + w[i]]
            <=> IsPrefixSum(g, w, n)
  <1>1. ASSUME g = [i \in 0 .. n |-> IF i = 0 THEN 0 ELSE g[i - 1] + w[i]]
        PROVE  IsPrefixSum(g, w, n)
    <2>1. g[0] = 0 /\ \A i \in 1 .. n : g[i] = g[i - 1] + w[i]
      BY <1>1
    <2>2. \A i \in 0 .. n : g[i] \in Nat
      <3> DEFINE Wrong == {i \in 0 .. n : g[i] \notin Nat}
      <3> SUFFICES ASSUME Wrong # {} PROVE FALSE
        OBVIOUS
      <3>1. PICK i \in Wrong : \A k \in Wrong : i <= k
        <4> Wrong \in SUBSET Nat
          OBVIOUS
        <4> HIDE DEF Wrong
        <4> QED
          BY LeastNat
      <3>2. i # 0 /\ i - 1 \in 0 .. n /\ g[i - 1] \in Nat
        BY <2>1, <3>1
      <3> QED
        BY <2>1, <3>1, <3>2
    <2>3. g \in [0 .. n -> Nat]
      BY <1>1, <2>2
    <2> QED
      BY <2>1, <2>3 DEF IsPrefixSum
  <1>2. ASSUME IsPrefixSum(g, w, n)
        PROVE  g = [i \in 0 .. n |-> IF i = 0 THEN 0 ELSE g[i - 1] + w[i]]
    BY <1>2 DEF IsPrefixSum
  <1> QED
    BY <1>1, <1>2

\* So the function that the equations choose has the prefix sums.
LEMMA PrefixSum ==
  ASSUME NEW n \in Nat, NEW w \in [1 .. n -> Nat]
  PROVE  IsPrefixSum(CHOOSE g : g = [i \in 0 .. n |-> IF i = 0 THEN 0 ELSE g[i - 1] + w[i]], w, n)
  BY PrefixSumExists, PrefixSumEquation
-----------------------------------------------------------------------------
(***************************************************************************)
(* Sums over finite sets.                                                  *)
(***************************************************************************)

\* Every set of subsets of a finite set with an element has a minimal one.
LEMMA LeastSubset ==
  ASSUME NEW S, IsFiniteSet(S), NEW T \in SUBSET SUBSET S, T # {}
  PROVE  \E m \in T : \A U \in T : U \subseteq m => U = m
  <1>1. IsWellFoundedOn(StrictSubsetOrdering(S), SUBSET S)
    BY FS_StrictSubsetOrderingWellFounded, FS_FiniteSubsetsOfFinite
  <1>2. PICK m \in T : \A U \in T : ~(<<U, m>> \in StrictSubsetOrdering(S))
    BY <1>1, WFMin
  <1>3. ASSUME NEW U \in T, U \subseteq m, U # m PROVE FALSE
    BY <1>2, <1>3 DEF StrictSubsetOrdering
  <1> QED
    BY <1>2, <1>3

\* f summed over S, as the community modules do it.
SumOver(f, S) == MapThenSumSet(LAMBDA x : f[x], S)

\* The recursive function of the fold over S, one unfolding of it, and the element
\* that each unfolding takes out.
AnyOf(s) == CHOOSE x \in s : TRUE
SumStep(g, f, s) == IF s = {} THEN 0 ELSE f[AnyOf(s)] + g[s \ {AnyOf(s)}]
SumTable(f, S) == CHOOSE g : g = [s \in SUBSET S |-> SumStep(g, f, s)]

\* The fold of the community modules, unfolded.
LEMMA SumOverIsSumTable ==
  ASSUME NEW f, NEW S
  PROVE  SumOver(f, S) = SumTable(f, S)[S]
  BY DEF SumOver, MapThenSumSet, MapThenFoldSet, SumTable, SumStep, AnyOf

\* CHOOSE returns an element.
LEMMA AnyOfIn == ASSUME NEW s, s # {} PROVE AnyOf(s) \in s
  BY DEF AnyOf

\* The recursion of the fold is over ever smaller subsets, so it has a solution...
LEMMA SumTableExists ==
  ASSUME NEW f, NEW S, IsFiniteSet(S)
  PROVE  \E g : g = [s \in SUBSET S |-> SumStep(g, f, s)]
  <1> DEFINE Small(n) == {s \in SUBSET S : Cardinality(s) <= n}
             Solves(g, n) == g = [s \in Small(n) |-> SumStep(g, f, s)]
             Bad == {n \in Nat : ~\E g : Solves(g, n)}
  <1>0. \A s \in SUBSET S : IsFiniteSet(s) /\ Cardinality(s) \in Nat
    BY FS_Subset, FS_CardinalityType
  <1>1. Bad = {}
    <2> SUFFICES ASSUME Bad # {} PROVE FALSE
      OBVIOUS
    <2>1. PICK n \in Bad : \A k \in Bad : n <= k
      <3> Bad \in SUBSET Nat
        OBVIOUS
      <3> HIDE DEF Bad
      <3> QED
        BY LeastNat
    <2>2. CASE n = 0
      <3>1. \A s \in Small(0) : s = {}
        BY <1>0, FS_EmptySet
      <3>2. Solves([s \in Small(0) |-> 0], 0)
        BY <3>1 DEF SumStep
      <3> QED
        BY <2>1, <2>2, <3>2
    <2>3. CASE n # 0
      <3>0. n - 1 \in Nat
        BY <2>1, <2>3
      <3>1. PICK g : Solves(g, n - 1)
        <4>1. n - 1 \notin Bad
          <5> n \in Nat
            OBVIOUS
          <5> HIDE DEF Bad
          <5> QED
            BY <2>1
        <4> QED
          BY <3>0, <4>1
      <3> DEFINE h == [s \in Small(n) |-> SumStep(g, f, s)]
      <3>2. ASSUME NEW s \in Small(n - 1) PROVE s \in Small(n) /\ h[s] = g[s]
        <4>1. s \in Small(n)
          BY <1>0, <2>1
        <4>2. g[s] = SumStep(g, f, s)
          BY <3>1
        <4> HIDE DEF Small
        <4> QED
          BY <4>1, <4>2
      <3>3. ASSUME NEW s \in Small(n), s # {} PROVE s \ {AnyOf(s)} \in Small(n - 1)
        <4>1. AnyOf(s) \in s
          BY <3>3, AnyOfIn
        <4>2. Cardinality(s \ {AnyOf(s)}) = Cardinality(s) - 1
          BY <1>0, <4>1, FS_RemoveElement
        <4> QED
          BY <1>0, <2>1, <4>2
      <3>4. \A s \in Small(n) : SumStep(g, f, s) = SumStep(h, f, s)
        <4> SUFFICES ASSUME NEW s \in Small(n), s # {}
                     PROVE  g[s \ {AnyOf(s)}] = h[s \ {AnyOf(s)}]
          BY DEF SumStep
        <4> QED
          BY <3>2, <3>3
      <3>5. Solves(h, n)
        BY <3>4
      <3> QED
        BY <2>1, <3>5
    <2> QED
      BY <2>2, <2>3
  <1>2. Cardinality(S) \in Nat
    BY FS_CardinalityType
  <1>3. Small(Cardinality(S)) = SUBSET S
    <2>1. \A s \in SUBSET S : Cardinality(s) <= Cardinality(S)
      BY FS_Subset
    <2> QED
      BY <2>1
  <1>4. PICK g : Solves(g, Cardinality(S))
    BY <1>1, <1>2
  <1> QED
    BY <1>3, <1>4

\* ... which is the function that is chosen, ...
LEMMA SumTableEquation ==
  ASSUME NEW f, NEW S, IsFiniteSet(S), NEW s \in SUBSET S
  PROVE  SumTable(f, S)[s] = SumStep(SumTable(f, S), f, s)
  <1>1. SumTable(f, S) = [t \in SUBSET S |-> SumStep(SumTable(f, S), f, t)]
    BY SumTableExists DEF SumTable
  <1> QED
    BY <1>1

\* ... and the same one for every set that contains the subset.
LEMMA SumTableUnique ==
  ASSUME NEW f, NEW S, IsFiniteSet(S), NEW V \in SUBSET S
  PROVE  \A U \in SUBSET V : SumTable(f, V)[U] = SumTable(f, S)[U]
  <1> DEFINE Bad == {U \in SUBSET V : SumTable(f, V)[U] # SumTable(f, S)[U]}
  <1> SUFFICES ASSUME Bad # {} PROVE FALSE
    OBVIOUS
  <1>1. IsFiniteSet(V)
    BY FS_Subset
  <1>2. PICK U \in Bad : \A W \in Bad : W \subseteq U => W = U
    <2> Bad \in SUBSET SUBSET V
      OBVIOUS
    <2> HIDE DEF Bad
    <2> QED
      BY <1>1, LeastSubset
  <1>3. /\ SumTable(f, V)[U] = SumStep(SumTable(f, V), f, U)
        /\ SumTable(f, S)[U] = SumStep(SumTable(f, S), f, U)
    BY <1>1, SumTableEquation
  <1>4. CASE U = {}
    BY <1>2, <1>3, <1>4 DEF SumStep
  <1>5. CASE U # {}
    <2>1. AnyOf(U) \in U
      BY <1>5, AnyOfIn
    <2>2. U \ {AnyOf(U)} \in SUBSET V /\ U \ {AnyOf(U)} \notin Bad
      BY <1>2, <2>1
    <2>3. SumTable(f, V)[U \ {AnyOf(U)}] = SumTable(f, S)[U \ {AnyOf(U)}]
      BY <2>2
    <2> QED
      BY <1>2, <1>3, <1>5, <2>3 DEF SumStep
  <1> QED
    BY <1>4, <1>5

\* A sum over no element is 0; otherwise it is one element and the sum over the rest.
LEMMA SumUnfold ==
  ASSUME NEW f, NEW S, IsFiniteSet(S)
  PROVE  /\ SumOver(f, {}) = 0
         /\ S # {} => SumOver(f, S) = f[AnyOf(S)] + SumOver(f, S \ {AnyOf(S)})
  <1>1. SumOver(f, {}) = 0
    <2>1. SumTable(f, {})[{}] = 0
      BY SumTableEquation, FS_EmptySet DEF SumStep
    <2> QED
      BY <2>1, SumOverIsSumTable
  <1>2. ASSUME S # {} PROVE SumOver(f, S) = f[AnyOf(S)] + SumOver(f, S \ {AnyOf(S)})
    <2>1. SumTable(f, S)[S] = SumStep(SumTable(f, S), f, S)
      BY SumTableEquation
    <2>2. SumTable(f, S)[S] = f[AnyOf(S)] + SumTable(f, S)[S \ {AnyOf(S)}]
      BY <1>2, <2>1 DEF SumStep
    <2>3. SumTable(f, S \ {AnyOf(S)})[S \ {AnyOf(S)}] = SumTable(f, S)[S \ {AnyOf(S)}]
      BY SumTableUnique
    <2> QED
      BY <2>2, <2>3, SumOverIsSumTable
  <1> QED
    BY <1>1, <1>2

\* A sum of integers is an integer, ...
LEMMA SumType ==
  ASSUME NEW f, NEW S, IsFiniteSet(S), \A x \in S : f[x] \in Int
  PROVE  \A U \in SUBSET S : SumOver(f, U) \in Int
  <1> DEFINE Bad == {U \in SUBSET S : SumOver(f, U) \notin Int}
  <1> SUFFICES ASSUME Bad # {} PROVE FALSE
    OBVIOUS
  <1>1. PICK U \in Bad : \A W \in Bad : W \subseteq U => W = U
    <2> Bad \in SUBSET SUBSET S
      OBVIOUS
    <2> HIDE DEF Bad
    <2> QED
      BY LeastSubset
  <1>2. IsFiniteSet(U) /\ U # {}
    <2>1. IsFiniteSet(U)
      BY <1>1, FS_Subset
    <2>2. SumOver(f, {}) \in Int
      <3>1. SumOver(f, {}) = 0
        BY SumUnfold
      <3> QED
        BY <3>1
    <2>3. SumOver(f, U) \notin Int
      BY <1>1
    <2>4. U # {}
      BY <2>2, <2>3, Zenon
    <2> QED
      BY <2>1, <2>4
  <1>3. AnyOf(U) \in U /\ SumOver(f, U) = f[AnyOf(U)] + SumOver(f, U \ {AnyOf(U)})
    BY <1>2, AnyOfIn, SumUnfold
  <1>4. U \ {AnyOf(U)} \in SUBSET S /\ U \ {AnyOf(U)} \notin Bad
    BY <1>1, <1>3
  <1> QED
    BY <1>1, <1>3, <1>4

\* ... and it does not matter which element is taken out first.
LEMMA SumRemove ==
  ASSUME NEW f, NEW S, IsFiniteSet(S), \A x \in S : f[x] \in Int, NEW x \in S
  PROVE  SumOver(f, S) = f[x] + SumOver(f, S \ {x})
  <1> DEFINE Bad == {U \in SUBSET S : \E z \in U : SumOver(f, U) # f[z] + SumOver(f, U \ {z})}
  <1> SUFFICES ASSUME Bad # {} PROVE FALSE
    OBVIOUS
  <1>1. PICK U \in Bad : \A W \in Bad : W \subseteq U => W = U
    <2> Bad \in SUBSET SUBSET S
      OBVIOUS
    <2> HIDE DEF Bad
    <2> QED
      BY LeastSubset
  <1>2. PICK z \in U : SumOver(f, U) # f[z] + SumOver(f, U \ {z})
    BY <1>1
  <1> DEFINE y == AnyOf(U)
  <1>3. IsFiniteSet(U) /\ y \in U
    BY <1>1, <1>2, FS_Subset, AnyOfIn
  <1>4. SumOver(f, U) = f[y] + SumOver(f, U \ {y})
    BY <1>3, SumUnfold
  <1> HIDE DEF y
  <1>5. y # z
    BY <1>2, <1>4
  <1>6. U \ {y} \in (SUBSET S) \ Bad /\ U \ {z} \in (SUBSET S) \ Bad
    BY <1>1, <1>2, <1>3
  <1>7. SumOver(f, U \ {y}) = f[z] + SumOver(f, (U \ {y}) \ {z})
    BY <1>2, <1>5, <1>6
  <1>8. SumOver(f, U \ {z}) = f[y] + SumOver(f, (U \ {z}) \ {y})
    BY <1>3, <1>5, <1>6
  <1>9. (U \ {y}) \ {z} = (U \ {z}) \ {y} /\ (U \ {z}) \ {y} \in SUBSET S
    BY <1>6
  <1>10. SumOver(f, (U \ {z}) \ {y}) \in Int /\ f[y] \in Int /\ f[z] \in Int
    BY <1>1, <1>2, <1>3, <1>9, SumType
  <1>11. SumOver(f, (U \ {y}) \ {z}) = SumOver(f, (U \ {z}) \ {y})
    BY <1>9
  <1> QED
    BY <1>2, <1>4, <1>7, <1>8, <1>10, <1>11

\* The sum depends on the summands only.
LEMMA SumSame ==
  ASSUME NEW f, NEW g, NEW S, IsFiniteSet(S), \A x \in S : f[x] = g[x]
  PROVE  SumOver(f, S) = SumOver(g, S)
  <1> DEFINE Bad == {U \in SUBSET S : SumOver(f, U) # SumOver(g, U)}
  <1> SUFFICES ASSUME Bad # {} PROVE FALSE
    OBVIOUS
  <1>1. PICK U \in Bad : \A W \in Bad : W \subseteq U => W = U
    <2> Bad \in SUBSET SUBSET S
      OBVIOUS
    <2> HIDE DEF Bad
    <2> QED
      BY LeastSubset
  <1>2. IsFiniteSet(U) /\ U # {}
    <2>1. IsFiniteSet(U)
      BY <1>1, FS_Subset
    <2>2. SumOver(f, {}) = 0 /\ SumOver(g, {}) = 0
      BY SumUnfold
    <2> QED
      BY <1>1, <2>1, <2>2
  <1>3. AnyOf(U) \in U
    BY <1>2, AnyOfIn
  <1>4. /\ SumOver(f, U) = f[AnyOf(U)] + SumOver(f, U \ {AnyOf(U)})
        /\ SumOver(g, U) = g[AnyOf(U)] + SumOver(g, U \ {AnyOf(U)})
    BY <1>2, SumUnfold
  <1>5. U \ {AnyOf(U)} \in SUBSET S /\ U \ {AnyOf(U)} \notin Bad
    BY <1>1, <1>3
  <1> QED
    BY <1>1, <1>3, <1>4, <1>5

\* Changing one summand changes the sum by as much.
LEMMA SumUpdate ==
  ASSUME NEW f, NEW g, NEW S, IsFiniteSet(S), NEW x \in S, g[x] \in Int,
         \A y \in S : f[y] \in Int,
         \A y \in S \ {x} : g[y] = f[y]
  PROVE  SumOver(g, S) = SumOver(f, S) - f[x] + g[x]
  <1>1. IsFiniteSet(S \ {x}) /\ S \ {x} \in SUBSET S
    BY FS_Subset
  <1>2. SumOver(f, S) = f[x] + SumOver(f, S \ {x})
    BY SumRemove
  <1>3. SumOver(g, S) = g[x] + SumOver(g, S \ {x})
    <2>1. \A y \in S : g[y] \in Int
      OBVIOUS
    <2> QED
      BY <2>1, SumRemove
  <1>4. SumOver(g, S \ {x}) = SumOver(f, S \ {x})
    BY <1>1, SumSame
  <1>5. SumOver(f, S \ {x}) \in Int /\ f[x] \in Int
    BY <1>1, SumType
  <1> QED
    BY <1>2, <1>3, <1>4, <1>5

\* A sum of naturals is at least each of them...
LEMMA SumAtLeast ==
  ASSUME NEW f, NEW S, IsFiniteSet(S), \A x \in S : f[x] \in Nat
  PROVE  /\ SumOver(f, S) \in Nat
         /\ \A x \in S : f[x] <= SumOver(f, S)
  <1> DEFINE Bad == {U \in SUBSET S : SumOver(f, U) \notin Nat}
  <1>1. Bad = {}
    <2> SUFFICES ASSUME Bad # {} PROVE FALSE
      OBVIOUS
    <2>1. PICK U \in Bad : \A W \in Bad : W \subseteq U => W = U
      <3> Bad \in SUBSET SUBSET S
        OBVIOUS
      <3> HIDE DEF Bad
      <3> QED
        BY LeastSubset
    <2>2. U # {}
      <3>1. SumOver(f, {}) \in Nat
        <4>1. SumOver(f, {}) = 0
          BY SumUnfold
        <4> QED
          BY <4>1
      <3>2. SumOver(f, U) \notin Nat
        BY <2>1
      <3> QED
        BY <3>1, <3>2, Zenon
    <2>3. IsFiniteSet(U) /\ AnyOf(U) \in U
      BY <2>1, <2>2, FS_Subset, AnyOfIn
    <2>4. SumOver(f, U) = f[AnyOf(U)] + SumOver(f, U \ {AnyOf(U)})
      BY <2>2, <2>3, SumUnfold
    <2>5. U \ {AnyOf(U)} \in SUBSET S /\ U \ {AnyOf(U)} \notin Bad
      BY <2>1, <2>3
    <2> QED
      BY <2>1, <2>3, <2>4, <2>5
  <1>2. ASSUME NEW x \in S PROVE f[x] <= SumOver(f, S)
    <2>1. SumOver(f, S) = f[x] + SumOver(f, S \ {x})
      BY SumRemove
    <2>2. SumOver(f, S \ {x}) \in Nat
      BY <1>1
    <2> QED
      BY <2>1, <2>2
  <1>3. S \in SUBSET S
    OBVIOUS
  <1> QED
    BY <1>1, <1>2, <1>3

\* ... and at most as many times a bound on all.
LEMMA SumAtMost ==
  ASSUME NEW M \in Nat, NEW f, NEW S, IsFiniteSet(S), \A x \in S : f[x] \in 0 .. M
  PROVE  SumOver(f, S) <= Cardinality(S) * M
  <1> DEFINE Bad == {U \in SUBSET S : ~(SumOver(f, U) <= Cardinality(U) * M)}
  <1>0. S \in SUBSET S
    OBVIOUS
  <1> SUFFICES ASSUME Bad # {} PROVE FALSE
    BY <1>0
  <1>1. PICK U \in Bad : \A W \in Bad : W \subseteq U => W = U
    <2> Bad \in SUBSET SUBSET S
      OBVIOUS
    <2> HIDE DEF Bad
    <2> QED
      BY LeastSubset
  <1>2. IsFiniteSet(U)
    BY <1>1, FS_Subset
  <1>3. U # {}
    <2>1. SumOver(f, {}) <= Cardinality({}) * M
      <3>1. SumOver(f, {}) = 0 /\ Cardinality({}) = 0
        BY SumUnfold, FS_EmptySet
      <3> QED
        BY <3>1
    <2>2. ~(SumOver(f, U) <= Cardinality(U) * M)
      BY <1>1
    <2> QED
      BY <2>1, <2>2, Zenon
  <1> DEFINE x == AnyOf(U)
             V == U \ {x}
             k == Cardinality(V)
  <1>4. x \in U /\ SumOver(f, U) = f[x] + SumOver(f, V)
    BY <1>2, <1>3, AnyOfIn, SumUnfold
  <1>5. Cardinality(U) = k + 1 /\ k \in Nat
    <2>1. IsFiniteSet(V) /\ Cardinality(V) = Cardinality(U) - 1
      BY <1>2, <1>4, FS_RemoveElement
    <2>2. Cardinality(V) \in Nat /\ Cardinality(U) \in Nat
      BY <1>2, <2>1, FS_CardinalityType
    <2> QED
      BY <2>1, <2>2
  <1>6. SumOver(f, V) <= k * M
    BY <1>1, <1>4
  <1>7. f[x] \in 0 .. M /\ SumOver(f, V) \in Int
    BY <1>1, <1>4, SumType
  <1>8. ~(SumOver(f, U) <= Cardinality(U) * M)
    BY <1>1
  <1> HIDE DEF x, V, k
  <1>9. (k + 1) * M = k * M + M /\ k * M \in Nat
    BY <1>5
  <1> QED
    BY <1>4, <1>5, <1>6, <1>7, <1>8, <1>9

\* A sum of zeros is 0.
LEMMA SumZero ==
  ASSUME NEW f, NEW S, IsFiniteSet(S), \A x \in S : f[x] = 0
  PROVE  SumOver(f, S) = 0
  <1>1. SumOver(f, S) \in Nat
    BY SumAtLeast
  <1>2. SumOver(f, S) <= Cardinality(S) * 0
    BY SumAtMost
  <1>3. Cardinality(S) * 0 = 0
    BY FS_CardinalityType
  <1> QED
    BY <1>1, <1>2, <1>3

\* Two sums that are equal stay equal when one summand of each grows by one.
LEMMA SumsGrowAlike ==
  ASSUME NEW S, NEW T, IsFiniteSet(S), IsFiniteSet(T),
         NEW f \in [S -> Nat], NEW h \in [S -> Nat],
         NEW g \in [T -> Nat], NEW k \in [T -> Nat],
         NEW x \in S, h[x] = f[x] + 1, \A y \in S \ {x} : h[y] = f[y],
         NEW i \in T, k[i] = g[i] + 1, \A j \in T \ {i} : k[j] = g[j],
         SumOver(f, S) = SumOver(g, T)
  PROVE  SumOver(h, S) = SumOver(k, T)
  <1>1. /\ \A y \in S : f[y] \in Int
        /\ \A j \in T : g[j] \in Int
        /\ h[x] \in Int /\ k[i] \in Int
    OBVIOUS
  <1>2. SumOver(h, S) = SumOver(f, S) - f[x] + h[x]
    BY <1>1, SumUpdate
  <1>3. SumOver(k, T) = SumOver(g, T) - g[i] + k[i]
    BY <1>1, SumUpdate
  <1>4. SumOver(f, S) \in Int
    BY <1>1, SumType
  <1> QED
    BY <1>1, <1>2, <1>3, <1>4

\* The sum over a set is the sum over the rest and the one element.
LEMMA SumOfRest ==
  ASSUME NEW T, IsFiniteSet(T), NEW f \in [T -> Nat], NEW S \in SUBSET T, NEW i \in S
  PROVE  SumOver(f, S) = SumOver(f, S \ {i}) + f[i]
  <1>1. IsFiniteSet(S) /\ \A j \in S : f[j] \in Int
    BY FS_Subset
  <1>2. SumOver(f, S) = f[i] + SumOver(f, S \ {i})
    BY <1>1, SumRemove
  <1>3. SumOver(f, S \ {i}) \in Int /\ f[i] \in Int
    BY <1>1, SumType
  <1> QED
    BY <1>2, <1>3

\* The sum over a part depends on the summands of the part only.
LEMMA SumSamePart ==
  ASSUME NEW T, IsFiniteSet(T), NEW f, NEW g, NEW S \in SUBSET T, \A j \in S : f[j] = g[j]
  PROVE  SumOver(f, S) = SumOver(g, S)
  <1>1. IsFiniteSet(S)
    BY FS_Subset
  <1> QED
    BY <1>1, SumSame

\* Any function that solves the equation of the fold gives the sum: so does the one
\* that MapThenSumSet chooses for an expression that equals f[x] on the set.
LEMMA SumSolution ==
  ASSUME NEW f, NEW S, IsFiniteSet(S), NEW h,
         \A s \in SUBSET S : h[s] = SumStep(h, f, s)
  PROVE  h[S] = SumOver(f, S)
  <1> DEFINE Bad == {s \in SUBSET S : h[s] # SumTable(f, S)[s]}
  <1>1. Bad = {}
    <2> SUFFICES ASSUME Bad # {} PROVE FALSE
      OBVIOUS
    <2>1. PICK U \in Bad : \A W \in Bad : W \subseteq U => W = U
      <3> Bad \in SUBSET SUBSET S
        OBVIOUS
      <3> HIDE DEF Bad
      <3> QED
        BY LeastSubset
    <2>2. h[U] = SumStep(h, f, U) /\ SumTable(f, S)[U] = SumStep(SumTable(f, S), f, U)
      BY <2>1, SumTableEquation
    <2>3. CASE U = {}
      BY <2>1, <2>2, <2>3 DEF SumStep
    <2>4. CASE U # {}
      <3>1. AnyOf(U) \in U
        BY <2>4, AnyOfIn
      <3>2. U \ {AnyOf(U)} \in SUBSET S /\ U \ {AnyOf(U)} \notin Bad
        BY <2>1, <3>1
      <3>3. h[U \ {AnyOf(U)}] = SumTable(f, S)[U \ {AnyOf(U)}]
        BY <3>2
      <3> QED
        BY <2>1, <2>2, <2>4, <3>3 DEF SumStep
    <2> QED
      BY <2>3, <2>4
  <1>2. S \in SUBSET S
    OBVIOUS
  <1>3. h[S] = SumTable(f, S)[S]
    BY <1>1, <1>2
  <1> QED
    BY <1>3, SumOverIsSumTable
-----------------------------------------------------------------------------
\* A set and its image under a function that keeps the elements apart are as large.
LEMMA SameSize ==
  ASSUME NEW S, NEW T, IsFiniteSet(S), NEW f \in [S -> T],
         \A x, y \in S : f[x] = f[y] => x = y,
         \A z \in T : \E x \in S : f[x] = z
  PROVE  IsFiniteSet(T) /\ Cardinality(T) = Cardinality(S)
  <1>1. f \in Bijection(S, T)
    BY Fun_IsBij
  <1>2. ExistsBijection(S, T)
    BY <1>1 DEF ExistsBijection
  <1> QED
    BY <1>2, FS_Bijection
-----------------------------------------------------------------------------
\* Head takes the first element of a sequence and Tail leaves the others, ...
LEMMA HeadAndTail ==
  ASSUME NEW T, NEW s \in Seq(T), s # <<>>
  PROVE  /\ Len(s) \in Nat \ {0} /\ DOMAIN s = 1 .. Len(s) /\ 1 \in DOMAIN s
         /\ Head(s) = s[1] /\ Head(s) \in T
         /\ Tail(s) \in Seq(T) /\ Len(Tail(s)) = Len(s) - 1
         /\ \A j \in DOMAIN Tail(s) : j + 1 \in DOMAIN s /\ Tail(s)[j] = s[j + 1]
         /\ \A j \in DOMAIN s : j = 1 \/ (j - 1 \in DOMAIN Tail(s) /\ Tail(s)[j - 1] = s[j])
  <1>1. /\ Len(s) \in Nat \ {0} /\ DOMAIN s = 1 .. Len(s)
        /\ Head(s) = s[1] /\ s[1] \in T
    OBVIOUS
  <1>2. /\ Tail(s) \in Seq(T) /\ Len(Tail(s)) = Len(s) - 1
        /\ DOMAIN Tail(s) = 1 .. Len(s) - 1
        /\ \A j \in 1 .. Len(s) - 1 : Tail(s)[j] = s[j + 1]
    OBVIOUS
  <1> QED
    BY <1>1, <1>2

\* ... and Append adds one element after the others.
LEMMA AppendOne ==
  ASSUME NEW T, NEW s \in Seq(T), NEW x \in T
  PROVE  /\ Append(s, x) \in Seq(T) /\ Len(Append(s, x)) = Len(s) + 1 /\ Len(s) \in Nat
         /\ DOMAIN Append(s, x) = DOMAIN s \cup {Len(s) + 1}
         /\ Len(s) + 1 \notin DOMAIN s
         /\ Append(s, x)[Len(s) + 1] = x
         /\ \A j \in DOMAIN s : Append(s, x)[j] = s[j]
  OBVIOUS
-----------------------------------------------------------------------------
\* Min picks the least element of a set of naturals.
LEMMA MinIsLeast ==
  ASSUME NEW S \in SUBSET Nat, S # {}
  PROVE  Min(S) \in S /\ \A n \in S : Min(S) <= n
  <1>1. \E m \in S : \A n \in S : m <= n
    BY LeastNat
  <1> QED
    BY <1>1 DEF Min

\* A set of numbers between 1 and n with an element has a greatest one, which is Max.
LEMMA MaxIsGreatest ==
  ASSUME NEW n \in Nat, NEW s \in SUBSET (1 .. n), s # {}
  PROVE  /\ Max(s) \in s
         /\ \A y \in s : y <= Max(s)
  <1> DEFINE gaps == {n - x : x \in s}
  <1>1. gaps \in SUBSET Nat /\ gaps # {}
    <2>1. \A x \in s : n - x \in Nat
      OBVIOUS
    <2>2. PICK x \in s : TRUE
      OBVIOUS
    <2>3. n - x \in gaps
      BY <2>2
    <2> QED
      BY <2>1, <2>3
  <1>2. PICK m \in gaps : \A k \in gaps : m <= k
    <2> HIDE DEF gaps
    <2> QED
      BY <1>1, LeastNat
  <1>3. PICK x \in s : m = n - x
    BY <1>2
  <1>4. \A y \in s : y <= x
    <2> SUFFICES ASSUME NEW y \in s PROVE y <= x
      OBVIOUS
    <2>1. n - y \in gaps /\ x \in Int /\ y \in Int
      OBVIOUS
    <2> QED
      BY <1>2, <1>3, <2>1
  <1>5. \E z \in s : \A y \in s : y <= z
    BY <1>3, <1>4
  <1> QED
    BY <1>5 DEF Max

\* The greatest of the first i numbers is the last of them.
LEMMA MaxOfPrefix ==
  ASSUME NEW i \in Nat \ {0}
  PROVE  Max(1 .. i) = i /\ (1 .. i) \ {Max(1 .. i)} = 1 .. (i - 1)
  <1>1. Max(1 .. i) \in 1 .. i /\ \A y \in 1 .. i : y <= Max(1 .. i)
    <2>1. 1 .. i # {} /\ 1 .. i \in SUBSET (1 .. i)
      OBVIOUS
    <2> QED
      BY ONLY <2>1, MaxIsGreatest, i \in Nat
  <1>2. Max(1 .. i) = i
    <2> DEFINE m == Max(1 .. i)
    <2>1. m \in 1 .. i /\ i <= m
      BY <1>1
    <2> HIDE DEF m
    <2>2. m = i
      BY <2>1
    <2> QED
      BY <2>2 DEF m
  <1> QED
    BY <1>2

\* h[s] is what folding G over the numbers of s comes to, the greatest number last.
IsFold(h, n, V, base, G) ==
  /\ h \in [SUBSET (1 .. n) -> V]
  /\ \A s \in SUBSET (1 .. n) :
       h[s] = IF s = {} THEN base ELSE G[<<h[s \ {Max(s)}], Max(s)>>]

\* The recursion of a fold is over ever smaller sets, so it has a solution.
LEMMA FoldExists ==
  ASSUME NEW n \in Nat, NEW V, NEW base \in V, NEW G \in [V \X (1 .. n) -> V]
  PROVE  \E h : IsFold(h, n, V, base, G)
  <1> DEFINE Solves(h, m) == IsFold(h, m, V, base, G)
             Bad == {m \in 0 .. n : ~\E h : Solves(h, m)}
  <1> SUFFICES ASSUME Bad # {} PROVE FALSE
    <2> n \in 0 .. n
      OBVIOUS
    <2> QED
      OBVIOUS
  <1>1. PICK m \in Bad : \A k \in Bad : m <= k
    <2> Bad \in SUBSET Nat
      OBVIOUS
    <2> HIDE DEF Bad
    <2> QED
      BY LeastNat
  <1>2. CASE m = 0
    <2>1. \A s \in SUBSET (1 .. 0) : s = {}
      OBVIOUS
    <2>2. Solves([s \in SUBSET (1 .. 0) |-> base], 0)
      BY <2>1 DEF IsFold
    <2> QED
      BY <1>1, <1>2, <2>2
  <1>3. CASE m # 0
    <2>1. m - 1 \in 0 .. n /\ m \in 1 .. n
      BY <1>1, <1>3
    <2>2. PICK g : Solves(g, m - 1)
      <3>1. m - 1 \notin Bad
        <4> m \in Nat
          BY <2>1
        <4> HIDE DEF Bad
        <4> QED
          BY <1>1
      <3> QED
        BY <2>1, <3>1
    <2> DEFINE h == [s \in SUBSET (1 .. m) |-> IF m \in s THEN G[<<g[s \ {m}], m>>] ELSE g[s]]
    <2>3. ASSUME NEW s \in SUBSET (1 .. m)
          PROVE  /\ s \ {m} \in SUBSET (1 .. (m - 1))
                 /\ m \notin s => s \in SUBSET (1 .. (m - 1))
      BY <2>1
    <2>4. h \in [SUBSET (1 .. m) -> V]
      <3> SUFFICES ASSUME NEW s \in SUBSET (1 .. m)
                   PROVE  (IF m \in s THEN G[<<g[s \ {m}], m>>] ELSE g[s]) \in V
        OBVIOUS
      <3>1. g[s \ {m}] \in V /\ (m \notin s => g[s] \in V)
        BY <2>2, <2>3 DEF IsFold
      <3> QED
        BY <2>1, <3>1
    <2>5. ASSUME NEW s \in SUBSET (1 .. (m - 1)) PROVE h[s] = g[s]
      <3>1. s \in SUBSET (1 .. m) /\ m \notin s
        BY <2>1
      <3> QED
        BY <3>1
    <2>6. ASSUME NEW s \in SUBSET (1 .. m)
          PROVE  h[s] = IF s = {} THEN base ELSE G[<<h[s \ {Max(s)}], Max(s)>>]
      <3>1. CASE m \in s
        <4>1. m \in Nat /\ s # {} /\ \A y \in s : y <= m
          BY <2>1, <3>1
        <4>2. Max(s) \in s /\ \A y \in s : y <= Max(s)
          BY <4>1, MaxIsGreatest
        <4>3. Max(s) = m
          <5> DEFINE x == Max(s)
          <5>1. x \in 1 .. m /\ m <= x
            BY <3>1, <4>2
          <5> HIDE DEF x
          <5>2. x = m
            BY <2>1, <5>1
          <5> QED
            BY <5>2 DEF x
        <4>4. h[s] = G[<<g[s \ {m}], m>>]
          BY <3>1
        <4>5. h[s \ {m}] = g[s \ {m}]
          BY <2>3, <2>5
        <4> HIDE DEF h
        <4> QED
          BY <4>1, <4>3, <4>4, <4>5
      <3>2. CASE m \notin s
        <4>1. s \in SUBSET (1 .. (m - 1)) /\ m - 1 \in Nat
          BY <2>1, <2>3, <3>2
        <4>2. g[s] = IF s = {} THEN base ELSE G[<<g[s \ {Max(s)}], Max(s)>>]
          BY <2>2, <4>1 DEF IsFold
        <4>3. s \ {Max(s)} \in SUBSET (1 .. (m - 1))
          BY <4>1
        <4>4. h[s] = g[s] /\ h[s \ {Max(s)}] = g[s \ {Max(s)}]
          BY <2>5, <4>1, <4>3
        <4> HIDE DEF h
        <4> QED
          BY <4>2, <4>4
      <3> QED
        BY <3>1, <3>2
    <2>7. \E x : Solves(x, m)
      <3>1. Solves(h, m)
        BY <2>4, <2>6 DEF IsFold
      <3> HIDE DEF h, Solves
      <3> QED
        BY <3>1
    <2> HIDE DEF Solves
    <2> QED
      BY <1>1, <2>7
  <1> QED
    BY <1>2, <1>3
-----------------------------------------------------------------------------
\* The sum over two sets without a common element is that over the one and the other.
LEMMA SumUnion ==
  ASSUME NEW f, NEW A, NEW B, IsFiniteSet(A), IsFiniteSet(B), A \cap B = {},
         \A x \in A \cup B : f[x] \in Int
  PROVE  SumOver(f, A \cup B) = SumOver(f, A) + SumOver(f, B)
  <1> DEFINE Bad == {U \in SUBSET B : SumOver(f, A \cup U) # SumOver(f, A) + SumOver(f, U)}
  <1> SUFFICES ASSUME Bad # {} PROVE FALSE
    <2> B \in SUBSET B
      OBVIOUS
    <2> QED
      OBVIOUS
  <1>1. PICK U \in Bad : \A W \in Bad : W \subseteq U => W = U
    <2> Bad \in SUBSET SUBSET B
      OBVIOUS
    <2> HIDE DEF Bad
    <2> QED
      BY LeastSubset
  <1>2. SumOver(f, A) \in Int
    <2> A \in SUBSET A
      OBVIOUS
    <2> QED
      BY SumType
  <1>3. U # {}
    <2>1. SumOver(f, {}) = 0
      BY SumUnfold
    <2>2. SumOver(f, A \cup {}) = SumOver(f, A) + SumOver(f, {})
      BY <1>2, <2>1
    <2> QED
      BY <1>1, <2>2
  <1>4. PICK x \in U : TRUE
    BY <1>3
  <1>5. U \ {x} \in SUBSET B /\ U \ {x} \notin Bad
    BY <1>1, <1>4
  <1>6. SumOver(f, A \cup (U \ {x})) = SumOver(f, A) + SumOver(f, U \ {x})
    BY <1>5
  <1>7. /\ IsFiniteSet(U) /\ IsFiniteSet(A \cup U) /\ (A \cup U) \ {x} = A \cup (U \ {x})
        /\ x \in A \cup U /\ \A y \in A \cup U : f[y] \in Int
        /\ U \ {x} \in SUBSET U
    <2>1. IsFiniteSet(U)
      BY <1>1, FS_Subset
    <2>2. IsFiniteSet(A \cup U)
      BY <2>1, FS_Union
    <2> QED
      BY <1>1, <1>4, <2>1, <2>2
  <1>8. SumOver(f, A \cup U) = f[x] + SumOver(f, A \cup (U \ {x}))
    <2>1. SumOver(f, A \cup U) = f[x] + SumOver(f, (A \cup U) \ {x})
      BY ONLY <1>7, SumRemove
    <2> QED
      BY <1>7, <2>1
  <1>9. SumOver(f, U) = f[x] + SumOver(f, U \ {x}) /\ SumOver(f, U \ {x}) \in Int
    <2>1. x \in U /\ \A y \in U : f[y] \in Int
      BY <1>4, <1>7
    <2> QED
      BY ONLY <1>7, <2>1, SumRemove, SumType
  <1>10. f[x] \in Int /\ SumOver(f, A \cup U) # SumOver(f, A) + SumOver(f, U)
    BY <1>1, <1>7
  <1> HIDE DEF Bad
  <1> QED
    BY <1>2, <1>6, <1>8, <1>9, <1>10

\* The sum over a set that is cut into parts is the sum of the sums over the parts.
LEMMA SumPartition ==
  ASSUME NEW f, NEW S, IsFiniteSet(S), \A x \in S : f[x] \in Int,
         NEW T, IsFiniteSet(T), NEW part \in [T -> SUBSET S],
         \A t, u \in T : t # u => part[t] \cap part[u] = {},
         \A x \in S : \E t \in T : x \in part[t],
         NEW g, \A t \in T : g[t] = SumOver(f, part[t])
  PROVE  SumOver(g, T) = SumOver(f, S)
  <1> DEFINE Parts(U) == UNION {part[t] : t \in U}
             Bad == {U \in SUBSET T : SumOver(g, U) # SumOver(f, Parts(U))}
  <1>1. Bad = {}
    <2> SUFFICES ASSUME Bad # {} PROVE FALSE
      OBVIOUS
    <2>1. PICK U \in Bad : \A W \in Bad : W \subseteq U => W = U
      <3> Bad \in SUBSET SUBSET T
        OBVIOUS
      <3> HIDE DEF Bad
      <3> QED
        BY LeastSubset
    <2>2. U # {}
      <3>1. SumOver(g, {}) = 0 /\ SumOver(f, {}) = 0
        BY SumUnfold
      <3>2. Parts({}) = {}
        OBVIOUS
      <3>3. SumOver(g, {}) = SumOver(f, Parts({}))
        BY <3>1, <3>2
      <3>4. {} \notin Bad
        BY <3>3
      <3> HIDE DEF Bad
      <3> QED
        BY <2>1, <3>4
    <2>3. PICK t \in U : TRUE
      BY <2>2
    <2> DEFINE W == U \ {t}
    <2>4. t \in T /\ W \in SUBSET T /\ W \notin Bad /\ U \in SUBSET T
      BY <2>1, <2>3
    <2>5. SumOver(g, W) = SumOver(f, Parts(W))
      BY <2>4
    <2>6. /\ Parts(U) = Parts(W) \cup part[t]
          /\ Parts(W) \cap part[t] = {}
          /\ Parts(W) \in SUBSET S /\ part[t] \in SUBSET S
      <3>1. Parts(U) = Parts(W) \cup part[t]
        BY <2>3
      <3>2. Parts(W) \cap part[t] = {}
        BY <2>4
      <3>3. Parts(W) \in SUBSET S /\ part[t] \in SUBSET S
        BY <2>4
      <3> QED
        BY <3>1, <3>2, <3>3
    <2> DEFINE A == Parts(W)
               B == part[t]
    <2>7. SumOver(f, A \cup B) = SumOver(f, A) + SumOver(f, B)
      <3>1. IsFiniteSet(A) /\ IsFiniteSet(B) /\ A \cap B = {} /\ \A x \in A \cup B : f[x] \in Int
        <4>1. IsFiniteSet(A) /\ IsFiniteSet(B)
          BY <2>6, FS_Subset
        <4>2. A \cup B \in SUBSET S
          BY <2>6
        <4> QED
          BY <2>6, <4>1, <4>2
      <3> HIDE DEF A, B
      <3> QED
        BY ONLY <3>1, SumUnion
    <2>8. SumOver(g, U) = g[t] + SumOver(g, W)
      <3>1. IsFiniteSet(U) /\ \A u \in U : g[u] \in Int
        <4>1. \A u \in T : SumOver(f, part[u]) \in Int
          <5> SUFFICES ASSUME NEW u \in T PROVE SumOver(f, part[u]) \in Int
            OBVIOUS
          <5>1. part[u] \in SUBSET S
            OBVIOUS
          <5> QED
            BY <5>1, SumType
        <4> QED
          BY <2>4, <4>1, FS_Subset
      <3> QED
        BY <2>3, <3>1, SumRemove
    <2>9. g[t] = SumOver(f, B)
      BY <2>4
    <2>10. SumOver(f, A) \in Int /\ SumOver(f, B) \in Int
      <3> HIDE DEF A, B
      <3>1. A \in SUBSET S /\ B \in SUBSET S
        BY <2>6 DEF A, B
      <3> QED
        BY <3>1, SumType
    <2>11. SumOver(g, U) # SumOver(f, Parts(U))
      BY <2>1
    <2>12. SumOver(f, Parts(U)) = SumOver(f, A \cup B)
      BY <2>6
    <2> HIDE DEF A, B, W, Parts
    <2> QED
      BY <2>5, <2>7, <2>8, <2>9, <2>10, <2>11, <2>12 DEF A, B
  <1>2. Parts(T) = S /\ T \in SUBSET T
    OBVIOUS
  <1>3. SumOver(g, T) = SumOver(f, Parts(T))
    <2> HIDE DEF Parts
    <2> QED
      BY <1>1, <1>2
  <1> QED
    BY <1>2, <1>3
-----------------------------------------------------------------------------
\* s holds the elements of t in the order of p.
IsOrder(p, s, t) ==
  /\ p \in [DOMAIN t -> DOMAIN t]
  /\ \A i, j \in DOMAIN t : p[i] = p[j] => i = j
  /\ \A j \in DOMAIN t : \E i \in DOMAIN t : p[i] = j
  /\ s = [i \in DOMAIN t |-> t[p[i]]]

\* Another order of a sequence is a sequence of the same type and length.
LEMMA OrderType ==
  ASSUME NEW S, NEW t \in Seq(S), NEW p, NEW s, IsOrder(p, s, t)
  PROVE  /\ s \in Seq(S) /\ Len(s) = Len(t) /\ DOMAIN s = DOMAIN t
         /\ \A i \in DOMAIN t : p[i] \in DOMAIN t /\ s[i] = t[p[i]]
         /\ \A j \in DOMAIN t : \E i \in DOMAIN t : p[i] = j /\ s[i] = t[j]
  <1>1. DOMAIN t = 1 .. Len(t) /\ Len(t) \in Nat
    OBVIOUS
  <1>2. \A i \in DOMAIN t : p[i] \in DOMAIN t /\ s[i] = t[p[i]]
    BY DEF IsOrder
  <1>3. s = [i \in 1 .. Len(t) |-> s[i]] /\ \A i \in 1 .. Len(t) : s[i] \in S
    <2>1. s = [i \in 1 .. Len(t) |-> s[i]]
      BY <1>1 DEF IsOrder
    <2>2. \A i \in 1 .. Len(t) : s[i] \in S
      BY <1>1, <1>2
    <2> QED
      BY <2>1, <2>2
  <1>4. s \in Seq(S) /\ Len(s) = Len(t)
    BY ONLY <1>1, <1>3
  <1>5. \A j \in DOMAIN t : \E i \in DOMAIN t : p[i] = j /\ s[i] = t[j]
    BY <1>2 DEF IsOrder
  <1> QED
    BY <1>1, <1>2, <1>4, <1>5

\* How many elements of a sequence are in A.
Where(s, A) == {i \in DOMAIN s : s[i] \in A}
CountIn(s, A) == Cardinality(Where(s, A))

\* A number, of finitely many places.
LEMMA CountType ==
  ASSUME NEW T, NEW s \in Seq(T), NEW A
  PROVE  IsFiniteSet(Where(s, A)) /\ CountIn(s, A) \in Nat
  <1>1. Where(s, A) \in SUBSET (1 .. Len(s)) /\ IsFiniteSet(1 .. Len(s))
    <2>1. Len(s) \in Nat /\ DOMAIN s = 1 .. Len(s)
      OBVIOUS
    <2> QED
      BY <2>1, FS_Interval DEF Where
  <1> QED
    BY <1>1, FS_Subset, FS_CardinalityType DEF CountIn

\* In another order there are as many.
LEMMA CountOfOrder ==
  ASSUME NEW T, NEW t \in Seq(T), NEW s, NEW p, IsOrder(p, s, t), NEW A
  PROVE  CountIn(s, A) = CountIn(t, A)
  <1> DEFINE f == [i \in Where(s, A) |-> p[i]]
  <1>1. /\ p \in [DOMAIN t -> DOMAIN t] /\ DOMAIN s = DOMAIN t
        /\ \A i, j \in DOMAIN t : p[i] = p[j] => i = j
        /\ \A j \in DOMAIN t : \E i \in DOMAIN t : p[i] = j
        /\ \A i \in DOMAIN t : s[i] = t[p[i]]
    BY DEF IsOrder
  <1>2. IsFiniteSet(DOMAIN t)
    <2>1. Len(t) \in Nat /\ DOMAIN t = 1 .. Len(t)
      OBVIOUS
    <2> QED
      BY <2>1, FS_Interval
  <1>3. IsFiniteSet(Where(s, A))
    <2>1. Where(s, A) \in SUBSET DOMAIN t
      BY <1>1 DEF Where
    <2> QED
      BY <1>2, <2>1, FS_Subset
  <1>4. f \in [Where(s, A) -> Where(t, A)]
    BY <1>1 DEF Where
  <1>5. \A i, j \in Where(s, A) : f[i] = f[j] => i = j
    BY <1>1 DEF Where
  <1>6. \A j \in Where(t, A) : \E i \in Where(s, A) : f[i] = j
    BY <1>1 DEF Where
  <1> HIDE DEF f
  <1> QED
    BY <1>3, <1>4, <1>5, <1>6, SameSize DEF CountIn

\* An element more counts if it is in A.
LEMMA CountAppend ==
  ASSUME NEW T, NEW s \in Seq(T), NEW x \in T, NEW A
  PROVE  CountIn(Append(s, x), A) = CountIn(s, A) + (IF x \in A THEN 1 ELSE 0)
  <1> DEFINE u == Append(s, x)
             n == Len(s) + 1
  <1>1. /\ Len(s) \in Nat /\ DOMAIN s = 1 .. Len(s)
        /\ DOMAIN u = 1 .. n /\ u[n] = x /\ n \notin DOMAIN s
        /\ DOMAIN u = DOMAIN s \cup {n}
        /\ \A i \in DOMAIN s : u[i] = s[i]
    OBVIOUS
  <1> HIDE DEF u, n
  <1>2. CASE x \in A
    <2>1. Where(u, A) = Where(s, A) \cup {n} /\ n \notin Where(s, A)
      BY <1>1, <1>2 DEF Where
    <2> QED
      BY <1>2, <2>1, CountType, FS_AddElement DEF CountIn, u
  <1>3. CASE x \notin A
    <2>1. Where(u, A) = Where(s, A)
      BY <1>1, <1>3 DEF Where
    <2> QED
      BY <1>3, <2>1, CountType DEF CountIn, u
  <1> QED
    BY <1>2, <1>3

\* The elements of two sequences, one after the other, are those of both.
LEMMA CountConcat ==
  ASSUME NEW T, NEW s \in Seq(T), NEW t \in Seq(T), NEW A
  PROVE  CountIn(s \o t, A) = CountIn(s, A) + CountIn(t, A)
  <1> DEFINE u == s \o t
             n == Len(s)
             Behind == {i \in Where(u, A) : i > n}
  <1>1. /\ n \in Nat /\ Len(t) \in Nat /\ DOMAIN s = 1 .. n /\ DOMAIN t = 1 .. Len(t)
        /\ DOMAIN u = 1 .. (n + Len(t)) /\ u \in Seq(T)
        /\ \A i \in 1 .. n : u[i] = s[i]
        /\ \A i \in 1 .. Len(t) : u[n + i] = t[i]
    OBVIOUS
  <1> HIDE DEF u, n
  <1>2. Where(u, A) = Where(s, A) \cup Behind /\ Where(s, A) \cap Behind = {}
    BY <1>1 DEF Where
  <1>3. Cardinality(Behind) = CountIn(t, A) /\ IsFiniteSet(Behind)
    <2> DEFINE f == [i \in Where(t, A) |-> n + i]
    <2>1. f \in [Where(t, A) -> Behind]
      BY <1>1 DEF Where
    <2>2. \A i, j \in Where(t, A) : f[i] = f[j] => i = j
      BY <1>1 DEF Where
    <2>3. \A j \in Behind : \E i \in Where(t, A) : f[i] = j
      <3> SUFFICES ASSUME NEW j \in Behind PROVE \E i \in Where(t, A) : f[i] = j
        OBVIOUS
      <3>1. j - n \in 1 .. Len(t) /\ n + (j - n) = j /\ u[j] \in A
        BY <1>1 DEF Where
      <3>2. j - n \in Where(t, A)
        BY <1>1, <3>1 DEF Where
      <3> QED
        BY <3>1, <3>2
    <2>4. IsFiniteSet(Where(t, A))
      BY CountType
    <2> HIDE DEF f, Behind
    <2> QED
      BY <2>1, <2>2, <2>3, <2>4, SameSize DEF CountIn
  <1>4. IsFiniteSet(Where(s, A)) /\ CountIn(s, A) \in Nat /\ CountIn(t, A) \in Nat
    BY CountType
  <1>5. Cardinality(Where(u, A)) = Cardinality(Where(s, A)) + Cardinality(Behind)
    <2> HIDE DEF Behind
    <2>1. Cardinality(Where(s, A) \cup Behind)
            = Cardinality(Where(s, A)) + Cardinality(Behind) - Cardinality(Where(s, A) \cap Behind)
      BY <1>3, <1>4, FS_Union
    <2>2. Cardinality(Where(s, A)) \in Nat /\ Cardinality(Behind) \in Nat
      BY <1>3, <1>4 DEF CountIn
    <2>3. Cardinality(Where(s, A) \cap Behind) = 0
      BY <1>2, FS_EmptySet
    <2> QED
      BY <1>2, <2>1, <2>2, <2>3
  <1> QED
    BY <1>3, <1>5 DEF CountIn, u
=============================================================================
