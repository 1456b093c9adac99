-------------------------- MODULE Evaluation_proofs --------------------------
(***************************************************************************)
(* Proofs about Evaluation, Translation and Summaries, for every set of    *)
(* constitutions and measurements.                                         *)
(***************************************************************************)
EXTENDS Summaries, Translation, FiniteSetTheorems, TLAPS

-----------------------------------------------------------------------------
(* Rounding down.                                                          *)

LEMMA MulMono == ASSUME NEW a \in Nat, NEW b \in Nat, NEW k \in Nat, a <= b PROVE a * k <= b * k
  OBVIOUS

LEMMA DivFacts ==
    ASSUME NEW a \in Nat, NEW k \in Nat \ {0}
    PROVE  /\ a \div k \in Nat
           /\ (a \div k) * k <= a
           /\ a < (a \div k + 1) * k
  OBVIOUS

LEMMA DivMonotone ==
    ASSUME NEW a \in Nat, NEW b \in Nat, NEW k \in Nat \ {0}, NEW l \in Nat \ {0}, a <= b, l <= k
    PROVE  a \div k \in Nat /\ b \div l \in Nat /\ a \div k <= b \div l
  <1> DEFINE q == a \div k
             r == b \div l
  <1>1. q \in Nat /\ r \in Nat /\ q * k <= a /\ b < (r + 1) * l
    BY DivFacts
  <1> HIDE DEF q, r
  <1>2. ASSUME r + 1 <= q PROVE FALSE
    <2>1. (r + 1) * l <= q * l
      BY <1>1, <1>2, MulMono
    <2>2. l * q <= k * q
      BY <1>1, MulMono
    <2>3. (r+1) * l \in Nat /\ q * l \in Nat /\ l * q = q * l /\ k * q = q * k /\ q * k \in Nat
      BY <1>1
    <2> QED BY <1>1, <2>1, <2>2, <2>3
  <1>3. q <= r
    BY <1>1, <1>2
  <1> QED BY <1>1, <1>3 DEF q, r

LEMMA DivAtMost ==
    ASSUME NEW a \in Nat, NEW k \in Nat \ {0}, NEW most \in Nat, a < (most + 1) * k
    PROVE  a \div k \in 0..most
  <1> DEFINE q == a \div k
  <1>1. q \in Nat /\ q * k <= a
    BY DivFacts
  <1> HIDE DEF q
  <1>2. ASSUME most + 1 <= q PROVE FALSE
    <2>1. (most + 1) * k <= q * k
      BY <1>1, <1>2, MulMono
    <2>2. (most + 1) * k \in Nat /\ q * k \in Nat
      BY <1>1
    <2> QED BY <1>1, <2>1, <2>2
  <1> QED BY <1>1, <1>2 DEF q

-----------------------------------------------------------------------------
(* Least members.                                                          *)

Below == {p \in Nat \X Nat : p[1] < p[2]}

\* A set of numbers that is not empty has a least.
LEMMA LeastNat ==
    ASSUME NEW T \in SUBSET Nat, T # {}
    PROVE  \E n \in T : \A m \in T : n <= m
  <1>1. IsWellFoundedOn(Below, Nat)
    BY NatLessThanWellFounded DEF OpToRel, Below
  <1>2. PICK n \in T : \A m \in T : <<m, n>> \notin Below
    BY <1>1, WFMin
  <1>3. \A m \in T : ~(m < n)
    BY <1>2 DEF Below
  <1> QED BY <1>3

\* Among finite sets there is one of which no proper subset is another: what
\* induction on finite sets comes down to.
LEMMA LeastSet ==
    ASSUME NEW F, F # {}, \A S \in F : IsFiniteSet(S)
    PROVE  \E S \in F : \A T \in F : T \subseteq S => T = S
  <1> DEFINE Sizes == {Cardinality(S) : S \in F}
  <1>1. Sizes \in SUBSET Nat /\ Sizes # {}
    BY FS_CardinalityType
  <1>2. PICK n \in Sizes : \A m \in Sizes : n <= m
    BY <1>1, LeastNat
  <1>3. PICK S \in F : Cardinality(S) = n
    BY <1>2
  <1>4. ASSUME NEW T \in F, T \subseteq S
        PROVE  T = S
    <2>1. Cardinality(T) <= Cardinality(S) /\ (Cardinality(T) = Cardinality(S) => S = T)
      BY <1>4, FS_Subset
    <2>2. Cardinality(S) <= Cardinality(T)
      BY <1>2, <1>3
    <2>3. Cardinality(S) \in Nat /\ Cardinality(T) \in Nat
      BY FS_CardinalityType
    <2> QED BY <2>1, <2>2, <2>3
  <1> QED BY <1>4

-----------------------------------------------------------------------------
(* SumFunctionOnSet adds up what the members of a finite set stand for.    *)

Pick(s) == CHOOSE x \in s : TRUE
SumStep(g, f, s) == IF s = {} THEN 0 ELSE g[Pick(s)] + f[s \ {Pick(s)}]
Sums(g, S, f) == f = [s \in SUBSET S |-> SumStep(g, f, s)]

LEMMA SumIsIterated ==
    ASSUME NEW g, NEW S
    PROVE  SumFunctionOnSet(g, S) = (CHOOSE f : Sums(g, S, f))[S]
  BY DEF SumFunctionOnSet, FoldFunctionOnSet, MapThenFoldSet, Sums, SumStep, Pick

LEMMA PickIn == \A s : s # {} => Pick(s) \in s
  BY DEF Pick

\* The sums over the subsets of a set are what they are over those of a larger.
LEMMA SumsAgree ==
    ASSUME NEW g, NEW S, IsFiniteSet(S), NEW f, Sums(g, S, f),
           NEW T \in SUBSET S, NEW h, Sums(g, T, h)
    PROVE  f[T] = h[T]
  <1> DEFINE Bad == {s \in SUBSET T : f[s] # h[s]}
  <1>1. Bad = {}
    <2> SUFFICES ASSUME Bad # {} PROVE FALSE
      OBVIOUS
    <2>1. \A s \in Bad : IsFiniteSet(s)
      BY FS_Subset
    <2>2. PICK s \in Bad : \A t \in Bad : t \subseteq s => t = s
      <3> HIDE DEF Bad
      <3> QED BY <2>1, LeastSet
    <2>3. f[s] = SumStep(g, f, s) /\ h[s] = SumStep(g, h, s)
      BY <2>2 DEF Sums
    <2>4. s # {}
      BY <2>2, <2>3 DEF SumStep
    <2>5. s \ {Pick(s)} \in SUBSET T /\ s \ {Pick(s)} \notin Bad
      BY <2>2, <2>4, PickIn
    <2> QED BY <2>2, <2>3, <2>4, <2>5 DEF SumStep
  <1> QED BY <1>1

LEMMA SumsExist ==
    ASSUME NEW g, NEW S, IsFiniteSet(S)
    PROVE  \E f : Sums(g, S, f)
  <1> DEFINE Bad == {s \in SUBSET S : ~\E f : Sums(g, s, f)}
  <1>1. Bad = {}
    <2> SUFFICES ASSUME Bad # {} PROVE FALSE
      OBVIOUS
    <2>1. \A s \in Bad : IsFiniteSet(s)
      BY FS_Subset
    <2>2. PICK s \in Bad : \A t \in Bad : t \subseteq s => t = s
      <3> HIDE DEF Bad
      <3> QED BY <2>1, LeastSet
    <2>3. IsFiniteSet(s) /\ \A t \in SUBSET s : IsFiniteSet(t)
      BY <2>1, <2>2, FS_Subset
    <2> DEFINE Value(t) == (CHOOSE f : Sums(g, t, f))[t]
               v == [t \in SUBSET s |-> Value(t)]
               h == [t \in SUBSET s |-> IF t = s THEN SumStep(g, v, s) ELSE v[t]]
    <2>4. ASSUME NEW t \in SUBSET s, t # s
          PROVE  Sums(g, t, CHOOSE f : Sums(g, t, f))
      <3>1. t \notin Bad
        BY <2>2, <2>4
      <3> QED BY <3>1, <2>4
    <2>5. ASSUME NEW t \in SUBSET s, t # {}
          PROVE  t \ {Pick(t)} \in SUBSET s /\ t \ {Pick(t)} # s /\ t \ {Pick(t)} \in SUBSET t
      BY <2>5, PickIn
    <2>6. ASSUME NEW t \in SUBSET s
          PROVE  h[t] = SumStep(g, h, t)
      <3>1. CASE t = {}
        <4>1. CASE s = {}
          BY <3>1, <4>1 DEF SumStep
        <4>2. CASE s # {}
          <5>1. h[t] = Value(t)
            BY <3>1, <4>2
          <5>2. Sums(g, t, CHOOSE f : Sums(g, t, f))
            BY <2>4, <3>1, <4>2
          <5>3. Value(t) = 0
            BY <3>1, <5>2 DEF Sums, SumStep
          <5> QED BY <3>1, <5>1, <5>3 DEF SumStep
        <4> QED BY <4>1, <4>2
      <3>2. CASE t # {}
        <4> DEFINE r == t \ {Pick(t)}
        <4>1. r \in SUBSET s /\ r # s /\ r \in SUBSET t
          BY <2>5, <3>2
        <4>2. h[r] = Value(r) /\ v[r] = Value(r)
          BY <4>1
        <4>3. CASE t = s
          BY <3>2, <4>2, <4>3 DEF SumStep
        <4>4. CASE t # s
          <5> DEFINE ft == CHOOSE f : Sums(g, t, f)
                     fr == CHOOSE f : Sums(g, r, f)
          <5>1. Sums(g, t, ft) /\ Sums(g, r, fr)
            BY <2>4, <4>1, <4>4
          <5>2. h[t] = ft[t] /\ ft[t] = SumStep(g, ft, t)
            BY <4>4, <5>1 DEF Sums
          <5>3. ft[r] = fr[r]
            BY <2>3, <4>1, <5>1, SumsAgree
          <5> QED BY <3>2, <4>2, <5>2, <5>3 DEF SumStep
        <4> QED BY <4>3, <4>4
      <3> QED BY <3>1, <3>2
    <2>7. Sums(g, s, h)
      <3>1. h = [t \in SUBSET s |-> SumStep(g, h, t)]
        BY <2>6
      <3> QED BY <3>1 DEF Sums
    <2> QED BY <2>2, <2>7
  <1> QED BY <1>1

LEMMA SumUnfold ==
    ASSUME NEW g, NEW S, IsFiniteSet(S)
    PROVE  SumFunctionOnSet(g, S) =
             IF S = {} THEN 0 ELSE g[Pick(S)] + SumFunctionOnSet(g, S \ {Pick(S)})
  <1> DEFINE f == CHOOSE f : Sums(g, S, f)
             T == S \ {Pick(S)}
             h == CHOOSE h : Sums(g, T, h)
  <1>1. Sums(g, S, f)
    BY SumsExist
  <1>2. SumFunctionOnSet(g, S) = SumStep(g, f, S)
    BY <1>1, SumIsIterated DEF Sums
  <1>3. IsFiniteSet(T) /\ T \in SUBSET S
    BY FS_Subset
  <1>4. Sums(g, T, h)
    BY <1>3, SumsExist
  <1>5. f[T] = h[T] /\ SumFunctionOnSet(g, T) = h[T]
    BY <1>1, <1>3, <1>4, SumsAgree, SumIsIterated
  <1> QED BY <1>2, <1>5 DEF SumStep

\* What a step of adding preserves, the sums have: each claim below is refuted
\* on a least set of which it fails.
LEMMA SumIsInt ==
    ASSUME NEW g, NEW S, IsFiniteSet(S), \A x \in S : g[x] \in Int
    PROVE  SumFunctionOnSet(g, S) \in Int
  <1> DEFINE Bad == {s \in SUBSET S : SumFunctionOnSet(g, s) \notin Int}
  <1> SUFFICES ASSUME Bad # {} PROVE FALSE
    OBVIOUS
  <1>1. \A s \in Bad : IsFiniteSet(s)
    BY FS_Subset
  <1>2. PICK s \in Bad : \A t \in Bad : t \subseteq s => t = s
    <2> HIDE DEF Bad
    <2> QED BY <1>1, LeastSet
  <1>3. IsFiniteSet(s) /\ SumFunctionOnSet(g, s) \notin Int
    BY <1>1
  <1>4. s # {}
    <2>1. SumFunctionOnSet(g, {}) = 0
      BY SumUnfold, FS_EmptySet
    <2> QED BY <1>3, <2>1
  <1>5. Pick(s) \in S /\ SumFunctionOnSet(g, s \ {Pick(s)}) \in Int
    BY <1>2, <1>4, PickIn
  <1>6. SumFunctionOnSet(g, s) = g[Pick(s)] + SumFunctionOnSet(g, s \ {Pick(s)})
    BY <1>3, <1>4, SumUnfold
  <1> QED BY <1>3, <1>5, <1>6

\* Of functions that are below each other, so are the sums.
LEMMA SumIsMonotone ==
    ASSUME NEW g, NEW h, NEW S, IsFiniteSet(S),
           \A x \in S : g[x] \in Int /\ h[x] \in Int /\ g[x] <= h[x]
    PROVE  SumFunctionOnSet(g, S) <= SumFunctionOnSet(h, S)
  <1> DEFINE Bad == {s \in SUBSET S : ~(SumFunctionOnSet(g, s) <= SumFunctionOnSet(h, s))}
  <1> SUFFICES ASSUME Bad # {} PROVE FALSE
    OBVIOUS
  <1>1. \A s \in Bad : IsFiniteSet(s)
    BY FS_Subset
  <1>2. PICK s \in Bad : \A t \in Bad : t \subseteq s => t = s
    <2> HIDE DEF Bad
    <2> QED BY <1>1, LeastSet
  <1>3. IsFiniteSet(s) /\ ~(SumFunctionOnSet(g, s) <= SumFunctionOnSet(h, s))
    BY <1>1
  <1>4. s # {}
    <2>1. SumFunctionOnSet(g, {}) = 0 /\ SumFunctionOnSet(h, {}) = 0
      BY SumUnfold, FS_EmptySet
    <2> QED BY <1>3, <2>1
  <1> DEFINE r == s \ {Pick(s)}
  <1>5. Pick(s) \in S /\ r \in SUBSET S /\ SumFunctionOnSet(g, r) <= SumFunctionOnSet(h, r)
    BY <1>2, <1>4, PickIn
  <1>6. /\ SumFunctionOnSet(g, s) = g[Pick(s)] + SumFunctionOnSet(g, r)
        /\ SumFunctionOnSet(h, s) = h[Pick(s)] + SumFunctionOnSet(h, r)
    BY <1>3, <1>4, SumUnfold
  <1>7. SumFunctionOnSet(g, r) \in Int /\ SumFunctionOnSet(h, r) \in Int
    <2>1. IsFiniteSet(r)
      BY <1>5, FS_Subset
    <2> QED BY <1>5, <2>1, SumIsInt
  <1> QED BY <1>3, <1>5, <1>6, <1>7

LEMMA SumOfMultiples ==
    ASSUME NEW g, NEW h, NEW K \in Int, NEW S, IsFiniteSet(S),
           \A x \in S : g[x] \in Int /\ h[x] = g[x] * K
    PROVE  SumFunctionOnSet(h, S) = SumFunctionOnSet(g, S) * K
  <1> DEFINE Bad == {s \in SUBSET S : SumFunctionOnSet(h, s) # SumFunctionOnSet(g, s) * K}
  <1> SUFFICES ASSUME Bad # {} PROVE FALSE
    OBVIOUS
  <1>1. \A s \in Bad : IsFiniteSet(s)
    BY FS_Subset
  <1>2. PICK s \in Bad : \A t \in Bad : t \subseteq s => t = s
    <2> HIDE DEF Bad
    <2> QED BY <1>1, LeastSet
  <1>3. IsFiniteSet(s) /\ SumFunctionOnSet(h, s) # SumFunctionOnSet(g, s) * K
    BY <1>1
  <1>4. s # {}
    <2>1. SumFunctionOnSet(h, {}) = 0 /\ SumFunctionOnSet(g, {}) = 0
      BY SumUnfold, FS_EmptySet
    <2>2. 0 = 0 * K
      OBVIOUS
    <2> QED BY <1>3, <2>1, <2>2
  <1> DEFINE r == s \ {Pick(s)}
             a == SumFunctionOnSet(g, r)
             x == g[Pick(s)]
  <1>5. Pick(s) \in S /\ r \in SUBSET S /\ SumFunctionOnSet(h, r) = a * K
    BY <1>2, <1>4, PickIn
  <1>6. /\ SumFunctionOnSet(g, s) = x + a
        /\ SumFunctionOnSet(h, s) = x * K + a * K
    BY <1>3, <1>4, <1>5, SumUnfold
  <1>7. a \in Int
    <2>1. IsFiniteSet(r)
      BY <1>5, FS_Subset
    <2> QED BY <1>5, <2>1, SumIsInt
  <1>8. x \in Int
    BY <1>5
  <1> HIDE DEF a, x
  <1>9. (x + a) * K = x * K + a * K
    BY <1>7, <1>8
  <1> QED BY <1>3, <1>6, <1>9

LEMMA SumOfOnes ==
    ASSUME NEW g, NEW S, IsFiniteSet(S), \A x \in S : g[x] = 1
    PROVE  SumFunctionOnSet(g, S) = Cardinality(S)
  <1> DEFINE Bad == {s \in SUBSET S : SumFunctionOnSet(g, s) # Cardinality(s)}
  <1> SUFFICES ASSUME Bad # {} PROVE FALSE
    OBVIOUS
  <1>1. \A s \in Bad : IsFiniteSet(s)
    BY FS_Subset
  <1>2. PICK s \in Bad : \A t \in Bad : t \subseteq s => t = s
    <2> HIDE DEF Bad
    <2> QED BY <1>1, LeastSet
  <1>3. IsFiniteSet(s) /\ SumFunctionOnSet(g, s) # Cardinality(s)
    BY <1>1
  <1>4. s # {}
    BY <1>3, SumUnfold, FS_EmptySet
  <1> DEFINE r == s \ {Pick(s)}
  <1>5. Pick(s) \in S /\ Pick(s) \in s /\ SumFunctionOnSet(g, r) = Cardinality(r)
    BY <1>2, <1>4, PickIn
  <1>6. SumFunctionOnSet(g, s) = 1 + SumFunctionOnSet(g, r)
    BY <1>3, <1>4, <1>5, SumUnfold
  <1>7. Cardinality(r) = Cardinality(s) - 1 /\ Cardinality(s) \in Nat
    BY <1>3, <1>5, FS_RemoveElement, FS_CardinalityType
  <1> QED BY <1>3, <1>5, <1>6, <1>7

\* What no summand exceeds, the mean does not.
LEMMA SumIsBounded ==
    ASSUME NEW g, NEW K \in Int, NEW S, IsFiniteSet(S), \A x \in S : g[x] \in Int /\ g[x] <= K
    PROVE  SumFunctionOnSet(g, S) <= Cardinality(S) * K
  <1> DEFINE one == [x \in S |-> 1]
             all == [x \in S |-> K]
  <1>1. SumFunctionOnSet(one, S) = Cardinality(S)
    BY SumOfOnes
  <1>2. SumFunctionOnSet(all, S) = SumFunctionOnSet(one, S) * K
    <2>1. \A x \in S : one[x] \in Int /\ all[x] = one[x] * K
      OBVIOUS
    <2> HIDE DEF one, all
    <2> QED BY <2>1, SumOfMultiples
  <1>3. SumFunctionOnSet(g, S) <= SumFunctionOnSet(all, S)
    <2>1. \A x \in S : g[x] \in Int /\ all[x] \in Int /\ g[x] <= all[x]
      OBVIOUS
    <2> HIDE DEF all
    <2> QED BY <2>1, SumIsMonotone
  <1> QED BY <1>1, <1>2, <1>3

LEMMA SumOfNaturals ==
    ASSUME NEW g, NEW S, IsFiniteSet(S), \A x \in S : g[x] \in Nat
    PROVE  SumFunctionOnSet(g, S) \in Nat
  <1> DEFINE none == [x \in S |-> 0]
  <1>1. \A x \in S : none[x] \in Int /\ none[x] = none[x] * 0 /\ none[x] <= g[x]
    OBVIOUS
  <1> HIDE DEF none
  <1>2. SumFunctionOnSet(none, S) = SumFunctionOnSet(none, S) * 0
    BY <1>1, SumOfMultiples
  <1>3. SumFunctionOnSet(none, S) \in Int /\ SumFunctionOnSet(g, S) \in Int
    BY <1>1, SumIsInt
  <1>4. SumFunctionOnSet(none, S) <= SumFunctionOnSet(g, S)
    BY <1>1, SumIsMonotone
  <1> QED BY <1>2, <1>3, <1>4

-----------------------------------------------------------------------------
(* Ranked sorts.                                                           *)

\* A strict total order on a set.
Sorts(order, S) ==
    /\ \A i \in S : <<i, i>> \notin order
    /\ \A i, j \in S : i # j => <<i, j>> \in order \/ <<j, i>> \in order
    /\ \A i, j, k \in S : <<i, j>> \in order /\ <<j, k>> \in order => <<i, k>> \in order

Before(S, order, i) == {j \in S : <<j, i>> \in order}
Place(S, order, i) == Cardinality(Before(S, order, i))

\* The places count up along the order, and each is taken.
LEMMA PlacesAreTaken ==
    ASSUME NEW S, IsFiniteSet(S), NEW order, Sorts(order, S)
    PROVE  /\ \A i \in S : Place(S, order, i) \in 0..Cardinality(S) - 1
           /\ \A i, j \in S : <<i, j>> \in order => Place(S, order, i) < Place(S, order, j)
           /\ \A k \in 0..Cardinality(S) - 1 : \E i \in S : Place(S, order, i) = k
  <1> DEFINE before(i) == Before(S, order, i)
             place(i) == Place(S, order, i)
             n == Cardinality(S)
  <1>1. n \in Nat /\ \A i \in S : IsFiniteSet(before(i)) /\ place(i) \in Nat
    BY FS_CardinalityType, FS_Subset DEF Before, Place
  <1>2. ASSUME NEW i \in S
        PROVE  place(i) \in 0..n - 1
    <2>1. before(i) \in SUBSET S /\ before(i) # S
      BY <1>2 DEF Sorts, Before
    <2>2. place(i) <= n /\ place(i) # n
      BY <2>1, FS_Subset DEF Place
    <2>3. place(i) \in Nat
      BY <1>1
    <2> HIDE DEF place, n
    <2> QED BY <1>1, <2>2, <2>3
  <1>3. ASSUME NEW i \in S, NEW j \in S, <<i, j>> \in order
        PROVE  place(i) < place(j)
    <2>1. before(i) \in SUBSET before(j)
      BY <1>3 DEF Sorts, Before
    <2>2. i \in before(j) /\ i \notin before(i)
      BY <1>3 DEF Sorts, Before
    <2>3. IsFiniteSet(before(j))
      BY <1>1
    <2>4. place(i) <= place(j) /\ (place(j) = place(i) => before(j) = before(i))
      BY <2>1, <2>3, FS_Subset DEF Place
    <2>5. place(i) # place(j)
      BY <2>2, <2>4
    <2>6. place(i) \in Nat /\ place(j) \in Nat
      BY <1>1
    <2> HIDE DEF place
    <2> QED BY <2>4, <2>5, <2>6
  <1>4. ASSUME NEW k \in 0..n - 1
        PROVE  \E i \in S : place(i) = k
    <2> DEFINE f == [i \in S |-> place(i)]
               T == 0..n - 1
    <2>1. f \in [S -> T]
      BY <1>2
    <2>2. ASSUME NEW i \in S, NEW j \in S, f[i] = f[j]
          PROVE  i = j
      <3>1. place(i) = place(j) /\ place(i) \in Nat /\ place(j) \in Nat
        BY <1>1, <2>2
      <3>2. ~(place(i) < place(j)) /\ ~(place(j) < place(i))
        <4> HIDE DEF place
        <4> QED BY <3>1
      <3>3. <<i, j>> \notin order /\ <<j, i>> \notin order
        BY <1>3, <3>2
      <3> QED BY <3>3 DEF Sorts
    <2>3. f \in Injection(S, T)
      BY <2>1, <2>2 DEF Injection, IsInjective
    <2>4. IsFiniteSet(T) /\ Cardinality(T) = n
      <3> HIDE DEF n
      <3> QED BY <1>1, FS_Interval
    <2>5. f \in Surjection(S, T)
      <3> HIDE DEF f, T
      <3> QED BY <2>3, <2>4, FS_Injection
    <2>6. PICK i \in S : f[i] = k
      BY <1>4, <2>5 DEF Surjection
    <2> QED BY <2>6
  <1> QED BY <1>2, <1>3, <1>4

\* Ranked lists the members in their order, each once.
LEMMA RankedIsSorted ==
    ASSUME NEW S, IsFiniteSet(S), NEW order, Sorts(order, S)
    PROVE  LET r == Ranked(S, order) IN
           /\ Cardinality(S) \in Nat /\ r \in [1..Cardinality(S) -> S]
           /\ \A i \in S : \E k \in 1..Cardinality(S) : r[k] = i
           /\ \A k, l \in 1..Cardinality(S) : k < l => <<r[k], r[l]>> \in order
  <1> DEFINE place(i) == Place(S, order, i)
             n == Cardinality(S)
             r == Ranked(S, order)
  <1>1. /\ \A i \in S : place(i) \in 0..n - 1
        /\ \A i, j \in S : <<i, j>> \in order => place(i) < place(j)
        /\ \A k \in 0..n - 1 : \E i \in S : place(i) = k
    BY PlacesAreTaken
  <1>2. n \in Nat
    BY FS_CardinalityType
  <1>3. r = [k \in 1..n |-> CHOOSE i \in S : place(i) = k - 1]
    BY DEF Ranked, Place, Before
  <1> HIDE DEF place, n, r
  <1>4. ASSUME NEW k \in 1..n
        PROVE  r[k] \in S /\ place(r[k]) = k - 1
    <2>1. k - 1 \in 0..n - 1
      BY <1>2, <1>4
    <2>2. \E i \in S : place(i) = k - 1
      BY <1>1, <2>1
    <2> QED BY <1>3, <2>2
  <1>5. r \in [1..n -> S]
    BY <1>3, <1>4
  <1>6. ASSUME NEW i \in S, NEW j \in S, place(i) = place(j)
        PROVE  i = j
    <2>1. ~(place(i) < place(j)) /\ ~(place(j) < place(i))
      BY <1>1, <1>2, <1>6
    <2> QED BY <1>1, <2>1 DEF Sorts
  <1>7. ASSUME NEW i \in S
        PROVE  \E k \in 1..n : r[k] = i
    <2>1. place(i) \in 0..n - 1
      BY <1>1
    <2>2. place(i) + 1 \in 1..n /\ (place(i) + 1) - 1 = place(i)
      BY <1>2, <2>1
    <2>3. r[place(i) + 1] = i
      BY <1>4, <1>6, <2>2
    <2> QED BY <2>2, <2>3
  <1>8. ASSUME NEW k \in 1..n, NEW l \in 1..n, k < l
        PROVE  <<r[k], r[l]>> \in order
    <2>1. /\ r[k] \in S /\ place(r[k]) = k - 1
          /\ r[l] \in S /\ place(r[l]) = l - 1
      BY <1>4
    <2>2. r[k] # r[l] /\ ~(place(r[l]) < place(r[k]))
      BY <1>2, <1>8, <2>1
    <2> QED BY <1>1, <2>1, <2>2 DEF Sorts
  <1> QED BY <1>2, <1>5, <1>7, <1>8 DEF r, n

\* Ascending sorts numbers, whatever they are numbered with.
LEMMA AscendingIsSorted ==
    ASSUME NEW D \in SUBSET Int, IsFiniteSet(D),
           NEW values, DOMAIN values = D, \A i \in D : values[i] \in Int
    PROVE  LET s == Ascending(values)
               n == Cardinality(D)
           IN  /\ n \in Nat /\ s \in [1..n -> Int]
               /\ \A k \in 1..n : \E i \in D : s[k] = values[i]
               /\ \A k, l \in 1..n : k <= l => s[k] <= s[l]
  <1> DEFINE order == Ascends(values)
             places == Ranked(D, order)
             s == Ascending(values)
             n == Cardinality(D)
  <1>1. Sorts(order, D)
    <2>1. \A i, j \in D : <<i, j>> \in order <=>
             values[i] < values[j] \/ (values[i] = values[j] /\ i < j)
      BY DEF Ascends
    <2> HIDE DEF order
    <2>2. \A i \in D : <<i, i>> \notin order
      BY <2>1
    <2>3. \A i, j \in D : i # j => <<i, j>> \in order \/ <<j, i>> \in order
      BY <2>1
    <2>4. \A i, j, k \in D : <<i, j>> \in order /\ <<j, k>> \in order => <<i, k>> \in order
      BY <2>1
    <2> QED BY <2>2, <2>3, <2>4 DEF Sorts
  <1>2. n \in Nat
    BY FS_CardinalityType
  <1>3. /\ places \in [1..n -> D]
        /\ \A k, l \in 1..n : k < l => <<places[k], places[l]>> \in order
    <2> HIDE DEF order
    <2> QED BY <1>1, RankedIsSorted
  <1>4. s = [k \in 1..n |-> values[places[k]]]
    BY <1>3 DEF Ascending
  <1>0. \A i, j \in D : <<i, j>> \in order => values[i] <= values[j]
    BY DEF Ascends
  <1> HIDE DEF order, places, s, n
  <1>5. \A k, l \in 1..n : k < l => values[places[k]] <= values[places[l]]
    BY <1>0, <1>3
  <1>6. \A k \in 1..n : places[k] \in D /\ s[k] = values[places[k]] /\ s[k] \in Int
    BY <1>3, <1>4
  <1>7. \A k, l \in 1..n : k <= l => s[k] <= s[l]
    <2> SUFFICES ASSUME NEW k \in 1..n, NEW l \in 1..n, k <= l PROVE s[k] <= s[l]
      OBVIOUS
    <2>1. CASE k < l
      BY <1>5, <1>6, <2>1
    <2>2. CASE k = l
      BY <1>6, <2>2
    <2> QED BY <1>2, <2>1, <2>2
  <1>8. s \in [1..n -> Int]
    BY <1>4, <1>6
  <1> QED BY <1>2, <1>6, <1>7, <1>8 DEF s, n

-----------------------------------------------------------------------------
(* Deviations from a corridor.                                             *)

LEMMA MinOfTwo ==
    ASSUME NEW a \in Int, NEW b \in Int
    PROVE  /\ Min({a, b}) = IF a <= b THEN a ELSE b
           /\ Max({a, b}) = IF a <= b THEN b ELSE a
  <1> DEFINE low == IF a <= b THEN a ELSE b
             high == IF a <= b THEN b ELSE a
  <1>1. /\ low \in {a, b} /\ \A y \in {a, b} : low <= y
        /\ high \in {a, b} /\ \A y \in {a, b} : high >= y
    OBVIOUS
  <1>2. \A x, z \in {a, b} : (\A y \in {a, b} : x <= y) /\ (\A y \in {a, b} : z <= y) => x = z
    OBVIOUS
  <1>3. \A x, z \in {a, b} : (\A y \in {a, b} : x >= y) /\ (\A y \in {a, b} : z >= y) => x = z
    OBVIOUS
  <1> HIDE DEF low, high
  <1>4. Min({a, b}) = low
    BY <1>1, <1>2 DEF Min
  <1>5. Max({a, b}) = high
    BY <1>1, <1>3 DEF Max
  <1> QED BY <1>4, <1>5 DEF low, high

LEMMA CorridorEnds ==
    ASSUME NEW r \in Int \X Int
    PROVE  Low(r) \in Int /\ High(r) \in Int /\ Low(r) <= High(r)
  <1>1. r[1] \in Int /\ r[2] \in Int
    OBVIOUS
  <1> QED BY <1>1, MinOfTwo DEF Low, High

LEMMA ScaleIsPositive == Scale \in Nat /\ Scale > 0
  BY EvaluationAssumption

\* What a value outside of a corridor with a width deviates by.
PartOfWidth(v, r) == (Distance(v, r) * Scale) \div (High(r) - Low(r))

LEMMA Outside ==
    ASSUME NEW v \in Int, NEW r \in Int \X Int, v \notin Low(r)..High(r), Low(r) # High(r)
    PROVE  /\ Distance(v, r) \in Nat
           /\ High(r) - Low(r) \in Nat \ {0}
           /\ Distance(v, r) * Scale \in Nat
           /\ PartOfWidth(v, r) \in Nat
           /\ Deviation(v, r) = IF Scale <= PartOfWidth(v, r) THEN Scale ELSE PartOfWidth(v, r)
  <1> USE CorridorEnds, ScaleIsPositive
  <1>1. Distance(v, r) \in Nat /\ High(r) - Low(r) \in Nat \ {0}
    BY DEF Distance
  <1>2. Distance(v, r) * Scale \in Nat
    BY <1>1
  <1>3. PartOfWidth(v, r) \in Nat
    <2> DEFINE a == Distance(v, r) * Scale
               k == High(r) - Low(r)
    <2>1. a \in Nat /\ k \in Nat \ {0}
      BY <1>1, <1>2
    <2> HIDE DEF a, k
    <2>2. a \div k \in Nat
      BY <2>1, DivFacts
    <2> QED BY <2>2 DEF PartOfWidth, a, k
  <1>4. Deviation(v, r) = Min({Scale, PartOfWidth(v, r)})
    BY DEF Deviation, PartOfWidth
  <1> QED BY <1>1, <1>2, <1>3, <1>4, MinOfTwo

LEMMA DeviationType ==
    ASSUME NEW v \in Int, NEW r \in Int \X Int
    PROVE  Deviation(v, r) \in 0..Scale
  <1>1. CASE v \in Low(r)..High(r)
    BY <1>1, ScaleIsPositive DEF Deviation
  <1>2. CASE v \notin Low(r)..High(r) /\ Low(r) = High(r)
    BY <1>2, ScaleIsPositive DEF Deviation
  <1>3. CASE v \notin Low(r)..High(r) /\ Low(r) # High(r)
    BY <1>3, ScaleIsPositive, Outside
  <1> QED BY <1>1, <1>2, <1>3

\* A value deviates less from a corridor that holds another: its distance is
\* smaller and the width it is relative to larger.
LEMMA WiderIsCloser ==
    ASSUME NEW v \in Int, NEW r \in Int \X Int, NEW s \in Int \X Int,
           Low(r) <= Low(s), High(s) <= High(r)
    PROVE  Deviation(v, r) <= Deviation(v, s)
  <1> USE CorridorEnds, ScaleIsPositive
  <1>1. CASE v \in Low(r)..High(r)
    <2>1. Deviation(v, r) = 0
      BY <1>1 DEF Deviation
    <2> QED BY <2>1, DeviationType
  <1>2. CASE v \notin Low(r)..High(r)
    <2>1. v \notin Low(s)..High(s)
      BY <1>2
    <2>2. CASE Low(s) = High(s)
      <3>1. Deviation(v, s) = Scale
        BY <2>1, <2>2 DEF Deviation
      <3> QED BY <3>1, DeviationType
    <2>3. CASE Low(s) # High(s)
      <3>1. Low(r) # High(r)
        BY <2>3
      <3> DEFINE a == Distance(v, r) * Scale
                 b == Distance(v, s) * Scale
                 k == High(r) - Low(r)
                 l == High(s) - Low(s)
      <3>2. Distance(v, r) \in Nat /\ Distance(v, s) \in Nat /\ Distance(v, r) <= Distance(v, s)
        BY <1>2, <2>1, Outside, <2>3, <3>1 DEF Distance
      <3>3. a <= b
        BY <3>2, MulMono
      <3>4. a \in Nat /\ b \in Nat /\ k \in Nat \ {0} /\ l \in Nat \ {0} /\ l <= k
        BY <1>2, <2>1, <2>3, <3>1, Outside
      <3>5. a \div k <= b \div l
        <4> HIDE DEF a, b, k, l
        <4> QED BY <3>3, <3>4, DivMonotone
      <3>6. PartOfWidth(v, r) <= PartOfWidth(v, s)
        BY <3>5 DEF PartOfWidth
      <3>7. /\ PartOfWidth(v, r) \in Nat /\ PartOfWidth(v, s) \in Nat
            /\ Deviation(v, r) = IF Scale <= PartOfWidth(v, r) THEN Scale ELSE PartOfWidth(v, r)
            /\ Deviation(v, s) = IF Scale <= PartOfWidth(v, s) THEN Scale ELSE PartOfWidth(v, s)
        BY <1>2, <2>1, <2>3, <3>1, Outside
      <3> QED BY <3>6, <3>7
    <2> QED BY <2>2, <2>3
  <1> QED BY <1>1, <1>2

-----------------------------------------------------------------------------
(* Scores.                                                                 *)

LEMMA NamesAreFinite == \A a, b, c, d : IsFiniteSet({a, b, c, d})
  <1> TAKE a, b, c, d
  <1>1. IsFiniteSet({a} \union {b})
    BY FS_Singleton, FS_AddElement
  <1>2. IsFiniteSet(({a} \union {b}) \union {c})
    BY <1>1, FS_AddElement
  <1>3. IsFiniteSet((({a} \union {b}) \union {c}) \union {d})
    BY <1>2, FS_AddElement
  <1>4. {a, b, c, d} = (({a} \union {b}) \union {c}) \union {d}
    OBVIOUS
  <1> QED BY <1>3, <1>4

LEMMA TargetsAreFinite ==
    /\ IsFiniteSet(Targets) /\ IsFiniteSet(Domains)
    /\ \A d \in Domains : DomainTargets[d] \subseteq Targets /\ IsFiniteSet(DomainTargets[d])
  <1>1. IsFiniteSet({"loudness", "dynamics", "correlation", "balance"})
    BY NamesAreFinite
  <1>2. IsFiniteSet(Targets)
    <2>1. IsFiniteSet(Bands)
      BY EvaluationAssumption
    <2> QED BY <1>1, <2>1, FS_Union DEF Targets
  <1>3. Domains = {"loudness", "dynamics", "spectral", "stereo"}
    BY DEF Domains, DomainTargets
  <1>4. IsFiniteSet(Domains)
    BY <1>3, NamesAreFinite
  <1>5. \A d \in Domains : DomainTargets[d] \subseteq Targets
    BY <1>3 DEF DomainTargets, Targets
  <1> QED BY <1>2, <1>4, <1>5, FS_Subset

\* A scored target has a corridor and a value.
LEMMA ScoredTargets ==
    ASSUME NEW c \in Constitutions, NEW m \in Measurements, NEW T \in SUBSET Targets
    PROVE  /\ IsFiniteSet(Scored(c, m, T)) /\ Scored(c, m, T) \subseteq T
           /\ \A t \in Scored(c, m, T) :
                 /\ m.value[t] \in Int /\ c.corridor[t] \in Int \X Int
                 /\ TargetDeviation(c, m, t) \in 0..Scale
  <1>1. c \in ConstitutionType /\ m \in MeasurementType
    BY EvaluationAssumption
  <1>2. \A t \in Scored(c, m, T) : m.value[t] \in Int /\ c.corridor[t] \in Int \X Int
    BY <1>1 DEF Scored, Configured, Applicable, ConstitutionType, MeasurementType
  <1>3. IsFiniteSet(Scored(c, m, T))
    BY TargetsAreFinite, FS_Subset DEF Scored
  <1>4. \A t \in Scored(c, m, T) : TargetDeviation(c, m, t) \in 0..Scale
    BY <1>2, DeviationType DEF TargetDeviation
  <1> QED BY <1>2, <1>3, <1>4 DEF Scored

LEMMA WeightsAreNatural ==
    ASSUME NEW c \in Constitutions
    PROVE  c.weight \in [Domains -> Nat]
  BY EvaluationAssumption DEF ConstitutionType

\* The mean over the scored targets of a domain does not exceed the most a
\* target can deviate, and falls with the deviations.
LEMMA DomainScoreType ==
    ASSUME NEW c \in Constitutions, NEW m \in Measurements, NEW d \in ScoredDomains(c, m)
    PROVE  DomainScore(c, m, d) \in 0..Scale
  <1> DEFINE S == Scored(c, m, DomainTargets[d])
             g == [t \in S |-> TargetDeviation(c, m, t)]
             total == SumFunctionOnSet(g, S)
             n == Cardinality(S)
  <1>1. d \in Domains /\ S # {}
    BY DEF ScoredDomains
  <1>2. IsFiniteSet(S) /\ \A t \in S : g[t] \in 0..Scale
    BY <1>1, TargetsAreFinite, ScoredTargets
  <1>3. n \in Nat \ {0}
    BY <1>1, <1>2, FS_CardinalityType, FS_EmptySet
  <1>4. total \in Nat /\ total <= n * Scale
    <2>1. \A t \in S : g[t] \in Nat /\ g[t] \in Int /\ g[t] <= Scale
      BY <1>2, ScaleIsPositive
    <2> HIDE DEF g, S
    <2>2. total \in Nat
      BY <1>2, <2>1, SumOfNaturals
    <2>3. total <= n * Scale
      BY <1>2, <2>1, ScaleIsPositive, SumIsBounded
    <2> QED BY <2>2, <2>3
  <1>5. DomainScore(c, m, d) = total \div n
    BY DEF DomainScore, SumFunction
  <1> HIDE DEF total, n
  <1>6. total < (Scale + 1) * n
    <2>1. (Scale + 1) * n = n * Scale + n /\ n * Scale \in Nat
      BY <1>3, ScaleIsPositive
    <2> QED BY <1>3, <1>4, <2>1
  <1> QED BY <1>3, <1>4, <1>5, <1>6, DivAtMost, ScaleIsPositive

\* What is added up for the drift score.
WeightedScores(c, m) == [d \in ScoredDomains(c, m) |-> c.weight[d] * DomainScore(c, m, d)]
TotalScore(c, m) == SumFunctionOnSet(WeightedScores(c, m), ScoredDomains(c, m))

LEMMA ScoredDomainsAreFinite ==
    ASSUME NEW c, NEW m
    PROVE  IsFiniteSet(ScoredDomains(c, m)) /\ ScoredDomains(c, m) \subseteq Domains
  BY TargetsAreFinite, FS_Subset DEF ScoredDomains

LEMMA WeightedScoresType ==
    ASSUME NEW c \in Constitutions, NEW m \in Measurements, NEW d \in ScoredDomains(c, m)
    PROVE  /\ c.weight[d] \in Nat
           /\ WeightedScores(c, m)[d] = c.weight[d] * DomainScore(c, m, d)
           /\ WeightedScores(c, m)[d] \in Nat
           /\ c.weight[d] * Scale \in Nat
           /\ WeightedScores(c, m)[d] <= c.weight[d] * Scale
  <1> DEFINE w == c.weight[d]
             x == DomainScore(c, m, d)
  <1>1. w \in Nat /\ x \in 0..Scale
    BY WeightsAreNatural, ScoredDomainsAreFinite, DomainScoreType
  <1>2. WeightedScores(c, m)[d] = w * x
    BY DEF WeightedScores
  <1> HIDE DEF w, x
  <1>3. w * x \in Nat /\ w * Scale \in Nat /\ w * x = x * w /\ w * Scale = Scale * w
    BY <1>1, ScaleIsPositive
  <1>4. x * w <= Scale * w
    BY <1>1, MulMono, ScaleIsPositive
  <1> QED BY <1>1, <1>2, <1>3, <1>4 DEF w, x

LEMMA TotalScoreType ==
    ASSUME NEW c \in Constitutions, NEW m \in Measurements
    PROVE  /\ WeightSum(c, m) \in Nat /\ TotalScore(c, m) \in Nat
           /\ TotalScore(c, m) <= WeightSum(c, m) * Scale
  <1> DEFINE S == ScoredDomains(c, m)
             f == WeightedScores(c, m)
             most == [d \in S |-> c.weight[d] * Scale]
             weight == c.weight
  <1>1. IsFiniteSet(S) /\ \A d \in S : weight[d] \in Nat /\ weight[d] \in Int
    BY ScoredDomainsAreFinite, WeightedScoresType
  <1>2. \A d \in S : /\ f[d] \in Nat /\ f[d] \in Int /\ most[d] \in Int /\ f[d] <= most[d]
                     /\ most[d] = weight[d] * Scale
    BY WeightedScoresType
  <1>3. WeightSum(c, m) = SumFunctionOnSet(weight, S)
    BY DEF WeightSum
  <1>4. TotalScore(c, m) = SumFunctionOnSet(f, S)
    BY DEF TotalScore
  <1> HIDE DEF S, f, most, weight
  <1>5. SumFunctionOnSet(weight, S) \in Nat /\ SumFunctionOnSet(f, S) \in Nat
    BY <1>1, <1>2, SumOfNaturals
  <1>6. SumFunctionOnSet(f, S) <= SumFunctionOnSet(most, S)
    BY <1>1, <1>2, SumIsMonotone
  <1>7. SumFunctionOnSet(most, S) = SumFunctionOnSet(weight, S) * Scale
    BY <1>1, <1>2, SumOfMultiples, ScaleIsPositive
  <1> QED BY <1>3, <1>4, <1>5, <1>6, <1>7

LEMMA DriftScoreIs ==
    ASSUME NEW c, NEW m
    PROVE  DriftScore(c, m) =
             IF WeightSum(c, m) > 0
             THEN (200 * TotalScore(c, m) + WeightSum(c, m) * Scale) \div (2 * (WeightSum(c, m) * Scale))
             ELSE 0
  BY DEF DriftScore, TotalScore, WeightedScores, SumFunction

LEMMA WholeIsPositive ==
    ASSUME NEW w \in Nat, w > 0
    PROVE  w * Scale \in Nat \ {0}
  <1>1. w * Scale \in Nat
    BY ScaleIsPositive
  <1>2. 1 * Scale <= w * Scale
    BY MulMono, ScaleIsPositive
  <1> QED BY <1>1, <1>2, ScaleIsPositive

\* A drift score is a percentage.
LEMMA DriftScoreType ==
    ASSUME NEW c \in Constitutions, NEW m \in Measurements
    PROVE  DriftScore(c, m) \in 0..100
  <1> DEFINE whole == WeightSum(c, m) * Scale
             total == TotalScore(c, m)
  <1>1. WeightSum(c, m) \in Nat /\ total \in Nat /\ total <= whole
    BY TotalScoreType
  <1>2. CASE WeightSum(c, m) > 0
    <2>1. whole \in Nat \ {0}
      BY <1>1, <1>2, WholeIsPositive
    <2>2. DriftScore(c, m) = (200 * total + whole) \div (2 * whole)
      BY <1>2, DriftScoreIs
    <2> HIDE DEF whole, total
    <2>3. /\ 200 * total + whole \in Nat /\ 2 * whole \in Nat \ {0}
          /\ 200 * total + whole < (100 + 1) * (2 * whole)
      BY <1>1, <2>1
    <2> QED BY <2>2, <2>3, DivAtMost
  <1>3. CASE ~(WeightSum(c, m) > 0)
    BY <1>3, DriftScoreIs
  <1> QED BY <1>2, <1>3

-----------------------------------------------------------------------------
(* Verdicts.                                                               *)

Warns == DOMAIN WarnTargets

LEMMA WarnNames == Warns = {"W001", "W002", "W003", "W004", "W005"}
  BY DEF Warns, WarnTargets

\* Blockers and warnings are told apart by their names.
LEMMA FailedGates ==
    ASSUME NEW c, NEW m, NEW d
    PROVE  /\ FailedBlockers(c, m, d) \subseteq Blockers
           /\ FailedWarns(c, m) \subseteq Warns
           /\ Blockers \intersect Warns = {}
  <1>1. FailedBlockers(c, m, d) \subseteq Blockers
    BY DEF FailedBlockers, Blockers
  <1>2. FailedWarns(c, m) \subseteq Warns
    BY DEF FailedWarns, Warns
  <1> QED BY <1>1, <1>2, WarnNames DEF Blockers

LEMMA EvaluateFields ==
    ASSUME NEW c, NEW m, NEW d
    PROVE  /\ Evaluate(c, m, d).failed = FailedBlockers(c, m, d) \union FailedWarns(c, m)
           /\ Evaluate(c, m, d).status = GateStatus(FailedBlockers(c, m, d), FailedWarns(c, m))
           /\ Evaluate(c, m, d).score = DriftScore(c, m)
  BY DEF Evaluate

\* The status follows from which gates failed.
LEMMA StatusOfFailed ==
    ASSUME NEW c, NEW m, NEW d
    PROVE  LET v == Evaluate(c, m, d) IN
           /\ v.status \in {"PASS", "WARN", "FAIL"}
           /\ v.status = "FAIL" <=> v.failed \intersect Blockers # {}
           /\ v.status = "PASS" <=> v.failed = {}
  BY EvaluateFields, FailedGates DEF GateStatus

\* Each verdict is that of one constitution on one measurement.
VerdictInv ==
    /\ pinned \in Constitutions /\ candidate \in Constitutions
    /\ measured \in Measurements
    /\ report # None => report = Evaluate(pinned, measured, NoDepth)
    /\ forecast # None =>
          /\ report # None
          /\ forecast.verdict = Evaluate(candidate, measured, NoDepth)
          /\ forecast.new_fail = NewFail(report, forecast.verdict)
          /\ forecast.newly_failing = NewlyFailing(report, forecast.verdict)
    /\ rerun # None => rerun = Evaluate(candidate, measured, NoDepth)

THEOREM VerdictInvariant == Spec => []VerdictInv
  <1>1. Init => VerdictInv
    BY DEF Init, VerdictInv
  <1>2. VerdictInv /\ [Next]_vars => VerdictInv'
    <2> SUFFICES ASSUME VerdictInv, [Next]_vars PROVE VerdictInv'
      OBVIOUS
    <2>1. CASE ProcessRun
      BY <2>1 DEF ProcessRun, VerdictInv
    <2>2. CASE BuildShadowImpact
      BY <2>2 DEF BuildShadowImpact, VerdictInv
    <2>3. CASE ProcessAgain
      BY <2>3 DEF ProcessAgain, VerdictInv
    <2>4. CASE UNCHANGED vars
      BY <2>4 DEF vars, VerdictInv
    <2> QED BY <2>1, <2>2, <2>3, <2>4 DEF Next
  <1> QED BY <1>1, <1>2, PTL DEF Spec

\* No regression escapes top_newly_failing_gates, which names what activating
\* the candidate breaks.
THEOREM RegressionsCounted == Spec => []RegressionsAreCounted
  <1>1. VerdictInv => RegressionsAreCounted
    <2> SUFFICES ASSUME VerdictInv, forecast # None
                 PROVE  /\ rerun # None => forecast.newly_failing = rerun.failed \ report.failed
                        /\ Rank[forecast.verdict.status] > Rank[report.status] =>
                              forecast.newly_failing # {}
                        /\ forecast.new_fail => forecast.newly_failing \ Warns # {}
      BY DEF RegressionsAreCounted, Warns
    <2> DEFINE before == Evaluate(pinned, measured, NoDepth)
               after == Evaluate(candidate, measured, NoDepth)
    <2>1. /\ report = before /\ forecast.verdict = after
          /\ forecast.newly_failing = after.failed \ before.failed
          /\ forecast.new_fail <=> before.status # "FAIL" /\ after.status = "FAIL"
      BY DEF VerdictInv, NewFail, NewlyFailing
    <2>2. /\ before.status \in {"PASS", "WARN", "FAIL"}
          /\ after.status \in {"PASS", "WARN", "FAIL"}
          /\ before.status = "FAIL" <=> before.failed \intersect Blockers # {}
          /\ after.status = "FAIL" <=> after.failed \intersect Blockers # {}
          /\ before.status = "PASS" <=> before.failed = {}
          /\ after.status = "PASS" <=> after.failed = {}
      BY StatusOfFailed
    <2>3. ASSUME after.failed \subseteq before.failed
          PROVE  ~(Rank[after.status] > Rank[before.status])
      BY <2>2, <2>3 DEF Rank
    <2>4. ASSUME before.status # "FAIL", after.status = "FAIL"
          PROVE  (after.failed \ before.failed) \ Warns # {}
      BY <2>2, <2>4, FailedGates
    <2>5. rerun # None => rerun = after
      BY DEF VerdictInv
    <2> QED BY <2>1, <2>3, <2>4, <2>5
  <1> QED BY <1>1, VerdictInvariant, PTL

-----------------------------------------------------------------------------
(* A constitution that relaxes another.                                    *)

LEMMA RelaxedTargets ==
    ASSUME NEW c \in Constitutions, NEW d \in Constitutions, Relaxes(c, d),
           NEW m \in Measurements, NEW T \in SUBSET Targets
    PROVE  /\ Scored(c, m, T) = Scored(d, m, T)
           /\ \A t \in Scored(c, m, T) :
                 /\ TargetDeviation(c, m, t) \in 0..Scale
                 /\ TargetDeviation(d, m, t) \in 0..Scale
                 /\ TargetDeviation(c, m, t) <= TargetDeviation(d, m, t)
  <1>1. \A t \in Targets : Configured(c, t) <=> Configured(d, t)
    BY DEF Relaxes
  <1>2. Scored(c, m, T) = Scored(d, m, T)
    BY <1>1 DEF Scored
  <1>3. ASSUME NEW t \in Scored(c, m, T)
        PROVE  TargetDeviation(c, m, t) <= TargetDeviation(d, m, t)
    <2>1. /\ m.value[t] \in Int
          /\ c.corridor[t] \in Int \X Int /\ d.corridor[t] \in Int \X Int
      BY <1>2, ScoredTargets
    <2>2. t \in Targets /\ Configured(d, t)
      BY <1>2 DEF Scored
    <2>3. /\ Low(c.corridor[t]) <= Low(d.corridor[t])
          /\ High(d.corridor[t]) <= High(c.corridor[t])
      BY <2>2 DEF Relaxes
    <2> QED BY <2>1, <2>3, WiderIsCloser DEF TargetDeviation
  <1> QED BY <1>2, <1>3, ScoredTargets

LEMMA RelaxedDomains ==
    ASSUME NEW c \in Constitutions, NEW d \in Constitutions, Relaxes(c, d),
           NEW m \in Measurements
    PROVE  /\ ScoredDomains(c, m) = ScoredDomains(d, m)
           /\ WeightSum(c, m) = WeightSum(d, m)
           /\ \A x \in ScoredDomains(c, m) : DomainScore(c, m, x) <= DomainScore(d, m, x)
  <1>1. \A x \in Domains : DomainTargets[x] \in SUBSET Targets
    BY TargetsAreFinite
  <1>2. ScoredDomains(c, m) = ScoredDomains(d, m)
    BY <1>1, RelaxedTargets DEF ScoredDomains
  <1>3. WeightSum(c, m) = WeightSum(d, m)
    BY <1>2 DEF WeightSum, Relaxes
  <1>4. ASSUME NEW x \in ScoredDomains(c, m)
        PROVE  DomainScore(c, m, x) <= DomainScore(d, m, x)
    <2> DEFINE S == Scored(c, m, DomainTargets[x])
               g == [t \in S |-> TargetDeviation(c, m, t)]
               h == [t \in S |-> TargetDeviation(d, m, t)]
               n == Cardinality(S)
               a == SumFunctionOnSet(g, S)
               b == SumFunctionOnSet(h, S)
    <2>1. DomainTargets[x] \in SUBSET Targets /\ S # {}
      BY <1>1 DEF ScoredDomains
    <2>2. /\ IsFiniteSet(S) /\ S = Scored(d, m, DomainTargets[x])
          /\ \A t \in S : g[t] \in 0..Scale /\ h[t] \in 0..Scale /\ g[t] <= h[t]
      BY <2>1, RelaxedTargets, ScoredTargets
    <2>3. \A t \in S : /\ g[t] \in Nat /\ h[t] \in Nat
                       /\ g[t] \in Int /\ h[t] \in Int /\ g[t] <= h[t]
      BY <2>2, ScaleIsPositive
    <2>4. DomainScore(c, m, x) = a \div n /\ DomainScore(d, m, x) = b \div n
      BY <2>2 DEF DomainScore, SumFunction
    <2>5. n \in Nat \ {0}
      BY <2>1, <2>2, FS_CardinalityType, FS_EmptySet
    <2>6. a \in Nat /\ b \in Nat /\ a <= b
      <3> HIDE DEF g, h, S
      <3> QED BY <2>2, <2>3, SumOfNaturals, SumIsMonotone
    <2>7. a \div n <= b \div n
      <3> HIDE DEF a, b, n
      <3> QED BY <2>5, <2>6, DivMonotone
    <2> QED BY <2>4, <2>7
  <1> QED BY <1>2, <1>3, <1>4

LEMMA RelaxedScore ==
    ASSUME NEW c \in Constitutions, NEW d \in Constitutions, Relaxes(c, d),
           NEW m \in Measurements
    PROVE  DriftScore(c, m) <= DriftScore(d, m)
  <1> DEFINE S == ScoredDomains(c, m)
             f == WeightedScores(c, m)
             g == WeightedScores(d, m)
             w == WeightSum(c, m)
             a == TotalScore(c, m)
             b == TotalScore(d, m)
  <1>1. S = ScoredDomains(d, m) /\ w = WeightSum(d, m)
    BY RelaxedDomains
  <1>2. w \in Nat /\ a \in Nat /\ b \in Nat
    BY TotalScoreType
  <1>3. a <= b
    <2>1. ASSUME NEW x \in S
          PROVE  f[x] \in Int /\ g[x] \in Int /\ f[x] <= g[x]
      <3> DEFINE k == c.weight[x]
                 p == DomainScore(c, m, x)
                 q == DomainScore(d, m, x)
      <3>1. k \in Nat /\ f[x] = k * p
        BY WeightedScoresType
      <3>2. g[x] = k * q
        BY <1>1, WeightedScoresType DEF Relaxes
      <3>3. p \in 0..Scale /\ q \in 0..Scale /\ p <= q
        BY <1>1, DomainScoreType, RelaxedDomains
      <3> HIDE DEF k, p, q
      <3>4. p * k <= q * k
        BY <3>1, <3>3, MulMono, ScaleIsPositive
      <3>5. k * p \in Nat /\ k * q \in Nat /\ k * p = p * k /\ k * q = q * k
        BY <3>1, <3>3, ScaleIsPositive
      <3> QED BY <3>1, <3>2, <3>4, <3>5
    <2>2. IsFiniteSet(S)
      BY ScoredDomainsAreFinite
    <2>3. a = SumFunctionOnSet(f, S) /\ b = SumFunctionOnSet(g, S)
      BY <1>1 DEF TotalScore
    <2> HIDE DEF f, g, S, a, b
    <2> QED BY <2>1, <2>2, <2>3, SumIsMonotone
  <1>4. CASE w > 0
    <2> DEFINE whole == w * Scale
    <2>1. whole \in Nat \ {0}
      BY <1>2, <1>4, WholeIsPositive
    <2>2. DriftScore(c, m) = (200 * a + whole) \div (2 * whole)
      BY <1>4, DriftScoreIs
    <2>3. DriftScore(d, m) = (200 * b + whole) \div (2 * whole)
      BY <1>1, <1>4, DriftScoreIs
    <2> DEFINE p == 200 * a + whole
               q == 200 * b + whole
               k == 2 * whole
    <2>4. p \in Nat /\ q \in Nat /\ p <= q /\ k \in Nat \ {0} /\ k <= k
      <3> HIDE DEF whole, a, b
      <3> QED BY <1>2, <1>3, <2>1
    <2>5. p \div k <= q \div k
      <3> HIDE DEF p, q, k
      <3> QED BY <2>4, DivMonotone
    <2> QED BY <2>2, <2>3, <2>5
  <1>5. CASE ~(w > 0)
    BY <1>1, <1>5, DriftScoreIs
  <1> QED BY <1>4, <1>5

LEMMA RelaxedGates ==
    ASSUME NEW c \in Constitutions, NEW d \in Constitutions, Relaxes(c, d),
           NEW m \in Measurements, NEW e
    PROVE  /\ FailedBlockers(c, m, e) \subseteq FailedBlockers(d, m, e)
           /\ FailedWarns(c, m) \subseteq FailedWarns(d, m)
  <1>1. /\ c.ceiling \in Int \union {Unset} /\ d.ceiling \in Int \union {Unset}
        /\ m.peak \in Int
    BY EvaluationAssumption DEF ConstitutionType, MeasurementType
  <1>2. BadRate(c, m) => BadRate(d, m)
    BY DEF BadRate, Relaxes
  <1>3. BadDepth(c, e) => BadDepth(d, e)
    BY DEF BadDepth, Relaxes
  <1>4. OverCeiling(c, m) => OverCeiling(d, m)
    BY <1>1 DEF OverCeiling, Relaxes
  <1>5. BadClipping(c, m) => BadClipping(d, m)
    BY DEF BadClipping, Relaxes
  <1>6. FailedBlockers(c, m, e) \subseteq FailedBlockers(d, m, e)
    BY <1>2, <1>3, <1>4, <1>5 DEF FailedBlockers
  <1>7. ASSUME NEW g \in FailedWarns(c, m)
        PROVE  g \in FailedWarns(d, m)
    <2>1. g \in DOMAIN WarnTargets /\ WarnTargets[g] \in SUBSET Targets
      BY DEF FailedWarns, WarnTargets, Targets
    <2>2. PICK t \in Scored(c, m, WarnTargets[g]) : TargetDeviation(c, m, t) > 0
      BY DEF FailedWarns
    <2>3. t \in Scored(d, m, WarnTargets[g]) /\ TargetDeviation(d, m, t) > 0
      BY <2>1, <2>2, RelaxedTargets, ScaleIsPositive
    <2> QED BY <2>1, <2>3 DEF FailedWarns
  <1> QED BY <1>6, <1>7

\* The verdict of a constitution that relaxes another is no worse.
LEMMA RelaxedVerdict ==
    ASSUME NEW c \in Constitutions, NEW d \in Constitutions, Relaxes(c, d),
           NEW m \in Measurements, NEW e
    PROVE  LET after == Evaluate(c, m, e)
               before == Evaluate(d, m, e)
           IN  /\ after.failed \subseteq before.failed
               /\ Rank[after.status] <= Rank[before.status]
               /\ after.score <= before.score
  <1> DEFINE after == Evaluate(c, m, e)
             before == Evaluate(d, m, e)
  <1>1. after.failed \subseteq before.failed
    BY RelaxedGates, EvaluateFields
  <1>2. after.score <= before.score
    BY RelaxedScore, EvaluateFields
  <1>3. Rank[after.status] <= Rank[before.status]
    <2>1. /\ before.status \in {"PASS", "WARN", "FAIL"}
          /\ after.status \in {"PASS", "WARN", "FAIL"}
          /\ before.status = "FAIL" <=> before.failed \intersect Blockers # {}
          /\ after.status = "FAIL" <=> after.failed \intersect Blockers # {}
          /\ before.status = "PASS" <=> before.failed = {}
          /\ after.status = "PASS" <=> after.failed = {}
      BY StatusOfFailed
    <2> HIDE DEF after, before
    <2> QED BY <1>1, <2>1 DEF Rank
  <1> QED BY <1>1, <1>2, <1>3

LEMMA RelaxedIsBetter == VerdictInv => RelaxingNeverHurts
  <1> SUFFICES ASSUME VerdictInv, report # None, rerun # None, Relaxes(candidate, pinned)
               PROVE  /\ rerun.failed \subseteq report.failed
                      /\ Rank[rerun.status] <= Rank[report.status]
                      /\ rerun.score <= report.score
    BY DEF RelaxingNeverHurts
  <1>1. /\ pinned \in Constitutions /\ candidate \in Constitutions
        /\ measured \in Measurements
        /\ report = Evaluate(pinned, measured, NoDepth)
        /\ rerun = Evaluate(candidate, measured, NoDepth)
    BY DEF VerdictInv
  <1> QED BY <1>1, RelaxedVerdict

\* Gates, gate status and drift score of the same audio can only improve under a
\* relaxed constitution.
THEOREM RelaxedNeverHurts == Spec => []RelaxingNeverHurts
  BY RelaxedIsBetter, VerdictInvariant, PTL

LEMMA VerdictType ==
    ASSUME NEW c \in Constitutions, NEW m \in Measurements, NEW d
    PROVE  Evaluate(c, m, d) \in Verdicts
  <1> DEFINE v == Evaluate(c, m, d)
  <1>1. v = [failed |-> v.failed, status |-> v.status, score |-> v.score]
    BY DEF Evaluate
  <1>2. v.failed \in SUBSET Gates
    BY EvaluateFields, FailedGates DEF Gates, Blockers, Warns
  <1>3. v.status \in {"PASS", "WARN", "FAIL"} /\ v.score \in 0..100
    BY StatusOfFailed, EvaluateFields, DriftScoreType
  <1> QED BY <1>1, <1>2, <1>3 DEF Verdicts

\* Every verdict names known gates and a status, and its score is a percentage.
THEOREM EvaluationTypeCorrect == Spec => []EvaluationTypeOK
  <1>1. VerdictInv => EvaluationTypeOK
    <2> SUFFICES ASSUME VerdictInv PROVE EvaluationTypeOK
      OBVIOUS
    <2>1. /\ pinned \in Constitutions /\ candidate \in Constitutions
          /\ measured \in Measurements
      BY DEF VerdictInv
    <2>2. report \in Verdicts \union {None} /\ rerun \in Verdicts \union {None}
      BY <2>1, VerdictType DEF VerdictInv
    <2>3. ASSUME forecast # None
          PROVE  /\ forecast.verdict \in Verdicts
                 /\ forecast.new_fail \in BOOLEAN
                 /\ forecast.newly_failing \subseteq Gates
      <3>1. forecast.verdict \in Verdicts
        BY <2>1, <2>3, VerdictType DEF VerdictInv
      <3>2. forecast.new_fail \in BOOLEAN
        BY <2>3 DEF VerdictInv, NewFail
      <3>3. forecast.newly_failing \subseteq forecast.verdict.failed
        BY <2>3 DEF VerdictInv, NewlyFailing
      <3> QED BY <3>1, <3>2, <3>3 DEF Verdicts
    <2> QED BY <2>2, <2>3 DEF EvaluationTypeOK
  <1> QED BY <1>1, VerdictInvariant, PTL

-----------------------------------------------------------------------------
(* The translation matrix.                                                 *)

LEMMA MinIsLeast ==
    ASSUME NEW T \in SUBSET Nat, T # {}
    PROVE  Min(T) \in T /\ \A n \in T : Min(T) <= n
  BY LeastNat DEF Min

LEMMA MaxIsLargest ==
    ASSUME NEW most \in Nat, NEW T \in SUBSET (0..most), T # {}
    PROVE  Max(T) \in T /\ \A n \in T : Max(T) >= n
  <1> DEFINE Rest == {most - n : n \in T}
  <1>1. Rest \in SUBSET Nat /\ Rest # {}
    <2>1. \A n \in T : n \in 0..most /\ most - n \in Nat
      OBVIOUS
    <2>2. \E n \in T : most - n \in Rest
      OBVIOUS
    <2> QED BY <2>1, <2>2
  <1>2. PICK r \in Rest : \A s \in Rest : r <= s
    BY <1>1, LeastNat
  <1>3. PICK x \in T : r = most - x
    BY <1>2
  <1>4. ASSUME NEW n \in T
        PROVE  x >= n
    <2>1. r <= most - n
      BY <1>2
    <2> QED BY <1>3, <2>1
  <1> QED BY <1>4 DEF Max

\* Every target of the matrix has its warning, so that the corridors are kept
\* exactly if no warning fails.
LEMMA WarningsSeeAllDrift ==
    ASSUME NEW c, NEW m
    PROVE  DriftVector(c, m) = {} <=> FailedWarns(c, m) = {}
  <1>1. \A t \in Targets : \E g \in DOMAIN WarnTargets : t \in WarnTargets[g]
    BY DEF Targets, WarnTargets
  <1>2. \A g \in DOMAIN WarnTargets : WarnTargets[g] \subseteq Targets
    BY DEF Targets, WarnTargets
  <1>3. ASSUME NEW t \in DriftVector(c, m) PROVE FailedWarns(c, m) # {}
    <2>1. t \in Targets /\ t \in Scored(c, m, Targets) /\ TargetDeviation(c, m, t) > 0
      BY DEF DriftVector, Scored
    <2>2. PICK g \in DOMAIN WarnTargets : t \in WarnTargets[g]
      BY <1>1, <2>1
    <2>3. t \in Scored(c, m, WarnTargets[g])
      BY <2>1, <2>2 DEF Scored
    <2> QED BY <2>1, <2>2, <2>3 DEF FailedWarns
  <1>4. ASSUME NEW g \in FailedWarns(c, m) PROVE DriftVector(c, m) # {}
    <2>1. PICK t \in Scored(c, m, WarnTargets[g]) : TargetDeviation(c, m, t) > 0
      BY DEF FailedWarns
    <2>2. t \in Scored(c, m, Targets)
      BY <1>2, <2>1 DEF Scored, FailedWarns
    <2> QED BY <2>1, <2>2 DEF DriftVector
  <1> QED BY <1>3, <1>4

LEMMA SumOfZeros ==
    ASSUME NEW g, NEW S, IsFiniteSet(S), \A x \in S : g[x] = 0
    PROVE  SumFunctionOnSet(g, S) = 0
  <1>1. \A x \in S : g[x] \in Int /\ g[x] = g[x] * 0
    OBVIOUS
  <1>2. SumFunctionOnSet(g, S) = SumFunctionOnSet(g, S) * 0 /\ SumFunctionOnSet(g, S) \in Int
    BY <1>1, SumOfMultiples, SumIsInt
  <1> QED BY <1>2

LEMMA NoDriftNoScore ==
    ASSUME NEW c \in Constitutions, NEW m \in Measurements, DriftVector(c, m) = {}
    PROVE  DriftScore(c, m) = 0
  <1>1. ASSUME NEW d \in ScoredDomains(c, m)
        PROVE  DomainScore(c, m, d) = 0
    <2> DEFINE S == Scored(c, m, DomainTargets[d])
               g == [t \in S |-> TargetDeviation(c, m, t)]
               n == Cardinality(S)
    <2>1. d \in Domains /\ S # {} /\ DomainTargets[d] \in SUBSET Targets
      BY TargetsAreFinite DEF ScoredDomains
    <2>2. IsFiniteSet(S) /\ \A t \in S : g[t] \in 0..Scale
      BY <2>1, ScoredTargets
    <2>3. \A t \in S : ~(g[t] > 0)
      BY <2>1 DEF DriftVector, Scored
    <2>4. SumFunctionOnSet(g, S) = 0
      <3>1. \A t \in S : g[t] = 0
        BY <2>2, <2>3, ScaleIsPositive
      <3> HIDE DEF g, S
      <3> QED BY <2>2, <3>1, SumOfZeros
    <2>5. n \in Nat \ {0}
      BY <2>1, <2>2, FS_CardinalityType, FS_EmptySet
    <2>6. DomainScore(c, m, d) = 0 \div n
      BY <2>4 DEF DomainScore, SumFunction
    <2>7. 0 \div n = 0
      <3> HIDE DEF n
      <3>1. 0 < (0 + 1) * n
        BY <2>5
      <3>2. 0 \div n \in 0..0
        BY <2>5, <3>1, DivAtMost
      <3> QED BY <3>2
    <2> QED BY <2>6, <2>7
  <1>2. \A d \in ScoredDomains(c, m) : WeightedScores(c, m)[d] = 0
    BY <1>1, WeightedScoresType
  <1>3. TotalScore(c, m) = 0
    <2> DEFINE S == ScoredDomains(c, m)
               f == WeightedScores(c, m)
    <2>1. IsFiniteSet(S)
      BY ScoredDomainsAreFinite
    <2>2. SumFunctionOnSet(f, S) = 0
      <3>1. \A d \in S : f[d] = 0
        BY <1>2
      <3> HIDE DEF f, S
      <3> QED BY <2>1, <3>1, SumOfZeros
    <2> QED BY <2>2 DEF TotalScore
  <1>4. CASE WeightSum(c, m) > 0
    <2> DEFINE whole == WeightSum(c, m) * Scale
    <2>1. whole \in Nat \ {0}
      BY <1>4, TotalScoreType, WholeIsPositive
    <2>2. DriftScore(c, m) = (200 * 0 + whole) \div (2 * whole)
      BY <1>3, <1>4, DriftScoreIs
    <2> HIDE DEF whole
    <2>3. 200 * 0 + whole = whole /\ 2 * whole \in Nat \ {0} /\ whole < (0 + 1) * (2 * whole)
      BY <2>1
    <2>4. whole \div (2 * whole) \in 0..0
      BY <2>1, <2>3, DivAtMost
    <2> QED BY <2>2, <2>3, <2>4
  <1>5. CASE ~(WeightSum(c, m) > 0)
    BY <1>5, DriftScoreIs
  <1> QED BY <1>4, <1>5

LEMMA GatesAreFinite == IsFiniteSet(Gates)
  <1>1. IsFiniteSet({"W001", "W002", "W003", "W004"} \union {"W005"})
    BY NamesAreFinite, FS_AddElement
  <1>2. Warns = {"W001", "W002", "W003", "W004"} \union {"W005"}
    BY WarnNames
  <1>3. IsFiniteSet(Blockers \union Warns)
    BY <1>1, <1>2, NamesAreFinite, FS_Union DEF Blockers
  <1> QED BY <1>3 DEF Gates, Blockers, Warns

\* What the risk of a target says of its gates.
LEMMA RiskOfTarget ==
    ASSUME NEW c \in Constitutions, NEW m \in Measurements
    PROVE  LET o == TargetOutput(c, m) IN
           /\ o.risk \in 0..100
           /\ o.status \in {"PASS", "WARN", "FAIL"}
           /\ o.risk = 0 <=> o.status = "PASS"
           /\ o.status = "FAIL" => o.risk >= 15
           /\ o.note # "not evaluated" =>
                 (o.note = "inside" <=> o.failed \intersect DOMAIN WarnTargets = {})
  <1> DEFINE e == Evaluate(c, m, NoDepth)
             o == TargetOutput(c, m)
             warns == e.failed \intersect Warns
             blockers == e.failed \ warns
             w == Cardinality(warns)
             b == Cardinality(blockers)
  <1>1. /\ o.status = e.status /\ o.failed = e.failed
        /\ o.risk = Min({100, e.score + 15 * b + 5 * w})
        /\ o.note = DriftNote(c, m)
    BY DEF TargetOutput, TranslationRisk, Warns
  <1>2. /\ warns = FailedWarns(c, m) /\ blockers = e.failed \intersect Blockers
        /\ e.failed \subseteq Gates
    BY EvaluateFields, FailedGates DEF Gates, Blockers, Warns
  <1>3. /\ w \in Nat /\ b \in Nat
        /\ w = 0 <=> warns = {}
        /\ b = 0 <=> blockers = {}
    <2>1. IsFiniteSet(warns) /\ IsFiniteSet(blockers)
      BY <1>2, GatesAreFinite, FS_Subset
    <2> QED BY <2>1, FS_CardinalityType, FS_EmptySet
  <1>4. /\ e.status \in {"PASS", "WARN", "FAIL"}
        /\ e.status = "FAIL" <=> blockers # {}
        /\ e.status = "PASS" <=> warns = {} /\ blockers = {}
    BY <1>2, StatusOfFailed
  <1>5. e.score \in 0..100 /\ (warns = {} => e.score = 0)
    BY <1>2, EvaluateFields, DriftScoreType, NoDriftNoScore, WarningsSeeAllDrift
  <1>6. o.note # "not evaluated" => (o.note = "inside" <=> warns = {})
    BY <1>1, <1>2, WarningsSeeAllDrift DEF DriftNote
  <1>7. o.risk = IF 100 <= e.score + 15 * b + 5 * w THEN 100 ELSE e.score + 15 * b + 5 * w
    <2> DEFINE sum == e.score + 15 * b + 5 * w
    <2>1. sum \in Int
      <3> HIDE DEF e, w, b
      <3> QED BY <1>3, <1>5
    <2>2. o.risk = Min({100, sum})
      BY <1>1
    <2> HIDE DEF sum, o
    <2>3. o.risk = IF 100 <= sum THEN 100 ELSE sum
      BY <2>1, <2>2, MinOfTwo
    <2> QED BY <2>3 DEF sum
  <1>8. /\ o.risk \in 0..100
        /\ o.risk = 0 <=> e.score = 0 /\ b = 0 /\ w = 0
        /\ b # 0 => o.risk >= 15
    <2> HIDE DEF e, w, b, o
    <2> QED BY <1>3, <1>5, <1>7
  <1> QED BY <1>1, <1>3, <1>4, <1>5, <1>6, <1>8 DEF Warns

RenderedInv == rendered \in Seq(Measurements)

\* Simulating targets leaves the run alone.
LEMMA TranslationIsEvaluation == TranslationSpec => Spec
  <1>1. [SimulateTargets /\ UNCHANGED vars]_<<vars, rendered>> => [Next]_vars
    OBVIOUS
  <1> QED BY <1>1, PTL DEF TranslationSpec, Spec

THEOREM TranslationInvariant == TranslationSpec => [](VerdictInv /\ RenderedInv)
  <1>1. TranslationInit => RenderedInv
    BY DEF TranslationInit, RenderedInv
  <1>2. RenderedInv /\ [SimulateTargets /\ UNCHANGED vars]_<<vars, rendered>> => RenderedInv'
    BY TranslationAssumption DEF SimulateTargets, RenderedInv
  <1> QED BY <1>1, <1>2, TranslationIsEvaluation, VerdictInvariant, PTL DEF TranslationSpec

LEMMA OutputsFacts ==
    ASSUME VerdictInv, RenderedInv
    PROVE  /\ Len(rendered) \in Nat /\ DOMAIN Outputs = 1..Len(rendered)
           /\ \A i \in DOMAIN Outputs :
                 /\ rendered[i] \in Measurements
                 /\ Outputs[i] = TargetOutput(pinned, rendered[i])
  BY DEF Outputs, RenderedInv

\* A target's translation risk, its gates and the note on its drift tell one
\* story in every cell of the matrix.
THEOREM RisksMatchGates == TranslationSpec => []RiskMatchesGates
  <1>1. VerdictInv /\ RenderedInv => RiskMatchesGates
    <2> SUFFICES ASSUME VerdictInv, RenderedInv, NEW i \in DOMAIN Outputs
                 PROVE  LET o == Outputs[i] IN
                        /\ o.risk = 0 <=> o.status = "PASS"
                        /\ o.status = "FAIL" => o.risk >= 15
                        /\ o.note # "not evaluated" =>
                              (o.note = "inside" <=> o.failed \intersect DOMAIN WarnTargets = {})
      BY DEF RiskMatchesGates
    <2>1. Outputs[i] = TargetOutput(pinned, rendered[i]) /\ rendered[i] \in Measurements
      BY OutputsFacts
    <2>2. pinned \in Constitutions
      BY DEF VerdictInv
    <2> QED BY <2>1, <2>2, RiskOfTarget
  <1> QED BY <1>1, TranslationInvariant, PTL

\* What is known of the outputs of a matrix.
Rated(outputs, n) ==
    /\ n \in Nat \ {0} /\ DOMAIN outputs = 1..n
    /\ \A i \in 1..n :
          /\ outputs[i].risk \in 0..100
          /\ outputs[i].status \in {"PASS", "WARN", "FAIL"}
          /\ outputs[i].risk = 0 <=> outputs[i].status = "PASS"

LEMMA RatedRisks ==
    ASSUME NEW outputs, NEW n, Rated(outputs, n)
    PROVE  /\ DOMAIN outputs = 1..n /\ 1 \in 1..n
           /\ \A i \in 1..n : /\ outputs[i].risk \in 0..100 /\ outputs[i].risk \in Int
                              /\ outputs[i].risk >= 0 /\ i \in Int
  <1>1. n \in Nat \ {0} /\ DOMAIN outputs = 1..n
    BY DEF Rated
  <1>2. ASSUME NEW i \in 1..n
        PROVE  /\ outputs[i].risk \in 0..100 /\ outputs[i].risk \in Int
               /\ outputs[i].risk >= 0 /\ i \in Int
    <2> DEFINE risk == outputs[i].risk
    <2>1. risk \in 0..100
      BY DEF Rated
    <2>2. i \in Int
      BY <1>1
    <2> HIDE DEF risk
    <2>3. risk \in Int /\ risk >= 0
      BY <2>1
    <2> QED BY <2>1, <2>2, <2>3 DEF risk
  <1>3. 1 \in 1..n
    BY <1>1
  <1> QED BY <1>1, <1>2, <1>3

LEMMA FirstOfRisk ==
    ASSUME NEW outputs, NEW n, Rated(outputs, n), NEW risk \in Risks(outputs)
    PROVE  LET first == FirstWith(risk, outputs) IN
           /\ first \in 1..n /\ outputs[first].risk = risk
           /\ \A i \in 1..n : outputs[i].risk = risk => first <= i
  <1> DEFINE T == {i \in DOMAIN outputs : outputs[i].risk = risk}
  <1>1. T \in SUBSET Nat /\ T # {} /\ T \subseteq 1..n
    BY DEF Rated, Risks
  <1>2. FirstWith(risk, outputs) = Min(T)
    BY DEF FirstWith
  <1>3. Min(T) \in T /\ \A i \in T : Min(T) <= i
    <2> HIDE DEF T
    <2> QED BY <1>1, MinIsLeast
  <1> QED BY <1>1, <1>2, <1>3 DEF Rated

LEMMA ExtremeRisks ==
    ASSUME NEW outputs, NEW n, Rated(outputs, n)
    PROVE  /\ Max(Risks(outputs)) \in Risks(outputs) /\ Min(Risks(outputs)) \in Risks(outputs)
           /\ \A i \in 1..n : /\ outputs[i].risk <= Max(Risks(outputs))
                              /\ Min(Risks(outputs)) <= outputs[i].risk
  <1>1. /\ Risks(outputs) \in SUBSET (0..100) /\ Risks(outputs) \in SUBSET Nat
        /\ Risks(outputs) # {}
    <2>1. /\ \A i \in DOMAIN outputs : outputs[i].risk \in 0..100
          /\ 1 \in DOMAIN outputs
      BY RatedRisks
    <2>2. Risks(outputs) \subseteq 0..100 /\ outputs[1].risk \in Risks(outputs)
      BY <2>1 DEF Risks
    <2> QED BY <2>2
  <1>2. Max(Risks(outputs)) \in Risks(outputs) /\ \A x \in Risks(outputs) : Max(Risks(outputs)) >= x
    BY <1>1, MaxIsLargest
  <1>3. Min(Risks(outputs)) \in Risks(outputs) /\ \A x \in Risks(outputs) : Min(Risks(outputs)) <= x
    BY <1>1, MinIsLeast
  <1>4. \A i \in 1..n : outputs[i].risk \in Risks(outputs)
    BY DEF Rated, Risks
  <1>5. /\ Max(Risks(outputs)) \in Int
        /\ \A i \in 1..n : outputs[i].risk \in Int
    BY <1>1, <1>2, <1>4
  <1> QED BY <1>2, <1>3, <1>4, <1>5

Failing(outputs) == {i \in DOMAIN outputs : outputs[i].status # "PASS"}
WorseFirst(outputs) ==
    {p \in Failing(outputs) \X Failing(outputs) : FailsWorse(outputs, p[1], p[2])}

LEMMA FailsWorseSorts ==
    ASSUME NEW outputs, NEW n, Rated(outputs, n)
    PROVE  /\ IsFiniteSet(Failing(outputs)) /\ Failing(outputs) \subseteq 1..n
           /\ Sorts(WorseFirst(outputs), Failing(outputs))
  <1> DEFINE F == Failing(outputs)
             status(i) == outputs[i].status
             risk(i) == outputs[i].risk
  <1>1. F \subseteq 1..n /\ \A i \in F : i \in Int /\ risk(i) \in 0..100 /\ status(i) \in {"WARN", "FAIL"}
    <2>1. /\ n \in Nat /\ DOMAIN outputs = 1..n
          /\ \A i \in 1..n : risk(i) \in 0..100 /\ status(i) \in {"PASS", "WARN", "FAIL"}
      BY DEF Rated
    <2>2. F \subseteq 1..n /\ \A i \in F : status(i) # "PASS"
      BY <2>1 DEF Failing
    <2>3. ASSUME NEW i \in F
          PROVE  i \in Int /\ risk(i) \in 0..100 /\ status(i) \in {"WARN", "FAIL"}
      <3>1. i \in 1..n /\ status(i) # "PASS"
        BY <2>2
      <3> HIDE DEF F, status, risk
      <3> QED BY <2>1, <3>1
    <2> QED BY <2>2, <2>3
  <1>2. IsFiniteSet(F)
    <2>1. n \in Int
      BY DEF Rated
    <2> QED BY <1>1, <2>1, FS_Interval, FS_Subset
  <1>3. \A i, j \in F : <<i, j>> \in WorseFirst(outputs) <=>
             \/ status(i) = "FAIL" /\ status(j) = "WARN"
             \/ /\ status(i) = status(j)
                /\ risk(i) > risk(j) \/ (risk(i) = risk(j) /\ i < j)
    BY <1>1 DEF WorseFirst, FailsWorse, GateRank
  <1> HIDE DEF F, status, risk
  <1>4. \A i \in F : <<i, i>> \notin WorseFirst(outputs)
    BY <1>1, <1>3
  <1>5. \A i, j \in F : i # j => <<i, j>> \in WorseFirst(outputs) \/ <<j, i>> \in WorseFirst(outputs)
    BY <1>1, <1>3, SMTT(30)
  <1>6. ASSUME NEW i \in F, NEW j \in F, NEW k \in F,
               <<i, j>> \in WorseFirst(outputs), <<j, k>> \in WorseFirst(outputs)
        PROVE  <<i, k>> \in WorseFirst(outputs)
    <2>1. \/ status(i) = "FAIL" /\ status(j) = "WARN"
          \/ status(i) = status(j) /\ (risk(i) > risk(j) \/ (risk(i) = risk(j) /\ i < j))
      BY <1>3, <1>6
    <2>2. \/ status(j) = "FAIL" /\ status(k) = "WARN"
          \/ status(j) = status(k) /\ (risk(j) > risk(k) \/ (risk(j) = risk(k) /\ j < k))
      BY <1>3, <1>6
    <2>3. /\ i \in Int /\ j \in Int /\ k \in Int
          /\ risk(i) \in Int /\ risk(j) \in Int /\ risk(k) \in Int
      BY <1>1
    <2>4. \/ status(i) = "FAIL" /\ status(k) = "WARN"
          \/ status(i) = status(k) /\ (risk(i) > risk(k) \/ (risk(i) = risk(k) /\ i < k))
      BY <2>1, <2>2, <2>3
    <2> QED BY <1>3, <2>4
  <1>7. Sorts(WorseFirst(outputs), F)
    BY <1>4, <1>5, <1>6 DEF Sorts
  <1> QED BY <1>1, <1>2, <1>7 DEF F

\* The list of failing targets is all of them, or three that fail worse than
\* every other.
LEMMA TopFailingIs ==
    ASSUME NEW outputs, NEW n, Rated(outputs, n)
    PROVE  LET listed == ToSet(TopFailing(outputs)) IN
           /\ listed \subseteq Failing(outputs)
           /\ listed = Failing(outputs) \/
                 /\ IsFiniteSet(listed) /\ Cardinality(listed) = 3
                 /\ \A i \in Failing(outputs) \ listed, j \in listed :
                       <<j, i>> \in WorseFirst(outputs)
  <1> DEFINE F == Failing(outputs)
             order == WorseFirst(outputs)
             c == Cardinality(F)
             s == Ranked(F, order)
             top == IF 3 <= c THEN 3 ELSE c
             listed == ToSet(TopFailing(outputs))
  <1>1. /\ c \in Nat /\ s \in [1..c -> F]
        /\ \A i \in F : \E k \in 1..c : s[k] = i
        /\ \A k, l \in 1..c : k < l => <<s[k], s[l]>> \in order
    BY FailsWorseSorts, RankedIsSorted
  <1>2. TopFailing(outputs) = SubSeq(s, 1, Min({3, Len(s)}))
    BY DEF TopFailing, Failing, WorseFirst
  <1> HIDE DEF c, s, F, order
  <1>3. s \in Seq(F) /\ Len(s) = c
    BY <1>1
  <1>4. Min({3, Len(s)}) = top
    BY <1>1, <1>3, MinOfTwo
  <1>5. top \in 0..c /\ top <= 3
    BY <1>1
  <1>6. SubSeq(s, 1, top) = [k \in 1..top |-> s[k]]
    BY <1>1, <1>3, <1>5
  <1>7. listed = {s[k] : k \in 1..top}
    <2> HIDE DEF top
    <2>1. TopFailing(outputs) = [k \in 1..top |-> s[k]]
      BY <1>2, <1>4, <1>6
    <2> QED BY <2>1 DEF ToSet
  <1> HIDE DEF listed
  <1>8. listed \subseteq F
    BY <1>1, <1>5, <1>7
  <1>9. CASE c <= 3
    <2>1. top = c
      BY <1>1, <1>9
    <2>2. F \subseteq listed
      BY <1>1, <1>7, <2>1
    <2> QED BY <1>8, <2>2 DEF listed, F
  <1>10. CASE 3 < c
    <2>1. top = 3
      BY <1>1, <1>10
    <2>2. /\ 1 \in 1..c /\ 2 \in 1..c /\ 3 \in 1..c
          /\ listed = {s[1], s[2], s[3]}
      <3>1. 1..3 = {1, 2, 3}
        OBVIOUS
      <3> QED BY <1>1, <1>7, <1>10, <2>1, <3>1
    <2>3. s[1] # s[2] /\ s[1] # s[3] /\ s[2] # s[3]
      <3>1. \A k, l \in 1..c : k < l => s[k] # s[l]
        BY <1>1, FailsWorseSorts DEF Sorts, F, order
      <3> QED BY <2>2, <3>1
    <2>4. IsFiniteSet(listed) /\ Cardinality(listed) = 3
      <3>1. IsFiniteSet({s[1]}) /\ Cardinality({s[1]}) = 1 /\ s[2] \notin {s[1]}
        BY <2>3, FS_Singleton
      <3>2. IsFiniteSet({s[1]} \union {s[2]}) /\ Cardinality({s[1]} \union {s[2]}) = 2
        BY <3>1, FS_AddElement
      <3>3. s[3] \notin {s[1]} \union {s[2]}
        BY <2>3
      <3>4. /\ IsFiniteSet(({s[1]} \union {s[2]}) \union {s[3]})
            /\ Cardinality(({s[1]} \union {s[2]}) \union {s[3]}) = 3
        BY <3>2, <3>3, FS_AddElement
      <3>5. listed = ({s[1]} \union {s[2]}) \union {s[3]}
        BY <2>2
      <3> QED BY <3>4, <3>5
    <2>5. ASSUME NEW i \in F \ listed, NEW j \in listed
          PROVE  <<j, i>> \in order
      <3>1. PICK k \in 1..c : s[k] = i
        BY <1>1
      <3>2. PICK l \in 1..top : s[l] = j
        BY <1>7
      <3>3. ~(k <= top)
        BY <1>7, <3>1
      <3>4. l \in 1..c /\ l < k
        BY <1>1, <1>5, <3>1, <3>2, <3>3
      <3> QED BY <1>1, <3>1, <3>2, <3>4
    <2> QED BY <1>8, <2>4, <2>5 DEF listed, F, order
  <1> QED BY <1>1, <1>9, <1>10

LEMMA SummaryIsHonest ==
    ASSUME NEW outputs, NEW n, Rated(outputs, n)
    PROVE  LET summary == BuildSummary(outputs)
               listed == ToSet(summary.top_failing)
               failing == {i \in DOMAIN outputs : outputs[i].status = "FAIL"}
           IN  /\ failing \subseteq listed \/ (listed \subseteq failing /\ Cardinality(listed) = 3)
               /\ outputs[summary.best].status = "PASS"
                     <=> \E i \in DOMAIN outputs : outputs[i].status = "PASS"
               /\ summary.worst \in listed \/ outputs[summary.worst].status = "PASS"
                     \/ Cardinality(failing) >= 3
               /\ summary.risk_sum <= n * outputs[summary.worst].risk
  <1> DEFINE worst == FirstWith(Max(Risks(outputs)), outputs)
             best == FirstWith(Min(Risks(outputs)), outputs)
             listed == ToSet(TopFailing(outputs))
             failing == {i \in DOMAIN outputs : outputs[i].status = "FAIL"}
             order == WorseFirst(outputs)
             risks == [i \in DOMAIN outputs |-> outputs[i].risk]
  <1>1. /\ BuildSummary(outputs).worst = worst /\ BuildSummary(outputs).best = best
        /\ BuildSummary(outputs).top_failing = TopFailing(outputs)
        /\ BuildSummary(outputs).risk_sum = SumFunctionOnSet(risks, 1..n)
    BY DEF BuildSummary, Rated, SumFunction
  <1>2. /\ n \in Nat \ {0} /\ DOMAIN outputs = 1..n
        /\ \A i \in 1..n : /\ outputs[i].risk \in 0..100
                           /\ outputs[i].status \in {"PASS", "WARN", "FAIL"}
                           /\ outputs[i].risk = 0 <=> outputs[i].status = "PASS"
    BY DEF Rated
  <1>3. /\ worst \in 1..n /\ \A i \in 1..n : outputs[i].risk <= outputs[worst].risk
        /\ \A i \in 1..n : outputs[i].risk = outputs[worst].risk => worst <= i
    BY ExtremeRisks, FirstOfRisk
  <1>4. best \in 1..n /\ \A i \in 1..n : outputs[best].risk <= outputs[i].risk
    BY ExtremeRisks, FirstOfRisk
  <1>5. /\ listed \subseteq Failing(outputs)
        /\ listed = Failing(outputs) \/
              /\ IsFiniteSet(listed) /\ Cardinality(listed) = 3
              /\ \A i \in Failing(outputs) \ listed, j \in listed : <<j, i>> \in order
    BY TopFailingIs
  <1>6. failing \subseteq Failing(outputs) /\ failing \subseteq 1..n
    BY <1>2 DEF Failing
  <1>7. IsFiniteSet(failing)
    BY <1>2, <1>6, FS_Interval, FS_Subset
  <1>8. \A i, j : <<j, i>> \in order =>
            /\ i \in 1..n /\ j \in 1..n
            /\ \/ outputs[j].status = "FAIL" /\ outputs[i].status = "WARN"
               \/ /\ outputs[i].status = outputs[j].status
                  /\ outputs[j].risk > outputs[i].risk \/ (outputs[j].risk = outputs[i].risk /\ j < i)
    <2> SUFFICES ASSUME NEW i, NEW j, <<j, i>> \in order
                 PROVE  /\ i \in 1..n /\ j \in 1..n
                        /\ \/ outputs[j].status = "FAIL" /\ outputs[i].status = "WARN"
                           \/ /\ outputs[i].status = outputs[j].status
                              /\ \/ outputs[j].risk > outputs[i].risk
                                 \/ outputs[j].risk = outputs[i].risk /\ j < i
      OBVIOUS
    <2>1. i \in Failing(outputs) /\ j \in Failing(outputs) /\ FailsWorse(outputs, j, i)
      BY DEF WorseFirst
    <2>2. outputs[i].status \in {"WARN", "FAIL"} /\ outputs[j].status \in {"WARN", "FAIL"}
      BY <1>2, <2>1 DEF Failing
    <2> QED BY <1>2, <2>1, <2>2 DEF FailsWorse, GateRank, Failing
  <1> HIDE DEF worst, best, listed, order
  <1>9. failing \subseteq listed \/ (listed \subseteq failing /\ Cardinality(listed) = 3)
    <2> SUFFICES ASSUME NEW f \in failing, f \notin listed
                 PROVE  listed \subseteq failing /\ Cardinality(listed) = 3
      OBVIOUS
    <2>1. /\ f \in Failing(outputs) \ listed
          /\ Cardinality(listed) = 3
          /\ \A j \in listed : <<j, f>> \in order
      BY <1>5, <1>6
    <2>2. ASSUME NEW j \in listed PROVE j \in failing
      BY <1>2, <1>8, <2>1
    <2> QED BY <2>1, <2>2
  <1>10. outputs[best].status = "PASS" <=> \E i \in DOMAIN outputs : outputs[i].status = "PASS"
    <2>1. \A i \in 1..n : outputs[i].risk \in Int /\ outputs[i].risk >= 0
      BY RatedRisks
    <2>2. ASSUME NEW i \in 1..n, outputs[i].risk = 0
          PROVE  outputs[best].risk = 0
      BY <1>4, <2>1, <2>2
    <2> QED BY <1>2, <1>4, <2>2
  <1>11. worst \in listed \/ outputs[worst].status = "PASS" \/ Cardinality(failing) >= 3
    <2> SUFFICES ASSUME worst \notin listed, outputs[worst].status # "PASS"
                 PROVE  Cardinality(failing) >= 3
      OBVIOUS
    <2>1. worst \in Failing(outputs)
      BY <1>2, <1>3 DEF Failing
    <2>2. Cardinality(listed) = 3 /\ \A j \in listed : <<j, worst>> \in order
      BY <1>5, <2>1
    <2>3. ASSUME NEW j \in listed PROVE j \in failing
      <3>1. <<j, worst>> \in order
        BY <2>2
      <3>2. j \in 1..n /\ outputs[j].risk <= outputs[worst].risk
        BY <1>3, <1>8, <3>1
      <3>3. outputs[j].risk = outputs[worst].risk => worst <= j
        BY <1>3, <3>2
      <3>4. outputs[j].risk \in Int /\ outputs[worst].risk \in Int /\ j \in Int /\ worst \in Int
        <4>1. \A i \in 1..n : outputs[i].risk \in Int /\ i \in Int
          BY RatedRisks
        <4> QED BY <1>3, <3>2, <4>1
      <3>5. outputs[j].status = "FAIL"
        BY <1>8, <3>1, <3>2, <3>3, <3>4
      <3> QED BY <1>2, <3>2, <3>5
    <2>4. listed \in SUBSET failing
      BY <2>3
    <2>5. Cardinality(listed) <= Cardinality(failing) /\ Cardinality(failing) \in Nat
      <3> HIDE DEF failing
      <3> QED BY <1>7, <2>4, FS_Subset, FS_CardinalityType
    <2> QED BY <2>2, <2>5
  <1>12. SumFunctionOnSet(risks, 1..n) <= n * outputs[worst].risk
    <2> DEFINE most == outputs[worst].risk
    <2>1. most \in Int /\ \A i \in 1..n : risks[i] \in Int /\ risks[i] <= most
      <3>1. \A i \in 1..n : outputs[i].risk \in Int
        BY RatedRisks
      <3> QED BY <1>2, <1>3, <3>1
    <2>2. IsFiniteSet(1..n) /\ Cardinality(1..n) = n
      BY <1>2, FS_Interval
    <2> HIDE DEF risks, most
    <2>3. SumFunctionOnSet(risks, 1..n) <= Cardinality(1..n) * most
      BY <2>1, <2>2, SumIsBounded
    <2> QED BY <2>2, <2>3 DEF most
  <1> QED BY <1>1, <1>9, <1>10, <1>11, <1>12 DEF worst, best, listed

\* build_summary: no warning is listed while a failing target is not, the best
\* target passes if any does, and the worst one is missing from the list only
\* if it passes or three others fail.
THEOREM SummariesHideNoFailure == TranslationSpec => []SummaryHidesNoFailure
  <1>1. VerdictInv /\ RenderedInv => SummaryHidesNoFailure
    <2> SUFFICES ASSUME VerdictInv, RenderedInv, rendered # <<>>
                 PROVE  SummaryHidesNoFailure
      BY DEF SummaryHidesNoFailure
    <2> DEFINE n == Len(rendered)
    <2>1. n \in Nat \ {0} /\ DOMAIN Outputs = 1..n
      BY OutputsFacts DEF RenderedInv
    <2>2. ASSUME NEW i \in 1..n
          PROVE  /\ Outputs[i].risk \in 0..100
                 /\ Outputs[i].status \in {"PASS", "WARN", "FAIL"}
                 /\ Outputs[i].risk = 0 <=> Outputs[i].status = "PASS"
      <3>1. Outputs[i] = TargetOutput(pinned, rendered[i]) /\ rendered[i] \in Measurements
        BY <2>1, OutputsFacts
      <3> QED BY <3>1, RiskOfTarget DEF VerdictInv
    <2>3. Rated(Outputs, n)
      BY <2>1, <2>2 DEF Rated
    <2>4. Len(Outputs) = n
      BY <2>1 DEF Outputs
    <2> HIDE DEF n
    <2> QED BY <2>3, <2>4, SummaryIsHonest DEF SummaryHidesNoFailure
  <1> QED BY <1>1, TranslationInvariant, PTL

-----------------------------------------------------------------------------
(* Histories and windows of them.                                          *)

Entries ==
    {[by |-> r[1], metrics |-> r[2], report |-> Evaluate(r[1], r[2], NoDepth)] :
        r \in Constitutions \X Measurements}

HistoryInv == history \in Seq(Entries)

LEMMA SummariesAreEvaluation == SummariesSpec => Spec
  <1>1. [SummariesNext]_<<vars, history>> => [Next]_vars
    BY DEF SummariesNext
  <1> QED BY <1>1, PTL DEF SummariesSpec, SummariesInit, Spec

\* Each run of the history has the verdict of the constitution it names.
THEOREM HistoryInvariant == SummariesSpec => [](VerdictInv /\ HistoryInv)
  <1>1. SummariesInit => HistoryInv
    BY DEF SummariesInit, HistoryInit, HistoryInv
  <1>2. HistoryInv /\ [SummariesNext]_<<vars, history>> => HistoryInv'
    <2> SUFFICES ASSUME HistoryInv, [SummariesNext]_<<vars, history>> PROVE HistoryInv'
      OBVIOUS
    <2>1. CASE UNCHANGED history
      BY <2>1 DEF HistoryInv
    <2>2. CASE HistoryNext
      <3>1. PICK r \in Reported : ReportRun(r[1], r[2])
        BY <2>2 DEF HistoryNext
      <3> DEFINE e == [by |-> r[1], metrics |-> r[2], report |-> Evaluate(r[1], r[2], NoDepth)]
      <3>2. e \in Entries
        BY SummariesAssumption DEF Entries
      <3>3. history' = Append(history, e)
        BY <3>1 DEF ReportRun
      <3> HIDE DEF e
      <3> QED BY <3>2, <3>3 DEF HistoryInv
    <2> QED BY <2>1, <2>2 DEF SummariesNext
  <1> QED BY <1>1, <1>2, SummariesAreEvaluation, VerdictInvariant, PTL DEF SummariesSpec

LEMMA WindowIsOfHistory ==
    ASSUME HistoryInv
    PROVE  Window \in Seq(Entries)
  <1>1. CASE LastN = 0 \/ LastN >= Len(history)
    BY <1>1 DEF Window, HistoryInv
  <1>2. CASE ~(LastN = 0 \/ LastN >= Len(history))
    <2> DEFINE first == Len(history) - LastN + 1
    <2>1. Len(history) \in Nat /\ first \in 1..Len(history) /\ history \in Seq(Entries)
      BY <1>2, SummariesAssumption DEF HistoryInv
    <2>2. Window = SubSeq(history, first, Len(history))
      BY <1>2 DEF Window
    <2> HIDE DEF first
    <2> QED BY <2>1, <2>2
  <1> QED BY <1>1, <1>2

\* Runs of a window: the verdicts under the constitutions they name.
Runs(runs, n) ==
    /\ n \in Nat /\ DOMAIN runs = 1..n /\ Len(runs) = n
    /\ \A i \in 1..n :
          /\ runs[i].by \in Constitutions /\ runs[i].metrics \in Measurements
          /\ runs[i].report = Evaluate(runs[i].by, runs[i].metrics, NoDepth)

LEMMA WindowRuns ==
    ASSUME HistoryInv
    PROVE  Runs(Window, Len(Window))
  <1> DEFINE w == Window
             n == Len(Window)
  <1>1. w \in Seq(Entries) /\ n \in Nat /\ DOMAIN w = 1..n
    BY WindowIsOfHistory
  <1>2. ASSUME NEW i \in 1..n
        PROVE  /\ w[i].by \in Constitutions /\ w[i].metrics \in Measurements
               /\ w[i].report = Evaluate(w[i].by, w[i].metrics, NoDepth)
    <2>1. w[i] \in Entries
      <3> HIDE DEF w, n
      <3> QED BY <1>1, <1>2
    <2>2. PICK r \in Constitutions \X Measurements :
            w[i] = [by |-> r[1], metrics |-> r[2], report |-> Evaluate(r[1], r[2], NoDepth)]
      BY <2>1 DEF Entries
    <2>3. r[1] \in Constitutions /\ r[2] \in Measurements
      OBVIOUS
    <2>4. /\ w[i].by = r[1] /\ w[i].metrics = r[2]
          /\ w[i].report = Evaluate(r[1], r[2], NoDepth)
      BY <2>2
    <2> QED BY <2>3, <2>4
  <1> QED BY <1>1, <1>2 DEF Runs

\* The status of a run in terms of the gates that failed.
LEMMA RunStatus ==
    ASSUME NEW runs, NEW n, Runs(runs, n), NEW i \in 1..n
    PROVE  LET v == runs[i].report IN
           /\ v.status \in {"PASS", "WARN", "FAIL"}
           /\ v.status = "FAIL" <=> v.failed \cap Blockers # {}
           /\ v.status = "PASS" <=> v.failed = {}
           /\ v.failed \subseteq Gates /\ v.score \in 0..100
  <1>1. runs[i].report = Evaluate(runs[i].by, runs[i].metrics, NoDepth)
    BY DEF Runs
  <1>2. runs[i].by \in Constitutions /\ runs[i].metrics \in Measurements
    BY DEF Runs
  <1> QED BY <1>1, <1>2, StatusOfFailed, VerdictType DEF Verdicts

\* Subsets of a window's places can be counted.
LEMMA PlacesAreFinite ==
    ASSUME NEW n \in Nat, NEW T \in SUBSET (1..n)
    PROVE  IsFiniteSet(T) /\ Cardinality(T) \in Nat /\ Cardinality(T) <= n
  <1>1. IsFiniteSet(1..n) /\ Cardinality(1..n) = n
    BY FS_Interval
  <1> QED BY <1>1, FS_Subset, FS_CardinalityType

-----------------------------------------------------------------------------
(* The CI check and the trends.                                            *)

WorstOf(f, s) ==
    IF \E i \in s : f[i] = "FAIL" THEN "FAIL"
    ELSE IF \E i \in s : f[i] = "WARN" THEN "WARN" ELSE "PASS"

WorstStep(f, g, s) == IF s = {} THEN "PASS" ELSE WorstStatus(g[s \ {Max(s)}], f[Max(s)])

\* Folding WorstStatus over the runs finds the worst of them: the closed form
\* satisfies the fold's equation, and nothing else does.
LEMMA WorstIsFound ==
    ASSUME NEW n \in Nat, NEW f, \A i \in 1..n : f[i] \in {"PASS", "WARN", "FAIL"}
    PROVE  (CHOOSE g : g = [s \in SUBSET (1..n) |-> WorstStep(f, g, s)])[1..n] = WorstOf(f, 1..n)
  <1> DEFINE S == 1..n
             v == [s \in SUBSET S |-> WorstOf(f, s)]
             g == CHOOSE h : h = [s \in SUBSET S |-> WorstStep(f, h, s)]
  <1>1. ASSUME NEW s \in SUBSET S, s # {}
        PROVE  Max(s) \in s
    <2>1. s \in SUBSET (0..n)
      OBVIOUS
    <2> QED BY <1>1, <2>1, MaxIsLargest
  <1>2. ASSUME NEW s \in SUBSET S
        PROVE  v[s] = WorstStep(f, v, s)
    <2>1. CASE s = {}
      BY <2>1 DEF WorstStep, WorstOf
    <2>2. CASE s # {}
      <3> DEFINE x == Max(s)
                 r == s \ {x}
      <3>1. x \in s /\ f[x] \in {"PASS", "WARN", "FAIL"} /\ r \in SUBSET S
        BY <1>1, <2>2
      <3>2. v[s] = WorstOf(f, s) /\ v[r] = WorstOf(f, r)
        BY <3>1
      <3> HIDE DEF x
      <3>4. WorstOf(f, s) = WorstStatus(WorstOf(f, r), f[x])
        BY <3>1 DEF WorstOf, WorstStatus
      <3> QED BY <2>2, <3>2, <3>4 DEF WorstStep, x
    <2> QED BY <2>1, <2>2
  <1>3. v = [s \in SUBSET S |-> WorstStep(f, v, s)]
    BY <1>2
  <1>4. g = [s \in SUBSET S |-> WorstStep(f, g, s)]
    BY <1>3
  <1> HIDE DEF g
  <1> DEFINE Bad == {s \in SUBSET S : g[s] # v[s]}
  <1>5. Bad = {}
    <2> SUFFICES ASSUME Bad # {} PROVE FALSE
      OBVIOUS
    <2>1. \A s \in Bad : IsFiniteSet(s)
      BY PlacesAreFinite
    <2>2. PICK s \in Bad : \A t \in Bad : t \subseteq s => t = s
      <3> HIDE DEF Bad
      <3> QED BY <2>1, LeastSet
    <2>3. g[s] = WorstStep(f, g, s) /\ v[s] = WorstStep(f, v, s)
      BY <1>2, <1>4, <2>2
    <2>4. s # {}
      BY <2>2, <2>3 DEF WorstStep
    <2>5. s \ {Max(s)} \in SUBSET S /\ s \ {Max(s)} \notin Bad
      BY <1>1, <2>2, <2>4
    <2> HIDE DEF v
    <2> QED BY <2>2, <2>3, <2>4, <2>5 DEF WorstStep
  <1>6. g[S] = WorstOf(f, S)
    BY <1>5
  <1> QED BY <1>6 DEF g

LEMMA ExitOfWindow ==
    ASSUME NEW runs, NEW n, Runs(runs, n)
    PROVE  /\ CiSummary(runs).exit = 2 <=> \E i \in 1..n : runs[i].report.status = "FAIL"
           /\ CiSummary(runs).exit = 0 <=> \A i \in 1..n : runs[i].report.status = "PASS"
  <1> DEFINE f == [i \in 1..n |-> runs[i].report.status]
  <1>1. n \in Nat /\ DOMAIN runs = 1..n
    BY DEF Runs
  <1>2. \A i \in 1..n : f[i] \in {"PASS", "WARN", "FAIL"}
    BY RunStatus
  <1>3. FoldLeft(LAMBDA worst, run : WorstStatus(worst, run.report.status), "PASS", runs)
          = (CHOOSE g : g = [s \in SUBSET (1..n) |->
                IF s = {} THEN "PASS"
                ELSE WorstStatus(g[s \ {Max(s)}], runs[Max(s)].report.status)])[1..n]
    BY <1>1 DEF FoldLeft, MapThenFoldSet
  <1>4. ASSUME NEW g
        PROVE  [s \in SUBSET (1..n) |->
                  IF s = {} THEN "PASS"
                  ELSE WorstStatus(g[s \ {Max(s)}], runs[Max(s)].report.status)]
               = [s \in SUBSET (1..n) |-> WorstStep(f, g, s)]
    <2> SUFFICES ASSUME NEW s \in SUBSET (1..n)
                 PROVE  (IF s = {} THEN "PASS"
                         ELSE WorstStatus(g[s \ {Max(s)}], runs[Max(s)].report.status))
                        = WorstStep(f, g, s)
      OBVIOUS
    <2>1. CASE s = {}
      BY <2>1 DEF WorstStep
    <2>2. CASE s # {}
      <3>1. s \in SUBSET (0..n)
        BY <1>1
      <3>2. Max(s) \in 1..n
        BY <1>1, <2>2, <3>1, MaxIsLargest
      <3> QED BY <2>2, <3>2 DEF WorstStep
    <2> QED BY <2>1, <2>2
  <1>5. FoldLeft(LAMBDA worst, run : WorstStatus(worst, run.report.status), "PASS", runs)
          = (CHOOSE g : g = [s \in SUBSET (1..n) |-> WorstStep(f, g, s)])[1..n]
    BY <1>3, <1>4, ZenonT(30)
  <1>6. CiSummary(runs).exit = ExitCode(WorstOf(f, 1..n))
    <2> HIDE DEF f
    <2> QED BY <1>1, <1>2, <1>5, WorstIsFound DEF CiSummary
  <1> QED BY <1>2, <1>6 DEF ExitCode, WorstOf

\* What MostFrequent counts and lists.
Found(order, found, i) == Cardinality({k \in DOMAIN found : order[i] \in found[k]})
Listed(order, found) == {i \in DOMAIN order : Found(order, found, i) > 0}
Counts(order, found) == {Found(order, found, i) : i \in DOMAIN order}

LEMMA MostFrequentIs ==
    ASSUME NEW order, IsFiniteSet(DOMAIN order), DOMAIN order \subseteq Int,
           NEW n \in Nat, NEW found, DOMAIN found = 1..n
    PROVE  /\ MostFrequent(order, found) = <<>>
                 <=> \A i \in DOMAIN order, k \in 1..n : order[i] \notin found[k]
           /\ \A k \in DOMAIN MostFrequent(order, found) :
                 MostFrequent(order, found)[k].count \in Counts(order, found)
  <1> DEFINE count(i) == Found(order, found, i)
             listed == Listed(order, found)
             before == {p \in listed \X listed :
                          \/ count(p[1]) > count(p[2])
                          \/ (count(p[1]) = count(p[2]) /\ p[1] < p[2])}
             sorted == Ranked(listed, before)
             c == Cardinality(listed)
             list == MostFrequent(order, found)
  <1>1. ASSUME NEW i
        PROVE  count(i) \in Nat /\ (count(i) > 0 <=> \E k \in 1..n : order[i] \in found[k])
    <2> DEFINE T == {k \in DOMAIN found : order[i] \in found[k]}
    <2>1. T \in SUBSET (1..n)
      OBVIOUS
    <2>2. IsFiniteSet(T) /\ Cardinality(T) \in Nat
      <3> HIDE DEF T
      <3> QED BY <2>1, PlacesAreFinite
    <2>3. Cardinality(T) = 0 <=> T = {}
      <3> HIDE DEF T
      <3> QED BY <2>2, FS_EmptySet
    <2>4. T = {} <=> ~\E k \in 1..n : order[i] \in found[k]
      OBVIOUS
    <2>5. count(i) = Cardinality(T)
      BY DEF Found
    <2> HIDE DEF T, count
    <2> QED BY <2>2, <2>3, <2>4, <2>5
  <1>2. /\ listed \in SUBSET DOMAIN order
        /\ \A i \in DOMAIN order : i \in listed <=> \E k \in 1..n : order[i] \in found[k]
    <2> HIDE DEF count
    <2> QED BY <1>1 DEF Listed, count
  <1>3. IsFiniteSet(listed) /\ c \in Nat
    <2> HIDE DEF listed
    <2> QED BY <1>2, FS_Subset, FS_CardinalityType DEF c
  <1>4. list = [k \in DOMAIN sorted |-> [name |-> order[sorted[k]], count |-> count(sorted[k])]]
    BY DEF MostFrequent, Found, Listed
  <1> HIDE DEF listed, count
  <1>5. Sorts(before, listed)
    <2>1. \A i \in listed : count(i) \in Int /\ i \in Int
      BY <1>1, <1>2
    <2>2. \A i \in listed : <<i, i>> \notin before
      BY <2>1
    <2>3. \A i, j \in listed : i # j => <<i, j>> \in before \/ <<j, i>> \in before
      BY <2>1
    <2>4. \A i, j, k \in listed : <<i, j>> \in before /\ <<j, k>> \in before => <<i, k>> \in before
      BY <2>1
    <2> HIDE DEF before
    <2> QED BY <2>2, <2>3, <2>4 DEF Sorts
  <1> HIDE DEF before
  <1>6. sorted \in [1..c -> listed]
    BY <1>3, <1>5, RankedIsSorted
  <1> HIDE DEF sorted, list
  <1>7. DOMAIN list = 1..c /\ \A k \in 1..c : list[k].count = count(sorted[k]) /\ sorted[k] \in listed
    BY <1>4, <1>6
  <1>8. list = <<>> <=> c = 0
    <2>1. c = 0 => list = <<>>
      BY <1>4, <1>6
    <2>2. list = <<>> => DOMAIN list = {}
      OBVIOUS
    <2> HIDE DEF c
    <2> QED BY <1>3, <1>7, <2>1, <2>2
  <1>9. c = 0 <=> listed = {}
    BY <1>3, FS_EmptySet
  <1>10. list = <<>> <=> \A i \in DOMAIN order, k \in 1..n : order[i] \notin found[k]
    BY <1>2, <1>8, <1>9
  <1>11. \A k \in DOMAIN list : list[k].count \in Counts(order, found)
    BY <1>2, <1>7 DEF count, Counts
  <1> QED BY <1>10, <1>11 DEF list

LEMMA GateOrderNames ==
    /\ DOMAIN GateOrder = 1..9
    /\ \A g \in Gates : \E i \in 1..9 : GateOrder[i] = g
  <1>1. DOMAIN GateOrder = 1..9
    BY DEF GateOrder
  <1>2. Gates = {"G001", "G002", "G003", "G004", "W001", "W002", "W003", "W004", "W005"}
    BY WarnNames DEF Gates, Warns
  <1>3. /\ GateOrder[1] = "G001" /\ GateOrder[2] = "G002" /\ GateOrder[3] = "G003"
        /\ GateOrder[4] = "G004" /\ GateOrder[5] = "W001" /\ GateOrder[6] = "W002"
        /\ GateOrder[7] = "W003" /\ GateOrder[8] = "W004" /\ GateOrder[9] = "W005"
    BY DEF GateOrder
  <1> QED BY <1>1, <1>2, <1>3

\* Counting the runs of a status.
LEMMA CountsOfStatus ==
    ASSUME NEW runs, NEW n, Runs(runs, n), NEW status
    PROVE  /\ CountStatus(runs, status) \in Nat
           /\ CountStatus(runs, status) > 0 <=> \E i \in 1..n : runs[i].report.status = status
  <1> DEFINE T == {i \in DOMAIN runs : runs[i].report.status = status}
  <1>1. n \in Nat /\ T \in SUBSET (1..n) /\ DOMAIN runs = 1..n
    BY DEF Runs
  <1>2. T = {} <=> ~\E i \in 1..n : runs[i].report.status = status
    BY <1>1
  <1>3. CountStatus(runs, status) = Cardinality(T)
    BY DEF CountStatus
  <1> HIDE DEF T
  <1>4. Cardinality(T) \in Nat /\ (Cardinality(T) = 0 <=> T = {})
    BY <1>1, PlacesAreFinite, FS_EmptySet
  <1> QED BY <1>2, <1>3, <1>4

LEMMA SummariesOfRunsAgree ==
    ASSUME NEW runs, NEW n, Runs(runs, n)
    PROVE  LET ci == CiSummary(runs)
               trends == GateTrends(runs)
           IN  /\ ci.exit = 2 <=> trends.blockers # <<>>
               /\ ci.exit = 0 <=> trends.blockers = <<>> /\ trends.warns = <<>>
               /\ ci.exit = 2 <=> ci.counts["FAIL"] > 0
               /\ \A i \in DOMAIN ci.blockers : ci.blockers[i].count <= ci.counts["FAIL"]
  <1> DEFINE ci == CiSummary(runs)
             trends == GateTrends(runs)
             bs == BlockersOf(runs)
             ws == WarnsOf(runs)
             failed(i) == runs[i].report.failed
             status(i) == runs[i].report.status
  <1>1. /\ ci.blockers = MostFrequent(GateOrder, bs)
        /\ ci.counts["FAIL"] = CountStatus(runs, "FAIL")
        /\ trends.blockers = MostFrequent(GateOrder, bs)
        /\ trends.warns = MostFrequent(GateOrder, ws)
    BY DEF CiSummary, GateTrends
  <1>2. /\ n \in Nat /\ DOMAIN runs = 1..n
        /\ DOMAIN bs = 1..n /\ \A i \in 1..n : bs[i] = failed(i) \cap Blockers
        /\ DOMAIN ws = 1..n /\ \A i \in 1..n : ws[i] = failed(i) \ Blockers
    BY DEF Runs, BlockersOf, WarnsOf
  <1>3. \A i \in 1..n : /\ failed(i) \subseteq Gates
                        /\ status(i) = "FAIL" <=> failed(i) \cap Blockers # {}
                        /\ status(i) = "PASS" <=> failed(i) = {}
    BY RunStatus
  <1>4. /\ ci.exit = 2 <=> \E i \in 1..n : status(i) = "FAIL"
        /\ ci.exit = 0 <=> \A i \in 1..n : status(i) = "PASS"
    BY ExitOfWindow
  <1>5. /\ MostFrequent(GateOrder, bs) = <<>>
              <=> \A i \in DOMAIN GateOrder, k \in 1..n : GateOrder[i] \notin bs[k]
        /\ MostFrequent(GateOrder, ws) = <<>>
              <=> \A i \in DOMAIN GateOrder, k \in 1..n : GateOrder[i] \notin ws[k]
        /\ \A k \in DOMAIN ci.blockers : ci.blockers[k].count \in Counts(GateOrder, bs)
    <2>1. IsFiniteSet(DOMAIN GateOrder) /\ DOMAIN GateOrder \subseteq Int
      <3> DEFINE last == 9
      <3>1. last \in Int
        OBVIOUS
      <3> HIDE DEF last
      <3>2. IsFiniteSet(1..last)
        BY <3>1, FS_Interval
      <3>3. 1..9 \subseteq Int
        OBVIOUS
      <3>4. DOMAIN GateOrder = 1..9
        BY GateOrderNames
      <3> QED BY <3>2, <3>3, <3>4 DEF last
    <2> HIDE DEF bs, ws, ci
    <2>2. MostFrequent(GateOrder, bs) = <<>>
                <=> \A i \in DOMAIN GateOrder, k \in 1..n : GateOrder[i] \notin bs[k]
      BY <1>2, <2>1, MostFrequentIs
    <2>4. ASSUME NEW k \in DOMAIN MostFrequent(GateOrder, bs)
          PROVE  MostFrequent(GateOrder, bs)[k].count \in Counts(GateOrder, bs)
      BY <1>2, <2>1, MostFrequentIs
    <2>3. MostFrequent(GateOrder, ws) = <<>>
                <=> \A i \in DOMAIN GateOrder, k \in 1..n : GateOrder[i] \notin ws[k]
      BY <1>2, <2>1, MostFrequentIs
    <2> QED BY <1>1, <2>2, <2>3, <2>4
  <1> HIDE DEF bs, ws, failed, status, ci, trends
  <1>6. trends.blockers = <<>> <=> \A k \in 1..n : status(k) # "FAIL"
    <2>1. ASSUME NEW k \in 1..n
          PROVE  status(k) # "FAIL" <=> \A i \in DOMAIN GateOrder : GateOrder[i] \notin bs[k]
      BY <1>2, <1>3, GateOrderNames
    <2> QED BY <1>1, <1>5, <2>1
  <1>7. trends.warns = <<>> <=> \A k \in 1..n : failed(k) \ Blockers = {}
    <2>1. ASSUME NEW k \in 1..n
          PROVE  failed(k) \ Blockers = {} <=> \A i \in DOMAIN GateOrder : GateOrder[i] \notin ws[k]
      BY <1>2, <1>3, GateOrderNames
    <2> QED BY <1>1, <1>5, <2>1
  <1>8. ci.exit = 2 <=> trends.blockers # <<>>
    BY <1>4, <1>6
  <1>9. ci.exit = 0 <=> trends.blockers = <<>> /\ trends.warns = <<>>
    <2>1. ASSUME NEW k \in 1..n
          PROVE  status(k) = "PASS" <=> status(k) # "FAIL" /\ failed(k) \ Blockers = {}
      BY <1>3
    <2> QED BY <1>4, <1>6, <1>7, <2>1
  <1>10. ci.exit = 2 <=> ci.counts["FAIL"] > 0
    BY <1>1, <1>4, CountsOfStatus DEF status
  <1>11. ASSUME NEW k \in DOMAIN ci.blockers
         PROVE  ci.blockers[k].count <= ci.counts["FAIL"]
    <2>1. PICK i : ci.blockers[k].count = Found(GateOrder, bs, i)
      BY <1>5 DEF Counts
    <2> DEFINE T == {j \in DOMAIN bs : GateOrder[i] \in bs[j]}
               F == {j \in DOMAIN runs : runs[j].report.status = "FAIL"}
    <2>2. T \in SUBSET F
      BY <1>2, <1>3 DEF status
    <2>3. F \in SUBSET (1..n)
      BY <1>2
    <2>4. Cardinality(T) <= Cardinality(F)
      <3> HIDE DEF T, F
      <3> QED BY <1>2, <2>2, <2>3, PlacesAreFinite, FS_Subset
    <2> QED BY <1>1, <2>1, <2>4 DEF Found, CountStatus
  <1> QED BY <1>8, <1>9, <1>10, <1>11 DEF ci, trends

\* The CI check and the trends document tell one story of the same window.
THEOREM SummariesTellOneStory == SummariesSpec => []SummariesAgree
  <1>1. HistoryInv => SummariesAgree
    BY WindowRuns, SummariesOfRunsAgree DEF SummariesAgree
  <1> QED BY <1>1, HistoryInvariant, PTL

-----------------------------------------------------------------------------
(* The shadow impact.                                                      *)

\* Places of a window: those a candidate would fail, those it newly fails.
ForecastPlaces(runs, status) == {i \in DOMAIN runs : Forecasts(runs)[i].status = status}
ReportedPlaces(runs, status) == {i \in DOMAIN runs : runs[i].report.status = status}

LEMMA ForecastOfRun ==
    ASSUME candidate \in Constitutions, NEW runs, NEW n, Runs(runs, n), NEW i \in 1..n
    PROVE  LET v == Forecasts(runs)[i] IN
           /\ v = Evaluate(candidate, runs[i].metrics, NoDepth)
           /\ v.status \in {"PASS", "WARN", "FAIL"}
           /\ v.status = "FAIL" <=> v.failed \cap Blockers # {}
           /\ v.score \in 0..100
  <1>1. runs[i].metrics \in Measurements /\ i \in DOMAIN runs
    BY DEF Runs
  <1>2. Forecasts(runs)[i] = Evaluate(candidate, runs[i].metrics, NoDepth)
    BY <1>1 DEF Forecasts
  <1> QED BY <1>1, <1>2, StatusOfFailed, VerdictType DEF Verdicts

LEMMA DisjointUnion ==
    ASSUME NEW A, NEW B, IsFiniteSet(A), IsFiniteSet(B), A \intersect B = {}
    PROVE  /\ IsFiniteSet(A \union B)
           /\ Cardinality(A \union B) = Cardinality(A) + Cardinality(B)
  <1>1. /\ IsFiniteSet(A \union B)
        /\ Cardinality(A \union B) = Cardinality(A) + Cardinality(B) - Cardinality(A \intersect B)
    BY FS_Union
  <1>2. Cardinality(A \intersect B) = 0
    BY FS_EmptySet
  <1>3. Cardinality(A) \in Nat /\ Cardinality(B) \in Nat
    BY FS_CardinalityType
  <1> QED BY <1>1, <1>2, <1>3

LEMMA ThreeParts ==
    ASSUME NEW n \in Nat, NEW A, NEW B, NEW C, A \union B \union C = 1..n,
           A \intersect B = {}, A \intersect C = {}, B \intersect C = {}
    PROVE  /\ Cardinality(A) \in Nat /\ Cardinality(B) \in Nat /\ Cardinality(C) \in Nat
           /\ Cardinality(A) + Cardinality(B) + Cardinality(C) = n
  <1>1. /\ IsFiniteSet(A) /\ Cardinality(A) \in Nat
        /\ IsFiniteSet(B) /\ Cardinality(B) \in Nat
        /\ IsFiniteSet(C) /\ Cardinality(C) \in Nat
    BY PlacesAreFinite
  <1>2. IsFiniteSet(A \union B) /\ Cardinality(A \union B) = Cardinality(A) + Cardinality(B)
    BY <1>1, DisjointUnion
  <1>3. (A \union B) \intersect C = {}
    OBVIOUS
  <1>4. Cardinality((A \union B) \union C) = Cardinality(A \union B) + Cardinality(C)
    BY <1>1, <1>2, <1>3, DisjointUnion
  <1>5. Cardinality(1..n) = n
    BY FS_Interval
  <1> QED BY <1>1, <1>2, <1>4, <1>5

\* Every run is counted in one status, before and after.
LEMMA StatusesArePartitions ==
    ASSUME candidate \in Constitutions, NEW runs, NEW n, Runs(runs, n)
    PROVE  /\ \A s \in {"PASS", "WARN", "FAIL"} :
                 /\ ForecastPlaces(runs, s) \in SUBSET (1..n) /\ ReportedPlaces(runs, s) \in SUBSET (1..n)
                 /\ Cardinality(ForecastPlaces(runs, s)) \in Nat
                 /\ Cardinality(ReportedPlaces(runs, s)) \in Nat
           /\ Cardinality(ForecastPlaces(runs, "PASS")) + Cardinality(ForecastPlaces(runs, "WARN"))
                 + Cardinality(ForecastPlaces(runs, "FAIL")) = n
           /\ Cardinality(ReportedPlaces(runs, "PASS")) + Cardinality(ReportedPlaces(runs, "WARN"))
                 + Cardinality(ReportedPlaces(runs, "FAIL")) = n
  <1>1. n \in Nat /\ DOMAIN runs = 1..n
    BY DEF Runs
  <1>2. \A i \in 1..n : /\ Forecasts(runs)[i].status \in {"PASS", "WARN", "FAIL"}
                        /\ runs[i].report.status \in {"PASS", "WARN", "FAIL"}
    BY ForecastOfRun, RunStatus
  <1>3. \A s \in {"PASS", "WARN", "FAIL"} :
           ForecastPlaces(runs, s) \in SUBSET (1..n) /\ ReportedPlaces(runs, s) \in SUBSET (1..n)
    BY <1>1 DEF ForecastPlaces, ReportedPlaces
  <1>4. Cardinality(ForecastPlaces(runs, "PASS")) + Cardinality(ForecastPlaces(runs, "WARN"))
          + Cardinality(ForecastPlaces(runs, "FAIL")) = n
    <2> DEFINE A == ForecastPlaces(runs, "PASS")
               B == ForecastPlaces(runs, "WARN")
               C == ForecastPlaces(runs, "FAIL")
    <2>1. /\ A \union B \union C = 1..n
          /\ A \intersect B = {} /\ A \intersect C = {} /\ B \intersect C = {}
      BY <1>1, <1>2 DEF ForecastPlaces
    <2> HIDE DEF A, B, C
    <2>2. Cardinality(A) + Cardinality(B) + Cardinality(C) = n
      BY <1>1, <2>1, ThreeParts
    <2> QED BY <2>2 DEF A, B, C
  <1>5. Cardinality(ReportedPlaces(runs, "PASS")) + Cardinality(ReportedPlaces(runs, "WARN"))
          + Cardinality(ReportedPlaces(runs, "FAIL")) = n
    <2> DEFINE A == ReportedPlaces(runs, "PASS")
               B == ReportedPlaces(runs, "WARN")
               C == ReportedPlaces(runs, "FAIL")
    <2>1. /\ A \union B \union C = 1..n
          /\ A \intersect B = {} /\ A \intersect C = {} /\ B \intersect C = {}
      BY <1>1, <1>2 DEF ReportedPlaces
    <2> HIDE DEF A, B, C
    <2>2. Cardinality(A) + Cardinality(B) + Cardinality(C) = n
      BY <1>1, <2>1, ThreeParts
    <2> QED BY <2>2 DEF A, B, C
  <1> QED BY <1>1, <1>3, <1>4, <1>5, PlacesAreFinite

LEMMA ImpactFields ==
    ASSUME NEW runs, NEW n, Runs(runs, n)
    PROVE  /\ Impact(runs).new_fail_count = Cardinality(NewFails(runs))
           /\ \A s \in {"PASS", "WARN", "FAIL"} :
                 Impact(runs).gate_status_delta[s] =
                    Cardinality(ForecastPlaces(runs, s)) - Cardinality(ReportedPlaces(runs, s))
           /\ Impact(runs).drift_sum = SumFunctionOnSet(DriftDeltas(runs), 1..n)
           /\ Impact(runs).drift_median2 = TwiceMedian(DriftDeltas(runs))
           /\ Impact(runs).risk = IF HighRisk(runs) THEN "high" ELSE "low"
           /\ Impact(runs).newly_failing = [g \in Gates |-> Cardinality(
                 {i \in 1..n : g \in NewlyFailing(runs[i].report, Forecasts(runs)[i])})]
  <1>1. DOMAIN runs = 1..n
    BY DEF Runs
  <1>2. DOMAIN DriftDeltas(runs) = 1..n
    BY <1>1 DEF DriftDeltas
  <1> QED BY <1>1, <1>2 DEF Impact, SumFunction, ForecastPlaces, ReportedPlaces, CountStatus

\* A new failure is a failure that the report was not.
LEMMA NewFailsAre ==
    ASSUME NEW runs
    PROVE  NewFails(runs) = ForecastPlaces(runs, "FAIL") \ ReportedPlaces(runs, "FAIL")
  BY DEF NewFails, NewFail, ForecastPlaces, ReportedPlaces

\* Two statuses of the same runs differ by no more than what is in one and not
\* in the other.
LEMMA CountsOfDifference ==
    ASSUME NEW n \in Nat, NEW A \in SUBSET (1..n), NEW B \in SUBSET (1..n)
    PROVE  /\ Cardinality(A \ B) \in Nat /\ Cardinality(A) \in Nat /\ Cardinality(B) \in Nat
           /\ Cardinality(A) <= Cardinality(A \ B) + Cardinality(B)
           /\ Cardinality(A \ B) <= Cardinality(A)
           /\ Cardinality(A \ B) + Cardinality(B) <= n
  <1> DEFINE D == A \ B
  <1>1. /\ D \in SUBSET (1..n) /\ D \in SUBSET A /\ D \intersect B = {}
        /\ A \in SUBSET (D \union B) /\ D \union B \in SUBSET (1..n)
    OBVIOUS
  <1> HIDE DEF D
  <1>2. /\ IsFiniteSet(A) /\ IsFiniteSet(B) /\ IsFiniteSet(D) /\ IsFiniteSet(D \union B)
        /\ Cardinality(A) \in Nat /\ Cardinality(B) \in Nat /\ Cardinality(D) \in Nat
        /\ Cardinality(D \union B) <= n
    BY <1>1, PlacesAreFinite
  <1>3. Cardinality(D \union B) = Cardinality(D) + Cardinality(B)
    BY <1>1, <1>2, DisjointUnion
  <1>4. Cardinality(A) <= Cardinality(D \union B) /\ Cardinality(D) <= Cardinality(A)
    BY <1>1, <1>2, FS_Subset
  <1> QED BY <1>2, <1>3, <1>4 DEF D

\* What finitely many sets cover has no more members than they have together.
LEMMA CoverIsCounted ==
    ASSUME NEW S, IsFiniteSet(S), NEW T, \A g \in S : IsFiniteSet(T[g]),
           NEW size, \A g \in S : size[g] = Cardinality(T[g])
    PROVE  LET all == UNION {T[g] : g \in S} IN
           IsFiniteSet(all) /\ Cardinality(all) <= SumFunctionOnSet(size, S)
  <1> DEFINE All(s) == UNION {T[g] : g \in s}
             Bad == {s \in SUBSET S :
                       ~(IsFiniteSet(All(s)) /\ Cardinality(All(s)) <= SumFunctionOnSet(size, s))}
  <1> SUFFICES ASSUME Bad # {} PROVE FALSE
    OBVIOUS
  <1>1. \A s \in Bad : IsFiniteSet(s)
    BY FS_Subset
  <1>2. PICK s \in Bad : \A t \in Bad : t \subseteq s => t = s
    <2> HIDE DEF Bad
    <2> QED BY <1>1, LeastSet
  <1>3. s \in SUBSET S /\ IsFiniteSet(s)
    BY <1>1
  <1>4. s # {}
    <2>1. SumFunctionOnSet(size, {}) = 0
      BY SumUnfold, FS_EmptySet
    <2>2. All({}) = {}
      OBVIOUS
    <2> HIDE DEF All
    <2>3. {} \notin Bad
      BY <2>1, <2>2, FS_EmptySet
    <2> QED BY <2>3
  <1> DEFINE x == Pick(s)
             r == s \ {x}
  <1>5. x \in s /\ x \in S /\ r \in SUBSET S /\ r \notin Bad
    BY <1>2, <1>3, <1>4, PickIn
  <1>6. All(s) = All(r) \union T[x]
    BY <1>5
  <1>7. SumFunctionOnSet(size, s) = size[x] + SumFunctionOnSet(size, r)
    BY <1>3, <1>4, SumUnfold
  <1>8. IsFiniteSet(All(r)) /\ Cardinality(All(r)) <= SumFunctionOnSet(size, r)
    BY <1>5
  <1>9. IsFiniteSet(T[x]) /\ size[x] = Cardinality(T[x])
    BY <1>5
  <1>10. SumFunctionOnSet(size, r) \in Int
    <2>1. IsFiniteSet(r)
      BY <1>3, FS_RemoveElement
    <2>2. \A g \in r : size[g] \in Int
      BY <1>5, FS_CardinalityType
    <2> HIDE DEF r
    <2> QED BY <2>1, <2>2, SumIsInt
  <1> DEFINE U == All(r)
  <1> HIDE DEF All, x, r, U
  <1>11. /\ IsFiniteSet(U) /\ IsFiniteSet(T[x])
         /\ Cardinality(U) <= SumFunctionOnSet(size, r)
         /\ All(s) = U \union T[x]
    BY <1>6, <1>8, <1>9 DEF U
  <1>12. /\ IsFiniteSet(U \union T[x])
         /\ Cardinality(U \union T[x])
              = Cardinality(U) + Cardinality(T[x]) - Cardinality(U \intersect T[x])
    BY <1>11, FS_Union
  <1>13. /\ Cardinality(U \intersect T[x]) \in Nat
         /\ Cardinality(U) \in Nat /\ Cardinality(T[x]) \in Nat
    <2>1. IsFiniteSet(U \intersect T[x])
      BY <1>11, FS_Subset
    <2> QED BY <1>11, <2>1, FS_CardinalityType
  <1>14. Cardinality(All(s)) <= SumFunctionOnSet(size, s)
    BY <1>7, <1>9, <1>10, <1>11, <1>12, <1>13
  <1> QED BY <1>2, <1>11, <1>12, <1>14

\* More than 800000 millionths are more than four fifths.
LEMMA ShareBeyond ==
    ASSUME NEW k \in Nat, NEW n \in Nat, Share(k, n) > 800000
    PROVE  10 * k > 8 * n
  <1>1. n \in Nat \ {0}
    BY SMT DEF Share
  <1> DEFINE a == 2 * 1000000 * k + n
             q == a \div (2 * n)
  <1>2. q > 800000
    BY <1>1, SMT DEF Share
  <1>3. a \in Nat /\ 2 * n \in Nat \ {0}
    BY <1>1, SMT
  <1>4. q \in Nat /\ q * (2 * n) <= a
    <2> DEFINE m == 2 * n
    <2>1. a \in Nat /\ m \in Nat \ {0}
      BY <1>3, SMT
    <2> HIDE DEF a, m
    <2>2. a \div m \in Nat /\ (a \div m) * m <= a
      BY <2>1, DivFacts, SMT
    <2> QED BY <2>2, SMT DEF m
  <1> HIDE DEF q
  <1>5. 800001 * (2 * n) <= q * (2 * n)
    <2>1. 800001 <= q
      BY <1>2, <1>4, SMT
    <2> DEFINE m == 2 * n
    <2> HIDE DEF m
    <2>2. 800001 * m <= q * m
      BY <1>3, <1>4, <2>1, MulMono, SMT DEF m
    <2> QED BY <2>2, SMT DEF m
  <1>6. q * (2 * n) \in Nat
    <2> DEFINE m == 2 * n
    <2>1. m \in Nat
      BY <1>3, SMT
    <2> HIDE DEF m
    <2>2. q * m \in Nat
      BY <1>4, <2>1, SMT
    <2> QED BY <2>2, SMT DEF m
  <1>7. 800001 * (2 * n) <= a
    BY <1>3, <1>4, <1>5, <1>6, SMT
  <1> QED BY <1>1, <1>7, SMT

LEMMA HighRiskIsMost ==
    ASSUME NEW runs, NEW n, Runs(runs, n), Cardinality(NewFails(runs)) \in Nat, HighRisk(runs)
    PROVE  10 * Cardinality(NewFails(runs)) > 8 * n
  <1>1. n \in Nat /\ Len(runs) = n
    BY DEF Runs
  <1>2. Share(Cardinality(NewFails(runs)), n) > 800000
    BY <1>1, SMT DEF HighRisk
  <1> QED BY <1>1, <1>2, ShareBeyond, SMT

\* Each new failure shows under a newly failing blocker.
LEMMA NewFailsAreListed ==
    ASSUME candidate \in Constitutions, NEW runs, NEW n, Runs(runs, n)
    PROVE  Cardinality(NewFails(runs))
             <= SumFunctionOnSet(Impact(runs).newly_failing, Blockers)
  <1> DEFINE places(g) == {i \in 1..n : g \in NewlyFailing(runs[i].report, Forecasts(runs)[i])}
             T == [g \in Blockers |-> places(g)]
             size == Impact(runs).newly_failing
             all == UNION {T[g] : g \in Blockers}
  <1>1. n \in Nat /\ DOMAIN runs = 1..n
    BY DEF Runs
  <1>2. \A g \in Blockers : IsFiniteSet(T[g]) /\ T[g] = places(g)
    BY <1>1, PlacesAreFinite
  <1>3. \A g \in Blockers : size[g] = Cardinality(T[g])
    <2>1. size = [g \in Gates |-> Cardinality(places(g))]
      BY ImpactFields
    <2>2. Blockers \subseteq Gates
      BY DEF Gates, Blockers
    <2> HIDE DEF size, places
    <2> QED BY <2>1, <2>2
  <1>4. IsFiniteSet(Blockers)
    BY NamesAreFinite DEF Blockers
  <1>5. ASSUME NEW i \in NewFails(runs)
        PROVE  i \in all
    <2>1. i \in 1..n
      BY <1>1 DEF NewFails
    <2>2. Forecasts(runs)[i].status = "FAIL" /\ runs[i].report.status # "FAIL"
      BY DEF NewFails, NewFail
    <2>3. Forecasts(runs)[i].failed \cap Blockers # {}
      BY <2>1, <2>2, ForecastOfRun
    <2>4. runs[i].report.failed \cap Blockers = {}
      BY <2>1, <2>2, RunStatus
    <2>5. PICK g \in Blockers : g \in Forecasts(runs)[i].failed /\ g \notin runs[i].report.failed
      BY <2>3, <2>4
    <2>6. i \in places(g)
      BY <2>1, <2>5 DEF NewlyFailing
    <2> QED BY <1>2, <2>6
  <1>6. NewFails(runs) \in SUBSET all
    BY <1>5
  <1>7. IsFiniteSet(all) /\ Cardinality(all) <= SumFunctionOnSet(size, Blockers)
    <2> HIDE DEF T, size
    <2> QED BY <1>2, <1>3, <1>4, CoverIsCounted
  <1>8. SumFunctionOnSet(size, Blockers) \in Int
    <2> HIDE DEF size, T
    <2>1. \A g \in Blockers : size[g] \in Int
      BY <1>2, <1>3, FS_CardinalityType
    <2> QED BY <1>4, <2>1, SumIsInt
  <1> HIDE DEF all, size
  <1>9. /\ Cardinality(NewFails(runs)) <= Cardinality(all)
        /\ Cardinality(all) \in Nat /\ Cardinality(NewFails(runs)) \in Nat
    BY <1>6, <1>7, FS_Subset, FS_CardinalityType
  <1> QED BY <1>7, <1>8, <1>9 DEF size

LEMMA HighRiskOfRuns ==
    ASSUME candidate \in Constitutions, NEW runs, NEW n, Runs(runs, n)
    PROVE  LET impact == Impact(runs) IN
           /\ impact.gate_status_delta["PASS"] + impact.gate_status_delta["WARN"]
                 + impact.gate_status_delta["FAIL"] = 0
           /\ impact.gate_status_delta["FAIL"] <= impact.new_fail_count
           /\ impact.new_fail_count <= SumFunctionOnSet(impact.newly_failing, Blockers)
           /\ impact.risk = "high" => 5 * impact.gate_status_delta["FAIL"] > 3 * n
  <1> DEFINE f(s) == Cardinality(ForecastPlaces(runs, s))
             r(s) == Cardinality(ReportedPlaces(runs, s))
             k == Cardinality(NewFails(runs))
             impact == Impact(runs)
  <1>1. /\ \A s \in {"PASS", "WARN", "FAIL"} : impact.gate_status_delta[s] = f(s) - r(s)
        /\ impact.new_fail_count = k
        /\ impact.risk = IF HighRisk(runs) THEN "high" ELSE "low"
    BY ImpactFields
  <1>2. /\ \A s \in {"PASS", "WARN", "FAIL"} : f(s) \in Nat /\ r(s) \in Nat
        /\ f("PASS") + f("WARN") + f("FAIL") = n
        /\ r("PASS") + r("WARN") + r("FAIL") = n
    BY StatusesArePartitions
  <1>3. n \in Nat /\ Len(runs) = n
    BY DEF Runs
  <1>4. /\ k \in Nat /\ f("FAIL") <= k + r("FAIL") /\ k <= f("FAIL") /\ k + r("FAIL") <= n
    BY <1>3, StatusesArePartitions, NewFailsAre, CountsOfDifference
  <1>5. k <= SumFunctionOnSet(impact.newly_failing, Blockers)
    BY NewFailsAreListed
  <1>6. HighRisk(runs) => 10 * k > 8 * n
    BY <1>4, HighRiskIsMost
  <1> DEFINE fp == f("PASS") fw == f("WARN") ff == f("FAIL")
             rp == r("PASS") rw == r("WARN") rf == r("FAIL")
  <1>7. /\ fp \in Nat /\ fw \in Nat /\ ff \in Nat /\ rp \in Nat /\ rw \in Nat /\ rf \in Nat
        /\ fp + fw + ff = n /\ rp + rw + rf = n
        /\ ff <= k + rf /\ k <= ff /\ k + rf <= n
    BY <1>2, <1>4
  <1>8. /\ impact.gate_status_delta["PASS"] = fp - rp
        /\ impact.gate_status_delta["WARN"] = fw - rw
        /\ impact.gate_status_delta["FAIL"] = ff - rf
    BY <1>1
  <1> HIDE DEF fp, fw, ff, rp, rw, rf, k, impact
  <1>9. (fp - rp) + (fw - rw) + (ff - rf) = 0 /\ ff - rf <= k
    BY <1>3, <1>4, <1>7
  <1>10. ASSUME impact.risk = "high"
         PROVE  5 * (ff - rf) > 3 * n
    <2>1. 10 * k > 8 * n
      BY <1>1, <1>6, <1>10
    <2> QED BY <1>3, <1>4, <1>7, <2>1
  <1> QED BY <1>1, <1>5, <1>8, <1>9, <1>10 DEF impact

\* A shadow impact adds up, lists every new failure, and says "high" only of a
\* regression.
THEOREM HighRiskMeansRegression == SummariesSpec => []HighRiskIsRegression
  <1>1. VerdictInv /\ HistoryInv => HighRiskIsRegression
    BY WindowRuns, HighRiskOfRuns DEF HighRiskIsRegression, VerdictInv
  <1> QED BY <1>1, HistoryInvariant, PTL

\* The median is of the values.
LEMMA MedianIsBetween ==
    ASSUME NEW n \in Nat, NEW values, DOMAIN values = 1..n, Len(values) = n,
           values = <<>> <=> n = 0, \A i \in 1..n : values[i] \in Int /\ values[i] <= 0
    PROVE  TwiceMedian(values) <= 0
  <1> DEFINE sorted == Ascending(values)
             mid == n \div 2
  <1>1. TwiceMedian(values) =
           IF n = 0 THEN 0
           ELSE IF n % 2 = 0 THEN sorted[mid] + sorted[mid + 1]
           ELSE 2 * sorted[mid + 1]
    BY DEF TwiceMedian
  <1>2. /\ sorted \in [1..n -> Int]
        /\ \A k \in 1..n : \E i \in 1..n : sorted[k] = values[i]
    <2>1. IsFiniteSet(1..n) /\ Cardinality(1..n) = n /\ 1..n \in SUBSET Int
      BY FS_Interval
    <2>2. LET s == Ascending(values)
              m == Cardinality(1..n)
          IN  s \in [1..m -> Int] /\ \A k \in 1..m : \E i \in 1..n : s[k] = values[i]
      BY <2>1, AscendingIsSorted
    <2> QED BY <2>1, <2>2
  <1> HIDE DEF sorted
  <1>5. \A k \in 1..n : sorted[k] \in Int /\ sorted[k] <= 0
    BY <1>2
  <1>6. CASE n = 0
    BY <1>1, <1>6
  <1>7. CASE n # 0 /\ n % 2 = 0
    <2>1. mid \in 1..n /\ mid + 1 \in 1..n
      BY <1>7
    <2> HIDE DEF mid
    <2> QED BY <1>1, <1>5, <1>7, <2>1
  <1>8. CASE n # 0 /\ n % 2 # 0
    <2>1. mid + 1 \in 1..n
      BY <1>8
    <2> HIDE DEF mid
    <2>2. sorted[mid + 1] \in Int /\ sorted[mid + 1] <= 0
      BY <1>5, <2>1
    <2> QED BY <1>1, <1>8, <2>2
  <1> QED BY <1>6, <1>7, <1>8

LEMMA NoHarmOfRuns ==
    ASSUME candidate \in Constitutions, NEW runs, NEW n, Runs(runs, n),
           \A i \in 1..n : Relaxes(candidate, runs[i].by)
    PROVE  LET impact == Impact(runs) IN
           /\ impact.new_fail_count = 0 /\ impact.risk = "low"
           /\ impact.gate_status_delta["FAIL"] <= 0 /\ impact.gate_status_delta["PASS"] >= 0
           /\ impact.drift_sum <= 0 /\ impact.drift_median2 <= 0
  <1> DEFINE impact == Impact(runs)
             deltas == DriftDeltas(runs)
  <1>1. n \in Nat /\ DOMAIN runs = 1..n /\ Len(runs) = n
    BY DEF Runs
  <1>2. ASSUME NEW i \in 1..n
        PROVE  /\ Forecasts(runs)[i].status = "FAIL" => runs[i].report.status = "FAIL"
               /\ runs[i].report.status = "PASS" => Forecasts(runs)[i].status = "PASS"
               /\ Forecasts(runs)[i].score <= runs[i].report.score
    <2> DEFINE after == Forecasts(runs)[i]
               before == runs[i].report
    <2>1. before = Evaluate(runs[i].by, runs[i].metrics, NoDepth)
      BY DEF Runs
    <2>2. runs[i].by \in Constitutions /\ runs[i].metrics \in Measurements
      BY DEF Runs
    <2>3. after = Evaluate(candidate, runs[i].metrics, NoDepth)
      BY ForecastOfRun
    <2>4. Rank[after.status] <= Rank[before.status] /\ after.score <= before.score
      BY <2>1, <2>2, <2>3, RelaxedVerdict
    <2>5. before.status \in {"PASS", "WARN", "FAIL"} /\ after.status \in {"PASS", "WARN", "FAIL"}
      BY ForecastOfRun, RunStatus
    <2> HIDE DEF after, before
    <2>6. /\ after.status = "FAIL" => before.status = "FAIL"
          /\ before.status = "PASS" => after.status = "PASS"
      BY <2>4, <2>5 DEF Rank
    <2> QED BY <2>4, <2>6 DEF after, before
  <1>3. /\ ForecastPlaces(runs, "FAIL") \in SUBSET ReportedPlaces(runs, "FAIL")
        /\ ReportedPlaces(runs, "PASS") \in SUBSET ForecastPlaces(runs, "PASS")
    BY <1>1, <1>2 DEF ForecastPlaces, ReportedPlaces
  <1>4. NewFails(runs) = {}
    BY <1>3, NewFailsAre
  <1>5. impact.new_fail_count = 0
    BY <1>4, ImpactFields, FS_EmptySet
  <1>6. impact.risk = "low"
    <2>1. Cardinality(NewFails(runs)) = 0
      BY <1>4, FS_EmptySet
    <2>2. ~HighRisk(runs)
      <3> SUFFICES ASSUME HighRisk(runs) PROVE FALSE
        OBVIOUS
      <3>1. 10 * 0 > 8 * n
        BY <2>1, HighRiskIsMost
      <3> QED BY <1>1, <3>1
    <2> QED BY <2>2, ImpactFields
  <1>7. impact.gate_status_delta["FAIL"] <= 0 /\ impact.gate_status_delta["PASS"] >= 0
    <2> DEFINE ff == Cardinality(ForecastPlaces(runs, "FAIL"))
               rf == Cardinality(ReportedPlaces(runs, "FAIL"))
               fp == Cardinality(ForecastPlaces(runs, "PASS"))
               rp == Cardinality(ReportedPlaces(runs, "PASS"))
    <2>1. /\ ff \in Nat /\ rf \in Nat /\ fp \in Nat /\ rp \in Nat
          /\ IsFiniteSet(ReportedPlaces(runs, "FAIL")) /\ IsFiniteSet(ForecastPlaces(runs, "PASS"))
      BY <1>1, StatusesArePartitions, PlacesAreFinite
    <2>2. ff <= rf /\ rp <= fp
      BY <1>3, <2>1, FS_Subset
    <2>3. impact.gate_status_delta["FAIL"] = ff - rf /\ impact.gate_status_delta["PASS"] = fp - rp
      BY ImpactFields
    <2> HIDE DEF ff, rf, fp, rp, impact
    <2> QED BY <2>1, <2>2, <2>3
  <1>8. /\ DOMAIN deltas = 1..n /\ Len(deltas) = n /\ (deltas = <<>> <=> n = 0)
        /\ deltas = [i \in 1..n |-> Forecasts(runs)[i].score - runs[i].report.score]
    BY <1>1 DEF DriftDeltas
  <1>9. ASSUME NEW i \in 1..n
        PROVE  deltas[i] \in Int /\ deltas[i] <= 0
    <2> DEFINE a == Forecasts(runs)[i].score
               b == runs[i].report.score
    <2>1. a \in 0..100 /\ b \in 0..100 /\ a <= b
      BY <1>2, ForecastOfRun, RunStatus
    <2>2. deltas[i] = a - b
      BY <1>8
    <2> HIDE DEF a, b, deltas
    <2> QED BY <2>1, <2>2
  <1> HIDE DEF deltas
  <1>10. SumFunctionOnSet(deltas, 1..n) <= 0
    <2>1. IsFiniteSet(1..n) /\ Cardinality(1..n) = n
      BY <1>1, FS_Interval
    <2> DEFINE most == 0
               S == 1..n
    <2>2. most \in Int /\ IsFiniteSet(S) /\ \A i \in S : deltas[i] \in Int /\ deltas[i] <= most
      BY <1>9, <2>1
    <2> HIDE DEF most, S
    <2>3. SumFunctionOnSet(deltas, S) <= Cardinality(S) * most
      BY <2>2, SumIsBounded
    <2> QED BY <1>1, <2>1, <2>3 DEF most, S
  <1>11. TwiceMedian(deltas) <= 0
    BY <1>1, <1>8, <1>9, MedianIsBetween
  <1>12. impact.drift_sum <= 0 /\ impact.drift_median2 <= 0
    BY <1>10, <1>11, ImpactFields DEF deltas
  <1> QED BY <1>5, <1>6, <1>7, <1>12

\* A candidate that relaxes what is in force never makes the verdict on the same
\* audio worse, and its shadow impact shows no regression.
THEOREM RelaxingShowsNoHarm == SummariesSpec => []RelaxingIsHarmless
  <1>1. VerdictInv /\ HistoryInv => RelaxedCandidateShowsNoHarm
    <2> SUFFICES ASSUME VerdictInv, HistoryInv,
                        \A i \in DOMAIN Window : Relaxes(candidate, Window[i].by)
                 PROVE  LET impact == Impact(Window) IN
                        /\ impact.new_fail_count = 0 /\ impact.risk = "low"
                        /\ impact.gate_status_delta["FAIL"] <= 0
                        /\ impact.gate_status_delta["PASS"] >= 0
                        /\ impact.drift_sum <= 0 /\ impact.drift_median2 <= 0
      BY DEF RelaxedCandidateShowsNoHarm
    <2> DEFINE n == Len(Window)
    <2>1. Runs(Window, n) /\ DOMAIN Window = 1..n /\ candidate \in Constitutions
      BY WindowRuns DEF Runs, VerdictInv
    <2> HIDE DEF n
    <2> QED BY <2>1, NoHarmOfRuns
  <1>2. VerdictInv => RelaxingNeverHurts
    BY RelaxedIsBetter
  <1>3. VerdictInv /\ HistoryInv => RelaxingIsHarmless
    BY <1>1, <1>2 DEF RelaxingIsHarmless
  <1> QED BY <1>3, HistoryInvariant, PTL
=============================================================================
