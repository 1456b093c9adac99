---------------------------- MODULE Tools_proofs ----------------------------
(***************************************************************************)
(* Proofs about Signal, Diversity and Advisor, for files and histories of  *)
(* any length.  The lemmas on sums, rankings and least members are those   *)
(* of Evaluation_proofs.                                                   *)
(***************************************************************************)
EXTENDS Signal, Advisor, Evaluation_proofs, SequenceTheorems

-----------------------------------------------------------------------------
(* More on sums.                                                           *)

\* Any member can be added last.
LEMMA SumSplits ==
    ASSUME NEW g, NEW S, IsFiniteSet(S), \A y \in S : g[y] \in Int
    PROVE  \A x \in S : SumFunctionOnSet(g, S) = g[x] + SumFunctionOnSet(g, S \ {x})
  <1> DEFINE Sum_(s) == SumFunctionOnSet(g, s)
             Splits(s) == \A x \in s : Sum_(s) = g[x] + Sum_(s \ {x})
             Bad == {s \in SUBSET S : ~Splits(s)}
  <1>1. \A s \in SUBSET S : IsFiniteSet(s) /\ Sum_(s) \in Int
    BY FS_Subset, SumIsInt
  <1>2. Bad = {}
    <2> SUFFICES ASSUME Bad # {} PROVE FALSE
      OBVIOUS
    <2>1. PICK s \in Bad : \A t \in Bad : t \subseteq s => t = s
      <3>1. \A s \in Bad : IsFiniteSet(s)
        BY <1>1
      <3> HIDE DEF Bad
      <3> QED BY <3>1, LeastSet
    <2>2. PICK x \in s : Sum_(s) # g[x] + Sum_(s \ {x})
      BY <2>1
    <2> DEFINE p == Pick(s)
    <2>3. s \in SUBSET S /\ p \in s
      BY <2>1, <2>2, PickIn
    <2>4. Sum_(s) = g[p] + Sum_(s \ {p})
      BY <1>1, <2>3, SumUnfold
    <2> HIDE DEF p
    <2>5. p # x
      BY <2>2, <2>4
    <2>6. Splits(s \ {p}) /\ Splits(s \ {x})
      <3>1. s \ {p} \notin Bad /\ s \ {x} \notin Bad
        BY <2>1, <2>2, <2>3
      <3> QED BY <2>3, <3>1
    <2>7. /\ Sum_(s \ {p}) = g[x] + Sum_((s \ {p}) \ {x})
          /\ Sum_(s \ {x}) = g[p] + Sum_((s \ {x}) \ {p})
      BY <2>2, <2>3, <2>5, <2>6
    <2>8. Sum_((s \ {p}) \ {x}) = Sum_((s \ {x}) \ {p})
      <3>1. (s \ {p}) \ {x} = (s \ {x}) \ {p}
        OBVIOUS
      <3> QED BY <3>1
    <2>9. Sum_((s \ {x}) \ {p}) \in Int /\ g[p] \in Int /\ g[x] \in Int
      BY <1>1, <2>2, <2>3
    <2> HIDE DEF Sum_, Splits
    <2> QED BY <2>2, <2>4, <2>7, <2>8, <2>9
  <1> QED BY <1>1, <1>2

\* What a sequence adds up to, with its last number apart.
LEMMA SumAppends ==
    ASSUME NEW n \in Nat, NEW g, NEW h, DOMAIN g = 1..n, DOMAIN h = 1..(n + 1),
           \A i \in 1..n : g[i] \in Int /\ h[i] = g[i], h[n + 1] \in Int
    PROVE  /\ SumFunction(g) \in Int
           /\ SumFunction(h) = SumFunction(g) + h[n + 1]
  <1>0. (1..(n + 1)) \ {n + 1} = 1..n /\ n + 1 \in 1..(n + 1)
    OBVIOUS
  <1>1. IsFiniteSet(1..n) /\ IsFiniteSet(1..(n + 1))
    BY FS_Interval
  <1>2. \A i \in 1..(n + 1) : h[i] \in Int
    BY <1>1
  <1>3. SumFunctionOnSet(h, 1..(n + 1)) = h[n + 1] + SumFunctionOnSet(h, 1..n)
    BY <1>0, <1>1, <1>2, SumSplits
  <1>4. SumFunctionOnSet(h, 1..n) = SumFunctionOnSet(g, 1..n) * 1
    BY <1>1, SumOfMultiples
  <1>5. SumFunctionOnSet(g, 1..n) \in Int
    BY <1>1, SumIsInt
  <1> QED BY <1>3, <1>4, <1>5 DEF SumFunction

LEMMA SumOfNone == ASSUME NEW g, DOMAIN g = 1..0 PROVE SumFunction(g) = 0
  <1>1. IsFiniteSet(1..0) /\ 1..0 = {}
    BY FS_EmptySet
  <1> QED BY <1>1, SumUnfold DEF SumFunction

-----------------------------------------------------------------------------
(* The diversity sentinel.                                                 *)

PastInv == past \in Seq(Recordings)

\* The history is made of recordings.
THEOREM PastInvariant == DiversitySpec => []PastInv
  <1>1. DiversityInit => PastInv
    BY DEF DiversityInit, PastInv
  <1>2. PastInv /\ [AddRun]_past => PastInv'
    BY DEF AddRun, PastInv
  <1> QED BY <1>1, <1>2, PTL DEF DiversitySpec

\* A history that fits into a window is both windows.
LEMMA WindowsAreThePast ==
    ASSUME PastInv, Len(past) <= Cap
    PROVE  /\ M = Len(past) /\ Len(past) \in Nat
           /\ Baseline = past /\ Recent = past
           /\ past \in [1..Len(past) -> Recordings]
  <1> DEFINE n == Len(past)
  <1>0. n \in Nat /\ past \in [1..n -> Recordings]
    BY DEF PastInv
  <1>1. Cap \in Nat
    BY DiversityAssumption
  <1>2. M = n
    <2>1. {Cap, n} \in SUBSET Nat /\ {Cap, n} # {}
      BY <1>0, <1>1
    <2>2. Min({Cap, n}) \in {Cap, n} /\ \A k \in {Cap, n} : Min({Cap, n}) <= k
      BY <2>1, MinIsLeast
    <2> QED BY <1>0, <1>1, <2>2 DEF M
  <1>3. SubSeq(past, 1, n) = past
    BY DEF PastInv
  <1>4. n - n + 1 = 1
    BY <1>0
  <1> QED BY <1>0, <1>1, <1>2, <1>3, <1>4 DEF Baseline, Recent

LEMMA ImputedType ==
    ASSUME NEW r \in Recordings, NEW f \in Features
    PROVE  Imputed(r, f) \in Int
  BY DiversityAssumption DEF Imputed

\* What one more number adds to k * sum(x^2) - sum(x)^2: k times it is a sum of
\* what that was and a square.
LEMMA SpreadGrows ==
    ASSUME NEW k \in Nat \ {0}, NEW sum \in Int, NEW squares \in Int, NEW x \in Int,
           NEW more, more = squares + k * (x * x) - 2 * (sum * x)
    PROVE  /\ (k + 1) * (squares + x * x) - (sum + x) * (sum + x)
                = (k * squares - sum * sum) + more
           /\ k * more = (k * squares - sum * sum) + (sum - k * x) * (sum - k * x)
  OBVIOUS

LEMMA SquareIsNatural ==
    ASSUME NEW x \in Int
    PROVE  /\ x * x \in Nat
           /\ x * x = 0 => x = 0
  OBVIOUS

LEMMA FactorIsNatural ==
    ASSUME NEW k \in Nat \ {0}, NEW x \in Int, k * x >= 0
    PROVE  x \in Nat
  OBVIOUS

LEMMA CancelFactor ==
    ASSUME NEW k \in Nat \ {0}, NEW x \in Int, NEW y \in Int, k * x = k * y
    PROVE  x = y
  OBVIOUS

\* The co-moment of numbers with themselves is not negative, and none only if they
\* are all the same.
LEMMA CoMomentWithItself ==
    ASSUME NEW n \in Nat, NEW xs \in [1..n -> Int]
    PROVE  /\ CoMoment(xs, xs) \in Nat
           /\ CoMoment(xs, xs) = 0 => \A i, j \in 1..n : xs[i] = xs[j]
  <1> DEFINE S(k) == SumFunction([i \in 1..k |-> xs[i]])
             Q(k) == SumFunction([i \in 1..k |-> xs[i] * xs[i]])
             D(k) == k * Q(k) - S(k) * S(k)
             Sound(k) == /\ S(k) \in Int /\ Q(k) \in Int /\ D(k) \in Nat
                         /\ D(k) = 0 => \A i \in 1..k : xs[i] = xs[1]
                         /\ D(k) = 0 /\ k # 0 => S(k) = k * xs[1]
             Bad == {k \in 0..n : ~Sound(k)}
  <1>1. CoMoment(xs, xs) = D(n)
    <2>1. xs = [i \in 1..n |-> xs[i]] /\ DOMAIN xs = 1..n /\ Len(xs) = n
      OBVIOUS
    <2> QED BY <2>1 DEF CoMoment
  <1>2. Sound(0)
    <2>1. S(0) = 0 /\ Q(0) = 0
      BY SumOfNone
    <2> HIDE DEF S, Q
    <2> QED BY <2>1
  <1>3. ASSUME NEW k \in 0..n, k < n, Sound(k)
        PROVE  Sound(k + 1)
    <2> DEFINE x == xs[k + 1]
               more == Q(k) + k * (x * x) - 2 * (S(k) * x)
    <2>1. x \in Int /\ k \in Nat /\ k + 1 \in 1..n
      <3>1. k \in Nat /\ k + 1 \in 1..n
        BY <1>3
      <3> QED BY <3>1
    <2>2. S(k + 1) = S(k) + x
      <3> DEFINE g == [i \in 1..k |-> xs[i]]
                 h == [i \in 1..(k + 1) |-> xs[i]]
      <3>1. /\ DOMAIN g = 1..k /\ DOMAIN h = 1..(k + 1) /\ h[k + 1] = x
            /\ \A i \in 1..k : g[i] \in Int /\ h[i] = g[i]
        BY <2>1
      <3> HIDE DEF g, h, x
      <3>2. SumFunction(h) = SumFunction(g) + x
        BY <2>1, <3>1, SumAppends
      <3> QED BY <3>2 DEF g, h
    <2>3. Q(k + 1) = Q(k) + x * x
      <3> DEFINE g == [i \in 1..k |-> xs[i] * xs[i]]
                 h == [i \in 1..(k + 1) |-> xs[i] * xs[i]]
      <3>1. /\ DOMAIN g = 1..k /\ DOMAIN h = 1..(k + 1) /\ h[k + 1] = x * x
            /\ \A i \in 1..k : g[i] \in Int /\ h[i] = g[i]
        BY <2>1
      <3>2. x * x \in Int
        BY <2>1, SquareIsNatural
      <3> HIDE DEF g, h, x
      <3>3. SumFunction(h) = SumFunction(g) + x * x
        BY <2>1, <3>1, <3>2, SumAppends
      <3> QED BY <3>3 DEF g, h
    <2>4. S(k) \in Int /\ Q(k) \in Int /\ D(k) \in Nat
      BY <1>3
    <2>5. \A i \in 1..(k + 1) : i \in 1..k \/ i = k + 1
      BY <2>1
    <2> HIDE DEF S, Q, x
    <2>6. S(k + 1) \in Int /\ Q(k + 1) \in Int
      <3>1. x * x \in Int
        BY <2>1, SquareIsNatural
      <3> QED BY <2>2, <2>3, <2>1, <2>4, <3>1
    <2>7. CASE k = 0
      <3>1. S(0) = 0 /\ Q(0) = 0
        BY SumOfNone DEF S, Q
      <3>2. x = xs[1] /\ \A i \in 1..(k + 1) : i = 1
        BY <2>7 DEF x
      <3>3. S(1) = x /\ Q(1) = x * x
        BY <2>1, <2>2, <2>3, <2>7, <3>1
      <3>4. D(1) = 0
        BY <2>1, <3>3
      <3> HIDE DEF D
      <3> QED BY <2>1, <2>6, <2>7, <3>2, <3>3, <3>4
    <2>8. CASE k # 0
      <3>1. k \in Nat \ {0} /\ more \in Int
        <4>1. \A a, b \in Int : a * b \in Int
          OBVIOUS
        <4>2. x * x \in Int /\ S(k) * x \in Int
          BY <2>1, <2>4, <4>1
        <4>3. k * (x * x) \in Int
          BY <2>1, <4>1, <4>2
        <4> QED BY <2>1, <2>4, <2>8, <4>2, <4>3, SMTT(30)
      <3>2. /\ D(k + 1) = D(k) + more
            /\ k * more = D(k) + (S(k) - k * x) * (S(k) - k * x)
        <4> DEFINE sum == S(k)
                   squares == Q(k)
        <4>1. sum \in Int /\ squares \in Int
          BY <2>4
        <4>2. D(k + 1) = (k + 1) * (squares + x * x) - (sum + x) * (sum + x)
          BY <2>2, <2>3
        <4>3. D(k) = k * squares - sum * sum /\ more = squares + k * (x * x) - 2 * (sum * x)
          OBVIOUS
        <4> HIDE DEF D, more, sum, squares
        <4>4. /\ (k + 1) * (squares + x * x) - (sum + x) * (sum + x)
                    = (k * squares - sum * sum) + more
              /\ k * more = (k * squares - sum * sum) + (sum - k * x) * (sum - k * x)
          BY <2>1, <3>1, <4>1, <4>3, SpreadGrows
        <4>5. D(k + 1) = D(k) + more /\ k * more = D(k) + (sum - k * x) * (sum - k * x)
          BY <4>2, <4>3, <4>4
        <4> QED BY <4>5 DEF sum
      <3> DEFINE t == S(k) - k * x
      <3>3. t \in Int /\ t * t \in Nat /\ (t * t = 0 => t = 0)
        <4>1. k * x \in Int
          BY <2>1
        <4>2. t \in Int
          BY <2>4, <4>1
        <4> HIDE DEF t
        <4> QED BY <4>2, SquareIsNatural
      <3> HIDE DEF D, more, t
      <3>4. k * more = D(k) + t * t
        BY <3>2 DEF t
      <3>5. more \in Nat
        BY <2>4, <3>1, <3>3, <3>4, FactorIsNatural
      <3>6. D(k + 1) \in Nat
        BY <2>4, <3>2, <3>5
      <3>7. ASSUME D(k + 1) = 0
            PROVE  (\A i \in 1..(k + 1) : xs[i] = xs[1]) /\ S(k + 1) = (k + 1) * xs[1]
        <4>1. D(k) = 0 /\ more = 0
          BY <2>4, <3>2, <3>5, <3>7
        <4>2. t = 0
          BY <3>1, <3>3, <3>4, <4>1
        <4>3. S(k) = k * x /\ S(k) = k * xs[1]
          BY <1>3, <2>1, <2>4, <2>8, <4>1, <4>2 DEF t
        <4>4. xs[1] \in Int
          BY <2>1
        <4>5. x = xs[1]
          BY <2>1, <3>1, <4>3, <4>4, CancelFactor
        <4>6. \A i \in 1..k : xs[i] = xs[1]
          BY <1>3, <4>1
        <4>7. \A i \in 1..(k + 1) : xs[i] = xs[1]
          BY <2>5, <4>5, <4>6 DEF x
        <4>8. S(k + 1) = k * x + x /\ k * x \in Int
          BY <2>1, <2>2, <4>3
        <4>9. (k + 1) * x = k * x + x
          BY <2>1
        <4> QED BY <4>5, <4>7, <4>8, <4>9
      <3> QED BY <2>6, <3>6, <3>7
    <2> QED BY <2>7, <2>8
  <1>4. Bad = {}
    <2> SUFFICES ASSUME Bad # {} PROVE FALSE
      OBVIOUS
    <2>1. Bad \in SUBSET Nat
      OBVIOUS
    <2>2. Min(Bad) \in Bad /\ \A k \in Bad : Min(Bad) <= k
      BY <2>1, MinIsLeast
    <2> DEFINE m == Min(Bad)
    <2> HIDE DEF Sound
    <2>3. m \in 0..n /\ ~Sound(m) /\ m # 0
      BY <1>2, <2>2
    <2>4. m - 1 \in 0..n /\ m - 1 < n /\ (m - 1) + 1 = m /\ ~(m <= m - 1)
      BY <2>3
    <2>5. m - 1 \notin Bad
      BY <2>2, <2>4
    <2> HIDE DEF m
    <2>6. Sound(m - 1)
      BY <2>4, <2>5
    <2>7. Sound((m - 1) + 1)
      BY <1>3, <2>4, <2>6
    <2> QED BY <2>3, <2>4, <2>7
  <1>5. Sound(n)
    <2> HIDE DEF Sound
    <2> QED BY <1>4
  <1> HIDE DEF S, Q, D
  <1> QED BY <1>1, <1>5

\* The spread of a history is not negative, and none only if its runs are alike.
LEMMA SpreadIsSound ==
    ASSUME PastInv, NEW f \in Features
    PROVE  /\ Spread(past, f) \in Nat
           /\ Spread(past, f) = 0 =>
                 \A i, j \in 1..Len(past) : Imputed(past[i], f) = Imputed(past[j], f)
  <1> DEFINE n == Len(past)
             xs == Values(past, f)
  <1>1. n \in Nat /\ DOMAIN past = 1..n /\ \A i \in 1..n : past[i] \in Recordings
    BY DEF PastInv
  <1>2. xs \in [1..n -> Int] /\ \A i \in 1..n : xs[i] = Imputed(past[i], f)
    BY <1>1, ImputedType DEF Values
  <1>3. Spread(past, f) = CoMoment(xs, xs)
    BY DEF Spread, CoMoment
  <1> HIDE DEF xs
  <1>4. /\ CoMoment(xs, xs) \in Nat
        /\ CoMoment(xs, xs) = 0 => \A i, j \in 1..n : xs[i] = xs[j]
    BY <1>1, <1>2, CoMomentWithItself
  <1> QED BY <1>2, <1>3, <1>4

\* An order by a rank, completed by another.
LEMMA TiedRanksSort ==
    ASSUME NEW S, NEW order, NEW ties, NEW rank \in [S -> Nat], Sorts(ties, S),
           \A a, b \in S : <<a, b>> \in order <=>
              rank[a] < rank[b] \/ (~(rank[b] < rank[a]) /\ <<a, b>> \in ties)
    PROVE  Sorts(order, S)
  <1>0. \A a \in S : rank[a] \in Nat
    OBVIOUS
  <1>1. ASSUME NEW a \in S
        PROVE  <<a, a>> \notin order
    <2>1. rank[a] \in Nat /\ <<a, a>> \notin ties
      BY <1>0 DEF Sorts
    <2> QED BY <2>1
  <1>2. \A a, b \in S : a # b => <<a, b>> \in order \/ <<b, a>> \in order
    BY <1>0 DEF Sorts
  <1>3. ASSUME NEW a \in S, NEW b \in S, NEW c \in S, <<a, b>> \in order, <<b, c>> \in order
        PROVE  <<a, c>> \in order
    <2>1. rank[a] \in Nat /\ rank[b] \in Nat /\ rank[c] \in Nat
      OBVIOUS
    <2>2. rank[a] <= rank[b] /\ rank[b] <= rank[c]
      BY <1>3, <2>1
    <2>3. CASE rank[a] < rank[c]
      BY <2>3
    <2>4. CASE rank[a] = rank[c]
      <3>1. rank[a] = rank[b] /\ rank[b] = rank[c]
        BY <2>1, <2>2, <2>4
      <3>2. <<a, b>> \in ties /\ <<b, c>> \in ties
        BY <1>3, <2>1, <3>1
      <3>3. <<a, c>> \in ties
        BY <3>2 DEF Sorts
      <3> QED BY <2>1, <2>4, <3>3
    <2> QED BY <2>1, <2>2, <2>3, <2>4
  <1> QED BY <1>1, <1>2, <1>3 DEF Sorts

LEMMA FeatureNames ==
    /\ DOMAIN FeatureIds = 1..6 /\ Len(FeatureIds) = 6
    /\ \A i \in 1..6 : FeatureIds[i] \in Features
    /\ \A f \in Features : \E i \in 1..6 : FeatureIds[i] = f
    /\ \A i, j \in 1..6 : FeatureIds[i] = FeatureIds[j] => i = j
    /\ Features = {"loudness", "dynamics", "low", "centroid", "correlation", "balance"}
  <1>1. DOMAIN FeatureIds = 1..6 /\ Len(FeatureIds) = 6
    BY DEF FeatureIds
  <1>2. /\ FeatureIds[1] = "loudness" /\ FeatureIds[2] = "dynamics" /\ FeatureIds[3] = "low"
        /\ FeatureIds[4] = "centroid" /\ FeatureIds[5] = "correlation" /\ FeatureIds[6] = "balance"
    BY DEF FeatureIds
  <1>3. Features = {FeatureIds[i] : i \in 1..6}
    BY <1>1 DEF Features, ToSet
  <1>4. 1..6 = {1, 2, 3, 4, 5, 6}
    OBVIOUS
  <1>5. Features = {"loudness", "dynamics", "low", "centroid", "correlation", "balance"}
    BY <1>2, <1>3, <1>4
  <1>6. \A i, j \in 1..6 : FeatureIds[i] = FeatureIds[j] => i = j
    BY <1>2, <1>4
  <1> QED BY <1>1, <1>3, <1>5, <1>6

LEMMA UpTo == \A n \in Nat : IsFiniteSet(1..n) /\ Cardinality(1..n) = n
  BY FS_Interval

LEMMA FeaturesAreSix == IsFiniteSet(Features) /\ Cardinality(Features) <= 6
  <1>1. FeatureIds \in Surjection(1..6, Features)
    BY FeatureNames DEF Surjection, FeatureIds
  <1>2. IsFiniteSet(1..6) /\ Cardinality(1..6) = 6
    BY UpTo
  <1> QED BY <1>1, <1>2, FS_Surjection

\* While both windows are the same, no ratio of variances is but none or one.
LEMMA ShortRatio ==
    ASSUME PastInv, Len(past) <= Cap, NEW f \in Features
    PROVE  /\ Spread(past, f) \in Nat
           /\ f \in Moving <=> Spread(past, f) # 0
           /\ VarianceRatio(f) = IF Spread(past, f) = 0 THEN <<0, 1>>
                                 ELSE <<Spread(past, f), Spread(past, f)>>
  BY WindowsAreThePast, SpreadIsSound DEF Moving, VarianceRatio

LEMMA ProductIsNatural == \A a, b \in Nat : a * b \in Nat
  OBVIOUS

LEMMA CofactorIsNatural ==
    ASSUME NEW spread, \A g \in Features : spread[g] \in Nat, NEW f \in Features
    PROVE  Cofactor(spread, f) \in Nat
  <1> DEFINE factor(g) == IF g = f \/ spread[g] = 0 THEN 1 ELSE spread[g]
  <1>1. /\ factor("loudness") \in Nat /\ factor("dynamics") \in Nat /\ factor("low") \in Nat
        /\ factor("centroid") \in Nat /\ factor("correlation") \in Nat /\ factor("balance") \in Nat
    BY FeatureNames
  <1>2. Cofactor(spread, f) =
          factor("loudness") * factor("dynamics") * factor("low") * factor("centroid")
            * factor("correlation") * factor("balance")
    BY DEF Cofactor
  <1> HIDE DEF factor
  <1> DEFINE two == factor("loudness") * factor("dynamics")
             three == two * factor("low")
             four == three * factor("centroid")
             five == four * factor("correlation")
  <1>3. two \in Nat
    BY <1>1, ProductIsNatural
  <1>4. three \in Nat
    <2> HIDE DEF two
    <2> QED BY <1>1, <1>3, ProductIsNatural
  <1>5. four \in Nat
    <2> HIDE DEF three
    <2> QED BY <1>1, <1>4, ProductIsNatural
  <1>6. five \in Nat
    <2> HIDE DEF four
    <2> QED BY <1>1, <1>5, ProductIsNatural
  <1>7. Cofactor(spread, f) = five * factor("balance")
    BY <1>2
  <1> HIDE DEF five
  <1> QED BY <1>1, <1>6, <1>7, ProductIsNatural

\* Runs of such a history differ only in what moves.
LEMMA ShortDistance ==
    ASSUME PastInv, Len(past) <= Cap, NEW i \in 1..Len(past), NEW j \in 1..Len(past),
           NEW spread, \A f \in Features : spread[f] = Spread(past, f)
    PROVE  \E d \in Nat : DistanceBetween(past[i], past[j], spread) = <<d, 1>>
  <1> DEFINE moving == {f \in Features : spread[f] # 0}
             g == [f \in moving |-> Square(Imputed(past[i], f) - Imputed(past[j], f))
                                      * Cofactor(spread, f)]
  <1>1. \A f \in Features : spread[f] \in Nat
    BY ShortRatio
  <1>2. \A f \in Features \ moving : Imputed(past[i], f) = Imputed(past[j], f)
    BY WindowsAreThePast, SpreadIsSound
  <1>3. DistanceBetween(past[i], past[j], spread) = <<SumFunction(g), 1>>
    BY <1>2 DEF DistanceBetween
  <1>4. IsFiniteSet(moving)
    BY FeaturesAreSix, FS_Subset
  <1>5. ASSUME NEW f \in moving PROVE g[f] \in Nat
    <2>1. Imputed(past[i], f) - Imputed(past[j], f) \in Int
      BY WindowsAreThePast, ImputedType
    <2>2. \A x \in Int : Square(x) \in Nat
      BY DEF Square
    <2>3. Square(Imputed(past[i], f) - Imputed(past[j], f)) \in Nat
      BY <2>1, <2>2
    <2>4. Cofactor(spread, f) \in Nat
      BY <1>1, CofactorIsNatural
    <2> QED BY <2>3, <2>4, ProductIsNatural
  <1>6. DOMAIN g = moving
    OBVIOUS
  <1> HIDE DEF g, moving
  <1>7. SumFunction(g) \in Nat
    BY <1>4, <1>5, <1>6, SumOfNaturals DEF SumFunction
  <1> QED BY <1>3, <1>7

\* Then the middle distances between them are finite.
LEMMA ShortMiddles ==
    ASSUME PastInv, Len(past) <= Cap
    PROVE  /\ \E d \in Nat : MiddleDistances(past).lower = <<d, 1>>
           /\ \E d \in Nat : MiddleDistances(past).upper = <<d, 1>>
  <1> DEFINE of(f) == Spread(past, f)
             spread == [loudness |-> of("loudness"), dynamics |-> of("dynamics"),
                        low |-> of("low"), centroid |-> of("centroid"),
                        correlation |-> of("correlation"), balance |-> of("balance")]
             pairs == {p \in (DOMAIN past) \X (DOMAIN past) : p[1] < p[2]}
             rated == {[of |-> p, ratio |-> DistanceBetween(past[p[1]], past[p[2]], spread)] :
                          p \in pairs}
             order == {p \in rated \X rated :
                         \/ RatioBelow(p[1].ratio, p[2].ratio)
                         \/ (~RatioBelow(p[2].ratio, p[1].ratio) /\ PairBefore(p[1].of, p[2].of))}
             sorted == Ranked(rated, order)
             c == Cardinality(rated)
  <1>1. /\ Baseline = past /\ Len(past) \in Nat /\ DOMAIN past = 1..Len(past)
    BY WindowsAreThePast
  <1>2. MiddleDistances(past) =
          IF Len(past) < 2 THEN [lower |-> <<0, 1>>, upper |-> <<0, 1>>]
          ELSE [lower |-> sorted[(Len(sorted) + 1) \div 2].ratio,
                upper |-> sorted[Len(sorted) \div 2 + 1].ratio]
    BY <1>1 DEF MiddleDistances, ByRatio
  <1>3. \A f \in Features : spread[f] = Spread(past, f)
    BY FeatureNames
  <1> HIDE DEF spread
  <1>4. \A a \in rated : \E d \in Nat : a.ratio = <<d, 1>>
    BY <1>1, <1>3, ShortDistance
  <1>5. IsFiniteSet(rated)
    <2>1. IsFiniteSet((1..Len(past)) \X (1..Len(past)))
      BY <1>1, UpTo, FS_Product
    <2>2. IsFiniteSet(pairs)
      BY <1>1, <2>1, FS_Subset
    <2> DEFINE f == [p \in pairs |-> [of |-> p, ratio |-> DistanceBetween(past[p[1]], past[p[2]], spread)]]
    <2>3. f \in Surjection(pairs, rated)
      BY DEF Surjection
    <2> QED BY <2>2, <2>3, FS_Surjection
  <1>6. Sorts(order, rated)
    <2> DEFINE rank == [a \in rated |-> CHOOSE d \in Nat : a.ratio = <<d, 1>>]
               ties == {p \in rated \X rated : PairBefore(p[1].of, p[2].of)}
    <2>1. rank \in [rated -> Nat] /\ \A a \in rated : a.ratio = <<rank[a], 1>>
      BY <1>4
    <2>2. Sorts(ties, rated)
      <3>1. \A a \in rated : a.of \in (1..Len(past)) \X (1..Len(past))
        BY <1>1
      <3>2. \A a, b \in rated : a.of = b.of => a = b
        OBVIOUS
      <3>3. \A a, b \in rated : <<a, b>> \in ties <=> PairBefore(a.of, b.of)
        OBVIOUS
      <3> HIDE DEF ties, rated
      <3>4. \A p, q \in (1..Len(past)) \X (1..Len(past)) :
               /\ ~PairBefore(p, p)
               /\ p # q => PairBefore(p, q) \/ PairBefore(q, p)
        BY <1>1 DEF PairBefore
      <3>5. \A p, q, r \in (1..Len(past)) \X (1..Len(past)) :
               PairBefore(p, q) /\ PairBefore(q, r) => PairBefore(p, r)
        BY <1>1 DEF PairBefore
      <3> QED BY <3>1, <3>2, <3>3, <3>4, <3>5 DEF Sorts
    <2>3. ASSUME NEW a \in rated, NEW b \in rated
          PROVE  RatioBelow(a.ratio, b.ratio) <=> rank[a] < rank[b]
      <3>1. rank[a] \in Nat /\ rank[b] \in Nat /\ a.ratio = <<rank[a], 1>> /\ b.ratio = <<rank[b], 1>>
        BY <2>1
      <3> HIDE DEF rank
      <3> QED BY <3>1 DEF RatioBelow
    <2>4. \A a, b \in rated : <<a, b>> \in order <=>
             rank[a] < rank[b] \/ (~(rank[b] < rank[a]) /\ <<a, b>> \in ties)
      <3> HIDE DEF rank, rated
      <3> QED BY <2>3
    <2> HIDE DEF rank, rated, order, ties
    <2> QED BY <2>1, <2>2, <2>4, TiedRanksSort
  <1>7. CASE Len(past) < 2
    BY <1>2, <1>7
  <1>8. CASE Len(past) >= 2
    <2>1. c \in Nat /\ sorted \in [1..c -> rated]
      <3> HIDE DEF order, rated
      <3> QED BY <1>5, <1>6, RankedIsSorted
    <2>2. c # 0
      <3>1. 1 \in DOMAIN past /\ 2 \in DOMAIN past
        BY <1>1, <1>8
      <3>2. <<1, 2>> \in pairs
        BY <3>1
      <3>3. rated # {}
        BY <3>2
      <3> HIDE DEF rated
      <3> QED BY <1>5, <3>3, FS_EmptySet
    <2> HIDE DEF c, sorted, rated
    <2>3. Len(sorted) = c
      BY <2>1
    <2>4. c \div 2 + 1 \in 1..c /\ (c + 1) \div 2 \in 1..c
      BY <2>1, <2>2
    <2>5. sorted[c \div 2 + 1] \in rated /\ sorted[(c + 1) \div 2] \in rated
      BY <2>1, <2>4
    <2>6. /\ MiddleDistances(past).lower = sorted[(c + 1) \div 2].ratio
          /\ MiddleDistances(past).upper = sorted[c \div 2 + 1].ratio
      BY <1>1, <1>2, <1>8, <2>3
    <2> QED BY <1>4, <2>5, <2>6
  <1> QED BY <1>1, <1>7, <1>8

\* A median ratio below one leaves four of the six features still.
LEMMA StillFeatures ==
    ASSUME PastInv, Len(past) <= Cap, MedianRatioAtMost(3)
    PROVE  Cardinality(Features \ Moving) >= 4
  <1> DEFINE rated == {[of |-> i, ratio |-> VarianceRatio(FeatureIds[i])] : i \in DOMAIN FeatureIds}
             order == {p \in rated \X rated :
                         \/ RatioBelow(p[1].ratio, p[2].ratio)
                         \/ (~RatioBelow(p[2].ratio, p[1].ratio) /\ p[1].of < p[2].of)}
             sorted == Ranked(rated, order)
             a == sorted[3].ratio
             b == sorted[4].ratio
             rank == [x \in rated |-> IF x.ratio = <<0, 1>> THEN 0 ELSE 1]
             Small(x) == x.ratio = <<0, 1>>
  <1>1. DOMAIN FeatureIds = 1..6
    BY FeatureNames
  <1>2. \A x \in rated : /\ x.of \in 1..6
                         /\ FeatureIds[x.of] \in Features
                         /\ x.ratio = VarianceRatio(FeatureIds[x.of])
    BY <1>1, FeatureNames
  <1>3. \A x, y \in rated : x.of = y.of => x = y
    OBVIOUS
  <1>4. IsFiniteSet(rated) /\ Cardinality(rated) = 6
    <2> DEFINE f == [i \in 1..6 |-> [of |-> i, ratio |-> VarianceRatio(FeatureIds[i])]]
    <2>1. f \in Surjection(1..6, rated) /\ f \in Injection(1..6, rated)
      BY <1>1 DEF Surjection, Injection, IsInjective
    <2>2. IsFiniteSet(1..6) /\ Cardinality(1..6) = 6
      BY UpTo
    <2> HIDE DEF f, rated
    <2> QED BY <2>1, <2>2, FS_Surjection
  <1>5. ASSUME NEW x \in rated
        PROVE  \/ Small(x)
               \/ ~Small(x) /\ \E s \in Nat \ {0} : x.ratio = <<s, s>>
    <2>1. FeatureIds[x.of] \in Features /\ x.ratio = VarianceRatio(FeatureIds[x.of])
      BY <1>2
    <2> HIDE DEF rated
    <2> QED BY <2>1, ShortRatio
  <1>6. ASSUME NEW x \in rated, NEW y \in rated
        PROVE  RatioBelow(x.ratio, y.ratio) <=> rank[x] < rank[y]
    <2>1. rank[x] = (IF Small(x) THEN 0 ELSE 1) /\ rank[y] = (IF Small(y) THEN 0 ELSE 1)
      OBVIOUS
    <2>2. /\ Small(x) \/ (~Small(x) /\ \E s \in Nat \ {0} : x.ratio = <<s, s>>)
          /\ Small(y) \/ (~Small(y) /\ \E s \in Nat \ {0} : y.ratio = <<s, s>>)
      BY <1>5
    <2> HIDE DEF rank, rated
    <2>3. \A s, t \in Nat : s * t = t * s
      OBVIOUS
    <2> QED BY <2>1, <2>2, <2>3 DEF RatioBelow
  <1>7. Sorts(order, rated)
    <2> DEFINE ties == {p \in rated \X rated : p[1].of < p[2].of}
    <2>1. rank \in [rated -> Nat]
      OBVIOUS
    <2>2. Sorts(ties, rated)
      <3>1. \A x, y \in rated : <<x, y>> \in ties <=> x.of < y.of
        OBVIOUS
      <3> HIDE DEF ties, rated
      <3> QED BY <1>2, <1>3, <3>1 DEF Sorts
    <2>3. \A x, y \in rated : <<x, y>> \in order <=>
             rank[x] < rank[y] \/ (~(rank[y] < rank[x]) /\ <<x, y>> \in ties)
      <3> HIDE DEF rank, rated
      <3> QED BY <1>6
    <2> HIDE DEF rank, rated, order, ties
    <2> QED BY <2>1, <2>2, <2>3, TiedRanksSort
  <1>8. /\ sorted \in [1..6 -> rated] /\ Len(sorted) = 6
        /\ \A k, l \in 1..6 : k < l => <<sorted[k], sorted[l]>> \in order
    <2> HIDE DEF order, rated
    <2>1. /\ sorted \in [1..6 -> rated]
          /\ \A k, l \in 1..6 : k < l => <<sorted[k], sorted[l]>> \in order
      BY <1>4, <1>7, RankedIsSorted
    <2> HIDE DEF sorted
    <2> QED BY <2>1
  <1>9. 10 * (a[1] * b[2] + b[1] * a[2]) <= 2 * 3 * a[2] * b[2]
    <2>1. 6 \div 2 = 3 /\ 3 + 1 = 4
      OBVIOUS
    <2> QED BY <1>8, <2>1 DEF MedianRatioAtMost, ByRatio
  <1>10. \A x, y \in rated : <<x, y>> \in order =>
            RatioBelow(x.ratio, y.ratio) \/ ~RatioBelow(y.ratio, x.ratio)
    OBVIOUS
  <1>11. \A x \in rated : rank[x] = IF Small(x) THEN 0 ELSE 1
    OBVIOUS
  <1> HIDE DEF rated, order, sorted, rank
  <1>12. \A k \in 1..6 : sorted[k] \in rated
    BY <1>8
  <1>13. Small(sorted[4])
    <2> SUFFICES ASSUME ~Small(sorted[4]) PROVE FALSE
      OBVIOUS
    <2>1. sorted[3] \in rated /\ sorted[4] \in rated
      BY <1>12
    <2>2. PICK s \in Nat \ {0} : b = <<s, s>>
      BY <1>5, <2>1
    <2>3. CASE Small(sorted[3])
      BY <1>9, <2>2, <2>3
    <2>4. CASE \E t \in Nat \ {0} : a = <<t, t>>
      <3>1. PICK t \in Nat \ {0} : a = <<t, t>>
        BY <2>4
      <3>2. \A x, y \in Nat \ {0} : ~(10 * (x * y + y * x) <= 2 * 3 * x * y)
        <4> SUFFICES ASSUME NEW x \in Nat \ {0}, NEW y \in Nat \ {0}
                     PROVE  ~(10 * (x * y + y * x) <= 2 * 3 * x * y)
          OBVIOUS
        <4> DEFINE p == x * y
        <4>1. p \in Nat /\ p > 0 /\ y * x = p /\ 2 * 3 * x * y = 6 * p
          OBVIOUS
        <4> HIDE DEF p
        <4> QED BY <4>1
      <3> QED BY <1>9, <2>2, <3>1, <3>2
    <2>5. Small(sorted[3]) \/ \E t \in Nat \ {0} : a = <<t, t>>
      BY <1>5, <2>1
    <2> QED BY <2>3, <2>4, <2>5
  <1>14. \A k \in 1..4 : Small(sorted[k])
    <2> SUFFICES ASSUME NEW k \in 1..3 PROVE Small(sorted[k])
      BY <1>13
    <2>1. sorted[k] \in rated /\ sorted[4] \in rated /\ <<sorted[k], sorted[4]>> \in order
      BY <1>8, <1>12
    <2>2. rank[sorted[4]] = 0 /\ rank[sorted[k]] \in {0, 1}
      BY <1>11, <1>13, <2>1
    <2>3. ~(rank[sorted[4]] < rank[sorted[k]])
      BY <1>6, <1>10, <2>1, <2>2
    <2> QED BY <1>11, <2>1, <2>2, <2>3
  <1>15. Cardinality(1..4) <= Cardinality(Features \ Moving)
    <2> DEFINE g == [k \in 1..4 |-> FeatureIds[sorted[k].of]]
    <2>1. \A k \in 1..4 : g[k] \in Features \ Moving
      <3> SUFFICES ASSUME NEW k \in 1..4 PROVE g[k] \in Features \ Moving
        OBVIOUS
      <3>1. sorted[k] \in rated /\ Small(sorted[k])
        BY <1>12, <1>14
      <3>2. g[k] \in Features /\ VarianceRatio(g[k]) = <<0, 1>>
        BY <1>2, <3>1
      <3> HIDE DEF g
      <3>3. g[k] \notin Moving
        <4> SUFFICES ASSUME g[k] \in Moving PROVE FALSE
          OBVIOUS
        <4>1. PICK s \in Nat : s # 0 /\ VarianceRatio(g[k]) = <<s, s>>
          BY <3>2, ShortRatio
        <4> QED BY <3>2, <4>1
      <3> QED BY <3>2, <3>3
    <2>2. \A k, l \in 1..4 : k < l => g[k] # g[l]
      <3> SUFFICES ASSUME NEW k \in 1..4, NEW l \in 1..4, g[k] = g[l], k < l PROVE FALSE
        OBVIOUS
      <3>1. sorted[k] \in rated /\ sorted[l] \in rated /\ <<sorted[k], sorted[l]>> \in order
        BY <1>8, <1>12
      <3>2. sorted[k] # sorted[l]
        BY <1>7, <3>1 DEF Sorts
      <3>3. sorted[k].of \in 1..6 /\ sorted[l].of \in 1..6
        BY <1>2, <3>1
      <3>4. FeatureIds[sorted[k].of] = FeatureIds[sorted[l].of]
        OBVIOUS
      <3> HIDE DEF g
      <3>5. sorted[k].of = sorted[l].of
        BY <3>3, <3>4, FeatureNames
      <3> QED BY <1>3, <3>1, <3>2, <3>5
    <2>3. DOMAIN g = 1..4
      OBVIOUS
    <2> HIDE DEF g
    <2>4. \A k, l \in 1..4 : g[k] = g[l] => k = l
      BY <2>2
    <2>5. g \in [1..4 -> Features \ Moving]
      <3>1. g = [k \in 1..4 |-> g[k]]
        BY <2>3 DEF g
      <3> QED BY <2>1, <3>1
    <2>6. g \in Injection(1..4, Features \ Moving)
      BY <2>4, <2>5 DEF Injection, IsInjective
    <2>7. IsFiniteSet(Features \ Moving)
      BY FeaturesAreSix, FS_Subset
    <2> QED BY <2>6, <2>7, FS_Injection
  <1>16. IsFiniteSet(Features \ Moving)
    BY FeaturesAreSix, FS_Subset
  <1>17. Cardinality(1..4) = 4 /\ Cardinality(Features \ Moving) \in Nat
    BY <1>16, UpTo, FS_CardinalityType
  <1> QED BY <1>15, <1>17

LEMMA SquareOrder ==
    ASSUME NEW a \in Nat, NEW b \in Nat
    PROVE  a * a <= b * b <=> a <= b
  <1>1. ASSUME a <= b PROVE a * a <= b * b
    BY <1>1
  <1>2. ASSUME b < a PROVE b * b < a * a
    BY <1>2
  <1>3. a * a \in Nat /\ b * b \in Nat
    OBVIOUS
  <1> QED BY <1>1, <1>2, <1>3

\* Without the roots of two squares, p and one root are at most the other.
LEMMA OneRootLess ==
    ASSUME NEW p \in Int, NEW r \in Nat, NEW s \in Nat,
           NEW u, u = r * r, NEW v, v = s * s
    PROVE  p + r <= s <=>
              \/ p <= 0 /\ (u <= v + p * p \/ Square(u - v - p * p) <= 4 * p * p * v)
              \/ p > 0 /\ u + p * p <= v /\ 4 * p * p * u <= Square(v - u - p * p)
  <1>1. u \in Nat /\ v \in Nat /\ p * p \in Nat
    OBVIOUS
  <1>2. CASE p <= 0
    <2> DEFINE q == -p
               w == 2 * q * s
               x == u - v - p * p
               t == s + q
    <2>1. q \in Nat /\ w \in Nat /\ x \in Int /\ t \in Nat
      <3>1. q \in Nat
        BY <1>2
      <3>2. q * s \in Nat
        BY <3>1, ProductIsNatural
      <3>3. 2 * q * s = 2 * (q * s)
        BY <3>1
      <3> QED BY <1>1, <3>1, <3>2, <3>3
    <2>2. w * w = 4 * p * p * v
      OBVIOUS
    <2>3. p + r <= s <=> r <= t
      OBVIOUS
    <2>4. r <= t <=> r * r <= t * t
      <3> HIDE DEF t
      <3> QED BY <2>1, SquareOrder
    <2>5. t * t = v + p * p + w
      OBVIOUS
    <2>6. r * r <= t * t <=> x <= w
      <3> HIDE DEF t, w
      <3> QED BY <1>1, <2>1, <2>5
    <2>7. u <= v + p * p <=> x <= 0
      BY <1>1
    <2>8. Square(x) = x * x
      BY DEF Square
    <2> HIDE DEF q, w, x, t
    <2>9. x > 0 => (x <= w <=> x * x <= w * w)
      BY <2>1, SquareOrder
    <2>10. x <= w <=> x <= 0 \/ x * x <= w * w
      BY <2>1, <2>9
    <2> QED BY <1>2, <2>2, <2>3, <2>4, <2>6, <2>7, <2>8, <2>10 DEF x
  <1>3. CASE p > 0
    <2> DEFINE w == 2 * p * r
               y == v - u - p * p
               t == p + r
    <2>1. w \in Nat /\ y \in Int /\ t \in Nat
      <3>1. p * r \in Nat
        BY <1>3, ProductIsNatural
      <3>2. 2 * p * r = 2 * (p * r)
        OBVIOUS
      <3> QED BY <1>1, <1>3, <3>1, <3>2
    <2>2. w * w = 4 * p * p * u
      OBVIOUS
    <2>3. t <= s <=> t * t <= s * s
      <3> HIDE DEF t
      <3> QED BY <2>1, SquareOrder
    <2>4. t * t = u + p * p + w
      OBVIOUS
    <2>5. t * t <= s * s <=> w <= y
      <3> HIDE DEF t, w
      <3> QED BY <1>1, <2>1, <2>4
    <2>6. u + p * p <= v <=> y >= 0
      BY <1>1
    <2>7. Square(y) = y * y
      BY DEF Square
    <2> HIDE DEF w, y
    <2>8. y >= 0 => (w <= y <=> w * w <= y * y)
      BY <2>1, SquareOrder
    <2>9. w <= y <=> y >= 0 /\ w * w <= y * y
      BY <2>1, <2>8
    <2> QED BY <1>3, <2>2, <2>3, <2>5, <2>6, <2>7, <2>9 DEF y
  <1> QED BY <1>2, <1>3

\* The distances themselves are compared: on their squares, RootsAtMost says what
\* it should.
THEOREM RootsAreCompared ==
    ASSUME NEW i \in Nat, NEW j \in Nat, NEW k \in Nat, NEW l \in Nat
    PROVE  RootsAtMost(i * i, j * j, k * k, l * l) <=> i + j <= k + l
  <1> DEFINE a == i * i
             b == j * j
             c == k * k
             d == l * l
             p == a + b - c - d
             r == 2 * i * j
             s == 2 * k * l
             u == 4 * a * b
             v == 4 * c * d
             Exact == \/ p <= 0 /\ (u <= v + p * p \/ Square(u - v - p * p) <= 4 * p * p * v)
                      \/ p > 0 /\ u + p * p <= v /\ 4 * p * p * u <= Square(v - u - p * p)
  <1>1. a \in Nat /\ b \in Nat /\ c \in Nat /\ d \in Nat
    BY ProductIsNatural
  <1>2. (a <= c <=> i <= k) /\ (b <= d <=> j <= l)
    BY SquareOrder
  <1>3. RootsAtMost(a, b, c, d) <=> (a <= c /\ b <= d) \/ ((a <= c \/ b <= d) /\ Exact)
    <2> HIDE DEF a, b, c, d
    <2> QED BY DEF RootsAtMost
  <1>4. r \in Nat /\ s \in Nat /\ p \in Int
    <2>1. i * j \in Nat /\ k * l \in Nat /\ 2 * i * j = 2 * (i * j) /\ 2 * k * l = 2 * (k * l)
      BY ProductIsNatural
    <2> HIDE DEF a, b, c, d
    <2> QED BY <1>1, <2>1
  <1>5. u = r * r /\ v = s * s
    OBVIOUS
  <1>6. p + r <= s <=> Exact
    <2> HIDE DEF p, r, s, u, v
    <2> QED BY <1>4, <1>5, OneRootLess
  <1>7. p + r <= s <=> i + j <= k + l
    <2> DEFINE e == i + j
               f == k + l
    <2>1. e \in Nat /\ f \in Nat
      OBVIOUS
    <2>2. e * e = a + b + r /\ f * f = c + d + s
      OBVIOUS
    <2>3. e * e <= f * f <=> e <= f
      <3> HIDE DEF e, f
      <3> QED BY <2>1, SquareOrder
    <2> HIDE DEF a, b, c, d, r, s
    <2> QED BY <1>1, <1>4, <2>2, <2>3
  <1> HIDE DEF Exact, a, b, c, d
  <1>8. RootsAtMost(a, b, c, d) <=> i + j <= k + l
    BY <1>2, <1>3, <1>6, <1>7
  <1> QED BY <1>8 DEF a, b, c, d

\* A smaller share of the same pair of roots.
LEMMA RootsShrink ==
    ASSUME NEW x \in Nat, NEW y \in Nat, NEW n \in {4, 6},
           RootsAtMost(100 * x, 100 * y, n * n * x, n * n * y)
    PROVE  y = 0
  <1> SUFFICES ASSUME y > 0 PROVE FALSE
    OBVIOUS
  <1> DEFINE m == n * n
             a == 100 * x
             b == 100 * y
             c == m * x
             d == m * y
             p == a + b - c - d
             u == 4 * a * b
             v == 4 * c * d
  <1>1. m \in {16, 36}
    OBVIOUS
  <1>2. b > d /\ (x > 0 => a > c)
    BY <1>1
  <1>3. x = 0
    <2> SUFFICES ASSUME x > 0 PROVE FALSE
      OBVIOUS
    <2>1. RootsAtMost(a, b, c, d) => a <= c \/ b <= d
      <3> HIDE DEF a, b, c, d
      <3> QED BY DEF RootsAtMost
    <2>2. a \in Nat /\ b \in Nat /\ c \in Nat /\ d \in Nat
      BY <1>1
    <2> HIDE DEF a, b, c, d, m
    <2> QED BY <1>2, <2>1, <2>2 DEF a, b, c, d, m
  <1>4. a = 0 /\ c = 0 /\ u = 0 /\ v = 0 /\ p \in Int /\ p > 0
    BY <1>1, <1>3
  <1>5. RootsAtMost(a, b, c, d) =>
           \/ a <= c /\ b <= d
           \/ p <= 0
           \/ u + p * p <= v
    <2> HIDE DEF a, b, c, d
    <2> QED BY DEF RootsAtMost
  <1>6. b \in Nat /\ d \in Nat
    BY <1>1
  <1>7. RootsAtMost(a, b, c, d)
    OBVIOUS
  <1> HIDE DEF a, b, c, d, p, u, v
  <1>8. u + p * p <= v
    BY <1>2, <1>4, <1>5, <1>6, <1>7
  <1>9. p * p > 0
    BY <1>4
  <1> QED BY <1>4, <1>8, <1>9

\* The sentinel says what the history shows.
LEMMA AlarmsAreStill == PastInv => ShortHistoryAlarmsOnlyStill
  <1> DEFINE still == Features \ Moving
             same == MiddleDistances(past).upper[1] = 0
  <1> SUFFICES ASSUME PastInv, Len(past) <= Cap
               PROVE  /\ WatchCondition => same \/ Cardinality(still \intersect Keys) >= 2
                      /\ RiskCondition => same /\ 2 * Cardinality(still) > Cardinality(Features)
    BY DEF ShortHistoryAlarmsOnlyStill, DiversityAlert
  <1>1. \A n \in {4, 6} : DistancesAtMost(n) => same
    <2> SUFFICES ASSUME NEW n \in {4, 6}, DistancesAtMost(n) PROVE same
      OBVIOUS
    <2>1. PICK x \in Nat : MiddleDistances(past).lower = <<x, 1>>
      BY ShortMiddles
    <2>2. PICK y \in Nat : MiddleDistances(past).upper = <<y, 1>>
      BY ShortMiddles
    <2>3. RootsAtMost(100 * x, 100 * y, n * n * x, n * n * y)
      <3>1. Baseline = past /\ Recent = past
        BY WindowsAreThePast
      <3>2. <<x, 1>>[1] = x /\ <<y, 1>>[1] = y
        OBVIOUS
      <3> QED BY <2>1, <2>2, <3>1, <3>2 DEF DistancesAtMost
    <2>4. y = 0
      BY <2>3, RootsShrink
    <2> QED BY <2>2, <2>4
  <1>3. /\ IsFiniteSet(still) /\ Cardinality(still) \in Nat
        /\ IsFiniteSet(still \intersect Keys) /\ Cardinality(still \intersect Keys) \in Nat
        /\ Cardinality(Features) \in Nat /\ Cardinality(Features) <= 6
    BY FeaturesAreSix, FS_Subset, FS_CardinalityType
  <1>4. KeyFeatureHits \subseteq still \intersect Keys
    <2> SUFFICES ASSUME NEW f \in KeyFeatureHits, f \in Moving PROVE FALSE
      BY FeatureNames DEF KeyFeatureHits, Keys, StereoKeys
    <2>1. f \in Features /\ ~RatioBelow(<<1, 2>>, VarianceRatio(f))
      BY DEF KeyFeatureHits, Moving
    <2>2. PICK s \in Nat : s # 0 /\ VarianceRatio(f) = <<s, s>>
      BY <2>1, ShortRatio
    <2> QED BY <2>1, <2>2 DEF RatioBelow
  <1>5. Cardinality(KeyFeatureHits) \in Nat
        /\ Cardinality(KeyFeatureHits) <= Cardinality(still \intersect Keys)
    BY <1>3, <1>4, FS_Subset, FS_CardinalityType
  <1>6. WatchCondition => same \/ Cardinality(still \intersect Keys) >= 2
    BY <1>1, <1>3, <1>5 DEF WatchCondition
  <1>7. ASSUME RiskCondition
        PROVE  same /\ 2 * Cardinality(still) > Cardinality(Features)
    <2>1. DistancesAtMost(4) /\ MedianRatioAtMost(3)
      BY <1>7 DEF RiskCondition
    <2>2. Cardinality(still) >= 4
      BY <2>1, StillFeatures
    <2> QED BY <1>1, <1>3, <2>1, <2>2
  <1> QED BY <1>6, <1>7

\* Whatever was recorded, while the windows are the same runs the sentinel warns
\* only of a project that stands still.
THEOREM AlarmsMeanStandstill == DiversitySpec => []ShortHistoryAlarmsOnlyStill
  BY PastInvariant, AlarmsAreStill, PTL

-----------------------------------------------------------------------------
(* The constitution advisor.                                               *)

AdvisorInv ==
    /\ PastInv
    /\ suggestion # NoSuggestion =>
          /\ past # <<>>
          /\ \E warn \in BOOLEAN : suggestion.corridors = Suggested(warn)

\* What is suggested was derived from the history as it is.
THEOREM AdvisorInvariant == AdvisorSpec => []AdvisorInv
  <1>1. AdvisorInit => AdvisorInv
    BY DEF AdvisorInit, DiversityInit, AdvisorInv, PastInv
  <1>2. ASSUME past' = past, NEW f
        PROVE  Measured(f)' = Measured(f)
    BY <1>2 DEF Measured
  <1>3. ASSUME past' = past, NEW warn \in BOOLEAN
        PROVE  Suggested(warn)' = Suggested(warn)
    <2>1. Advised' = Advised
      BY <1>2, <1>3 DEF Advised
    <2>2. \A f : Measured(f)' = Measured(f)
      BY <1>2, <1>3
    <2> QED BY <2>1, <2>2 DEF Suggested
  <1>4. AdvisorInv /\ [AdvisorNext]_<<past, suggestion>> => AdvisorInv'
    <2> SUFFICES ASSUME AdvisorInv, [AdvisorNext]_<<past, suggestion>> PROVE AdvisorInv'
      OBVIOUS
    <2>1. CASE suggestion = NoSuggestion /\ AddRun /\ UNCHANGED suggestion
      BY <2>1 DEF AdvisorInv, PastInv, AddRun
    <2>2. CASE Suggest
      <3>1. past' = past /\ past # <<>>
        BY <2>2 DEF Suggest
      <3>2. DiversityWarns \in BOOLEAN
        BY DEF DiversityWarns
      <3>3. suggestion'.corridors = Suggested(DiversityWarns)
        BY <2>2 DEF Suggest
      <3>4. \E warn \in BOOLEAN : suggestion'.corridors = Suggested(warn)'
        BY <1>3, <3>1, <3>2, <3>3
      <3> QED BY <3>1, <3>4 DEF AdvisorInv, PastInv
    <2>3. CASE UNCHANGED <<past, suggestion>>
      BY <1>3, <2>3 DEF AdvisorInv, PastInv
    <2> QED BY <2>1, <2>2, <2>3 DEF AdvisorNext
  <1> QED BY <1>1, <1>4, PTL DEF AdvisorSpec

LEMMA ClampedIs ==
    ASSUME NEW x \in Int, NEW lower \in Int, NEW upper \in Int, lower <= upper
    PROVE  Clamped(x, lower, upper) = IF x < lower THEN lower ELSE IF x > upper THEN upper ELSE x
  <1>1. Max({lower, x}) = (IF lower <= x THEN x ELSE lower) /\ Max({lower, x}) \in Int
    BY MinOfTwo
  <1>2. Min({upper, Max({lower, x})}) =
          IF upper <= Max({lower, x}) THEN upper ELSE Max({lower, x})
    BY <1>1, MinOfTwo
  <1> QED BY <1>1, <1>2 DEF Clamped

-----------------------------------------------------------------------------
(* Quantiles.                                                              *)

\* k tenths of the way between two multiples of 20000 is a multiple of 2000.
LEMMA TenthsOfTheWay ==
    ASSUME NEW a \in Int, NEW b \in Int, NEW k \in 0..9
    PROVE  /\ 20000 * a + (k * (20000 * b - 20000 * a)) \div 10 = 2000 * (10 * a + k * (b - a))
           /\ 10 * a + k * (b - a) \in Int
           /\ a <= b => 10 * a <= 10 * a + k * (b - a) /\ 10 * a + k * (b - a) <= 10 * b
  <1>1. k \in {0, 1, 2, 3, 4, 5, 6, 7, 8, 9}
    OBVIOUS
  <1> QED BY <1>1

\* Numbers in ascending order, in units of 1/20000.
Steps(s, n) == s \in [1..n -> Int] /\ \A k, l \in 1..n : k <= l => s[k] <= s[l]

\* The quantiles of at least one such number, in units of a tenth of those.
QuantileOf(s, n, tenths) ==
    LET position == (n - 1) * tenths
        k == position \div 10 + 1
    IN  IF k >= n THEN 10 * s[n] ELSE 10 * s[k] + (position % 10) * (s[k + 1] - s[k])

LEMMA QuantilesAreExact ==
    ASSUME NEW n \in Nat \ {0}, NEW s, Steps(s, n), NEW values, NEW tenths \in {1, 9},
           Ascending(values) = [k \in 1..n |-> 20000 * s[k]]
    PROVE  /\ Quantile(values, tenths) = 2000 * QuantileOf(s, n, tenths)
           /\ QuantileOf(s, n, tenths) \in Int
  <1> DEFINE sorted == Ascending(values)
             position == (n - 1) * tenths
             k == position \div 10 + 1
  <1>1. Len(sorted) = n /\ \A i \in 1..n : s[i] \in Int /\ sorted[i] = 20000 * s[i]
    BY DEF Steps
  <1>2. Quantile(values, tenths) =
          IF k >= n THEN sorted[n]
          ELSE sorted[k] + ((position % 10) * (sorted[k + 1] - sorted[k])) \div 10
    BY <1>1 DEF Quantile, Last
  <1>3. position \in Nat /\ k \in Nat \ {0} /\ position % 10 \in 0..9
    OBVIOUS
  <1> HIDE DEF sorted, k, position
  <1>4. QuantileOf(s, n, tenths) =
          IF k >= n THEN 10 * s[n] ELSE 10 * s[k] + (position % 10) * (s[k + 1] - s[k])
    BY DEF QuantileOf, k, position
  <1>5. CASE k >= n
    <2>1. n \in 1..n
      OBVIOUS
    <2> QED BY <1>1, <1>2, <1>4, <1>5, <2>1
  <1>6. CASE k < n
    <2>1. k \in 1..n /\ k + 1 \in 1..n
      BY <1>3, <1>6
    <2>2. /\ s[k] \in Int /\ s[k + 1] \in Int
          /\ sorted[k] = 20000 * s[k] /\ sorted[k + 1] = 20000 * s[k + 1]
      BY <1>1, <2>1
    <2> DEFINE r == position % 10
    <2>3. r \in 0..9
      BY <1>3
    <2>4. /\ Quantile(values, tenths)
               = 20000 * s[k] + (r * (20000 * s[k + 1] - 20000 * s[k])) \div 10
          /\ QuantileOf(s, n, tenths) = 10 * s[k] + r * (s[k + 1] - s[k])
      BY <1>2, <1>3, <1>4, <1>6, <2>2
    <2> DEFINE x == s[k]
               y == s[k + 1]
    <2>5. x \in Int /\ y \in Int
      BY <2>2
    <2> HIDE DEF r, x, y
    <2>6. /\ 20000 * x + (r * (20000 * y - 20000 * x)) \div 10 = 2000 * (10 * x + r * (y - x))
          /\ 10 * x + r * (y - x) \in Int
      BY <2>3, <2>5, TenthsOfTheWay
    <2> QED BY <2>4, <2>6 DEF x, y
  <1> QED BY <1>3, <1>5, <1>6

\* The tenth percentile is at most the ninetieth; of up to ten numbers only the
\* first is below the one, and only the last above the other.
LEMMA QuantilesAreOrdered ==
    ASSUME NEW n \in Nat \ {0}, NEW s, Steps(s, n)
    PROVE  /\ QuantileOf(s, n, 1) <= QuantileOf(s, n, 9)
           /\ n <= 10 => \A i \in 2..(n - 1) :
                 QuantileOf(s, n, 1) <= 10 * s[i] /\ 10 * s[i] <= QuantileOf(s, n, 9)
  <1> DEFINE p == (n - 1) \div 10 + 1
             a == (n - 1) % 10
             q == ((n - 1) * 9) \div 10 + 1
             b == ((n - 1) * 9) % 10
  <1>1. /\ QuantileOf(s, n, 1) = IF p >= n THEN 10 * s[n] ELSE 10 * s[p] + a * (s[p + 1] - s[p])
        /\ QuantileOf(s, n, 9) = IF q >= n THEN 10 * s[n] ELSE 10 * s[q] + b * (s[q + 1] - s[q])
    BY DEF QuantileOf
  <1>2. \A i \in 1..n : s[i] \in Int
    BY DEF Steps
  <1>3. CASE n = 1
    BY <1>1, <1>2, <1>3
  <1>4. CASE n = 2
    <2>1. p = 1 /\ q = 1 /\ a = 1 /\ b = 9
      BY <1>4
    <2>2. s[1] \in Int /\ s[2] \in Int /\ s[1] <= s[2]
      BY <1>4 DEF Steps
    <2> HIDE DEF p, q, a, b
    <2> QED BY <1>1, <1>4, <2>1, <2>2
  <1>5. CASE n > 2
    <2>1. /\ p \in 1..n /\ p + 1 \in 1..n /\ q \in 1..n /\ q + 1 \in 1..n
          /\ p + 1 <= q /\ a \in 0..9 /\ b \in 0..9
      BY <1>5
    <2>2. n <= 10 => p = 1 /\ q = n - 1
      BY <1>5
    <2> HIDE DEF p, q, a, b
    <2>3. /\ s[p] \in Int /\ s[p + 1] \in Int /\ s[p] <= s[p + 1]
          /\ s[q] \in Int /\ s[q + 1] \in Int /\ s[q] <= s[q + 1]
          /\ s[p + 1] <= s[q]
      BY <2>1 DEF Steps
    <2>4. QuantileOf(s, n, 1) <= 10 * s[p + 1] /\ QuantileOf(s, n, 1) \in Int
      <3>1. QuantileOf(s, n, 1) = 10 * s[p] + a * (s[p + 1] - s[p])
        BY <1>1, <2>1
      <3>2. /\ 10 * s[p] + a * (s[p + 1] - s[p]) \in Int
            /\ 10 * s[p] + a * (s[p + 1] - s[p]) <= 10 * s[p + 1]
        BY <2>1, <2>3, TenthsOfTheWay
      <3> QED BY <3>1, <3>2
    <2>5. 10 * s[q] <= QuantileOf(s, n, 9) /\ QuantileOf(s, n, 9) \in Int
      <3>1. QuantileOf(s, n, 9) = 10 * s[q] + b * (s[q + 1] - s[q])
        BY <1>1, <2>1
      <3>2. /\ 10 * s[q] + b * (s[q + 1] - s[q]) \in Int
            /\ 10 * s[q] <= 10 * s[q] + b * (s[q + 1] - s[q])
        BY <2>1, <2>3, TenthsOfTheWay
      <3> QED BY <3>1, <3>2
    <2>6. QuantileOf(s, n, 1) <= QuantileOf(s, n, 9)
      BY <2>3, <2>4, <2>5
    <2>7. ASSUME n <= 10, NEW i \in 2..(n - 1)
          PROVE  QuantileOf(s, n, 1) <= 10 * s[i] /\ 10 * s[i] <= QuantileOf(s, n, 9)
      <3>1. s[i] \in Int /\ s[p + 1] <= s[i] /\ s[i] <= s[q]
        BY <2>1, <2>2, <2>7 DEF Steps
      <3> QED BY <2>3, <2>4, <2>5, <3>1
    <2> QED BY <2>6, <2>7
  <1> QED BY <1>3, <1>4, <1>5

-----------------------------------------------------------------------------
(* Corridors.                                                              *)

IsCorridor(r) == \E x, y \in Int : x <= y /\ r = Corridor(x, y)
IsEven(r) == \E m, n \in Int : m <= n /\ r = Corridor(2 * m, 2 * n)
Within(r, s) == s.min <= r.min /\ r.max <= s.max

LEMMA EvenIsCorridor ==
    ASSUME NEW r, IsEven(r)
    PROVE  IsCorridor(r)
  <1>1. PICK m, n \in Int : m <= n /\ r = Corridor(2 * m, 2 * n)
    BY DEF IsEven
  <1> DEFINE x == 2 * m
             y == 2 * n
  <1>2. x \in Int /\ y \in Int /\ x <= y
    BY <1>1
  <1> HIDE DEF x, y
  <1>3. r = Corridor(x, y)
    BY <1>1 DEF x, y
  <1> QED BY <1>2, <1>3 DEF IsCorridor

\* Widening by 3 twentieths and then to a minimum width: a corridor of even
\* ends, so that its middle is exact, around the quantiles.
LEMMA FlooredCorridor ==
    ASSUME NEW a \in Int, NEW b \in Int, a <= b, NEW floor \in Nat, floor % 4 = 0
    PROVE  LET r == EnforceMinWidth(Widen(Corridor(2000 * a, 2000 * b), 3), floor)
           IN  IsEven(r) /\ Within(Corridor(2000 * a, 2000 * b), r)
  <1> DEFINE base == Widen(Corridor(2000 * a, 2000 * b), 3)
             c == floor \div 4
  <1>1. base = Corridor(2150 * a - 150 * b, 2150 * b - 150 * a)
    <2>1. ((2000 * b - 2000 * a) * (20 + 3)) \div 40 = 1150 * (b - a)
      OBVIOUS
    <2>2. (2000 * a + 2000 * b) \div 2 = 1000 * (a + b)
      OBVIOUS
    <2>3. base = Corridor(1000 * (a + b) - 1150 * (b - a), 1000 * (a + b) + 1150 * (b - a))
      BY <2>1, <2>2 DEF Widen, Around, Corridor, Width, Midpoint
    <2> QED BY <2>3
  <1>2. c \in Nat /\ floor = 4 * c /\ floor \div 2 = 2 * c
    OBVIOUS
  <1>3. Width(base) = 2300 * (b - a) /\ Midpoint(base) = 1000 * (a + b)
    BY <1>1 DEF Width, Midpoint, Corridor
  <1> HIDE DEF base, c
  <1> SUFFICES \E m, n \in Int : /\ EnforceMinWidth(base, floor) = Corridor(2 * m, 2 * n)
                                 /\ 2 * m <= 2000 * a /\ 2000 * b <= 2 * n
    <2>1. ASSUME NEW m \in Int, NEW n \in Int,
                 EnforceMinWidth(base, floor) = Corridor(2 * m, 2 * n),
                 2 * m <= 2000 * a, 2000 * b <= 2 * n
          PROVE  /\ IsEven(EnforceMinWidth(base, floor))
                 /\ Within(Corridor(2000 * a, 2000 * b), EnforceMinWidth(base, floor))
      <3>1. m <= n
        BY <2>1
      <3>2. IsEven(EnforceMinWidth(base, floor))
        BY <2>1, <3>1 DEF IsEven
      <3>3. Within(Corridor(2000 * a, 2000 * b), Corridor(2 * m, 2 * n))
        BY <2>1 DEF Within, Corridor
      <3> QED BY <2>1, <3>2, <3>3
    <2> QED BY <2>1 DEF base
  <1>4. CASE 2300 * (b - a) >= floor
    <2> DEFINE m == 1075 * a - 75 * b
               n == 1075 * b - 75 * a
    <2>1. /\ m \in Int /\ n \in Int
          /\ 2 * m = 2150 * a - 150 * b /\ 2 * n = 2150 * b - 150 * a
          /\ 2 * m <= 2000 * a /\ 2000 * b <= 2 * n
      OBVIOUS
    <2> HIDE DEF m, n
    <2>2. EnforceMinWidth(base, floor) = Corridor(2 * m, 2 * n)
      BY <1>1, <1>3, <1>4, <2>1 DEF EnforceMinWidth
    <2> QED BY <2>1, <2>2
  <1>5. CASE 2300 * (b - a) < floor
    <2> DEFINE m == 500 * (a + b) - c
               n == 500 * (a + b) + c
    <2>1. /\ m \in Int /\ n \in Int
          /\ 2 * m = 1000 * (a + b) - 2 * c /\ 2 * n = 1000 * (a + b) + 2 * c
          /\ 2 * m <= 2000 * a /\ 2000 * b <= 2 * n
      BY <1>2, <1>5
    <2> HIDE DEF m, n
    <2>2. EnforceMinWidth(base, floor) = Corridor(2 * m, 2 * n)
      BY <1>2, <1>3, <1>5, <2>1 DEF EnforceMinWidth, Around
    <2> QED BY <2>1, <2>2
  <1> QED BY <1>4, <1>5

\* The second widening contains what it widens.
LEMMA WidenContains ==
    ASSUME NEW r, IsEven(r)
    PROVE  IsCorridor(Widen(r, 4)) /\ Within(r, Widen(r, 4))
  <1>1. PICK m, n \in Int : m <= n /\ r = Corridor(2 * m, 2 * n)
    BY DEF IsEven
  <1> DEFINE half == ((2 * n - 2 * m) * (20 + 4)) \div 40
             x == m + n - half
             y == m + n + half
  <1>2. half \in Int /\ half >= n - m
    BY <1>1
  <1>3. (2 * m + 2 * n) \div 2 = m + n
    OBVIOUS
  <1>4. Widen(r, 4) = Corridor(x, y)
    BY <1>1, <1>3 DEF Widen, Around, Corridor, Width, Midpoint
  <1> HIDE DEF half
  <1>5. x \in Int /\ y \in Int /\ x <= y /\ x <= 2 * m /\ 2 * n <= y
    BY <1>1, <1>2
  <1> HIDE DEF x, y
  <1>6. IsCorridor(Corridor(x, y))
    BY <1>5 DEF IsCorridor
  <1>7. Within(r, Corridor(x, y))
    BY <1>1, <1>5 DEF Within, Corridor
  <1> QED BY <1>4, <1>6, <1>7

FineUnit == Fine \div 20000
OneUnit == FineUnit * Unit

LEMMA FineIs ==
    /\ FineUnit \in Nat \ {0} /\ Fine = 20000 * FineUnit
    /\ OneUnit \in Nat \ {0} /\ One = 20000 * OneUnit
  <1>1. Fine \in Nat \ {0} /\ Fine % 20000 = 0 /\ Unit \in Nat \ {0}
    BY AdvisorAssumption
  <1>2. FineUnit \in Nat \ {0} /\ Fine = 20000 * FineUnit
    BY <1>1 DEF FineUnit
  <1>3. \A a, b \in Nat \ {0} : a * b \in Nat \ {0} /\ (20000 * a) * b = 20000 * (a * b)
    OBVIOUS
  <1> QED BY <1>1, <1>2, <1>3 DEF OneUnit, One

\* What the corridors of a feature are clamped to.
Lowest(f) == IF f = "correlation" THEN -One ELSE 0
Highest(f) == IF f = "correlation" THEN One ELSE 6 * One
IsClamped(f) == f \in {"correlation", "balance"}

LEMMA ClampIs ==
    ASSUME NEW x \in Int, NEW y \in Int, NEW f
    PROVE  /\ Lowest(f) \in Int /\ Highest(f) \in Int /\ Lowest(f) <= Highest(f)
           /\ Clamp(Corridor(x, y), f) =
                IF IsClamped(f) THEN Corridor(Clamped(x, Lowest(f), Highest(f)),
                                              Clamped(y, Lowest(f), Highest(f)))
                ELSE Corridor(x, y)
  <1>1. Lowest(f) \in Int /\ Highest(f) \in Int /\ Lowest(f) <= Highest(f)
    BY FineIs DEF Lowest, Highest
  <1>2. Corridor(x, y).min = x /\ Corridor(x, y).max = y
    BY DEF Corridor
  <1> QED BY <1>1, <1>2 DEF Clamp, IsClamped, Lowest, Highest

InLimits(r, f) == IsClamped(f) => Lowest(f) <= r.min /\ r.max <= Highest(f)

\* Clamping keeps the ends even and in order, and what lies in both the corridor
\* and the limits.
LEMMA ClampKeeps ==
    ASSUME NEW r, IsEven(r), NEW f
    PROVE  LET c == Clamp(r, f) IN
           /\ IsEven(c) /\ InLimits(c, f)
           /\ \A t \in r.min..r.max :
                 (IsClamped(f) => t \in Lowest(f)..Highest(f)) => t \in c.min..c.max
  <1>0. PICK m, n \in Int : m <= n /\ r = Corridor(2 * m, 2 * n)
    BY DEF IsEven
  <1> DEFINE l == Lowest(f)
             h == Highest(f)
  <1>1. l \in Int /\ h \in Int /\ l <= h
    BY ClampIs
  <1>2. PICK i, j \in Int : l = 2 * i /\ h = 2 * j
    <2> DEFINE k == 10000 * OneUnit
               minus == -k
               six == 6 * k
    <2>1. /\ k \in Int /\ minus \in Int /\ six \in Int
          /\ One = 2 * k /\ -One = 2 * minus /\ 6 * One = 2 * six /\ 0 = 2 * 0
      BY FineIs
    <2> HIDE DEF k, minus, six
    <2>2. CASE f = "correlation"
      <3>1. l = -One /\ h = One
        BY <2>2 DEF Lowest, Highest
      <3> HIDE DEF l, h
      <3> QED BY <2>1, <3>1
    <2>3. CASE f # "correlation"
      <3>1. l = 0 /\ h = 6 * One
        BY <2>3 DEF Lowest, Highest
      <3> HIDE DEF l, h
      <3>2. 0 \in Int
        OBVIOUS
      <3> QED BY <2>1, <3>1, <3>2
    <2> QED BY <2>2, <2>3
  <1> HIDE DEF l, h
  <1>3. CASE IsClamped(f)
    <2> DEFINE p == IF m < i THEN i ELSE IF m > j THEN j ELSE m
               q == IF n < i THEN i ELSE IF n > j THEN j ELSE n
    <2>1. /\ Clamped(2 * m, l, h) = IF 2 * m < l THEN l ELSE IF 2 * m > h THEN h ELSE 2 * m
          /\ Clamped(2 * n, l, h) = IF 2 * n < l THEN l ELSE IF 2 * n > h THEN h ELSE 2 * n
      BY <1>1, ClampedIs
    <2>2. Clamped(2 * m, l, h) = 2 * p /\ Clamped(2 * n, l, h) = 2 * q
      BY <1>2, <2>1
    <2>3. Clamp(r, f) = Corridor(2 * p, 2 * q)
      BY <1>0, <1>3, <2>2, ClampIs DEF l, h
    <2>4. /\ p \in Int /\ q \in Int /\ p <= q /\ l <= 2 * p /\ 2 * q <= h
          /\ \A t \in (2 * m)..(2 * n) : t \in l..h => t \in (2 * p)..(2 * q)
      BY <1>0, <1>1, <1>2
    <2> HIDE DEF p, q
    <2>5. IsEven(Clamp(r, f))
      BY <2>3, <2>4 DEF IsEven
    <2>6. Clamp(r, f).min = 2 * p /\ Clamp(r, f).max = 2 * q /\ r.min = 2 * m /\ r.max = 2 * n
      BY <1>0, <2>3 DEF Corridor
    <2>7. InLimits(Clamp(r, f), f)
      BY <2>4, <2>6 DEF InLimits, l, h
    <2> QED BY <1>3, <2>4, <2>5, <2>6, <2>7 DEF l, h
  <1>4. CASE ~IsClamped(f)
    <2>1. Clamp(r, f) = r
      <3> DEFINE x == 2 * m
                 y == 2 * n
      <3>1. x \in Int /\ y \in Int
        OBVIOUS
      <3> HIDE DEF x, y
      <3>2. Clamp(Corridor(x, y), f) = Corridor(x, y)
        BY <1>4, <3>1, ClampIs
      <3> QED BY <1>0, <3>2 DEF x, y
    <2> QED BY <1>4, <2>1 DEF InLimits
  <1> QED BY <1>3, <1>4

\* Clamping what contains a clamped corridor leaves it around it.
LEMMA ClampContains ==
    ASSUME NEW r, IsCorridor(r), NEW s, IsCorridor(s), NEW f, InLimits(s, f), Within(s, r)
    PROVE  IsCorridor(Clamp(r, f)) /\ Within(s, Clamp(r, f))
  <1>1. PICK x, y \in Int : x <= y /\ r = Corridor(x, y)
    BY DEF IsCorridor
  <1>2. PICK p, q \in Int : p <= q /\ s = Corridor(p, q)
    BY DEF IsCorridor
  <1>3. x <= p /\ q <= y
    BY <1>1, <1>2 DEF Within, Corridor
  <1> DEFINE l == Lowest(f)
             h == Highest(f)
  <1>4. l \in Int /\ h \in Int /\ l <= h
    BY ClampIs
  <1>5. CASE IsClamped(f)
    <2> DEFINE v == Clamped(x, l, h)
               w == Clamped(y, l, h)
    <2>1. /\ v = IF x < l THEN l ELSE IF x > h THEN h ELSE x
          /\ w = IF y < l THEN l ELSE IF y > h THEN h ELSE y
      BY <1>4, ClampedIs
    <2>2. Clamp(r, f) = Corridor(v, w)
      BY <1>1, <1>5, ClampIs
    <2>3. l <= p /\ q <= h
      BY <1>2, <1>5 DEF InLimits, Corridor
    <2> HIDE DEF l, h, v, w
    <2>4. v \in Int /\ w \in Int /\ v <= p /\ q <= w /\ v <= w
      BY <1>1, <1>2, <1>3, <1>4, <2>1, <2>3
    <2> QED BY <1>2, <2>2, <2>4 DEF IsCorridor, Within, Corridor
  <1>6. CASE ~IsClamped(f)
    BY <1>1, <1>6, ClampIs
  <1> QED BY <1>5, <1>6

\* The two corridors that are built of some values.
CalmCorridor(values, f) ==
    Clamp(EnforceMinWidth(Widen(Corridor(Quantile(values, 1), Quantile(values, 9)), 3), FloorOf[f]), f)
WarnedCorridor(values, f) == Clamp(Widen(CalmCorridor(values, f), 4), f)

LEMMA CorridorIs ==
    ASSUME NEW values, NEW f, NEW warn \in BOOLEAN
    PROVE  BuildCorridor(values, f, warn) =
             IF warn THEN WarnedCorridor(values, f) ELSE CalmCorridor(values, f)
  BY DEF BuildCorridor, WarnedCorridor, CalmCorridor

\* Of the measurements of a feature: the corridor contains what lies between the
\* quantiles and the limits, and the one with a warning contains it.
LEMMA CorridorsContain ==
    ASSUME NEW n \in Nat \ {0}, NEW s, Steps(s, n), NEW values, NEW f \in AdvisedFeatures,
           Ascending(values) = [k \in 1..n |-> 20000 * s[k]],
           NEW calm, calm = CalmCorridor(values, f), NEW warned, warned = WarnedCorridor(values, f)
    PROVE  /\ IsCorridor(calm) /\ IsCorridor(warned) /\ Within(calm, warned)
           /\ InLimits(calm, f)
           /\ \A t \in (2000 * QuantileOf(s, n, 1))..(2000 * QuantileOf(s, n, 9)) :
                 (IsClamped(f) => t \in Lowest(f)..Highest(f)) => t \in calm.min..calm.max
  <1> DEFINE a == QuantileOf(s, n, 1)
             b == QuantileOf(s, n, 9)
             base == Widen(Corridor(Quantile(values, 1), Quantile(values, 9)), 3)
             wide == EnforceMinWidth(base, FloorOf[f])
             floored == Clamp(wide, f)
             wider == Widen(floored, 4)
  <1>1. a \in Int /\ b \in Int /\ a <= b
    BY QuantilesAreExact, QuantilesAreOrdered
  <1>2. base = Widen(Corridor(2000 * a, 2000 * b), 3)
    BY QuantilesAreExact
  <1>3. calm = floored /\ warned = Clamp(wider, f)
    BY DEF CalmCorridor, WarnedCorridor
  <1>4. FloorOf[f] \in Nat /\ FloorOf[f] % 4 = 0
    BY AdvisorAssumption
  <1> HIDE DEF a, b
  <1>5. IsEven(wide) /\ Within(Corridor(2000 * a, 2000 * b), wide)
    <2> DEFINE floor == FloorOf[f]
    <2>1. floor \in Nat /\ floor % 4 = 0
      BY <1>4
    <2>2. wide = EnforceMinWidth(Widen(Corridor(2000 * a, 2000 * b), 3), floor)
      BY <1>2
    <2> HIDE DEF floor, wide, base
    <2>3. /\ IsEven(EnforceMinWidth(Widen(Corridor(2000 * a, 2000 * b), 3), floor))
          /\ Within(Corridor(2000 * a, 2000 * b),
                    EnforceMinWidth(Widen(Corridor(2000 * a, 2000 * b), 3), floor))
      BY <1>1, <2>1, FlooredCorridor
    <2> QED BY <2>2, <2>3
  <1> HIDE DEF wide
  <1>6. /\ IsEven(floored) /\ InLimits(floored, f)
        /\ \A t \in wide.min..wide.max :
              (IsClamped(f) => t \in Lowest(f)..Highest(f)) => t \in floored.min..floored.max
    BY <1>5, ClampKeeps
  <1> HIDE DEF floored
  <1>7. IsCorridor(wider) /\ Within(floored, wider) /\ IsCorridor(floored)
    BY <1>6, WidenContains, EvenIsCorridor
  <1> HIDE DEF wider
  <1>8. IsCorridor(Clamp(wider, f)) /\ Within(floored, Clamp(wider, f))
    BY <1>6, <1>7, ClampContains
  <1>9. ASSUME NEW t \in (2000 * a)..(2000 * b),
               IsClamped(f) => t \in Lowest(f)..Highest(f)
        PROVE  t \in floored.min..floored.max
    <2>1. PICK i, j \in Int : i <= j /\ wide = Corridor(i, j)
      BY <1>5, EvenIsCorridor DEF IsCorridor
    <2>2. i <= 2000 * a /\ 2000 * b <= j
      BY <1>5, <2>1 DEF Within, Corridor
    <2>3. t \in i..j
      BY <1>1, <1>9, <2>2
    <2>4. t \in wide.min..wide.max
      BY <2>1, <2>3 DEF Corridor
    <2> QED BY <1>6, <1>9, <2>4
  <1>10. \A t \in (2000 * a)..(2000 * b) :
            (IsClamped(f) => t \in Lowest(f)..Highest(f)) => t \in floored.min..floored.max
    BY <1>9
  <1> HIDE DEF base
  <1>11. IsCorridor(calm) /\ IsCorridor(warned)
    BY <1>3, <1>7, <1>8
  <1>12. Within(calm, warned) /\ InLimits(calm, f)
    BY <1>3, <1>6, <1>8
  <1>13. \A t \in (2000 * a)..(2000 * b) :
            (IsClamped(f) => t \in Lowest(f)..Highest(f)) => t \in calm.min..calm.max
    BY <1>3, <1>10
  <1> QED BY <1>11, <1>12, <1>13 DEF a, b

-----------------------------------------------------------------------------
(* Suggestions.                                                            *)

\* A feature is advised on from at least one measurement, in steps of 1/20000 and
\* within its range.
LEMMA MeasuredInSteps ==
    ASSUME PastInv, past # <<>>, NEW f \in Advised
    PROVE  \E n \in Nat \ {0} : \E s :
              /\ n <= Len(past) /\ Steps(s, n)
              /\ Ascending(Measured(f)) = [k \in 1..n |-> 20000 * s[k]]
              /\ \A k \in 1..n : /\ f = "correlation" => 20000 * s[k] \in (-One)..One
                                 /\ f = "balance" => 20000 * s[k] >= 0
  <1> DEFINE D == DOMAIN Measured(f)
             n == Cardinality(D)
             sorted == Ascending(Measured(f))
  <1>1. /\ DOMAIN past = 1..Len(past) /\ Len(past) \in Nat /\ Len(past) # 0
        /\ \A i \in 1..Len(past) : past[i] \in Recordings
    BY DEF PastInv
  <1>2. f \in AdvisedFeatures /\ f \in Features
    BY FeatureNames DEF Advised, AdvisedFeatures
  <1>3. D = {i \in 1..Len(past) : past[i].value[f] # Missing}
    BY <1>1 DEF Measured
  <1>4. ASSUME NEW i \in D
        PROVE  \E z \in Int : /\ Measured(f)[i] = 20000 * z
                              /\ f = "correlation" => 20000 * z \in (-One)..One
                              /\ f = "balance" => 20000 * z >= 0
    <2> DEFINE v == past[i].value[f]
               x == IF f = "balance" THEN Magnitude(v) ELSE v
               z == FineUnit * x
    <2>1. past[i] \in Recordings /\ v # Missing
      BY <1>1, <1>3
    <2>2. v \in Int /\ (f = "correlation" => v \in (-Unit)..Unit)
      BY <1>2, <2>1, DiversityAssumption, AdvisorAssumption
    <2>3. Measured(f)[i] = Fine * x
      BY <1>3 DEF Measured
    <2> HIDE DEF v
    <2>4. x \in Int /\ (f = "balance" => x >= 0) /\ (f = "correlation" => x \in (-Unit)..Unit)
      BY <2>2 DEF Magnitude
    <2> HIDE DEF x
    <2>5. z \in Int /\ Fine * x = 20000 * z
      BY <2>4, FineIs
    <2>6. f = "correlation" => 20000 * z \in (-One)..One
      <3> SUFFICES ASSUME f = "correlation" PROVE 20000 * z \in (-One)..One
        OBVIOUS
      <3>1. FineUnit \in Nat \ {0} /\ Unit \in Nat /\ One = 20000 * (FineUnit * Unit)
        BY FineIs, AdvisorAssumption DEF OneUnit
      <3>2. x \in Int /\ -Unit <= x /\ x <= Unit
        BY <2>4, <3>1
      <3>3. \A k \in Nat \ {0}, a, b \in Int : a <= b => k * a <= k * b
        OBVIOUS
      <3>4. z <= FineUnit * Unit
        BY <3>1, <3>2, <3>3
      <3>5. FineUnit * (-Unit) <= z
        BY <3>1, <3>2, <3>3
      <3>6. FineUnit * (-Unit) = -(FineUnit * Unit) /\ FineUnit * Unit \in Nat
        BY <3>1
      <3> QED BY <2>5, <3>1, <3>4, <3>5, <3>6
    <2>7. f = "balance" => 20000 * z >= 0
      BY <2>4, FineIs
    <2> HIDE DEF z
    <2> QED BY <2>3, <2>5, <2>6, <2>7
  <1>5. IsFiniteSet(D) /\ D \in SUBSET Int /\ n \in Nat /\ n <= Len(past)
    <2>1. IsFiniteSet(1..Len(past)) /\ Cardinality(1..Len(past)) = Len(past)
      BY <1>1, UpTo
    <2>2. D \in SUBSET (1..Len(past))
      BY <1>3
    <2> HIDE DEF D
    <2>3. IsFiniteSet(D) /\ n \in Nat /\ n <= Len(past)
      BY <2>1, <2>2, FS_Subset, FS_CardinalityType
    <2>4. D \in SUBSET Int
      BY <2>2
    <2> QED BY <2>3, <2>4
  <1>6. n # 0
    <2>1. CASE f \in StereoKeys
      <3>1. n >= 2
        BY <2>1 DEF Advised
      <3> HIDE DEF n
      <3> QED BY <1>5, <3>1
    <2>2. CASE f \notin StereoKeys
      <3>1. past[1].value[f] # Missing
        BY <1>1, <1>2, <2>2, DiversityAssumption
      <3>2. 1 \in D
        BY <1>1, <1>3, <3>1
      <3> HIDE DEF D
      <3> QED BY <1>5, <3>2, FS_EmptySet
    <2> QED BY <2>1, <2>2
  <1>7. \A i \in D : Measured(f)[i] \in Int
    BY <1>4
  <1>8. /\ sorted \in [1..n -> Int]
        /\ \A k \in 1..n : \E i \in D : sorted[k] = Measured(f)[i]
        /\ \A k, l \in 1..n : k <= l => sorted[k] <= sorted[l]
    <2> DEFINE values == Measured(f)
    <2>1. DOMAIN values = D /\ \A i \in D : values[i] \in Int
      BY <1>7
    <2> HIDE DEF values, D
    <2>2. LET a == Ascending(values)
              c == Cardinality(D)
          IN  /\ c \in Nat /\ a \in [1..c -> Int]
              /\ \A k \in 1..c : \E i \in D : a[k] = values[i]
              /\ \A k, l \in 1..c : k <= l => a[k] <= a[l]
      BY <1>5, <2>1, AscendingIsSorted
    <2> QED BY <2>2 DEF values
  <1> HIDE DEF D, n, sorted
  <1> DEFINE s == [k \in 1..n |-> sorted[k] \div 20000]
  <1>9. ASSUME NEW k \in 1..n
        PROVE  /\ s[k] \in Int /\ sorted[k] = 20000 * s[k]
               /\ f = "correlation" => 20000 * s[k] \in (-One)..One
               /\ f = "balance" => 20000 * s[k] >= 0
    <2>1. PICK i \in D : sorted[k] = Measured(f)[i]
      BY <1>8
    <2>2. PICK z \in Int : /\ sorted[k] = 20000 * z
                           /\ f = "correlation" => 20000 * z \in (-One)..One
                           /\ f = "balance" => 20000 * z >= 0
      BY <1>4, <2>1
    <2>3. s[k] = z
      BY <2>2
    <2> QED BY <2>2, <2>3
  <1>10. s \in [1..n -> Int]
    BY <1>9
  <1>11. sorted = [k \in 1..n |-> 20000 * s[k]]
    BY <1>8, <1>9
  <1> HIDE DEF s
  <1>12. \A k, l \in 1..n : k <= l => s[k] <= s[l]
    BY <1>8, <1>9
  <1>13. Steps(s, n)
    BY <1>10, <1>12 DEF Steps
  <1> QED BY <1>5, <1>6, <1>9, <1>11, <1>13 DEF sorted

\* What is suggested for a feature, from the corridor built for it.
LowOf(r, f) == IF f = "balance" THEN 0 ELSE r.min
HighOf(r, f) ==
    IF f = "correlation" THEN One
    ELSE IF f = "balance"
         THEN LET h == IF r.max < One \div 2 THEN One \div 2 ELSE r.max
              IN  IF h > 6 * One THEN 6 * One ELSE h
    ELSE r.max

LEMMA SuggestedIs ==
    ASSUME NEW warn \in BOOLEAN, NEW f \in Advised,
           NEW r, IsCorridor(r),
           r = IF warn THEN WarnedCorridor(Measured(f), f) ELSE CalmCorridor(Measured(f), f)
    PROVE  Suggested(warn)[f].min = LowOf(r, f) /\ Suggested(warn)[f].max = HighOf(r, f)
  <1> DEFINE h == IF r.max < One \div 2 THEN One \div 2 ELSE r.max
  <1>1. PICK x, y \in Int : r = Corridor(x, y)
    BY DEF IsCorridor
  <1>2. r.min \in Int /\ r.max \in Int
    BY <1>1 DEF Corridor
  <1>3. One \in Nat /\ 6 * One \in Nat /\ One \div 2 \in Nat
    BY FineIs
  <1>4. Suggested(warn)[f] =
          IF f = "correlation" THEN Corridor(r.min, One)
          ELSE IF f = "balance" THEN Corridor(0, Clamped(Max({r.max, One \div 2}), 0, 6 * One))
          ELSE r
    BY CorridorIs DEF Suggested
  <1>5. Max({r.max, One \div 2}) = h
    <2> DEFINE e == r.max
               l == One \div 2
    <2>1. e \in Int /\ l \in Int
      BY <1>2, <1>3
    <2> HIDE DEF e, l
    <2>2. Max({e, l}) = IF e <= l THEN l ELSE e
      BY <2>1, MinOfTwo
    <2> QED BY <2>1, <2>2 DEF e, l
  <1>6. h \in Int /\ h >= 0
    BY <1>2, <1>3
  <1> HIDE DEF h
  <1>7. Clamped(h, 0, 6 * One) = IF h > 6 * One THEN 6 * One ELSE h
    BY <1>3, <1>6, ClampedIs
  <1>8. CASE f = "balance"
    <2>1. Suggested(warn)[f] = Corridor(0, IF h > 6 * One THEN 6 * One ELSE h)
      BY <1>4, <1>5, <1>7, <1>8
    <2>2. HighOf(r, f) = IF h > 6 * One THEN 6 * One ELSE h
      BY <1>8 DEF HighOf, h
    <2> QED BY <1>8, <2>1, <2>2 DEF Corridor, LowOf
  <1>9. CASE f # "balance"
    BY <1>4, <1>9 DEF Corridor, LowOf, HighOf
  <1> QED BY <1>8, <1>9

LEMMA SoundSuggestion == AdvisorInv => SuggestionIsSound
  <1> SUFFICES ASSUME AdvisorInv, suggestion # NoSuggestion, NEW f \in Advised,
                      NEW no \in BOOLEAN, NEW yes \in BOOLEAN
               PROVE  /\ Len(past) <= 10 =>
                            LET sorted == Ascending(Measured(f)) IN
                            \A i \in 2..(Len(sorted) - 1) :
                               \/ f = "balance" /\ sorted[i] > 6 * One
                               \/ sorted[i] \in suggestion.corridors[f].min
                                                  ..suggestion.corridors[f].max
                      /\ ~no /\ yes =>
                            /\ Suggested(yes)[f].min <= Suggested(no)[f].min
                            /\ Suggested(no)[f].max <= Suggested(yes)[f].max
    BY DEF SuggestionIsSound, SuggestionFitsHistory, WarningWidens
  <1> DEFINE sorted == Ascending(Measured(f))
             calm == CalmCorridor(Measured(f), f)
             warned == WarnedCorridor(Measured(f), f)
  <1>1. PastInv /\ past # <<>> /\ f \in AdvisedFeatures
    BY DEF AdvisorInv, Advised
  <1>2. PICK warn \in BOOLEAN : suggestion.corridors = Suggested(warn)
    BY DEF AdvisorInv
  <1> DEFINE Measures(n, s) ==
                /\ n <= Len(past) /\ Steps(s, n)
                /\ sorted = [k \in 1..n |-> 20000 * s[k]]
                /\ \A k \in 1..n : /\ f = "correlation" => 20000 * s[k] \in (-One)..One
                                   /\ f = "balance" => 20000 * s[k] >= 0
  <1>measures. PICK n \in Nat \ {0} : \E s : Measures(n, s)
    BY <1>1, MeasuredInSteps
  <1>3. PICK s : Measures(n, s)
    BY <1>measures
  <1> HIDE DEF sorted
  <1>4. /\ IsCorridor(calm) /\ IsCorridor(warned) /\ Within(calm, warned) /\ InLimits(calm, f)
        /\ \A t \in (2000 * QuantileOf(s, n, 1))..(2000 * QuantileOf(s, n, 9)) :
              (IsClamped(f) => t \in Lowest(f)..Highest(f)) => t \in calm.min..calm.max
    <2> DEFINE values == Measured(f)
    <2>1. /\ Ascending(values) = [k \in 1..n |-> 20000 * s[k]]
          /\ calm = CalmCorridor(values, f) /\ warned = WarnedCorridor(values, f)
      BY <1>3 DEF sorted
    <2> HIDE DEF values, calm, warned
    <2> QED BY <1>1, <1>3, <2>1, CorridorsContain
  <1>5. /\ calm.min \in Int /\ calm.max \in Int /\ warned.min \in Int /\ warned.max \in Int
        /\ warned.min <= calm.min /\ calm.max <= warned.max
    <2> HIDE DEF calm, warned
    <2>1. /\ calm.min \in Int /\ calm.max \in Int /\ warned.min \in Int /\ warned.max \in Int
      BY <1>4 DEF IsCorridor, Corridor
    <2> QED BY <1>4, <2>1 DEF Within
  <1>6. One \in Nat /\ One \div 2 \in Nat
    BY FineIs
  <1> DEFINE built(w) == IF w THEN warned ELSE calm
  <1>7. ASSUME NEW w \in BOOLEAN
        PROVE  /\ built(w) = IF w THEN warned ELSE calm
               /\ Suggested(w)[f].min = LowOf(built(w), f)
               /\ Suggested(w)[f].max = HighOf(built(w), f)
    <2>1. built(w) = IF w THEN WarnedCorridor(Measured(f), f) ELSE CalmCorridor(Measured(f), f)
      OBVIOUS
    <2>2. IsCorridor(built(w))
      BY <1>4
    <2>3. built(w) = IF w THEN warned ELSE calm
      OBVIOUS
    <2> HIDE DEF built, calm, warned
    <2> QED BY <2>1, <2>2, <2>3, SuggestedIs
  <1> HIDE DEF built
  <1> HIDE DEF calm, warned
  <1>8. LowOf(warned, f) <= LowOf(calm, f) /\ HighOf(calm, f) <= HighOf(warned, f)
    BY <1>5, <1>6 DEF LowOf, HighOf
  <1>9. ASSUME Len(past) <= 10, NEW i \in 2..(Len(sorted) - 1),
               ~(f = "balance" /\ sorted[i] > 6 * One)
        PROVE  sorted[i] \in suggestion.corridors[f].min..suggestion.corridors[f].max
    <2> DEFINE t == 20000 * s[i]
    <2>1. Len(sorted) = n /\ n <= 10
      BY <1>1, <1>3, <1>9 DEF PastInv
    <2>2. i \in 2..(n - 1) /\ i \in 1..n
      BY <1>9, <2>1
    <2>3. sorted[i] = t /\ s[i] \in Int
      BY <1>3, <2>2 DEF Steps
    <2>4. QuantileOf(s, n, 1) <= 10 * s[i] /\ 10 * s[i] <= QuantileOf(s, n, 9)
      BY <1>3, <2>1, <2>2, QuantilesAreOrdered
    <2>5. QuantileOf(s, n, 1) \in Int /\ QuantileOf(s, n, 9) \in Int
      <3> DEFINE values == Measured(f)
      <3>1. Ascending(values) = [k \in 1..n |-> 20000 * s[k]]
        BY <1>3 DEF sorted
      <3> HIDE DEF values
      <3> QED BY <1>3, <3>1, QuantilesAreExact
    <2>6. t \in (2000 * QuantileOf(s, n, 1))..(2000 * QuantileOf(s, n, 9))
      BY <2>3, <2>4, <2>5
    <2>7. /\ f = "correlation" => t \in (-One)..One
          /\ f = "balance" => t >= 0
      BY <1>3, <2>2
    <2> HIDE DEF t
    <2>8. IsClamped(f) => t \in Lowest(f)..Highest(f)
      BY <1>6, <1>9, <2>3, <2>6, <2>7 DEF IsClamped, Lowest, Highest
    <2>9. t \in Int /\ calm.min <= t /\ t <= calm.max
      BY <1>4, <1>5, <2>6, <2>8
    <2>10. LowOf(calm, f) <= t /\ t <= HighOf(calm, f)
      BY <1>5, <1>6, <1>9, <2>3, <2>7, <2>9 DEF LowOf, HighOf
    <2>11. /\ LowOf(calm, f) \in Int /\ HighOf(calm, f) \in Int
           /\ LowOf(warned, f) \in Int /\ HighOf(warned, f) \in Int
      BY <1>5, <1>6 DEF LowOf, HighOf
    <2>12. LowOf(built(warn), f) <= t /\ t <= HighOf(built(warn), f)
      BY <1>7, <1>8, <2>9, <2>10, <2>11
    <2> QED BY <1>2, <1>7, <2>3, <2>9, <2>11, <2>12
  <1>10. ~no /\ yes => /\ Suggested(yes)[f].min <= Suggested(no)[f].min
                       /\ Suggested(no)[f].max <= Suggested(yes)[f].max
    <2>1. ~no => built(no) = calm
      BY <1>7
    <2>2. yes => built(yes) = warned
      BY <1>7
    <2> QED BY <1>7, <1>8, <2>1, <2>2
  <1> QED BY <1>9, <1>10 DEF sorted

\* Whatever was recorded, a suggestion accepts the history it was made from, and
\* a homogenization warning never tightens it.
THEOREM SuggestionsAreSound == AdvisorSpec => []SuggestionIsSound
  BY AdvisorInvariant, SoundSuggestion, PTL

-----------------------------------------------------------------------------
(* Iteration.                                                              *)

LEMMA CountUp ==
    ASSUME NEW n \in Nat, NEW G, 0 \in G, \A k \in 0..(n - 1) : k \in G => k + 1 \in G
    PROVE  \A k \in 0..n : k \in G
  <1> DEFINE Bad == {k \in 0..n : k \notin G}
             m == Min(Bad)
  <1> SUFFICES ASSUME Bad # {} PROVE FALSE
    OBVIOUS
  <1>1. Bad \in SUBSET Nat
    OBVIOUS
  <1>2. m \in Bad /\ \A k \in Bad : m <= k
    BY <1>1, MinIsLeast
  <1> HIDE DEF m
  <1>3. m \in 0..n /\ m \notin G /\ m # 0
    BY <1>2
  <1>4. m - 1 \in 0..(n - 1) /\ ~(m <= m - 1) /\ (m - 1) + 1 = m
    BY <1>3
  <1>5. m - 1 \in G
    BY <1>2, <1>4
  <1> QED BY <1>3, <1>4, <1>5

\* What a step makes of the values of a set can be repeated.
Iteration(n, V, v, step, f) ==
    /\ f \in [0..n -> V] /\ f[0] = v
    /\ \A k \in 1..n : f[k] = step[<<k, f[k - 1]>>]

LEMMA IterationExists ==
    ASSUME NEW n \in Nat, NEW V, NEW v \in V, NEW step \in [(1..n) \X V -> V]
    PROVE  \E f : Iteration(n, V, v, step, f)
  <1> DEFINE Iterates(m, f) == Iteration(m, V, v, step, f)
             G == {m \in 0..n : \E f : Iterates(m, f)}
  <1>1. 0 \in G
    <2>1. Iterates(0, [k \in 0..0 |-> v])
      BY DEF Iteration
    <2> HIDE DEF Iterates
    <2> QED BY <2>1
  <1>2. ASSUME NEW m \in 0..(n - 1), m \in G
        PROVE  m + 1 \in G
    <2>1. PICK f : Iterates(m, f)
      BY <1>2
    <2> DEFINE last == step[<<m + 1, f[m]>>]
               g == [k \in 0..(m + 1) |-> IF k <= m THEN f[k] ELSE last]
    <2>2. f[m] \in V /\ m \in Nat /\ m + 1 \in 1..n
      BY <2>1 DEF Iteration
    <2>3. last \in V
      BY <2>2
    <2> HIDE DEF last
    <2>4. g \in [0..(m + 1) -> V] /\ g[0] = v
      BY <2>1, <2>2, <2>3 DEF Iteration
    <2>5. ASSUME NEW k \in 1..(m + 1)
          PROVE  g[k] = step[<<k, g[k - 1]>>]
      <3>1. g[k - 1] = f[k - 1]
        BY <2>2
      <3>2. CASE k <= m
        BY <2>1, <2>2, <3>1, <3>2 DEF Iteration
      <3>3. CASE k = m + 1
        BY <2>2, <3>1, <3>3, SMTT(30) DEF last
      <3> QED BY <2>2, <3>2, <3>3
    <2>6. Iterates(m + 1, g)
      BY <2>4, <2>5 DEF Iteration
    <2> HIDE DEF Iterates, g
    <2> QED BY <2>2, <2>6
  <1> HIDE DEF G
  <1>3. n \in G
    BY <1>1, <1>2, CountUp
  <1> QED BY <1>3 DEF G
-----------------------------------------------------------------------------
(* The filters of the translation targets.                                 *)

LEMMA FilterIs ==
    ASSUME NEW filter \in Filters
    PROVE  /\ filter.b0 \in Int /\ filter.b1 \in Int /\ filter.b2 \in Int
           /\ filter.a1 \in Int /\ filter.a2 \in Int
  BY DEF Filters

States == [x1 : Int, x2 : Int, y1 : Int, y2 : Int]

LEMMA ProcessType ==
    ASSUME NEW s \in States, NEW filter \in Filters, NEW x \in Int
    PROVE  Process(s, filter, x) \in States
  <1>1. \A a, b \in Int : a * b \in Int
    OBVIOUS
  <1>2. /\ filter.b0 * x \in Int /\ filter.b1 * s.x1 \in Int /\ filter.b2 * s.x2 \in Int
        /\ filter.a1 * s.y1 \in Int /\ filter.a2 * s.y2 \in Int
    BY <1>1, FilterIs DEF States
  <1> QED BY <1>2 DEF Process, States

\* The states of a filter are what its code iterates.
LEMMA FilterStates ==
    ASSUME NEW filter \in Filters, NEW n \in Nat, NEW channel \in [1..n -> Int],
           NEW states, states = FilterChannel(AtRest, filter, channel)
    PROVE  /\ states \in [0..n -> States] /\ states[0] = AtRest
           /\ \A k \in 1..n : states[k] = Process(states[k - 1], filter, channel[k])
  <1> DEFINE step == [p \in (1..n) \X States |-> Process(p[2], filter, channel[p[1]])]
             Recurs(f) == f = [k \in 0..n |-> IF k = 0 THEN AtRest
                                              ELSE Process(f[k - 1], filter, channel[k])]
  <1>1. AtRest \in States
    BY DEF AtRest, States
  <1>2. step \in [(1..n) \X States -> States]
    BY ProcessType
  <1>3. Len(channel) = n
    OBVIOUS
  <1>4. PICK f : Iteration(n, States, AtRest, step, f)
    <2> HIDE DEF step
    <2> QED BY <1>1, <1>2, IterationExists
  <1>5. ASSUME NEW k \in 1..n
        PROVE  f[k] = Process(f[k - 1], filter, channel[k])
    <2>1. k - 1 \in 0..n
      OBVIOUS
    <2>2. <<k, f[k - 1]>> \in (1..n) \X States
      BY <1>4, <2>1 DEF Iteration
    <2>3. f[k] = step[<<k, f[k - 1]>>]
      BY <1>4 DEF Iteration
    <2> QED BY <2>2, <2>3
  <1>6. Recurs(f)
    <2>1. f = [k \in 0..n |-> f[k]]
      BY <1>4 DEF Iteration
    <2>2. \A k \in 0..n : f[k] = IF k = 0 THEN AtRest ELSE Process(f[k - 1], filter, channel[k])
      BY <1>4, <1>5 DEF Iteration
    <2> QED BY <2>1, <2>2
  <1>7. states = CHOOSE g : Recurs(g)
    BY <1>3 DEF FilterChannel
  <1>8. Recurs(states)
    <2> HIDE DEF Recurs
    <2> QED BY <1>6, <1>7
  <1> HIDE DEF step
  <1>9. \A k \in 0..n : states[k] = IF k = 0 THEN AtRest
                                    ELSE Process(states[k - 1], filter, channel[k])
    BY <1>8
  <1>10. DOMAIN states = 0..n
    BY <1>8
  <1> DEFINE G == {k \in 0..n : states[k] \in States}
  <1>11. \A k \in 0..n : k \in G
    <2>1. 0 \in G
      BY <1>1, <1>9
    <2>2. ASSUME NEW k \in 0..(n - 1), k \in G
          PROVE  k + 1 \in G
      <3>1. k + 1 \in 0..n /\ k + 1 # 0 /\ (k + 1) - 1 = k /\ k + 1 \in 1..n
        OBVIOUS
      <3>2. states[k + 1] = Process(states[k], filter, channel[k + 1])
        BY <1>9, <3>1
      <3> QED BY <2>2, <3>1, <3>2, ProcessType
    <2> HIDE DEF G
    <2> QED BY <2>1, <2>2, CountUp
  <1>12. states = [k \in 0..n |-> states[k]]
    BY <1>8
  <1> HIDE DEF Recurs
  <1>13. states \in [0..n -> States]
    BY <1>11, <1>12
  <1>14. states[0] = AtRest
    BY <1>9
  <1>15. \A k \in 1..n : states[k] = Process(states[k - 1], filter, channel[k])
    BY <1>9
  <1> QED BY <1>13, <1>14, <1>15
LEMMA OutputType ==
    ASSUME NEW filter \in Filters, NEW n \in Nat, NEW channel \in [1..n -> Int],
           NEW states, states = FilterChannel(AtRest, filter, channel)
    PROVE  /\ Output(states, channel) \in [1..n -> Int]
           /\ \A i \in 1..n : Output(states, channel)[i] = states[i].y1
  <1>1. Len(channel) = n
    OBVIOUS
  <1>2. states \in [0..n -> States]
    BY FilterStates
  <1>3. \A s \in States : s.y1 \in Int
    BY DEF States
  <1>4. \A i \in 1..n : states[i].y1 \in Int
    BY <1>2, <1>3
  <1> QED BY <1>1, <1>4 DEF Output

Audio(channels, frames) == [1..channels -> [1..frames -> Int]]

LEMMA FilteredType ==
    ASSUME NEW filter \in Filters, NEW c \in Nat, NEW n \in Nat, NEW audio \in Audio(c, n)
    PROVE  ApplyFilter(filter, audio) \in Audio(c, n)
  <1>1. \A i \in 1..c : audio[i] \in [1..n -> Int]
    BY DEF Audio
  <1>2. DOMAIN audio = 1..c
    BY DEF Audio
  <1>3. \A i \in 1..c : Output(FilterChannel(AtRest, filter, audio[i]), audio[i]) \in [1..n -> Int]
    BY <1>1, OutputType
  <1> QED BY <1>2, <1>3 DEF ApplyFilter, Audio

Chained(chain, audio, c, n, done) ==
    /\ done \in [0..Len(chain) -> Audio(c, n)] /\ done[0] = audio
    /\ \A k \in 1..Len(chain) : done[k] = ApplyFilter(chain[k], done[k - 1])
    /\ ApplyFilterChain(chain, audio) = done[Len(chain)]

\* A chain of filters is what its code iterates.
LEMMA ChainStates ==
    ASSUME NEW chain \in Seq(Filters), NEW c \in Nat, NEW n \in Nat, NEW audio \in Audio(c, n)
    PROVE  \E done : Chained(chain, audio, c, n, done)
  <1> DEFINE l == Len(chain)
             step == [p \in (1..l) \X Audio(c, n) |-> ApplyFilter(chain[p[1]], p[2])]
             Recurs(f) == f = [k \in 0..l |-> IF k = 0 THEN audio
                                              ELSE ApplyFilter(chain[k], f[k - 1])]
             done == CHOOSE f : Recurs(f)
  <1>1. l \in Nat /\ \A k \in 1..l : chain[k] \in Filters
    OBVIOUS
  <1>2. step \in [(1..l) \X Audio(c, n) -> Audio(c, n)]
    BY <1>1, FilteredType
  <1>3. PICK f : Iteration(l, Audio(c, n), audio, step, f)
    <2> HIDE DEF step, l
    <2> QED BY <1>1, <1>2, IterationExists
  <1>4. ASSUME NEW k \in 1..l
        PROVE  f[k] = ApplyFilter(chain[k], f[k - 1])
    <2>1. k - 1 \in 0..l
      BY <1>1
    <2>2. <<k, f[k - 1]>> \in (1..l) \X Audio(c, n)
      BY <1>3, <2>1 DEF Iteration
    <2>3. f[k] = step[<<k, f[k - 1]>>]
      BY <1>3 DEF Iteration
    <2> HIDE DEF l
    <2> QED BY <2>2, <2>3
  <1>5. Recurs(f)
    <2>1. f = [k \in 0..l |-> f[k]]
      BY <1>3 DEF Iteration
    <2>2. \A k \in 0..l : f[k] = IF k = 0 THEN audio ELSE ApplyFilter(chain[k], f[k - 1])
      BY <1>1, <1>3, <1>4 DEF Iteration
    <2> QED BY <2>1, <2>2
  <1>6. Recurs(done)
    <2> HIDE DEF Recurs
    <2> QED BY <1>5
  <1>7. ApplyFilterChain(chain, audio) = done[l]
    BY DEF ApplyFilterChain
  <1> HIDE DEF step, done
  <1>8. \A k \in 0..l : done[k] = IF k = 0 THEN audio ELSE ApplyFilter(chain[k], done[k - 1])
    BY <1>6
  <1> DEFINE G == {k \in 0..l : done[k] \in Audio(c, n)}
  <1>9. \A k \in 0..l : k \in G
    <2>1. 0 \in G
      BY <1>1, <1>8
    <2>2. ASSUME NEW k \in 0..(l - 1), k \in G
          PROVE  k + 1 \in G
      <3>1. k + 1 \in 0..l /\ k + 1 # 0 /\ (k + 1) - 1 = k /\ k + 1 \in 1..l
        BY <1>1
      <3>2. done[k + 1] = ApplyFilter(chain[k + 1], done[k])
        BY <1>8, <3>1
      <3>3. chain[k + 1] \in Filters
        BY <1>1, <3>1
      <3> QED BY <2>2, <3>1, <3>2, <3>3, FilteredType
    <2> HIDE DEF G, l
    <2> QED BY <1>1, <2>1, <2>2, CountUp
  <1>10. done = [k \in 0..l |-> done[k]]
    BY <1>6
  <1> HIDE DEF Recurs
  <1>11. done \in [0..l -> Audio(c, n)]
    BY <1>9, <1>10
  <1>12. done[0] = audio /\ \A k \in 1..l : done[k] = ApplyFilter(chain[k], done[k - 1])
    BY <1>1, <1>8
  <1>13. Chained(chain, audio, c, n, done)
    BY <1>7, <1>11, <1>12 DEF Chained
  <1> QED BY <1>13

LEMMA ChainedType ==
    ASSUME NEW chain \in Seq(Filters), NEW c \in Nat, NEW n \in Nat, NEW audio \in Audio(c, n)
    PROVE  ApplyFilterChain(chain, audio) \in Audio(c, n)
  <1>1. PICK done : Chained(chain, audio, c, n, done)
    BY ChainStates
  <1>2. Len(chain) \in 0..Len(chain)
    OBVIOUS
  <1> QED BY <1>1, <1>2 DEF Chained

-----------------------------------------------------------------------------
(* Folding down.                                                           *)

\* z is the middle of x and y.
Middle(x, y, z) == x \in Int /\ y \in Int /\ z \in Int /\ x + y = 2 * z

LEMMA MiddleScales ==
    ASSUME NEW k \in Int, NEW x, NEW y, NEW z, Middle(x, y, z)
    PROVE  Middle(k * x, k * y, k * z)
  <1>1. \A a, b, c \in Int : a * (b + c) = a * b + a * c
    OBVIOUS
  <1>2. \A a, b \in Int : a * b \in Int
    OBVIOUS
  <1>3. x \in Int /\ y \in Int /\ z \in Int /\ x + y = z + z
    BY DEF Middle
  <1>4. k * x + k * y = k * z + k * z
    <2>1. k * (x + y) = k * x + k * y /\ k * (z + z) = k * z + k * z
      BY <1>1, <1>3
    <2> QED BY <1>3, <2>1
  <1>5. k * x \in Int /\ k * y \in Int /\ k * z \in Int
    BY <1>2, <1>3
  <1> DEFINE a == k * x
             b == k * y
             c == k * z
  <1>6. a \in Int /\ b \in Int /\ c \in Int /\ a + b = c + c
    BY <1>4, <1>5
  <1> HIDE DEF a, b, c
  <1>7. a + b = 2 * c
    BY <1>6
  <1> QED BY <1>6, <1>7 DEF Middle, a, b, c

LEMMA MiddleAdds ==
    ASSUME NEW x, NEW y, NEW z, NEW u, NEW v, NEW w, Middle(x, y, z), Middle(u, v, w)
    PROVE  Middle(x + u, y + v, z + w) /\ Middle(x - u, y - v, z - w)
  BY DEF Middle

\* A state is halfway between two others.
Halfway(p, q, s) ==
    /\ Middle(p.x1, q.x1, s.x1) /\ Middle(p.x2, q.x2, s.x2)
    /\ Middle(p.y1, q.y1, s.y1) /\ Middle(p.y2, q.y2, s.y2)

\* A filter is linear.
LEMMA ProcessIsLinear ==
    ASSUME NEW filter \in Filters, NEW p, NEW q, NEW s, NEW x, NEW y, NEW z,
           Middle(x, y, z), Halfway(p, q, s)
    PROVE  Halfway(Process(p, filter, x), Process(q, filter, y), Process(s, filter, z))
  <1>1. /\ filter.b0 \in Int /\ filter.b1 \in Int /\ filter.b2 \in Int
        /\ filter.a1 \in Int /\ filter.a2 \in Int
    BY FilterIs
  <1>2. /\ Middle(p.x1, q.x1, s.x1) /\ Middle(p.x2, q.x2, s.x2)
        /\ Middle(p.y1, q.y1, s.y1) /\ Middle(p.y2, q.y2, s.y2)
    BY DEF Halfway
  <1> DEFINE sum1(t, i) == filter.b0 * i + filter.b1 * t.x1
             sum2(t, i) == filter.b2 * t.x2 - filter.a1 * t.y1
             sum3(t, i) == sum2(t, i) - filter.a2 * t.y2
             sum4(t, i) == sum1(t, i) + sum3(t, i)
  <1>3. /\ Middle(filter.b0 * x, filter.b0 * y, filter.b0 * z)
        /\ Middle(filter.b1 * p.x1, filter.b1 * q.x1, filter.b1 * s.x1)
        /\ Middle(filter.b2 * p.x2, filter.b2 * q.x2, filter.b2 * s.x2)
        /\ Middle(filter.a1 * p.y1, filter.a1 * q.y1, filter.a1 * s.y1)
        /\ Middle(filter.a2 * p.y2, filter.a2 * q.y2, filter.a2 * s.y2)
    BY <1>1, <1>2, MiddleScales, Zenon
  <1>4. Middle(sum1(p, x), sum1(q, y), sum1(s, z))
    BY <1>3, MiddleAdds, Zenon
  <1> HIDE DEF sum1
  <1>5. Middle(sum2(p, x), sum2(q, y), sum2(s, z))
    BY <1>3, MiddleAdds, Zenon
  <1> HIDE DEF sum2
  <1>6. Middle(sum3(p, x), sum3(q, y), sum3(s, z))
    BY <1>3, <1>5, MiddleAdds, Zenon
  <1> HIDE DEF sum3
  <1>7. Middle(sum4(p, x), sum4(q, y), sum4(s, z))
    BY <1>4, <1>6, MiddleAdds, Zenon
  <1> HIDE DEF sum4
  <1>8. ASSUME NEW t, NEW i
        PROVE  /\ Process(t, filter, i).x1 = i /\ Process(t, filter, i).x2 = t.x1
               /\ Process(t, filter, i).y1 = sum4(t, i) /\ Process(t, filter, i).y2 = t.y1
    <2>1. Process(t, filter, i) = [x1 |-> i, x2 |-> t.x1, y1 |-> sum4(t, i), y2 |-> t.y1]
      BY Zenon DEF Process, sum1, sum2, sum3, sum4
    <2> QED BY <2>1
  <1> QED BY <1>2, <1>7, <1>8 DEF Halfway

\* One channel is the middle of two others.
Between(left, right, middle, n) == \A i \in 1..n : Middle(left[i], right[i], middle[i])

LEMMA OutputsBetween ==
    ASSUME NEW filter \in Filters, NEW n \in Nat,
           NEW left \in [1..n -> Int], NEW right \in [1..n -> Int], NEW middle \in [1..n -> Int],
           Between(left, right, middle, n)
    PROVE  Between(Output(FilterChannel(AtRest, filter, left), left),
                   Output(FilterChannel(AtRest, filter, right), right),
                   Output(FilterChannel(AtRest, filter, middle), middle), n)
  <1> DEFINE l == FilterChannel(AtRest, filter, left)
             r == FilterChannel(AtRest, filter, right)
             m == FilterChannel(AtRest, filter, middle)
             G == {k \in 0..n : Halfway(l[k], r[k], m[k])}
  <1>1. /\ l \in [0..n -> States] /\ l[0] = AtRest
        /\ \A k \in 1..n : l[k] = Process(l[k - 1], filter, left[k])
    BY FilterStates
  <1>2. /\ r \in [0..n -> States] /\ r[0] = AtRest
        /\ \A k \in 1..n : r[k] = Process(r[k - 1], filter, right[k])
    BY FilterStates
  <1>3. /\ m \in [0..n -> States] /\ m[0] = AtRest
        /\ \A k \in 1..n : m[k] = Process(m[k - 1], filter, middle[k])
    BY FilterStates
  <1>4. /\ \A i \in 1..n : Output(l, left)[i] = l[i].y1
        /\ \A i \in 1..n : Output(r, right)[i] = r[i].y1
        /\ \A i \in 1..n : Output(m, middle)[i] = m[i].y1
    <2>1. /\ l = FilterChannel(AtRest, filter, left)
          /\ r = FilterChannel(AtRest, filter, right)
          /\ m = FilterChannel(AtRest, filter, middle)
      OBVIOUS
    <2> HIDE DEF l, r, m
    <2>2. \A i \in 1..n : Output(l, left)[i] = l[i].y1
      BY <2>1, OutputType
    <2>3. \A i \in 1..n : Output(r, right)[i] = r[i].y1
      BY <2>1, OutputType
    <2>4. \A i \in 1..n : Output(m, middle)[i] = m[i].y1
      BY <2>1, OutputType
    <2> QED BY <2>2, <2>3, <2>4
  <1> HIDE DEF l, r, m
  <1>5. \A k \in 0..n : k \in G
    <2>1. 0 \in G
      BY <1>1, <1>2, <1>3 DEF Halfway, Middle, AtRest
    <2>2. ASSUME NEW k \in 0..(n - 1), k \in G
          PROVE  k + 1 \in G
      <3>1. k + 1 \in 0..n /\ k + 1 \in 1..n /\ (k + 1) - 1 = k /\ k \in 0..n
        OBVIOUS
      <3>2. /\ l[k + 1] = Process(l[k], filter, left[k + 1])
            /\ r[k + 1] = Process(r[k], filter, right[k + 1])
            /\ m[k + 1] = Process(m[k], filter, middle[k + 1])
        BY <1>1, <1>2, <1>3, <3>1
      <3>3. Middle(left[k + 1], right[k + 1], middle[k + 1])
        BY <3>1 DEF Between
      <3>4. Halfway(l[k], r[k], m[k])
        BY <2>2
      <3>5. Halfway(Process(l[k], filter, left[k + 1]), Process(r[k], filter, right[k + 1]),
                    Process(m[k], filter, middle[k + 1]))
        BY <3>3, <3>4, ProcessIsLinear
      <3> QED BY <3>1, <3>2, <3>5
    <2> HIDE DEF G
    <2> QED BY <2>1, <2>2, CountUp
  <1>6. \A i \in 1..n : Middle(l[i].y1, r[i].y1, m[i].y1)
    <2>1. \A i \in 1..n : i \in 0..n
      OBVIOUS
    <2> QED BY <1>5, <2>1 DEF Halfway
  <1> QED BY <1>4, <1>6 DEF Between, l, r, m

\* Mono audio is the middle of stereo audio, and filters keep it there.
LEMMA FiltersFold ==
    ASSUME NEW filter \in Filters, NEW n \in Nat, NEW wide \in Audio(2, n), NEW mono \in Audio(1, n),
           Between(wide[1], wide[2], mono[1], n)
    PROVE  Between(ApplyFilter(filter, wide)[1], ApplyFilter(filter, wide)[2],
                   ApplyFilter(filter, mono)[1], n)
  <1>1. /\ wide[1] \in [1..n -> Int] /\ wide[2] \in [1..n -> Int] /\ mono[1] \in [1..n -> Int]
        /\ 1 \in DOMAIN wide /\ 2 \in DOMAIN wide /\ 1 \in DOMAIN mono
    BY DEF Audio
  <1>2. Between(Output(FilterChannel(AtRest, filter, wide[1]), wide[1]),
                Output(FilterChannel(AtRest, filter, wide[2]), wide[2]),
                Output(FilterChannel(AtRest, filter, mono[1]), mono[1]), n)
    BY <1>1, OutputsBetween
  <1> QED BY <1>1, <1>2 DEF ApplyFilter

LEMMA ChainsFold ==
    ASSUME NEW chain \in Seq(Filters), NEW n \in Nat,
           NEW wide \in Audio(2, n), NEW mono \in Audio(1, n),
           Between(wide[1], wide[2], mono[1], n)
    PROVE  Between(ApplyFilterChain(chain, wide)[1], ApplyFilterChain(chain, wide)[2],
                   ApplyFilterChain(chain, mono)[1], n)
  <1> DEFINE l == Len(chain)
  <1>1. l \in Nat /\ \A k \in 1..l : chain[k] \in Filters
    OBVIOUS
  <1>2. PICK w : Chained(chain, wide, 2, n, w)
    BY ChainStates
  <1>3. PICK m : Chained(chain, mono, 1, n, m)
    BY ChainStates
  <1> DEFINE G == {k \in 0..l : Between(w[k][1], w[k][2], m[k][1], n)}
  <1>4. \A k \in 0..l : k \in G
    <2>1. 0 \in G
      BY <1>1, <1>2, <1>3 DEF Chained
    <2>2. ASSUME NEW k \in 0..(l - 1), k \in G
          PROVE  k + 1 \in G
      <3>1. k + 1 \in 0..l /\ k + 1 \in 1..l /\ (k + 1) - 1 = k /\ k \in 0..l
        BY <1>1
      <3>2. /\ w[k + 1] = ApplyFilter(chain[k + 1], w[k])
            /\ m[k + 1] = ApplyFilter(chain[k + 1], m[k])
        BY <1>2, <1>3, <3>1 DEF Chained
      <3>3. w[k] \in Audio(2, n) /\ m[k] \in Audio(1, n) /\ chain[k + 1] \in Filters
        BY <1>1, <1>2, <1>3, <3>1 DEF Chained
      <3> QED BY <2>2, <3>1, <3>2, <3>3, FiltersFold
    <2> HIDE DEF G, l
    <2> QED BY <1>1, <2>1, <2>2, CountUp
  <1>5. l \in 0..l
    BY <1>1
  <1> QED BY <1>2, <1>3, <1>4, <1>5 DEF Chained

\* Width leaves the middle alone.
LEMMA WidthKeepsMiddle ==
    ASSUME NEW n \in Nat, NEW basis \in Audio(2, n), NEW width \in Nat
    PROVE  /\ ApplyStereoWidth(basis, width) \in Audio(2, n)
           /\ FoldToMono(basis) \in Audio(1, n)
           /\ Between(ApplyStereoWidth(basis, width)[1], ApplyStereoWidth(basis, width)[2],
                      FoldToMono(basis)[1], n)
  <1> DEFINE m(i) == Mid(basis, i)
             s(i) == (Side(basis, i) * width) \div 20
             wide == <<[i \in 1..n |-> m(i) + s(i)], [i \in 1..n |-> m(i) - s(i)]>>
             mono == <<[i \in 1..n |-> m(i)]>>
  <1>1. DOMAIN basis[1] = 1..n /\ \A i \in 1..n : basis[1][i] \in Int /\ basis[2][i] \in Int
    BY DEF Audio
  <1>2. \A i \in 1..n : m(i) \in Int /\ s(i) \in Int
    <2>1. \A a, b \in Int : (a + b) \div 2 \in Int /\ (a - b) \div 2 \in Int
      OBVIOUS
    <2>2. \A a \in Int : (a * width) \div 20 \in Int
      OBVIOUS
    <2>3. \A i \in 1..n : m(i) \in Int /\ Side(basis, i) \in Int
      BY <1>1, <2>1 DEF Mid, Side
    <2> QED BY <2>2, <2>3
  <1>3. ApplyStereoWidth(basis, width) = wide /\ FoldToMono(basis) = mono
    BY <1>1 DEF ApplyStereoWidth, FoldToMono
  <1> HIDE DEF m, s
  <1>4. /\ [i \in 1..n |-> m(i) + s(i)] \in [1..n -> Int]
        /\ [i \in 1..n |-> m(i) - s(i)] \in [1..n -> Int]
        /\ [i \in 1..n |-> m(i)] \in [1..n -> Int]
    BY <1>2
  <1>5. wide \in Audio(2, n) /\ mono \in Audio(1, n)
    BY <1>4 DEF Audio
  <1>6. Between(wide[1], wide[2], mono[1], n)
    <2>1. \A a, b \in Int : Middle(a + b, a - b, a)
      BY DEF Middle
    <2> QED BY <1>2, <2>1 DEF Between
  <1> QED BY <1>3, <1>5, <1>6

LEMMA FoldsDown ==
    ASSUME NEW n \in Nat, NEW basis \in Audio(2, n), NEW d \in Devices, d.width # 0
    PROVE  FoldToMono(TransformTarget(basis, d)) = TransformTarget(basis, [d EXCEPT !.width = 0])
  <1> DEFINE wide == ApplyStereoWidth(basis, d.width)
             mono == FoldToMono(basis)
             played == ApplyFilterChain(d.chain, wide)
             folded == ApplyFilterChain(d.chain, mono)
  <1>1. d.width \in Nat /\ d.chain \in Seq(Filters)
    BY SignalAssumption
  <1>2. [d EXCEPT !.width = 0].width = 0 /\ [d EXCEPT !.width = 0].chain = d.chain
    BY SignalAssumption
  <1>3. TransformTarget(basis, d) = played /\ TransformTarget(basis, [d EXCEPT !.width = 0]) = folded
    BY <1>2 DEF TransformTarget
  <1>4. wide \in Audio(2, n) /\ mono \in Audio(1, n) /\ Between(wide[1], wide[2], mono[1], n)
    BY <1>1, WidthKeepsMiddle
  <1> HIDE DEF wide, mono
  <1>5. played \in Audio(2, n) /\ folded \in Audio(1, n)
    BY <1>1, <1>4, ChainedType
  <1>6. Between(played[1], played[2], folded[1], n)
    BY <1>1, <1>4, ChainsFold
  <1> HIDE DEF played, folded
  <1>7. /\ played[1] \in [1..n -> Int] /\ played[2] \in [1..n -> Int] /\ folded[1] \in [1..n -> Int]
        /\ DOMAIN folded = 1..1
    <2>1. 1 \in 1..2 /\ 2 \in 1..2 /\ 1 \in 1..1
      OBVIOUS
    <2> QED BY <1>5, <2>1 DEF Audio
  <1>8. \A i \in 1..n : Mid(played, i) = folded[1][i]
    <2>1. \A a, b, c : Middle(a, b, c) => (a + b) \div 2 = c
      BY DEF Middle
    <2> QED BY <1>6, <2>1 DEF Mid, Between
  <1>9. [i \in DOMAIN played[1] |-> Mid(played, i)] = folded[1]
    BY <1>7, <1>8
  <1>10. folded = <<folded[1]>>
    BY <1>5, <1>7 DEF Audio
  <1> QED BY <1>3, <1>9, <1>10 DEF FoldToMono

-----------------------------------------------------------------------------
(* Peaks.                                                                  *)

LEMMA MaxOfValues ==
    ASSUME NEW S, IsFiniteSet(S), NEW f \in [S -> Nat], NEW T, T = {0} \union {f[x] : x \in S}
    PROVE  Max(T) \in T /\ Max(T) \in Nat /\ \A x \in S : f[x] <= Max(T)
  <1> DEFINE most == SumFunctionOnSet(f, S)
  <1>1. most \in Nat
    BY SumOfNaturals
  <1>2. \A x \in S : f[x] <= most
    <2> TAKE x \in S
    <2>1. most = f[x] + SumFunctionOnSet(f, S \ {x})
      BY SumSplits
    <2>2. SumFunctionOnSet(f, S \ {x}) \in Nat
      BY FS_Subset, SumOfNaturals
    <2> HIDE DEF most
    <2> QED BY <1>1, <2>1, <2>2
  <1> HIDE DEF most
  <1>3. T \in SUBSET (0..most) /\ T # {}
    BY <1>1, <1>2
  <1>4. Max(T) \in T /\ \A n \in T : Max(T) >= n
    BY <1>1, <1>3, MaxIsLargest
  <1> QED BY <1>1, <1>3, <1>4

LEMMA AudioIs ==
    ASSUME NEW c \in Nat \ {0}, NEW n \in Nat, NEW audio \in Audio(c, n)
    PROVE  /\ Channels(audio) = c /\ DOMAIN audio = 1..c /\ Frames(audio) = n /\ audio # <<>>
           /\ Places(audio) = (1..c) \X (1..n) /\ IsFiniteSet(Places(audio))
           /\ \A k \in 1..c : audio[k] \in [1..n -> Int]
           /\ \A p \in Places(audio) : audio[p[1]][p[2]] \in Int /\ Level(audio, p) \in Nat
  <1>1. DOMAIN audio = 1..c /\ Len(audio) = c /\ 1 \in 1..c
    BY DEF Audio
  <1>2. audio # <<>>
    BY <1>1
  <1>3. \A k \in 1..c : audio[k] \in [1..n -> Int]
    BY DEF Audio
  <1>4. Len(audio[1]) = n
    BY <1>1, <1>3
  <1>5. Frames(audio) = n /\ Channels(audio) = c
    BY <1>1, <1>2, <1>4 DEF Frames, Channels
  <1>6. Places(audio) = (1..c) \X (1..n)
    BY <1>1, <1>5 DEF Places
  <1>7. IsFiniteSet(1..c) /\ IsFiniteSet(1..n)
    BY UpTo
  <1>8. IsFiniteSet(Places(audio))
    BY <1>6, <1>7, FS_Product
  <1>9. \A p \in Places(audio) : audio[p[1]][p[2]] \in Int /\ Level(audio, p) \in Nat
    BY <1>3, <1>6 DEF Level, Abs
  <1> QED BY <1>1, <1>2, <1>3, <1>5, <1>6, <1>8, <1>9

\* The peak is the largest of the levels.
LEMMA PeakIs ==
    ASSUME NEW c \in Nat \ {0}, NEW n \in Nat, NEW audio \in Audio(c, n)
    PROVE  /\ SamplePeak(audio) \in Nat
           /\ SamplePeak(audio) = 0 \/ \E p \in Places(audio) : SamplePeak(audio) = Level(audio, p)
           /\ \A p \in Places(audio) : Level(audio, p) <= SamplePeak(audio)
  <1> DEFINE S == Places(audio)
             f == [p \in S |-> Level(audio, p)]
             T == {0} \union {f[p] : p \in S}
             peak == SamplePeak(audio)
  <1>1. IsFiniteSet(S) /\ f \in [S -> Nat]
    BY AudioIs
  <1>2. Max(T) \in T /\ Max(T) \in Nat /\ \A p \in S : f[p] <= Max(T)
    <2> HIDE DEF S, f
    <2> QED BY <1>1, MaxOfValues
  <1>3. {Level(audio, p) : p \in S} = {f[p] : p \in S}
    OBVIOUS
  <1>4. peak = Max(T)
    BY <1>3 DEF SamplePeak
  <1> QED BY <1>2, <1>4

LEMMA PeakCovers ==
    ASSUME NEW c \in Nat \ {0}, NEW n \in Nat, NEW audio \in Audio(c, n)
    PROVE  /\ SamplePeak(audio) \in Nat
           /\ \A k \in 1..c, i \in 1..n : audio[k][i] \in (-SamplePeak(audio))..SamplePeak(audio)
  <1> DEFINE peak == SamplePeak(audio)
  <1>1. peak \in Nat /\ \A p \in Places(audio) : Level(audio, p) <= peak
    BY PeakIs
  <1>2. ASSUME NEW k \in 1..c, NEW i \in 1..n
        PROVE  audio[k][i] \in (-peak)..peak
    <2>1. <<k, i>> \in Places(audio)
      BY AudioIs
    <2>2. audio[k][i] \in Int
      BY AudioIs
    <2>3. Level(audio, <<k, i>>) <= peak
      BY <1>1, <2>1
    <2> HIDE DEF peak
    <2> QED BY <1>1, <2>2, <2>3 DEF Level, Abs
  <1> QED BY <1>1, <1>2

LEMMA PeakAtMost ==
    ASSUME NEW c \in Nat \ {0}, NEW n \in Nat, NEW audio \in Audio(c, n), NEW most \in Nat,
           \A k \in 1..c, i \in 1..n : audio[k][i] \in (-most)..most
    PROVE  SamplePeak(audio) <= most
  <1>1. \A p \in Places(audio) : Level(audio, p) <= most
    BY AudioIs DEF Level, Abs
  <1> QED BY <1>1, PeakIs

-----------------------------------------------------------------------------
(* Left and right.                                                         *)

LEMMA DivWithin ==
    ASSUME NEW s \in Int, NEW k \in Nat \ {0}, NEW most \in Nat,
           s <= k * most, (-s) <= k * most
    PROVE  s \div k \in (-most)..most
  <1> DEFINE q == s \div k
  <1>1. q \in Int /\ k * q <= s /\ s < k * (q + 1)
    OBVIOUS
  <1> HIDE DEF q
  <1>2. \A a, b \in Int : a < b => k * (a + 1) <= k * b
    OBVIOUS
  <1>3. k * q \in Int /\ k * most \in Int /\ k * (q + 1) \in Int /\ k * (most + 1) \in Int
        /\ k * (-most) = -(k * most)
    BY <1>1
  <1>4. k * (most + 1) = k * most + k
    OBVIOUS
  <1>5. ~(most < q)
    BY <1>1, <1>2, <1>3, <1>4
  <1>6. ~(q < -most)
    BY <1>1, <1>2, <1>3
  <1> QED BY <1>1, <1>5, <1>6 DEF q

\* A mean is no larger than what it is of.
LEMMA MeanWithin ==
    ASSUME NEW S, IsFiniteSet(S), S # {}, NEW g, NEW most \in Nat,
           \A x \in S : g[x] \in (-most)..most
    PROVE  SumFunctionOnSet(g, S) \div Cardinality(S) \in (-most)..most
  <1> DEFINE h == [x \in S |-> g[x] * (-1)]
             k == Cardinality(S)
             s == SumFunctionOnSet(g, S)
  <1>1. k \in Nat \ {0}
    BY FS_CardinalityType, FS_EmptySet
  <1>2. \A x \in S : g[x] \in Int /\ g[x] <= most /\ h[x] = g[x] * (-1) /\ h[x] \in Int /\ h[x] <= most
    OBVIOUS
  <1> HIDE DEF h
  <1>3. s \in Int /\ s <= k * most
    BY <1>2, SumIsInt, SumIsBounded
  <1>4. SumFunctionOnSet(h, S) <= k * most
    BY <1>2, SumIsBounded
  <1>5. SumFunctionOnSet(h, S) = s * (-1)
    BY <1>2, SumOfMultiples
  <1> HIDE DEF k, s
  <1>6. (-s) <= k * most
    BY <1>3, <1>4, <1>5
  <1>7. s \div k \in (-most)..most
    BY <1>1, <1>3, <1>6, DivWithin
  <1> QED BY <1>7 DEF k, s

\* The basis is stereo and no louder than the audio.
LEMMA BasisIs ==
    ASSUME NEW c \in Nat \ {0}, NEW n \in Nat, NEW audio \in Audio(c, n)
    PROVE  /\ StereoBasis(audio) \in Audio(2, n)
           /\ SamplePeak(audio) \in Nat /\ SamplePeak(StereoBasis(audio)) \in Nat
           /\ SamplePeak(StereoBasis(audio)) <= SamplePeak(audio)
  <1> DEFINE basis == StereoBasis(audio)
             peak == SamplePeak(audio)
             range == (-peak)..peak
             every(r) == {k \in 1..c : k % 2 = r}
             mean(cs) == [i \in 1..n |->
                             SumFunction([k \in cs |-> audio[k][i]]) \div Cardinality(cs)]
  <1>1. peak \in Nat /\ \A k \in 1..c, i \in 1..n : audio[k][i] \in range
    BY PeakCovers
  <1>2. Channels(audio) = c /\ DOMAIN audio = 1..c /\ Frames(audio) = n
    BY AudioIs
  <1> HIDE DEF peak
  <1>3. ASSUME NEW S \in SUBSET (1..c), S # {}
        PROVE  mean(S) \in [1..n -> range]
    <2>1. IsFiniteSet(S)
      BY UpTo, FS_Subset
    <2>2. ASSUME NEW i \in 1..n
          PROVE  SumFunction([k \in S |-> audio[k][i]]) \div Cardinality(S) \in range
      <3> DEFINE g == [k \in S |-> audio[k][i]]
      <3>1. DOMAIN g = S /\ \A k \in S : g[k] \in range
        BY <1>1
      <3> HIDE DEF g
      <3>2. SumFunctionOnSet(g, S) \div Cardinality(S) \in range
        BY <1>1, <1>3, <2>1, <3>1, MeanWithin
      <3>3. SumFunction(g) = SumFunctionOnSet(g, S)
        BY <3>1 DEF SumFunction
      <3>4. SumFunction(g) \div Cardinality(S) \in range
        BY <3>2, <3>3
      <3> QED BY <3>4 DEF g
    <2> HIDE DEF range
    <2> QED BY <2>2
  <1>4. basis \in [1..2 -> [1..n -> range]]
    <2>1. CASE c = 1
      <3>1. basis = <<audio[1], audio[1]>>
        BY <1>2, <2>1 DEF StereoBasis
      <3>2. audio[1] \in [1..n -> range]
        <4>1. audio[1] = [i \in 1..n |-> audio[1][i]]
          BY AudioIs
        <4> QED BY <1>1, <2>1, <4>1
      <3> HIDE DEF basis, range
      <3> QED BY <3>1, <3>2
    <2>2. CASE c # 1
      <3>1. basis = <<mean(every(1)), mean(every(0))>>
        BY <1>2, <2>2 DEF StereoBasis
      <3>2. 1 \in every(1) /\ 2 \in every(0)
        BY <2>2
      <3>3. mean(every(1)) \in [1..n -> range] /\ mean(every(0)) \in [1..n -> range]
        <4>1. /\ every(1) \in SUBSET (1..c) /\ every(1) # {}
              /\ every(0) \in SUBSET (1..c) /\ every(0) # {}
          BY <3>2
        <4> HIDE DEF every, mean, range
        <4> QED BY <1>3, <4>1
      <3> HIDE DEF basis, range, mean, every
      <3> QED BY <3>1, <3>3
    <2> QED BY <2>1, <2>2
  <1> HIDE DEF basis
  <1>5. basis \in Audio(2, n)
    BY <1>1, <1>4 DEF Audio
  <1>6. \A k \in 1..2, i \in 1..n : basis[k][i] \in range
    BY <1>4
  <1>7. SamplePeak(basis) \in Nat /\ SamplePeak(basis) <= peak
    <2>1. 2 \in Nat \ {0}
      OBVIOUS
    <2>2. SamplePeak(basis) \in Nat
      BY <1>5, <2>1, PeakIs
    <2>3. SamplePeak(basis) <= peak
      BY <1>1, <1>5, <1>6, <2>1, PeakAtMost
    <2> QED BY <2>2, <2>3
  <1> QED BY <1>1, <1>5, <1>7 DEF basis, peak

-----------------------------------------------------------------------------
(* The decoder.                                                            *)

IsStream(e) ==
    /\ Len(e) \in Nat /\ DOMAIN e = 1..Len(e) /\ 1 \in DOMAIN e
    /\ \A i \in DOMAIN e : e[i].kind = "packet" => IsPacket(e[i])
    /\ e[Len(e)].kind \in {"end", "cut"}

LEMMA StreamsAre == \A f \in Files : f.channels \in Nat /\ IsStream(f.events)
  <1>1. \A f \in Files : Len(f.events) # 0
    BY SignalAssumption
  <1> QED BY <1>1, SignalAssumption DEF IsStream

IsPart(event) == event.kind = "packet" /\ event.track = "default"

LEMMA PartsGrow ==
    ASSUME NEW e, IsStream(e), NEW k \in DOMAIN e
    PROVE  /\ IsPart(e[k]) => Parts(e, k + 1) = Parts(e, k) \union {k}
           /\ ~IsPart(e[k]) => Parts(e, k + 1) = Parts(e, k)
           /\ k \notin Parts(e, k) /\ Parts(e, k) \subseteq 1..(k - 1)
           /\ IsFiniteSet(Parts(e, k))
  <1>1. k \in Nat /\ 1..((k + 1) - 1) = (1..(k - 1)) \union {k} /\ k \notin 1..(k - 1)
    BY DEF IsStream
  <1>2. /\ IsPart(e[k]) => Parts(e, k + 1) = Parts(e, k) \union {k}
        /\ ~IsPart(e[k]) => Parts(e, k + 1) = Parts(e, k)
        /\ k \notin Parts(e, k) /\ Parts(e, k) \subseteq 1..(k - 1)
    BY <1>1 DEF Parts, IsPart
  <1>3. IsFiniteSet(1..(k - 1))
    <2>1. k - 1 \in Int /\ 1 \in Int
      BY <1>1
    <2> QED BY <2>1, FS_Interval
  <1>4. IsFiniteSet(Parts(e, k))
    BY <1>2, <1>3, FS_Subset
  <1> QED BY <1>2, <1>4

LEMMA FramesBeforeType ==
    ASSUME NEW e, IsStream(e), NEW k \in DOMAIN e
    PROVE  FramesBefore(e, k) \in Nat
  <1> DEFINE g == [i \in Parts(e, k) |-> Len(e[i].frames)]
  <1>1. Parts(e, k) \subseteq 1..(k - 1) /\ k \in 1..Len(e) /\ Len(e) \in Nat
    BY PartsGrow DEF IsStream
  <1>2. IsFiniteSet(Parts(e, k))
    BY PartsGrow
  <1>3. \A i \in Parts(e, k) : Len(e[i].frames) \in Nat
    BY <1>1 DEF Parts, IsStream, IsPacket
  <1>4. DOMAIN g = Parts(e, k) /\ \A i \in Parts(e, k) : g[i] \in Nat
    BY <1>3
  <1> HIDE DEF g
  <1>5. SumFunctionOnSet(g, Parts(e, k)) \in Nat
    BY <1>2, <1>4, SumOfNaturals
  <1>6. SumFunction(g) \in Nat
    BY <1>4, <1>5 DEF SumFunction
  <1> QED BY <1>6 DEF FramesBefore, g

LEMMA FramesGrow ==
    ASSUME NEW e, IsStream(e), NEW k \in DOMAIN e
    PROVE  /\ IsPart(e[k]) => /\ Len(e[k].frames) \in Nat
                              /\ FramesBefore(e, k + 1) = FramesBefore(e, k) + Len(e[k].frames)
           /\ ~IsPart(e[k]) => FramesBefore(e, k + 1) = FramesBefore(e, k)
  <1>1. CASE ~IsPart(e[k])
    <2>1. Parts(e, k + 1) = Parts(e, k)
      BY <1>1, PartsGrow
    <2> QED BY <1>1, <2>1 DEF FramesBefore
  <1>2. CASE IsPart(e[k])
    <2> DEFINE P == Parts(e, k)
               Q == Parts(e, k + 1)
               g == [i \in P |-> Len(e[i].frames)]
               h == [i \in Q |-> Len(e[i].frames)]
    <2>1. Q = P \union {k} /\ k \notin P /\ P \subseteq 1..(k - 1)
      BY <1>2, PartsGrow
    <2>2. IsFiniteSet(P) /\ IsFiniteSet(Q)
      <3>1. IsFiniteSet(P)
        BY PartsGrow
      <3> HIDE DEF P, Q
      <3> QED BY <2>1, <3>1, FS_AddElement
    <2>3. \A i \in Q : Len(e[i].frames) \in Nat
      <3>1. \A i \in Q : i \in DOMAIN e /\ e[i].kind = "packet"
        <4>1. k \in Nat /\ k \in 1..Len(e) /\ Len(e) \in Nat
          BY DEF IsStream
        <4>2. \A i \in Q : i \in 1..((k + 1) - 1) /\ e[i].kind = "packet"
          BY DEF Parts
        <4> HIDE DEF Q
        <4> QED BY <4>1, <4>2 DEF IsStream
      <3> HIDE DEF P, Q
      <3> QED BY <3>1 DEF IsStream, IsPacket
    <2>4. FramesBefore(e, k) = SumFunctionOnSet(g, P) /\ FramesBefore(e, k + 1) = SumFunctionOnSet(h, Q)
      BY DEF FramesBefore, SumFunction
    <2> HIDE DEF P, Q
    <2>5. /\ \A i \in Q : h[i] \in Nat /\ h[i] \in Int
          /\ \A i \in P : g[i] \in Int /\ h[i] = g[i] * 1
          /\ h[k] = Len(e[k].frames) /\ k \in Q
      BY <2>1, <2>3
    <2> HIDE DEF g, h
    <2>6. SumFunctionOnSet(h, Q) = h[k] + SumFunctionOnSet(h, Q \ {k})
      BY <2>2, <2>5, SumSplits
    <2>7. Q \ {k} = P
      BY <2>1
    <2>8. SumFunctionOnSet(h, P) = SumFunctionOnSet(g, P) * 1 /\ SumFunctionOnSet(g, P) \in Int
      BY <2>2, <2>5, SumOfMultiples, SumIsInt
    <2>9. h[k] \in Nat
      BY <2>5
    <2>10. SumFunctionOnSet(h, Q) = h[k] + SumFunctionOnSet(g, P)
      <3>1. SumFunctionOnSet(h, P) = SumFunctionOnSet(g, P)
        BY <2>8
      <3> QED BY <2>6, <2>7, <3>1, Zenon
    <2>11. FramesBefore(e, k + 1) = FramesBefore(e, k) + h[k]
      BY <2>4, <2>8, <2>9, <2>10
    <2> QED BY <1>2, <2>5, <2>9, <2>11
  <1> QED BY <1>1, <1>2

\* A packet of the stream is where it belongs.
InPlace(e, k, audio, c, i) ==
    /\ e[i].channels = c
    /\ FramesBefore(e, i) + Len(e[i].frames) <= FramesBefore(e, k)
    /\ \A b \in 1..c, j \in 1..Len(e[i].frames) :
          audio[b][FramesBefore(e, i) + j] = e[i].frames[j][b]

Assembled(e, k, audio, c) ==
    /\ c \in Nat \ {0} /\ audio \in Audio(c, FramesBefore(e, k))
    /\ \A i \in Parts(e, k) : InPlace(e, k, audio, c, i)

\* Audio is what the packets before an event hold.
Holds(e, k, audio) ==
    /\ Parts(e, k) = {} => audio = <<>>
    /\ Parts(e, k) # {} => \E c : Assembled(e, k, audio, c)

LEMMA HeldAudio ==
    ASSUME NEW e, IsStream(e), NEW k \in DOMAIN e, NEW audio, Holds(e, k, audio), audio # <<>>
    PROVE  Parts(e, k) # {} /\ Channels(audio) \in Nat \ {0} /\ Assembled(e, k, audio, Channels(audio))
  <1>1. Parts(e, k) # {}
    BY DEF Holds
  <1>2. PICK c : Assembled(e, k, audio, c)
    BY <1>1 DEF Holds
  <1>3. FramesBefore(e, k) \in Nat
    BY FramesBeforeType
  <1>4. c = Channels(audio)
    BY <1>2, <1>3, AudioIs DEF Assembled
  <1> QED BY <1>1, <1>2, <1>4 DEF Assembled

LEMMA FreshAudio ==
    ASSUME NEW e, IsStream(e), NEW k \in DOMAIN e, IsPart(e[k])
    PROVE  /\ e[k].channels \in Nat \ {0}
           /\ Deinterleaved(e[k]) \in Audio(e[k].channels, Len(e[k].frames))
           /\ \A b \in 1..e[k].channels, j \in 1..Len(e[k].frames) :
                 Deinterleaved(e[k])[b][j] = e[k].frames[j][b]
  <1> DEFINE c == e[k].channels
             frames == e[k].frames
             n == Len(frames)
  <1>1. c \in Nat \ {0} /\ frames \in Seq(Seq(Int)) /\ \A j \in DOMAIN frames : Len(frames[j]) = c
    BY DEF IsStream, IsPart, IsPacket
  <1>2. Deinterleaved(e[k]) = [b \in 1..c |-> [j \in DOMAIN frames |-> frames[j][b]]]
    BY DEF Deinterleaved
  <1> HIDE DEF c, frames
  <1>3. DOMAIN frames = 1..n /\ n \in Nat
    BY <1>1
  <1>4. \A j \in 1..n : frames[j] \in Seq(Int) /\ Len(frames[j]) = c
    <2>1. \A j \in 1..n : frames[j] \in Seq(Int)
      BY <1>1
    <2>2. \A j \in 1..n : Len(frames[j]) = c
      BY <1>1, <1>3
    <2> QED BY <2>1, <2>2
  <1>5. \A j \in 1..n, b \in 1..c : frames[j][b] \in Int
    BY <1>1, <1>4
  <1>6. Deinterleaved(e[k]) \in Audio(c, n)
    BY <1>2, <1>3, <1>5 DEF Audio
  <1>7. \A b \in 1..c, j \in 1..n : Deinterleaved(e[k])[b][j] = frames[j][b]
    BY <1>2, <1>3
  <1> QED BY <1>1, <1>6, <1>7 DEF c, frames

LEMMA FirstPart ==
    ASSUME NEW e, IsStream(e), NEW k \in DOMAIN e, IsPart(e[k]), Parts(e, k) = {}
    PROVE  Assembled(e, k + 1, Deinterleaved(e[k]), e[k].channels)
  <1> DEFINE c == e[k].channels
             l == Len(e[k].frames)
             fresh == Deinterleaved(e[k])
  <1>1. c \in Nat \ {0} /\ fresh \in Audio(c, l)
    BY FreshAudio
  <1>2. Parts(e, k + 1) = {k}
    BY PartsGrow
  <1>3. l \in Nat /\ FramesBefore(e, k + 1) = FramesBefore(e, k) + l
    BY FramesGrow
  <1>4. FramesBefore(e, k) = 0
    <2> DEFINE g == [i \in Parts(e, k) |-> Len(e[i].frames)]
    <2>1. DOMAIN g = 1..0
      OBVIOUS
    <2>2. SumFunction(g) = 0
      <3> HIDE DEF g
      <3> QED BY <2>1, SumOfNone
    <2> QED BY <2>2 DEF FramesBefore
  <1>5. InPlace(e, k + 1, fresh, c, k)
    <2>1. \A b \in 1..c, j \in 1..l : fresh[b][0 + j] = e[k].frames[j][b]
      BY FreshAudio
    <2> HIDE DEF c, l, fresh
    <2> QED BY <1>3, <1>4, <2>1 DEF InPlace, c, l
  <1>6. FramesBefore(e, k + 1) = l
    BY <1>3, <1>4
  <1> HIDE DEF c, l, fresh
  <1> QED BY <1>1, <1>2, <1>5, <1>6 DEF Assembled, c, fresh

LEMMA OneMorePart ==
    ASSUME NEW e, IsStream(e), NEW k \in DOMAIN e, IsPart(e[k]),
           NEW audio, NEW c, c = e[k].channels, Assembled(e, k, audio, c)
    PROVE  Assembled(e, k + 1,
                     [b \in DOMAIN audio |-> audio[b] \o Deinterleaved(e[k])[b]], c)
  <1> DEFINE l == Len(e[k].frames)
             n == FramesBefore(e, k)
             fresh == Deinterleaved(e[k])
             longer == [b \in DOMAIN audio |-> audio[b] \o fresh[b]]
  <1>1. c \in Nat \ {0} /\ fresh \in Audio(c, l)
    BY FreshAudio
  <1>2. Parts(e, k + 1) = Parts(e, k) \union {k}
    BY PartsGrow
  <1>3. l \in Nat /\ FramesBefore(e, k + 1) = n + l
    BY FramesGrow
  <1>4. n \in Nat
    BY FramesBeforeType
  <1>5. audio \in Audio(c, n)
    BY DEF Assembled
  <1>6. \A b \in 1..c, j \in 1..l : fresh[b][j] = e[k].frames[j][b]
    BY FreshAudio
  <1> HIDE DEF l, n, fresh
  <1>7. ASSUME NEW b \in 1..c
        PROVE  /\ longer[b] \in [1..(n + l) -> Int]
               /\ \A j \in 1..n : longer[b][j] = audio[b][j]
               /\ \A j \in 1..l : longer[b][n + j] = fresh[b][j]
    <2>1. audio[b] \in [1..n -> Int] /\ fresh[b] \in [1..l -> Int] /\ b \in DOMAIN audio
      BY <1>1, <1>5 DEF Audio
    <2>2. longer[b] = audio[b] \o fresh[b]
      BY <2>1
    <2> HIDE DEF longer
    <2>3. Len(audio[b]) = n /\ Len(fresh[b]) = l
      BY <1>3, <1>4, <2>1
    <2>4. longer[b] = [j \in 1..(n + l) |-> IF j <= n THEN audio[b][j] ELSE fresh[b][j - n]]
      BY <2>1, <2>2, <2>3
    <2>5. \A j \in 1..(n + l) : (IF j <= n THEN audio[b][j] ELSE fresh[b][j - n]) \in Int
      BY <1>3, <1>4, <2>1
    <2>6. longer[b] \in [1..(n + l) -> Int]
      BY <2>4, <2>5
    <2>7. \A j \in 1..n : longer[b][j] = audio[b][j]
      BY <1>3, <1>4, <2>4
    <2>8. \A j \in 1..l : longer[b][n + j] = fresh[b][j]
      <3> TAKE j \in 1..l
      <3>1. n + j \in 1..(n + l) /\ ~(n + j <= n) /\ (n + j) - n = j
        BY <1>3, <1>4
      <3> QED BY <2>4, <3>1
    <2> QED BY <2>6, <2>7, <2>8
  <1>8. longer \in Audio(c, n + l)
    <2>1. DOMAIN audio = 1..c
      BY <1>5 DEF Audio
    <2>2. longer = [b \in 1..c |-> longer[b]]
      BY <2>1
    <2> HIDE DEF longer
    <2> QED BY <1>7, <2>2 DEF Audio
  <1> HIDE DEF longer
  <1>9. ASSUME NEW i \in Parts(e, k)
        PROVE  InPlace(e, k + 1, longer, c, i)
    <2>1. InPlace(e, k, audio, c, i)
      BY DEF Assembled
    <2>2. FramesBefore(e, i) \in Nat /\ Len(e[i].frames) \in Nat
      <3>1. i \in DOMAIN e /\ IsPart(e[i])
        <4>1. k \in 1..Len(e) /\ Len(e) \in Nat /\ i \in 1..(k - 1)
          BY PartsGrow DEF IsStream
        <4>2. i \in 1..Len(e)
          BY <4>1
        <4> QED BY <4>2 DEF IsStream, Parts, IsPart
      <3> QED BY <3>1, FramesBeforeType, FramesGrow
    <2> DEFINE first == FramesBefore(e, i)
               m == Len(e[i].frames)
    <2>3. /\ e[i].channels = c /\ first + m <= n
          /\ \A b \in 1..c, j \in 1..m : audio[b][first + j] = e[i].frames[j][b]
      BY <2>1 DEF InPlace, n
    <2>4. first \in Nat /\ m \in Nat
      BY <2>2
    <2> HIDE DEF first, m
    <2>5. \A j \in 1..m : first + j \in 1..n
      BY <1>4, <2>3, <2>4
    <2>6. \A b \in 1..c, j \in 1..m : longer[b][first + j] = e[i].frames[j][b]
      BY <1>7, <2>3, <2>5
    <2>7. first + m <= n + l
      BY <1>3, <1>4, <2>3, <2>4
    <2> QED BY <1>3, <2>3, <2>6, <2>7 DEF InPlace, first, m
  <1>10. InPlace(e, k + 1, longer, c, k)
    <2>1. \A b \in 1..c, j \in 1..l : longer[b][n + j] = e[k].frames[j][b]
      BY <1>6, <1>7
    <2>2. n + l <= FramesBefore(e, k + 1)
      BY <1>3, <1>4
    <2> QED BY <2>1, <2>2 DEF InPlace, n, l
  <1>11. Assembled(e, k + 1, longer, c)
    BY <1>1, <1>2, <1>3, <1>8, <1>9, <1>10 DEF Assembled
  <1> QED BY <1>11 DEF longer, fresh

LEMMA SamePart ==
    ASSUME NEW e, IsStream(e), NEW k \in DOMAIN e, ~IsPart(e[k]), NEW audio, Holds(e, k, audio)
    PROVE  Holds(e, k + 1, audio)
  <1>1. Parts(e, k + 1) = Parts(e, k) /\ FramesBefore(e, k + 1) = FramesBefore(e, k)
    BY PartsGrow, FramesGrow
  <1>2. \A c : Assembled(e, k, audio, c) => Assembled(e, k + 1, audio, c)
    BY <1>1 DEF Assembled, InPlace
  <1> QED BY <1>1, <1>2 DEF Holds

DecoderInv ==
    /\ source \in Files
    /\ decoding \in {"open", "done", "failed"}
    /\ next \in DOMAIN source.events
    /\ \A i \in 1..(next - 1) : source.events[i].kind = "packet"
    /\ decoding # "failed" => Holds(source.events, next, decoded)
    /\ Decoded => source.events[next].kind \in {"end", "cut"} /\ decoded # <<>>

\* What the decoder holds is what the packets so far hold, in their places.
THEOREM DecoderInvariant == SignalSpec => []DecoderInv
  <1>1. SignalInit => DecoderInv
    <2> SUFFICES ASSUME SignalInit PROVE DecoderInv
      OBVIOUS
    <2>1. IsStream(source.events) /\ source \in Files
      BY StreamsAre DEF SignalInit
    <2>2. 1 \in DOMAIN source.events /\ next = 1 /\ decoded = <<>> /\ decoding = "open"
      BY <2>1 DEF SignalInit, IsStream
    <2>3. Parts(source.events, next) = {} /\ 1..(next - 1) = {}
      BY <2>2 DEF Parts
    <2> QED BY <2>1, <2>2, <2>3 DEF DecoderInv, Holds, Decoded
  <1>2. DecoderInv /\ [SignalNext]_signalVars => DecoderInv'
    <2> SUFFICES ASSUME DecoderInv, [SignalNext]_signalVars PROVE DecoderInv'
      OBVIOUS
    <2> DEFINE e == source.events
    <2>1. IsStream(e) /\ next \in DOMAIN e /\ source \in Files
      BY StreamsAre DEF DecoderInv
    <2>2. ASSUME Upcoming.kind = "packet", next' = next + 1, UNCHANGED source
          PROVE  /\ source' \in Files /\ e' = e /\ next' \in DOMAIN e'
                 /\ \A i \in 1..(next' - 1) : source'.events[i].kind = "packet"
      <3>1. DOMAIN e = 1..Len(e) /\ Len(e) \in Nat /\ e[next].kind = "packet" /\ e[Len(e)].kind # "packet"
        BY <2>1, <2>2 DEF IsStream, Upcoming
      <3>2. next + 1 \in DOMAIN e
        BY <2>1, <3>1
      <3>3. \A i \in 1..(next - 1) : e[i].kind = "packet"
        BY DEF DecoderInv
      <3>4. \A i \in 1..((next + 1) - 1) : i \in 1..(next - 1) \/ i = next
        BY <2>1, <3>1
      <3>5. \A i \in 1..((next + 1) - 1) : e[i].kind = "packet"
        BY <3>1, <3>3, <3>4
      <3> QED BY <2>1, <2>2, <3>2, <3>5
    <2>3. CASE DecodePacket
      <3> USE <2>3 DEF DecodePacket
      <3> DEFINE fresh == Deinterleaved(Upcoming)
      <3>1. Upcoming = e[next] /\ IsPart(e[next]) /\ decoding = "open" /\ next' = next + 1
        BY DEF Upcoming, IsPart
      <3>2. Holds(e, next, decoded)
        BY <3>1 DEF DecoderInv
      <3>3. Parts(e, next + 1) # {}
        BY <2>1, <3>1, PartsGrow
      <3>4. CASE ~(ExpectedChannels \in {0, Upcoming.channels})
        BY <2>2, <3>4 DEF DecoderInv, Decoded
      <3>5. CASE ExpectedChannels \in {0, Upcoming.channels}
        <4>1. UNCHANGED decoding
          BY <3>5
        <4>2. Holds(e, next + 1, decoded')
          <5>1. CASE decoded = <<>>
            <6>1. Parts(e, next) = {}
              <7>1. ASSUME NEW c PROVE ~Assembled(e, next, decoded, c)
                <8>1. FramesBefore(e, next) \in Nat
                  BY <2>1, FramesBeforeType
                <8> QED BY <5>1, <8>1, AudioIs DEF Assembled
              <7> QED BY <3>2, <7>1 DEF Holds
            <6>2. decoded' = fresh
              BY <3>5, <5>1
            <6>3. Assembled(e, next + 1, fresh, e[next].channels)
              BY <2>1, <3>1, <6>1, FirstPart
            <6> QED BY <3>3, <6>2, <6>3 DEF Holds
          <5>2. CASE decoded # <<>>
            <6> DEFINE c == Channels(decoded)
            <6>1. c \in Nat \ {0} /\ Assembled(e, next, decoded, c)
              BY <2>1, <3>2, <5>2, HeldAudio
            <6>2. c = e[next].channels
              BY <3>1, <3>5, <5>2, <6>1 DEF ExpectedChannels
            <6>3. decoded' = [b \in DOMAIN decoded |-> decoded[b] \o Deinterleaved(e[next])[b]]
              BY <3>1, <3>5, <5>2
            <6> HIDE DEF c
            <6>4. Assembled(e, next + 1, decoded', c)
              BY <2>1, <3>1, <6>1, <6>2, <6>3, OneMorePart
            <6> QED BY <3>3, <6>4 DEF Holds
          <5> QED BY <5>1, <5>2
        <4> QED BY <2>2, <3>1, <4>1, <4>2 DEF DecoderInv, Decoded
      <3> QED BY <3>4, <3>5
    <2>4. CASE SkipForeignPacket
      <3>1. /\ Upcoming = e[next] /\ Upcoming.kind = "packet" /\ ~IsPart(e[next])
            /\ decoding = "open" /\ next' = next + 1 /\ UNCHANGED <<source, decoded, decoding>>
        BY <2>4 DEF SkipForeignPacket, Upcoming, IsPart
      <3>2. Holds(e, next + 1, decoded)
        BY <2>1, <3>1, SamePart DEF DecoderInv
      <3> QED BY <2>2, <3>1, <3>2 DEF DecoderInv, Decoded
    <2>5. CASE EndOfFile
      BY <2>5 DEF EndOfFile, Ends, Upcoming, DecoderInv, Decoded
    <2>6. CASE RefuseDamage
      BY <2>6 DEF RefuseDamage, Ends, DecoderInv, Decoded
    <2>7. CASE UNCHANGED signalVars
      BY <2>7 DEF signalVars, DecoderInv, Decoded
    <2> QED BY <2>3, <2>4, <2>5, <2>6, <2>7 DEF SignalNext
  <1> QED BY <1>1, <1>2, PTL DEF SignalSpec

-----------------------------------------------------------------------------
(* What is measured and simulated.                                         *)

LEMMA DecodedIs ==
    ASSUME DecoderInv, Decoded
    PROVE  /\ IsStream(source.events) /\ next \in DOMAIN source.events
           /\ Parts(source.events, next) # {} /\ Channels(decoded) \in Nat \ {0}
           /\ FramesBefore(source.events, next) \in Nat
           /\ decoded \in Audio(Channels(decoded), FramesBefore(source.events, next))
           /\ \A i \in Parts(source.events, next) :
                 InPlace(source.events, next, decoded, Channels(decoded), i)
  <1> DEFINE e == source.events
  <1>1. IsStream(e) /\ next \in DOMAIN e
    BY StreamsAre DEF DecoderInv
  <1>2. Holds(e, next, decoded) /\ decoded # <<>>
    BY DEF DecoderInv, Decoded
  <1>3. /\ Parts(e, next) # {} /\ Channels(decoded) \in Nat \ {0}
        /\ Assembled(e, next, decoded, Channels(decoded))
    BY <1>1, <1>2, HeldAudio
  <1>4. FramesBefore(e, next) \in Nat
    BY <1>1, FramesBeforeType
  <1> QED BY <1>1, <1>3, <1>4 DEF Assembled

LEMMA WholeFile == DecoderInv => NothingSkipped
  <1> SUFFICES ASSUME DecoderInv, Decoded PROVE NothingSkipped
    BY DEF NothingSkipped
  <1> DEFINE e == source.events
             c == Channels(decoded)
             n == FramesBefore(e, next)
             others == {i \in DOMAIN e : e[i].kind # "packet"}
             stop == Min(others)
  <1>1. /\ IsStream(e) /\ next \in DOMAIN e /\ Parts(e, next) # {} /\ c \in Nat \ {0}
        /\ n \in Nat /\ decoded \in Audio(c, n)
        /\ \A i \in Parts(e, next) : InPlace(e, next, decoded, c, i)
    BY DecodedIs
  <1>2. stop = next
    <2>1. e[next].kind \in {"end", "cut"} /\ \A i \in 1..(next - 1) : e[i].kind = "packet"
      BY DEF DecoderInv
    <2>2. others \in SUBSET Nat /\ next \in others
      BY <1>1, <2>1 DEF IsStream
    <2>3. stop \in others /\ \A i \in others : stop <= i
      <3> HIDE DEF others
      <3> QED BY <2>2, MinIsLeast
    <2> HIDE DEF stop
    <2>4. stop <= next /\ stop \in Nat /\ next \in Nat /\ stop \in DOMAIN e
      BY <2>2, <2>3
    <2>5. stop \notin 1..(next - 1)
      BY <2>1, <2>3
    <2>6. stop >= 1
      BY <1>1, <2>4 DEF IsStream
    <2> QED BY <2>4, <2>5, <2>6
  <1>3. e[next].kind \in {"end", "cut"}
    BY DEF DecoderInv
  <1>4. DOMAIN decoded = 1..c /\ \A b \in 1..c : Len(decoded[b]) = n
    <2>1. DOMAIN decoded = 1..c /\ \A b \in 1..c : decoded[b] \in [1..n -> Int]
      BY <1>1 DEF Audio
    <2> HIDE DEF n, c
    <2> QED BY <1>1, <2>1
  <1>5. ASSUME NEW i \in Parts(e, next)
        PROVE  /\ e[i].channels = c
               /\ \A b \in DOMAIN decoded, j \in DOMAIN e[i].frames :
                     decoded[b][FramesBefore(e, i) + j] = e[i].frames[j][b]
    <2>1. i \in DOMAIN e /\ e[i].kind = "packet"
      <3>1. next \in 1..Len(e) /\ Len(e) \in Nat /\ i \in 1..(next - 1)
        BY <1>1, PartsGrow DEF IsStream
      <3>2. i \in 1..Len(e)
        BY <3>1
      <3> QED BY <1>1, <3>2 DEF IsStream, Parts
    <2>2. e[i].frames \in Seq(Seq(Int))
      BY <1>1, <2>1 DEF IsStream, IsPacket
    <2>3. DOMAIN e[i].frames = 1..Len(e[i].frames)
      BY <2>2
    <2> QED BY <1>1, <1>4, <2>3 DEF InPlace
  <1> HIDE DEF c, stop
  <1> QED BY <1>1, <1>2, <1>3, <1>4, <1>5 DEF NothingSkipped, c, stop

\* A file is measured as a whole or not at all.
THEOREM WholeFileOrNone == SignalSpec => []NothingSkipped
  BY DecoderInvariant, WholeFile, PTL

LEMMA TargetIs ==
    ASSUME NEW n \in Nat, NEW basis \in Audio(2, n), NEW d \in Devices
    PROVE  SamplePeak(TransformTarget(basis, d)) \in Nat
  <1>1. d.width \in Nat /\ d.chain \in Seq(Filters) /\ 1 \in Nat \ {0} /\ 2 \in Nat \ {0}
    BY SignalAssumption
  <1>2. ApplyStereoWidth(basis, d.width) \in Audio(2, n) /\ FoldToMono(basis) \in Audio(1, n)
    BY <1>1, WidthKeepsMiddle
  <1>3. /\ ApplyFilterChain(d.chain, ApplyStereoWidth(basis, d.width)) \in Audio(2, n)
        /\ ApplyFilterChain(d.chain, FoldToMono(basis)) \in Audio(1, n)
    BY <1>1, <1>2, ChainedType
  <1>4. /\ SamplePeak(ApplyFilterChain(d.chain, ApplyStereoWidth(basis, d.width))) \in Nat
        /\ SamplePeak(ApplyFilterChain(d.chain, FoldToMono(basis))) \in Nat
    BY <1>1, <1>3, PeakIs
  <1> QED BY <1>4 DEF TransformTarget

LEMMA NoLouder == DecoderInv => TargetsKeepPeak
  <1> SUFFICES ASSUME DecoderInv, Decoded, NEW d \in Devices
               PROVE  SamplePeak(Simulate(decoded, d).samples) * Simulate(decoded, d).num
                        <= SamplePeak(decoded) * Simulate(decoded, d).den
    BY DEF TargetsKeepPeak
  <1> DEFINE n == FramesBefore(source.events, next)
             basis == StereoBasis(decoded)
             played == TransformTarget(basis, d)
             p == SamplePeak(decoded)
             b == SamplePeak(basis)
             q == SamplePeak(played)
  <1>1. n \in Nat /\ Channels(decoded) \in Nat \ {0} /\ decoded \in Audio(Channels(decoded), n)
    BY DecodedIs
  <1>2. basis \in Audio(2, n) /\ p \in Nat /\ b \in Nat /\ b <= p
    BY <1>1, BasisIs
  <1> HIDE DEF n, basis
  <1>3. q \in Nat
    BY <1>1, <1>2, TargetIs
  <1>4. Simulate(decoded, d) = AttenuateToSourcePeak(played, b)
    BY DEF Simulate, basis
  <1> HIDE DEF played
  <1>5. CASE q > b
    <2>1. /\ Simulate(decoded, d).samples = played
          /\ Simulate(decoded, d).num = b /\ Simulate(decoded, d).den = q
      BY <1>4, <1>5 DEF AttenuateToSourcePeak
    <2>2. b * q <= p * q /\ q * b = b * q
      <3> HIDE DEF p, b, q
      <3> QED BY <1>2, <1>3, MulMono
    <2> QED BY <2>1, <2>2
  <1>6. CASE ~(q > b)
    <2>1. /\ Simulate(decoded, d).samples = played
          /\ Simulate(decoded, d).num = 1 /\ Simulate(decoded, d).den = 1
      BY <1>4, <1>6 DEF AttenuateToSourcePeak
    <2>2. q * 1 <= p * 1
      <3> HIDE DEF p, b, q
      <3> QED BY <1>2, <1>3, <1>6
    <2> QED BY <2>1, <2>2
  <1> QED BY <1>5, <1>6

\* No target plays louder than the source, whatever its filters.
THEOREM TargetsAreNoLouder == SignalSpec => []TargetsKeepPeak
  BY DecoderInvariant, NoLouder, PTL

LEMMA FoldingCommutes == DecoderInv => FoldDownCommutes
  <1> SUFFICES ASSUME DecoderInv, Decoded PROVE FoldDownCommutes
    BY DEF FoldDownCommutes
  <1> DEFINE n == FramesBefore(source.events, next)
             basis == StereoBasis(decoded)
  <1>1. n \in Nat /\ Channels(decoded) \in Nat \ {0} /\ decoded \in Audio(Channels(decoded), n)
    BY DecodedIs
  <1>2. basis \in Audio(2, n)
    BY <1>1, BasisIs
  <1> HIDE DEF n, basis
  <1>3. \A d \in Devices : d.width # 0 =>
           FoldToMono(TransformTarget(basis, d)) = TransformTarget(basis, [d EXCEPT !.width = 0])
    BY <1>1, <1>2, FoldsDown
  <1> QED BY <1>3 DEF FoldDownCommutes, basis

\* Folding down a stereo target is playing the mono one.
THEOREM FoldingDownCommutes == SignalSpec => []FoldDownCommutes
  BY DecoderInvariant, FoldingCommutes, PTL

-----------------------------------------------------------------------------
(* Measures of one recording.                                              *)

LEMMA MaxIsThe ==
    ASSUME NEW most \in Nat, NEW T \in SUBSET (0..most), most \in T
    PROVE  Max(T) = most
  <1>1. Max(T) \in T /\ \A n \in T : Max(T) >= n
    <2>1. T # {}
      OBVIOUS
    <2> QED BY <2>1, MaxIsLargest
  <1>2. Max(T) \in 0..most /\ Max(T) >= most
    BY <1>1
  <1> QED BY <1>2

\* The line between two samples stays between them.
LEMMA NoHigherBetween ==
    ASSUME NEW p \in Nat, NEW a \in (-p)..p, NEW b \in (-p)..p, NEW q \in 1..3
    PROVE  Abs(a + ((b - a) * q) \div 4) \in 0..p
  <1>1. q = 1 \/ q = 2 \/ q = 3
    OBVIOUS
  <1>2. a + ((b - a) * q) \div 4 \in (-p)..p
    <2>1. CASE q = 1
      BY <2>1
    <2>2. CASE q = 2
      BY <2>2
    <2>3. CASE q = 3
      BY <2>3
    <2> QED BY <1>1, <2>1, <2>2, <2>3
  <1> QED BY <1>2 DEF Abs

LEMMA TruePeakIs ==
    ASSUME NEW c \in Nat \ {0}, NEW n \in Nat, NEW audio \in Audio(c, n)
    PROVE  ApproxTruePeak(audio) = SamplePeak(audio)
  <1> DEFINE p == SamplePeak(audio)
             between(k, i, q) == Abs(audio[k][i] + ((audio[k][i + 1] - audio[k][i]) * q) \div 4)
             levels == {0} \union {Level(audio, x) : x \in Places(audio)}
             T == levels \union {between(k, i, q) : k \in DOMAIN audio, i \in 1..(n - 1), q \in 1..3}
  <1>1. /\ p \in Nat
        /\ p = 0 \/ \E x \in Places(audio) : p = Level(audio, x)
        /\ \A x \in Places(audio) : Level(audio, x) <= p
    BY PeakIs
  <1>2. /\ \A x \in Places(audio) : Level(audio, x) \in Nat
        /\ DOMAIN audio = 1..c /\ Frames(audio) = n
    BY AudioIs
  <1>3. \A k \in 1..c, i \in 1..n : audio[k][i] \in (-p)..p
    BY PeakCovers
  <1>4. ApproxTruePeak(audio) = Max(T)
    BY <1>2 DEF ApproxTruePeak
  <1> HIDE DEF p
  <1>5. levels \in SUBSET (0..p) /\ p \in levels
    BY <1>1, <1>2
  <1>6. \A k \in 1..c, i \in 1..(n - 1), q \in 1..3 : between(k, i, q) \in 0..p
    <2> TAKE k \in 1..c, i \in 1..(n - 1), q \in 1..3
    <2>1. i \in 1..n /\ i + 1 \in 1..n
      OBVIOUS
    <2>2. audio[k][i] \in (-p)..p /\ audio[k][i + 1] \in (-p)..p
      BY <1>3, <2>1
    <2> QED BY <1>1, <2>2, NoHigherBetween
  <1> HIDE DEF levels, between
  <1>7. T \in SUBSET (0..p) /\ p \in T
    <2>1. ASSUME NEW x \in T
          PROVE  x \in 0..p
      <3>1. CASE x \in levels
        BY <1>5, <3>1
      <3>2. CASE x \notin levels
        <4>1. PICK k \in DOMAIN audio, i \in 1..(n - 1), q \in 1..3 : x = between(k, i, q)
          BY <3>2
        <4> QED BY <1>2, <1>6, <4>1
      <3> QED BY <3>1, <3>2
    <2>2. p \in T
      BY <1>5
    <2> HIDE DEF T
    <2> QED BY <2>1, <2>2
  <1> HIDE DEF T
  <1>8. Max(T) = p
    BY <1>1, <1>7, MaxIsThe
  <1> QED BY <1>4, <1>8 DEF p

LEMMA ClippedIs ==
    ASSUME NEW c \in Nat \ {0}, NEW n \in Nat, NEW audio \in Audio(c, n)
    PROVE  (ClippedSamples(audio) > 0) <=> (SamplePeak(audio) >= FullScale)
  <1> DEFINE over == {p \in Places(audio) : Level(audio, p) >= FullScale}
             peak == SamplePeak(audio)
  <1>1. FullScale \in Nat \ {0}
    BY SignalAssumption
  <1>2. /\ peak \in Nat
        /\ peak = 0 \/ \E p \in Places(audio) : peak = Level(audio, p)
        /\ \A p \in Places(audio) : Level(audio, p) <= peak
    BY PeakIs
  <1>3. IsFiniteSet(Places(audio)) /\ \A p \in Places(audio) : Level(audio, p) \in Nat
    BY AudioIs
  <1>4. ClippedSamples(audio) = Cardinality(over)
    BY DEF ClippedSamples
  <1>5. IsFiniteSet(over)
    BY <1>3, FS_Subset
  <1> HIDE DEF peak
  <1>6. over # {} <=> peak >= FullScale
    BY <1>1, <1>2, <1>3
  <1> HIDE DEF over
  <1>7. Cardinality(over) \in Nat /\ (Cardinality(over) = 0 <=> over = {})
    BY <1>5, FS_CardinalityType, FS_EmptySet
  <1> QED BY <1>4, <1>6, <1>7 DEF peak

LEMMA SquareWithin ==
    ASSUME NEW p \in Nat, NEW x \in (-p)..p
    PROVE  x * x \in Int /\ x * x <= p * p
  <1>1. \A a, b \in Nat : a <= b => a * a <= b * b
    <2> TAKE a, b \in Nat
    <2>1. a <= b => a * a <= b * a /\ a * b <= b * b
      BY MulMono
    <2>2. a * b = b * a /\ a * a \in Nat /\ b * a \in Nat /\ b * b \in Nat
      OBVIOUS
    <2> QED BY <2>1, <2>2
  <1>2. CASE x >= 0
    BY <1>1, <1>2
  <1>3. CASE x < 0
    <2>1. -x \in Nat /\ -x <= p /\ (-x) * (-x) = x * x
      BY <1>3
    <2> QED BY <1>1, <2>1
  <1> QED BY <1>2, <1>3

LEMMA EnergyAtMost ==
    ASSUME NEW c \in Nat \ {0}, NEW n \in Nat, NEW audio \in Audio(c, n)
    PROVE  Energy(audio) <= Channels(audio) * Frames(audio) * (SamplePeak(audio) * SamplePeak(audio))
  <1> DEFINE S == Places(audio)
             p == SamplePeak(audio)
             g == [x \in S |-> EnergyOf(audio[x[1]][x[2]])]
             most == p * p
  <1>1. S = (1..c) \X (1..n) /\ IsFiniteSet(S) /\ Channels(audio) = c /\ Frames(audio) = n
    BY AudioIs
  <1>2. p \in Nat /\ \A k \in 1..c, i \in 1..n : audio[k][i] \in (-p)..p
    BY PeakCovers
  <1>3. Cardinality(S) = c * n
    <2>1. /\ IsFiniteSet(1..c) /\ Cardinality(1..c) = c
          /\ IsFiniteSet(1..n) /\ Cardinality(1..n) = n
      BY UpTo
    <2>2. Cardinality((1..c) \X (1..n)) = Cardinality(1..c) * Cardinality(1..n)
      BY <2>1, FS_Product
    <2> QED BY <1>1, <2>1, <2>2
  <1> HIDE DEF p
  <1>4. \A x \in S : g[x] \in Int /\ g[x] <= most
    <2> TAKE x \in S
    <2>1. audio[x[1]][x[2]] \in (-p)..p
      BY <1>1, <1>2
    <2> QED BY <1>2, <2>1, SquareWithin DEF EnergyOf
  <1>5. most \in Int
    BY <1>2, ProductIsNatural
  <1>6. DOMAIN g = S
    OBVIOUS
  <1>7. Energy(audio) = SumFunction(g)
    BY DEF Energy
  <1> HIDE DEF g, S, most
  <1>8. SumFunctionOnSet(g, S) <= Cardinality(S) * most
    BY <1>1, <1>4, <1>5, SumIsBounded
  <1> QED BY <1>1, <1>3, <1>6, <1>7, <1>8 DEF SumFunction, most, p

-----------------------------------------------------------------------------
(* Correlations.                                                           *)

LEMMA SumAdds ==
    ASSUME NEW f, NEW g, NEW h, NEW S, IsFiniteSet(S),
           \A x \in S : f[x] \in Int /\ g[x] \in Int /\ h[x] = f[x] + g[x]
    PROVE  SumFunctionOnSet(h, S) = SumFunctionOnSet(f, S) + SumFunctionOnSet(g, S)
  <1> DEFINE Adds(s) == SumFunctionOnSet(h, s) = SumFunctionOnSet(f, s) + SumFunctionOnSet(g, s)
             Bad == {s \in SUBSET S : ~Adds(s)}
  <1> SUFFICES ASSUME Bad # {} PROVE FALSE
    OBVIOUS
  <1>1. \A s \in SUBSET S : IsFiniteSet(s)
    BY FS_Subset
  <1>2. PICK s \in Bad : \A t \in Bad : t \subseteq s => t = s
    <2>1. \A s \in Bad : IsFiniteSet(s)
      BY <1>1
    <2> HIDE DEF Bad
    <2> QED BY <2>1, LeastSet
  <1> DEFINE p == Pick(s)
             t == s \ {p}
  <1>3. s \in SUBSET S /\ ~Adds(s) /\ IsFiniteSet(s)
    BY <1>1, <1>2
  <1>4. s # {}
    <2> SUFFICES ASSUME s = {} PROVE FALSE
      OBVIOUS
    <2>1. IsFiniteSet({})
      BY FS_EmptySet
    <2>2. SumFunctionOnSet(h, {}) = 0 /\ SumFunctionOnSet(f, {}) = 0 /\ SumFunctionOnSet(g, {}) = 0
      BY <2>1, SumUnfold
    <2> QED BY <1>3, <2>2
  <1>5. p \in s
    BY <1>4, PickIn
  <1>6. /\ SumFunctionOnSet(h, s) = h[p] + SumFunctionOnSet(h, t)
        /\ SumFunctionOnSet(f, s) = f[p] + SumFunctionOnSet(f, t)
        /\ SumFunctionOnSet(g, s) = g[p] + SumFunctionOnSet(g, t)
    BY <1>3, <1>4, SumUnfold
  <1> HIDE DEF p
  <1>7. Adds(t)
    BY <1>2, <1>3, <1>5
  <1>8. /\ SumFunctionOnSet(f, t) \in Int /\ SumFunctionOnSet(g, t) \in Int
        /\ f[p] \in Int /\ g[p] \in Int /\ h[p] = f[p] + g[p]
    <2>1. t \in SUBSET S /\ IsFiniteSet(t)
      BY <1>1, <1>3
    <2> HIDE DEF t
    <2> QED BY <1>3, <1>5, <2>1, SumIsInt
  <1> HIDE DEF t
  <1> QED BY <1>3, <1>6, <1>7, <1>8

\* Sums of sequences of the same length.
Total(n, f) == SumFunctionOnSet(f, 1..n)
Times(n, xs, ys) == [i \in 1..n |-> xs[i] * ys[i]]

Multiplied(n, g, k, h) == \A i \in 1..n : g[i] \in Int /\ h[i] = g[i] * k
Added(n, f, g, h) == \A i \in 1..n : f[i] \in Int /\ g[i] \in Int /\ h[i] = f[i] + g[i]

LEMMA TotalsAreLinear ==
    ASSUME NEW n \in Nat
    PROVE  /\ \A g, h : \A k \in Int : Multiplied(n, g, k, h) => Total(n, h) = Total(n, g) * k
           /\ \A f, g, h : Added(n, f, g, h) => Total(n, h) = Total(n, f) + Total(n, g)
  <1> DEFINE S == 1..n
  <1>1. IsFiniteSet(S)
    BY UpTo
  <1>2. ASSUME NEW g, NEW h, NEW k \in Int, Multiplied(n, g, k, h)
        PROVE  Total(n, h) = Total(n, g) * k
    <2>1. \A i \in S : g[i] \in Int /\ h[i] = g[i] * k
      BY <1>2 DEF Multiplied
    <2> HIDE DEF S
    <2>2. SumFunctionOnSet(h, S) = SumFunctionOnSet(g, S) * k
      BY <1>1, <2>1, SumOfMultiples
    <2> QED BY <2>2 DEF Total, S
  <1>3. ASSUME NEW f, NEW g, NEW h, Added(n, f, g, h)
        PROVE  Total(n, h) = Total(n, f) + Total(n, g)
    <2>1. \A i \in S : f[i] \in Int /\ g[i] \in Int /\ h[i] = f[i] + g[i]
      BY <1>3 DEF Added
    <2> HIDE DEF S
    <2>2. SumFunctionOnSet(h, S) = SumFunctionOnSet(f, S) + SumFunctionOnSet(g, S)
      BY <1>1, <2>1, SumAdds
    <2> QED BY <2>2 DEF Total, S
  <1> QED BY <1>2, <1>3

LEMMA CoMomentIs ==
    ASSUME NEW n \in Nat, NEW xs \in [1..n -> Int], NEW ys \in [1..n -> Int]
    PROVE  /\ CoMoment(xs, ys) = n * Total(n, Times(n, xs, ys)) - Total(n, xs) * Total(n, ys)
           /\ Total(n, Times(n, xs, ys)) \in Int /\ Total(n, xs) \in Int /\ Total(n, ys) \in Int
  <1>1. DOMAIN xs = 1..n /\ DOMAIN ys = 1..n /\ Len(xs) = n /\ IsFiniteSet(1..n)
    BY UpTo
  <1>2. Total(n, xs) \in Int /\ Total(n, ys) \in Int
    BY <1>1, SumIsInt DEF Total
  <1>3. \A i \in 1..n : Times(n, xs, ys)[i] \in Int
    BY DEF Times
  <1>4. Total(n, Times(n, xs, ys)) \in Int
    BY <1>1, <1>3, SumIsInt DEF Total
  <1>5. SumFunction(xs) = Total(n, xs) /\ SumFunction(ys) = Total(n, ys)
    BY <1>1 DEF SumFunction, Total
  <1>6. SumFunction([i \in DOMAIN xs |-> xs[i] * ys[i]]) = Total(n, Times(n, xs, ys))
    BY <1>1 DEF SumFunction, Total, Times
  <1> QED BY <1>1, <1>2, <1>4, <1>5, <1>6 DEF CoMoment

LEMMA SquareOfMix ==
    ASSUME NEW a \in Int, NEW b \in Int, NEW x \in Int, NEW y \in Int
    PROVE  (y * a + x * (-b)) * (y * a + x * (-b))
              = ((y * y) * (a * a) + (x * y) * (-2 * (a * b))) + (x * x) * (b * b)
  OBVIOUS

LEMMA MixedMoments ==
    ASSUME NEW n \in Int, NEW a \in Int, NEW b \in Int, NEW s \in Int, NEW t \in Int,
           NEW p \in Int, NEW q \in Int, NEW r \in Int
    PROVE  n * ((q * (a * a) + p * (-2 * (a * b))) + r * (b * b))
              - (t * a + s * (-b)) * (t * a + s * (-b))
           = ((a * a) * (n * q - t * t) - 2 * ((a * b) * (n * p - s * t)))
                + (b * b) * (n * r - s * s)
  OBVIOUS

LEMMA MixedIs ==
    ASSUME NEW a \in Int, NEW b \in Int, NEW d \in Int
    PROVE  ((a * a) * d - 2 * ((a * b) * b)) + (b * b) * a = a * (a * d - b * b)
  OBVIOUS

\* The inequality of Cauchy and Schwarz.
LEMMA CorrelationWithinOne ==
    ASSUME NEW n \in Nat, NEW xs \in [1..n -> Int], NEW ys \in [1..n -> Int],
           CoMoment(xs, xs) # 0
    PROVE  CoMoment(xs, ys) * CoMoment(xs, ys) <= CoMoment(xs, xs) * CoMoment(ys, ys)
  <1> DEFINE a == CoMoment(xs, xs)
             b == CoMoment(xs, ys)
             d == CoMoment(ys, ys)
             s == Total(n, xs)
             t == Total(n, ys)
             p == Total(n, Times(n, xs, ys))
             q == Total(n, Times(n, ys, ys))
             r == Total(n, Times(n, xs, xs))
             zs == [i \in 1..n |-> ys[i] * a + xs[i] * (-b)]
  <1>1. s \in Int /\ t \in Int /\ p \in Int /\ q \in Int /\ r \in Int
    BY CoMomentIs
  <1>2. a = n * r - s * s /\ b = n * p - s * t /\ d = n * q - t * t
    BY CoMomentIs
  <1>3. a \in Nat \ {0} /\ d \in Nat
    BY CoMomentWithItself
  <1>4. b \in Int
    <2>1. \A u, v \in Int : u * v \in Int
      OBVIOUS
    <2>2. n * p \in Int /\ s * t \in Int
      BY <1>1, <2>1
    <2> HIDE DEF b, p, s, t
    <2> QED BY <1>2, <2>2
  <1> HIDE DEF a, b, d
  <1>6. zs \in [1..n -> Int]
    <2>1. \A u, v \in Int : u * v \in Int
      OBVIOUS
    <2>2. -b \in Int /\ a \in Int
      BY <1>3, <1>4
    <2>3. \A i \in 1..n : ys[i] * a \in Int /\ xs[i] * (-b) \in Int
      BY <2>1, <2>2
    <2> QED BY <2>3
  <1>7. Total(n, zs) = t * a + s * (-b)
    <2> DEFINE f == [i \in 1..n |-> ys[i] * a]
               g == [i \in 1..n |-> xs[i] * (-b)]
    <2>1. -b \in Int /\ a \in Int
      BY <1>3, <1>4
    <2>2. \A i \in 1..n : /\ f[i] \in Int /\ g[i] \in Int /\ zs[i] = f[i] + g[i]
                          /\ f[i] = ys[i] * a /\ g[i] = xs[i] * (-b)
                          /\ ys[i] \in Int /\ xs[i] \in Int
      <3>1. \A u, v \in Int : u * v \in Int
        OBVIOUS
      <3> QED BY <2>1, <3>1
    <2> HIDE DEF f, g, zs
    <2>3. Multiplied(n, ys, a, f) /\ Multiplied(n, xs, -b, g) /\ Added(n, f, g, zs)
      BY <2>2 DEF Multiplied, Added
    <2>4. /\ Total(n, f) = t * a /\ Total(n, g) = s * (-b)
          /\ Total(n, zs) = Total(n, f) + Total(n, g)
      <3> HIDE DEF s, t
      <3>1. Total(n, f) = Total(n, ys) * a
        BY <2>1, <2>3, TotalsAreLinear
      <3>2. Total(n, g) = Total(n, xs) * (-b)
        BY <2>1, <2>3, TotalsAreLinear
      <3>3. Total(n, zs) = Total(n, f) + Total(n, g)
        BY <2>3, TotalsAreLinear
      <3> QED BY <3>1, <3>2, <3>3, Zenon DEF s, t
    <2> QED BY <2>4, Zenon
  <1>8. Total(n, Times(n, zs, zs)) = (q * (a * a) + p * (-2 * (a * b))) + r * (b * b)
    <2> DEFINE u == a * a
               v == -2 * (a * b)
               w == b * b
               yy == Times(n, ys, ys)
               xy == Times(n, xs, ys)
               xx == Times(n, xs, xs)
               f == [i \in 1..n |-> yy[i] * u]
               g == [i \in 1..n |-> xy[i] * v]
               h == [i \in 1..n |-> xx[i] * w]
               fg == [i \in 1..n |-> f[i] + g[i]]
               zz == Times(n, zs, zs)
    <2>0. \A k, l \in Int : k * l \in Int
      OBVIOUS
    <2>1. u \in Int /\ v \in Int /\ w \in Int
      <3>1. a * a \in Int /\ a * b \in Int /\ b * b \in Int
        BY <1>3, <1>4, <2>0
      <3> QED BY <3>1
    <2>2. \A i \in 1..n : xs[i] \in Int /\ ys[i] \in Int
      OBVIOUS
    <2>3. \A i \in 1..n : /\ yy[i] = ys[i] * ys[i] /\ xy[i] = xs[i] * ys[i] /\ xx[i] = xs[i] * xs[i]
                          /\ yy[i] \in Int /\ xy[i] \in Int /\ xx[i] \in Int
      BY <2>0, <2>2 DEF Times
    <2>4. \A i \in 1..n : zz[i] = (yy[i] * u + xy[i] * v) + xx[i] * w
      <3> TAKE i \in 1..n
      <3>1. zz[i] = zs[i] * zs[i] /\ zs[i] = ys[i] * a + xs[i] * (-b)
        BY DEF Times
      <3>2. (ys[i] * a + xs[i] * (-b)) * (ys[i] * a + xs[i] * (-b))
              = ((ys[i] * ys[i]) * (a * a) + (xs[i] * ys[i]) * (-2 * (a * b)))
                  + (xs[i] * xs[i]) * (b * b)
        <4>1. a \in Int
          BY <1>3
        <4> QED BY <1>4, <2>2, <4>1, SquareOfMix
      <3> HIDE DEF zz, zs, yy, xy, xx
      <3> QED BY <2>3, <3>1, <3>2, Zenon
    <2> HIDE DEF yy, xy, xx, u, v, w, zz, zs
    <2>5. \A i \in 1..n : /\ f[i] = yy[i] * u /\ g[i] = xy[i] * v /\ h[i] = xx[i] * w
                          /\ f[i] \in Int /\ g[i] \in Int /\ h[i] \in Int
      BY <2>0, <2>1, <2>3
    <2>6. \A i \in 1..n : fg[i] = f[i] + g[i] /\ fg[i] \in Int
      BY <2>5
    <2>7. \A i \in 1..n : zz[i] = fg[i] + h[i]
      BY <2>4, <2>5, <2>6
    <2> HIDE DEF f, g, h, fg
    <2>8. /\ Multiplied(n, yy, u, f) /\ Multiplied(n, xy, v, g) /\ Multiplied(n, xx, w, h)
          /\ Added(n, f, g, fg) /\ Added(n, fg, h, zz)
      BY <2>3, <2>5, <2>6, <2>7 DEF Multiplied, Added
    <2>9. /\ Total(n, zz) = Total(n, fg) + Total(n, h) /\ Total(n, fg) = Total(n, f) + Total(n, g)
          /\ Total(n, f) = Total(n, yy) * u /\ Total(n, g) = Total(n, xy) * v
          /\ Total(n, h) = Total(n, xx) * w
      <3>1. Total(n, zz) = Total(n, fg) + Total(n, h) /\ Total(n, fg) = Total(n, f) + Total(n, g)
        BY <2>8, TotalsAreLinear
      <3>2. Total(n, f) = Total(n, yy) * u /\ Total(n, g) = Total(n, xy) * v
        BY <2>1, <2>8, TotalsAreLinear
      <3>3. Total(n, h) = Total(n, xx) * w
        BY <2>1, <2>8, TotalsAreLinear
      <3> QED BY <3>1, <3>2, <3>3, Zenon
    <2>10. Total(n, zz) = (q * u + p * v) + r * w
      BY <2>9, Zenon DEF yy, xy, xx
    <2> QED BY <2>10 DEF zz, u, v, w
  <1>9. CoMoment(zs, zs) = n * Total(n, Times(n, zs, zs)) - Total(n, zs) * Total(n, zs)
    <2> HIDE DEF zs
    <2> QED BY <1>6, CoMomentIs
  <1>10. CoMoment(zs, zs) \in Nat
    <2> HIDE DEF zs
    <2> QED BY <1>6, CoMomentWithItself
  <1> HIDE DEF zs, s, t, p, q, r
  <1>11. CoMoment(zs, zs) = ((a * a) * d - 2 * ((a * b) * b)) + (b * b) * a
    <2>1. n * ((q * (a * a) + p * (-2 * (a * b))) + r * (b * b))
              - (t * a + s * (-b)) * (t * a + s * (-b))
           = ((a * a) * (n * q - t * t) - 2 * ((a * b) * (n * p - s * t)))
                + (b * b) * (n * r - s * s)
      <3>1. n \in Int /\ a \in Int
        BY <1>3
      <3> QED BY <1>1, <1>4, <3>1, MixedMoments
    <2> QED BY <1>2, <1>7, <1>8, <1>9, <2>1, Zenon
  <1>12. CoMoment(zs, zs) = a * (a * d - b * b)
    <2>1. a \in Int /\ d \in Int
      BY <1>3
    <2> QED BY <1>4, <1>11, <2>1, MixedIs
  <1>13. a * d \in Int /\ b * b \in Int
    <2>1. \A u, v \in Int : u * v \in Int
      OBVIOUS
    <2> QED BY <1>3, <1>4, <2>1
  <1> DEFINE x == a * d - b * b
  <1>14. x \in Int /\ a * x >= 0
    BY <1>10, <1>12, <1>13
  <1>15. x \in Nat
    <2> HIDE DEF x
    <2> QED BY <1>3, <1>14, FactorIsNatural
  <1>16. b * b <= a * d
    BY <1>13, <1>15
  <1> QED BY <1>16 DEF a, b, d

LEMMA PaddedType ==
    ASSUME NEW n \in Nat, NEW channel \in [1..n -> Int], NEW start \in Nat, NEW window \in Nat
    PROVE  Padded(channel, start, window) \in [1..window -> Int]
  <1>1. Len(channel) = n
    OBVIOUS
  <1>2. \A i \in 1..window : (IF start + i <= n THEN channel[start + i] ELSE 0) \in Int
    OBVIOUS
  <1> QED BY <1>1, <1>2 DEF Padded

\* The moments of a window of a recording, of those that can be correlated.
Moments(audio, s) ==
    [product |-> CoMoment(WindowOf(audio[1], s), WindowOf(audio[2], s)),
     left |-> CoMoment(WindowOf(audio[1], s), WindowOf(audio[1], s)),
     right |-> CoMoment(WindowOf(audio[2], s), WindowOf(audio[2], s))]
Correlated(m) == m.left * m.right # 0

LEMMA CorrelationsAre ==
    ASSUME NEW c \in Nat \ {0}, NEW n \in Nat, NEW audio \in Audio(c, n)
    PROVE  Correlations(audio) =
              IF c < 2 THEN {}
              ELSE {m \in {Moments(audio, s) : s \in Starts(n, StereoWindow)} : Correlated(m)}
  BY AudioIs DEF Correlations, Moments, Correlated

LEMMA CorrelationsWithinOne ==
    ASSUME NEW c \in Nat \ {0}, NEW n \in Nat, NEW audio \in Audio(c, n), NEW m \in Correlations(audio)
    PROVE  m.product * m.product <= m.left * m.right
  <1>1. PICK s \in Starts(n, StereoWindow) : m = Moments(audio, s) /\ Correlated(m) /\ c >= 2
    BY CorrelationsAre
  <1> DEFINE xs == WindowOf(audio[1], s)
             ys == WindowOf(audio[2], s)
  <1>2. StereoWindow \in Nat /\ s \in Nat
    BY SignalAssumption DEF Starts
  <1>3. audio[1] \in [1..n -> Int] /\ audio[2] \in [1..n -> Int]
    <2>1. 1 \in 1..c /\ 2 \in 1..c
      BY <1>1
    <2> QED BY <2>1, AudioIs
  <1>4. xs \in [1..StereoWindow -> Int] /\ ys \in [1..StereoWindow -> Int]
    BY <1>2, <1>3, PaddedType DEF WindowOf
  <1>5. m.product = CoMoment(xs, ys) /\ m.left = CoMoment(xs, xs) /\ m.right = CoMoment(ys, ys)
    BY <1>1 DEF Moments
  <1> HIDE DEF xs, ys
  <1>6. CoMoment(xs, xs) # 0
    <2>1. CoMoment(xs, xs) * CoMoment(ys, ys) # 0 /\ CoMoment(ys, ys) \in Int
      BY <1>1, <1>2, <1>4, <1>5, CoMomentWithItself DEF Correlated
    <2> QED BY <2>1
  <1>7. CoMoment(xs, ys) * CoMoment(xs, ys) <= CoMoment(xs, xs) * CoMoment(ys, ys)
    BY <1>2, <1>4, <1>6, CorrelationWithinOne
  <1> QED BY <1>5, <1>7

-----------------------------------------------------------------------------
(* The loudness meter.                                                     *)

\* A sequence of sequences joined one after the other.
Joined(n, s, flat) ==
    /\ flat \in [0..n -> Seq(Int)] /\ flat[0] = <<>>
    /\ \A k \in 1..n : flat[k] = flat[k - 1] \o s[k]

LEMMA JoinedExists ==
    ASSUME NEW n \in Nat, NEW s \in [1..n -> Seq(Int)]
    PROVE  \E flat : Joined(n, s, flat)
  <1> DEFINE step == [p \in (1..n) \X Seq(Int) |-> p[2] \o s[p[1]]]
  <1>1. step \in [(1..n) \X Seq(Int) -> Seq(Int)]
    OBVIOUS
  <1>2. <<>> \in Seq(Int)
    OBVIOUS
  <1>3. PICK f : Iteration(n, Seq(Int), <<>>, step, f)
    <2> HIDE DEF step
    <2> QED BY <1>1, <1>2, IterationExists
  <1>4. ASSUME NEW k \in 1..n
        PROVE  f[k] = f[k - 1] \o s[k]
    <2>1. k - 1 \in 0..n
      OBVIOUS
    <2>2. <<k, f[k - 1]>> \in (1..n) \X Seq(Int)
      BY <1>3, <2>1 DEF Iteration
    <2>3. f[k] = step[<<k, f[k - 1]>>]
      BY <1>3 DEF Iteration
    <2> QED BY <2>2, <2>3
  <1>5. Joined(n, s, f)
    BY <1>3, <1>4 DEF Iteration, Joined
  <1> QED BY <1>5

LEMMA FlattenIs ==
    ASSUME NEW n \in Nat, NEW s \in [1..n -> Seq(Int)], NEW flat, Joined(n, s, flat)
    PROVE  FlattenSeq(s) = flat[n]
  <1>0. Len(s) = n
    OBVIOUS
  <1>1. CASE n = 0
    <2>1. s = <<>>
      BY <1>1
    <2> QED BY <1>0, <1>1, <2>1 DEF FlattenSeq, Joined
  <1>2. CASE n # 0
    <2> DEFINE Recurs(f) == f = [i \in 1..n |-> IF i = 1 THEN s[i] ELSE f[i - 1] \o s[i]]
               f == CHOOSE g : Recurs(g)
               g == [i \in 1..n |-> flat[i]]
    <2>1. FlattenSeq(s) = f[n]
      BY <1>0, <1>2 DEF FlattenSeq
    <2>2. flat[1] = s[1]
      <3>1. 1 \in 1..n /\ s[1] \in Seq(Int) /\ 1 - 1 = 0
        BY <1>2
      <3>2. flat[1] = <<>> \o s[1]
        BY <3>1, Zenon DEF Joined
      <3> QED BY <3>1, <3>2, ConcatEmptySeq
    <2>3. Recurs(g)
      <3>1. ASSUME NEW i \in 1..n, i # 1
            PROVE  flat[i] = g[i - 1] \o s[i]
        <4>1. g[i - 1] = flat[i - 1]
          BY <3>1
        <4> HIDE DEF g
        <4> QED BY <4>1, Zenon DEF Joined
      <3>2. \A i \in 1..n : flat[i] = IF i = 1 THEN s[i] ELSE g[i - 1] \o s[i]
        BY <2>2, <3>1
      <3> HIDE DEF g
      <3>3. g = [i \in 1..n |-> flat[i]]
        BY DEF g
      <3> QED BY <3>2, <3>3
    <2>4. Recurs(f)
      <3> HIDE DEF Recurs
      <3> QED BY <2>3
    <2> HIDE DEF f, g
    <2>5. \A i \in 1..n : f[i] = IF i = 1 THEN s[i] ELSE f[i - 1] \o s[i]
      BY <2>4
    <2> HIDE DEF Recurs
    <2> DEFINE G == {k \in 0..n : k = 0 \/ f[k] = flat[k]}
    <2>6. \A k \in 0..n : k \in G
      <3>1. 0 \in G
        OBVIOUS
      <3>2. ASSUME NEW k \in 0..(n - 1), k \in G
            PROVE  k + 1 \in G
        <4>1. k + 1 \in 0..n /\ k + 1 \in 1..n /\ (k + 1) - 1 = k
          OBVIOUS
        <4>2. CASE k = 0
          BY <2>2, <2>5, <4>1, <4>2
        <4>3. CASE k # 0
          <5>1. f[k + 1] = f[k] \o s[k + 1]
            <6>1. k + 1 # 1
              BY <4>3
            <6> QED BY <2>5, <4>1, <6>1, Zenon
          <5>2. flat[k + 1] = flat[k] \o s[k + 1]
            BY <4>1, Zenon DEF Joined
          <5> QED BY <3>2, <4>1, <4>3, <5>1, <5>2
        <4> QED BY <4>2, <4>3
      <3> HIDE DEF G
      <3> QED BY <3>1, <3>2, CountUp
    <2>7. f[n] = flat[n]
      BY <1>2, <2>6
    <2> QED BY <2>1, <2>7
  <1> QED BY <1>1, <1>2

LEMMA JoinsAssociate == \A u, v, w \in Seq(Int) : (u \o v) \o w = u \o (v \o w)
  BY ConcatAssociative, SMTT(30)

\* A part of a sequence, and what joining it adds.
IsSlice(s, a, l, t) == t = [i \in 1..l |-> s[a + i]]
Joins(flat, a, l, t) == flat[a + l] = flat[a] \o FlattenSeq(t)

\* What follows is joined to what was joined before.
LEMMA JoinedInParts ==
    ASSUME NEW n \in Nat, NEW s \in [1..n -> Seq(Int)], NEW flat, Joined(n, s, flat),
           NEW a \in 0..n, NEW l \in 0..(n - a), NEW t, IsSlice(s, a, l, t)
    PROVE  Joins(flat, a, l, t)
  <1>1. l \in Nat /\ t \in [1..l -> Seq(Int)] /\ \A i \in 1..l : t[i] = s[a + i]
    BY DEF IsSlice
  <1>2. PICK part : Joined(l, t, part)
    BY <1>1, JoinedExists
  <1> DEFINE G == {k \in 0..l : flat[a + k] = flat[a] \o part[k]}
  <1>3. flat[a] \in Seq(Int)
    BY DEF Joined
  <1>4. \A k \in 0..l : k \in G
    <2>1. 0 \in G
      <3>1. part[0] = <<>> /\ a + 0 = a
        BY <1>2 DEF Joined
      <3>2. flat[a] \o <<>> = flat[a]
        BY <1>3, ConcatEmptySeq
      <3>3. 0 \in 0..l
        BY <1>1
      <3> QED BY <3>1, <3>2, <3>3, Zenon
    <2>2. ASSUME NEW k \in 0..(l - 1), k \in G
          PROVE  k + 1 \in G
      <3>1. /\ k + 1 \in 0..l /\ k + 1 \in 1..l /\ (k + 1) - 1 = k
            /\ a + (k + 1) \in 1..n /\ (a + (k + 1)) - 1 = a + k
        OBVIOUS
      <3>2. flat[a + (k + 1)] = flat[a + k] \o s[a + (k + 1)]
        BY <3>1, Zenon DEF Joined
      <3>3. part[k + 1] = part[k] \o s[a + (k + 1)]
        BY <1>1, <1>2, <3>1, Zenon DEF Joined
      <3>4. flat[a + k] = flat[a] \o part[k]
        BY <2>2
      <3>5. part[k] \in Seq(Int) /\ s[a + (k + 1)] \in Seq(Int)
        <4>1. k \in 0..l
          BY <1>1
        <4> QED BY <1>2, <3>1, <4>1 DEF Joined
      <3>6. (flat[a] \o part[k]) \o s[a + (k + 1)] = flat[a] \o (part[k] \o s[a + (k + 1)])
        BY <1>3, <3>5, JoinsAssociate, Zenon
      <3> QED BY <3>1, <3>2, <3>3, <3>4, <3>6
    <2> HIDE DEF G
    <2> QED BY <1>1, <2>1, <2>2, CountUp
  <1>5. FlattenSeq(t) = part[l]
    BY <1>1, <1>2, FlattenIs
  <1>6. flat[a + l] = flat[a] \o part[l]
    <2>1. l \in 0..l
      BY <1>1
    <2>2. l \in G
      BY <1>4, <2>1
    <2> QED BY <2>2, Zenon
  <1>7. flat[a + l] = flat[a] \o FlattenSeq(t)
    BY <1>5, <1>6, Zenon
  <1> QED BY <1>7, Zenon DEF Joins

LEMMA FlattenType ==
    ASSUME NEW n \in Nat, NEW s \in [1..n -> Seq(Int)]
    PROVE  FlattenSeq(s) \in Seq(Int)
  <1>1. PICK flat : Joined(n, s, flat)
    BY JoinedExists
  <1>2. n \in 0..n
    OBVIOUS
  <1>3. FlattenSeq(s) = flat[n]
    BY <1>1, FlattenIs
  <1>4. flat[n] \in Seq(Int)
    BY <1>1, <1>2 DEF Joined
  <1> QED BY <1>3, <1>4, Zenon

\* Where a chunk begins, and how many frames it has.
LEMMA ChunkIs ==
    ASSUME NEW n \in Nat, NEW k \in Nat \ {0}, NEW m, m = (n + k - 1) \div k
    PROVE  /\ m \in Nat /\ n <= m * k
           /\ \A j \in 0..(m - 1) : /\ j * k \in 0..n /\ Min({k, n - j * k}) \in 0..(n - j * k)
                                    /\ j * k + Min({k, n - j * k}) =
                                          (IF (j + 1) * k <= n THEN (j + 1) * k ELSE n)
  <1>1. n + k - 1 \in Nat
    OBVIOUS
  <1>2. m \in Nat /\ m * k <= n + k - 1 /\ n + k - 1 < (m + 1) * k
    BY <1>1, DivFacts
  <1>3. m * k \in Nat /\ (m + 1) * k = m * k + k
    BY <1>2
  <1>4. n <= m * k
    BY <1>2, <1>3
  <1>5. ASSUME NEW j \in 0..(m - 1)
        PROVE  /\ j * k \in 0..n /\ Min({k, n - j * k}) \in 0..(n - j * k)
               /\ j * k + Min({k, n - j * k}) = (IF (j + 1) * k <= n THEN (j + 1) * k ELSE n)
    <2> DEFINE a == j * k
    <2>1. j \in Nat /\ j + 1 \in Nat /\ j + 1 <= m
      BY <1>2
    <2>2. (j + 1) * k <= m * k
      BY <1>2, <2>1, MulMono
    <2>3. a \in Nat /\ (j + 1) * k = a + k
      BY <2>1
    <2> HIDE DEF a
    <2>4. a \in 0..n /\ a < n
      BY <1>2, <1>3, <2>2, <2>3
    <2>5. Min({k, n - a}) = IF k <= n - a THEN k ELSE n - a
      BY <2>3, MinOfTwo
    <2>6. Min({k, n - a}) \in 0..(n - a) /\ a + Min({k, n - a}) = (IF a + k <= n THEN a + k ELSE n)
      BY <2>3, <2>4, <2>5
    <2> QED BY <2>3, <2>4, <2>6 DEF a
  <1> QED BY <1>2, <1>4, <1>5

\* Chunk by chunk, the loudness meter is fed every frame.
LEMMA MeterIsFed ==
    ASSUME NEW c \in Nat \ {0}, NEW n \in Nat, NEW audio \in Audio(c, n)
    PROVE  FeedMeter(audio) =
              FlattenSeq([i \in 1..Frames(audio) |-> [k \in DOMAIN audio |-> audio[k][i]]])
  <1> DEFINE K == ChunkFrames
             frames == [i \in 1..n |-> [k \in 1..c |-> audio[k][i]]]
             size(j) == Min({K, n - j * K})
             chunk(j) == FlattenSeq([i \in 1..size(j) |-> [k \in 1..c |-> audio[k][j * K + i]]])
             m == (n + K - 1) \div K
             chunks == [j \in 1..m |-> chunk(j - 1)]
             end(j) == IF j * K <= n THEN j * K ELSE n
  <1>1. DOMAIN audio = 1..c /\ Frames(audio) = n /\ \A k \in 1..c : audio[k] \in [1..n -> Int]
    BY AudioIs
  <1>2. K \in Nat \ {0}
    BY SignalAssumption
  <1>3. FeedMeter(audio) = FlattenSeq(chunks)
    BY <1>1 DEF FeedMeter
  <1>4. frames \in [1..n -> Seq(Int)]
    BY <1>1
  <1>5. PICK flat : Joined(n, frames, flat)
    <2> HIDE DEF frames
    <2> QED BY <1>4, JoinedExists
  <1>6. FlattenSeq(frames) = flat[n]
    <2> HIDE DEF frames
    <2> QED BY <1>4, <1>5, FlattenIs
  <1>7. /\ m \in Nat /\ n <= m * K
        /\ \A j \in 0..(m - 1) : /\ j * K \in 0..n /\ size(j) \in 0..(n - j * K)
                                 /\ j * K + size(j) = end(j + 1)
    <2> HIDE DEF K
    <2> QED BY <1>2, ChunkIs
  <1> HIDE DEF K, m, size
  <1>8. ASSUME NEW j \in 0..(m - 1)
        PROVE  chunk(j) \in Seq(Int) /\ flat[end(j + 1)] = flat[j * K] \o chunk(j)
    <2> DEFINE a == j * K
               l == size(j)
               t == [i \in 1..l |-> frames[a + i]]
    <2>1. a \in 0..n /\ l \in 0..(n - a) /\ a + l = end(j + 1)
      BY <1>7
    <2> HIDE DEF a, l
    <2>2. \A i \in 1..l : a + i \in 1..n
      BY <2>1
    <2>3. t = [i \in 1..l |-> [k \in 1..c |-> audio[k][a + i]]]
      BY <2>2
    <2>4. chunk(j) = FlattenSeq(t)
      BY <2>3 DEF a, l
    <2> HIDE DEF frames
    <2>5. l \in Nat /\ t \in [1..l -> Seq(Int)]
      BY <1>4, <2>1, <2>2
    <2>6. FlattenSeq(t) \in Seq(Int)
      <3> HIDE DEF t
      <3> QED BY <2>5, FlattenType
    <2>7. flat[a + l] = flat[a] \o FlattenSeq(t)
      <3>1. IsSlice(frames, a, l, t)
        BY DEF IsSlice
      <3> HIDE DEF t, end
      <3>2. Joins(flat, a, l, t)
        BY <1>4, <1>5, <2>1, <3>1, JoinedInParts
      <3> QED BY <3>2, Zenon DEF Joins
    <2> HIDE DEF chunk, t, end
    <2> QED BY <2>1, <2>4, <2>6, <2>7, Zenon DEF a
  <1> HIDE DEF chunk, frames
  <1>9. chunks \in [1..m -> Seq(Int)] /\ \A j \in 0..(m - 1) : chunks[j + 1] = chunk(j)
    <2>1. \A j \in 1..m : j - 1 \in 0..(m - 1)
      BY <1>7
    <2>2. chunks \in [1..m -> Seq(Int)]
      BY <1>8, <2>1
    <2>3. \A j \in 0..(m - 1) : j + 1 \in 1..m /\ (j + 1) - 1 = j
      BY <1>7
    <2> QED BY <2>2, <2>3
  <1> HIDE DEF chunks
  <1>10. PICK fed : Joined(m, chunks, fed)
    BY <1>7, <1>9, JoinedExists
  <1>11. FlattenSeq(chunks) = fed[m]
    BY <1>7, <1>9, <1>10, FlattenIs
  <1> DEFINE G == {j \in 0..m : fed[j] = flat[end(j)]}
  <1>12. \A j \in 0..m : j \in G
    <2>1. 0 \in G
      <3>1. end(0) = 0 /\ 0 \in 0..m
        BY <1>2, <1>7
      <3> HIDE DEF end
      <3> QED BY <1>5, <1>10, <3>1 DEF Joined
    <2>2. ASSUME NEW j \in 0..(m - 1), j \in G
          PROVE  j + 1 \in G
      <3>1. j + 1 \in 0..m /\ j + 1 \in 1..m /\ (j + 1) - 1 = j
        BY <1>7
      <3>2. end(j) = j * K
        BY <1>7
      <3> HIDE DEF end
      <3>3. fed[j + 1] = fed[j] \o chunk(j)
        BY <1>9, <1>10, <3>1, Zenon DEF Joined
      <3>4. fed[j] = flat[j * K]
        BY <2>2, <3>2
      <3>5. fed[j + 1] = flat[end(j + 1)]
        BY <1>8, <3>3, <3>4, Zenon
      <3> QED BY <3>1, <3>5
    <2> HIDE DEF G
    <2> QED BY <1>7, <2>1, <2>2, CountUp
  <1>13. end(m) = n /\ m \in 0..m
    BY <1>2, <1>7
  <1> HIDE DEF end
  <1>14. fed[m] = flat[n]
    BY <1>12, <1>13
  <1> QED BY <1>1, <1>3, <1>6, <1>11, <1>14 DEF frames

LEMMA MeasuresDoAgree == DecoderInv => MeasuresAgree
  <1> SUFFICES ASSUME DecoderInv, Decoded PROVE MeasuresAgree
    BY DEF MeasuresAgree
  <1> DEFINE n == FramesBefore(source.events, next)
             c == Channels(decoded)
  <1>1. n \in Nat /\ c \in Nat \ {0} /\ decoded \in Audio(c, n)
    BY DecodedIs
  <1> HIDE DEF n, c
  <1>2. (ClippedSamples(decoded) > 0) <=> (SamplePeak(decoded) >= FullScale)
    BY <1>1, ClippedIs
  <1>3. ApproxTruePeak(decoded) = SamplePeak(decoded)
    BY <1>1, TruePeakIs
  <1>4. Energy(decoded)
          <= Channels(decoded) * Frames(decoded) * (SamplePeak(decoded) * SamplePeak(decoded))
    BY <1>1, EnergyAtMost
  <1>5. \A m \in Correlations(decoded) : m.product * m.product <= m.left * m.right
    BY <1>1, CorrelationsWithinOne
  <1>6. FeedMeter(decoded) =
           FlattenSeq([i \in 1..Frames(decoded) |-> [k \in DOMAIN decoded |-> decoded[k][i]]])
    BY <1>1, MeterIsFed
  <1> QED BY <1>2, <1>3, <1>4, <1>5, <1>6 DEF MeasuresAgree

-----------------------------------------------------------------------------
(* Trailing silence.                                                       *)

HasTail(audio, tailed, c, n, m) ==
    /\ tailed \in Audio(c, n + m)
    /\ \A k \in 1..c : /\ \A i \in 1..n : tailed[k][i] = audio[k][i]
                       /\ \A i \in (n + 1)..(n + m) : tailed[k][i] = 0

LEMMA LengthIs == ASSUME NEW n \in Nat, NEW f \in [1..n -> Int] PROVE f \in Seq(Int) /\ Len(f) = n
  OBVIOUS

\* Two runs of samples, one after the other.
LEMMA OneAfterOther ==
    ASSUME NEW n \in Nat, NEW m \in Nat, NEW u \in [1..n -> Int], NEW v \in [1..m -> Int]
    PROVE  /\ u \o v \in [1..(n + m) -> Int]
           /\ \A i \in 1..n : (u \o v)[i] = u[i]
           /\ \A i \in (n + 1)..(n + m) : (u \o v)[i] = v[i - n]
  <1> DEFINE w == u \o v
  <1>1. u \in Seq(Int) /\ Len(u) = n /\ v \in Seq(Int) /\ Len(v) = m
    BY LengthIs
  <1>2. /\ w \in Seq(Int) /\ Len(w) = n + m
        /\ \A i \in 1..(n + m) : w[i] = IF i <= n THEN u[i] ELSE v[i - n]
    BY <1>1, ConcatProperties
  <1> HIDE DEF w
  <1>3. w \in [1..(n + m) -> Int]
    BY <1>2
  <1>4. \A i \in 1..n : w[i] = u[i]
    <2>1. \A i \in 1..n : i \in 1..(n + m) /\ i <= n
      OBVIOUS
    <2> QED BY <1>2, <2>1
  <1>5. \A i \in (n + 1)..(n + m) : w[i] = v[i - n]
    <2>1. \A i \in (n + 1)..(n + m) : i \in 1..(n + m) /\ ~(i <= n)
      OBVIOUS
    <2> QED BY <1>2, <2>1
  <1> QED BY <1>3, <1>4, <1>5 DEF w

LEMMA TailedIs ==
    ASSUME NEW c \in Nat \ {0}, NEW n \in Nat, NEW audio \in Audio(c, n), NEW m \in Nat
    PROVE  HasTail(audio, [k \in DOMAIN audio |-> audio[k] \o [i \in 1..m |-> 0]], c, n, m)
  <1> DEFINE silence == [i \in 1..m |-> 0]
             tailed == [k \in DOMAIN audio |-> audio[k] \o silence]
  <1>1. DOMAIN audio = 1..c /\ \A k \in 1..c : audio[k] \in [1..n -> Int]
    BY AudioIs
  <1>2. silence \in [1..m -> Int] /\ \A i \in 1..m : silence[i] = 0
    OBVIOUS
  <1>3. DOMAIN tailed = 1..c /\ \A k \in 1..c : tailed[k] = audio[k] \o silence
    BY <1>1
  <1>4. tailed = [k \in 1..c |-> tailed[k]]
    BY <1>1
  <1> HIDE DEF silence, tailed
  <1>5. ASSUME NEW k \in 1..c
        PROVE  /\ tailed[k] \in [1..(n + m) -> Int]
               /\ \A i \in 1..n : tailed[k][i] = audio[k][i]
               /\ \A i \in (n + 1)..(n + m) : tailed[k][i] = silence[i - n]
    <2>1. audio[k] \in [1..n -> Int] /\ tailed[k] = audio[k] \o silence
      BY <1>1, <1>3
    <2> DEFINE u == audio[k]
    <2>2. u \in [1..n -> Int]
      BY <2>1
    <2> HIDE DEF u
    <2>3. /\ u \o silence \in [1..(n + m) -> Int]
          /\ \A i \in 1..n : (u \o silence)[i] = u[i]
          /\ \A i \in (n + 1)..(n + m) : (u \o silence)[i] = silence[i - n]
      BY <1>2, <2>2, OneAfterOther
    <2> QED BY <2>1, <2>3, Zenon DEF u
  <1>6. \A i \in (n + 1)..(n + m) : silence[i - n] = 0
    <2>1. \A i \in (n + 1)..(n + m) : i - n \in 1..m
      OBVIOUS
    <2> QED BY <1>2, <2>1
  <1>7. tailed \in Audio(c, n + m)
    BY <1>4, <1>5 DEF Audio
  <1>8. HasTail(audio, tailed, c, n, m)
    BY <1>5, <1>6, <1>7 DEF HasTail
  <1> QED BY <1>8 DEF tailed, silence

LEMMA PeakWithTail ==
    ASSUME NEW c \in Nat \ {0}, NEW n \in Nat, NEW audio \in Audio(c, n), NEW m \in Nat,
           NEW tailed, HasTail(audio, tailed, c, n, m)
    PROVE  SamplePeak(tailed) = SamplePeak(audio) /\ ApproxTruePeak(tailed) = ApproxTruePeak(audio)
  <1> DEFINE p == SamplePeak(audio)
             q == SamplePeak(tailed)
  <1>1. tailed \in Audio(c, n + m) /\ n + m \in Nat
    BY DEF HasTail
  <1>2. p \in Nat /\ \A k \in 1..c, i \in 1..n : audio[k][i] \in (-p)..p
    BY PeakCovers
  <1>3. q \in Nat /\ \A k \in 1..c, i \in 1..(n + m) : tailed[k][i] \in (-q)..q
    BY <1>1, PeakCovers
  <1> HIDE DEF p, q
  <1>4. p <= q
    <2>1. \A k \in 1..c, i \in 1..n : audio[k][i] \in (-q)..q
      <3>1. \A i \in 1..n : i \in 1..(n + m)
        OBVIOUS
      <3> QED BY <1>3, <3>1 DEF HasTail
    <2> QED BY <1>3, <2>1, PeakAtMost DEF p
  <1>5. q <= p
    <2>1. \A k \in 1..c, i \in 1..(n + m) : tailed[k][i] \in (-p)..p
      <3>1. \A i \in 1..(n + m) : i \in 1..n \/ i \in (n + 1)..(n + m)
        OBVIOUS
      <3>2. 0 \in (-p)..p
        BY <1>2
      <3> QED BY <1>2, <3>1, <3>2 DEF HasTail
    <2> QED BY <1>1, <1>2, <2>1, PeakAtMost DEF q
  <1>6. p = q
    BY <1>2, <1>3, <1>4, <1>5
  <1>7. ApproxTruePeak(tailed) = q /\ ApproxTruePeak(audio) = p
    BY <1>1, TruePeakIs DEF p, q
  <1> QED BY <1>6, <1>7 DEF p, q

LEMMA ClippedWithTail ==
    ASSUME NEW c \in Nat \ {0}, NEW n \in Nat, NEW audio \in Audio(c, n), NEW m \in Nat,
           NEW tailed, HasTail(audio, tailed, c, n, m)
    PROVE  ClippedSamples(tailed) = ClippedSamples(audio)
  <1> DEFINE A == {p \in Places(audio) : Level(audio, p) >= FullScale}
             B == {p \in Places(tailed) : Level(tailed, p) >= FullScale}
  <1>1. tailed \in Audio(c, n + m) /\ n + m \in Nat
    BY DEF HasTail
  <1>2. Places(audio) = (1..c) \X (1..n) /\ Places(tailed) = (1..c) \X (1..(n + m))
    BY <1>1, AudioIs
  <1>3. \A p \in Places(audio) : p \in Places(tailed) /\ Level(tailed, p) = Level(audio, p)
    <2>1. \A i \in 1..n : i \in 1..(n + m)
      OBVIOUS
    <2> QED BY <1>2, <2>1 DEF HasTail, Level
  <1>4. \A p \in Places(tailed) : p \notin Places(audio) => Level(tailed, p) = 0
    <2>1. \A i \in 1..(n + m) : i \in 1..n \/ i \in (n + 1)..(n + m)
      OBVIOUS
    <2>2. Abs(0) = 0
      BY DEF Abs
    <2> QED BY <1>2, <2>1, <2>2 DEF HasTail, Level
  <1>5. FullScale \in Nat /\ FullScale > 0
    BY SignalAssumption
  <1>6. ~(0 >= FullScale)
    BY <1>5
  <1>7. A = B
    BY <1>3, <1>4, <1>6
  <1> QED BY <1>7 DEF ClippedSamples

LEMMA WindowsWithTail ==
    ASSUME NEW c \in Nat \ {0}, NEW n \in Nat, NEW audio \in Audio(c, n), NEW m \in Nat,
           NEW tailed, HasTail(audio, tailed, c, n, m),
           NEW k \in 1..c, NEW start \in Nat, NEW window \in Nat
    PROVE  /\ Padded(tailed[k], start, window) = Padded(audio[k], start, window)
           /\ start >= n => \A i \in 1..window : Padded(audio[k], start, window)[i] = 0
  <1>1. audio[k] \in [1..n -> Int] /\ tailed[k] \in [1..(n + m) -> Int]
    <2>1. tailed \in Audio(c, n + m) /\ n + m \in Nat
      BY DEF HasTail
    <2> QED BY <2>1, AudioIs
  <1>2. Len(audio[k]) = n /\ Len(tailed[k]) = n + m
    <2>1. n + m \in Nat
      OBVIOUS
    <2> QED BY <1>1, <2>1, LengthIs
  <1>3. \A i \in 1..window : (IF start + i <= n + m THEN tailed[k][start + i] ELSE 0)
                                = (IF start + i <= n THEN audio[k][start + i] ELSE 0)
    <2> TAKE i \in 1..window
    <2>1. CASE start + i <= n
      <3>1. start + i \in 1..n /\ start + i <= n + m
        BY <2>1
      <3> QED BY <2>1, <3>1 DEF HasTail
    <2>2. CASE ~(start + i <= n) /\ start + i <= n + m
      <3>1. start + i \in (n + 1)..(n + m)
        BY <2>2
      <3> QED BY <2>2, <3>1 DEF HasTail
    <2>3. CASE ~(start + i <= n + m)
      <3>1. ~(start + i <= n)
        BY <2>3
      <3> QED BY <2>3, <3>1
    <2> QED BY <2>1, <2>2, <2>3
  <1>4. Padded(tailed[k], start, window) = Padded(audio[k], start, window)
    BY <1>2, <1>3 DEF Padded
  <1>5. ASSUME start >= n, NEW i \in 1..window
        PROVE  Padded(audio[k], start, window)[i] = 0
    <2>1. ~(start + i <= n)
      BY <1>5
    <2> QED BY <1>2, <2>1 DEF Padded
  <1> QED BY <1>4, <1>5

LEMMA MultiplesDivide == \A j \in Nat, h \in Nat \ {0} : (j * h) % h = 0
  OBVIOUS

\* There is a window for every hop into the audio.
LEMMA StartsReach ==
    ASSUME NEW n \in Nat, NEW hop \in Nat \ {0}, NEW m \in Nat
    PROVE  /\ Starts(n, hop) \subseteq Starts(n + m, hop) /\ Starts(n + m, hop) \subseteq Nat
           /\ \A s \in Starts(n + m, hop) \ Starts(n, hop) : s >= n
           /\ Cardinality(Starts(n, hop)) \in Nat /\ Cardinality(Starts(n + m, hop)) \in Nat
           /\ Cardinality(Starts(n, hop)) <= Cardinality(Starts(n + m, hop))
           /\ \A k \in Nat : k > Cardinality(Starts(n, hop)) => (k - 1) * hop \in Nat /\ (k - 1) * hop >= n
  <1> DEFINE last(f) == IF f = 0 THEN 0 ELSE f - 1
             A == Starts(n, hop)
             B == Starts(n + m, hop)
             q == last(n) \div hop
  <1>1. A = {s \in 0..last(n) : s % hop = 0} /\ B = {s \in 0..last(n + m) : s % hop = 0}
    BY DEF Starts
  <1>2. last(n) \in Nat /\ last(n + m) \in Nat /\ last(n) <= last(n + m)
    OBVIOUS
  <1>3. A \subseteq B /\ B \subseteq Nat
    BY <1>1, <1>2
  <1>4. ASSUME NEW s \in B \ A PROVE s >= n
    <2>1. s \in Nat /\ s > last(n)
      BY <1>1, <1>2
    <2> QED BY <2>1
  <1>5. IsFiniteSet(A) /\ IsFiniteSet(B)
    <2>1. IsFiniteSet(0..last(n + m))
      BY <1>2, FS_Interval
    <2>2. B \in SUBSET (0..last(n + m))
      BY <1>1
    <2> HIDE DEF last, A, B
    <2> QED BY <1>3, <2>1, <2>2, FS_Subset
  <1>6. q \in Nat /\ q * hop <= last(n) /\ last(n) < (q + 1) * hop
    BY <1>2, DivFacts
  <1> HIDE DEF q
  <1>7. q + 1 <= Cardinality(A)
    <2> DEFINE J == 0..q
               f == [j \in J |-> j * hop]
    <2>1. \A j \in J : j * hop \in A
      <3> TAKE j \in J
      <3>1. j \in Nat /\ j <= q
        BY <1>6
      <3>2. j * hop <= q * hop /\ j * hop \in Nat /\ q * hop \in Nat
        BY <1>6, <3>1, MulMono
      <3>3. j * hop \in 0..last(n)
        BY <1>2, <1>6, <3>2
      <3>4. (j * hop) % hop = 0
        BY <3>1, MultiplesDivide
      <3> QED BY <1>1, <3>3, <3>4
    <2>2. \A i, j \in J : i * hop = j * hop => i = j
      <3> TAKE i, j \in J
      <3>1. i \in Int /\ j \in Int /\ i * hop = hop * i /\ j * hop = hop * j
        BY <1>6
      <3> QED BY <3>1, CancelFactor
    <2> HIDE DEF A
    <2>3. f \in [J -> A]
      BY <2>1
    <2>4. f \in Injection(J, A)
      BY <2>2, <2>3 DEF Injection, IsInjective
    <2>5. Cardinality(J) = q + 1
      BY <1>6, FS_Interval
    <2> HIDE DEF f, J
    <2>6. Cardinality(J) <= Cardinality(A)
      BY <1>5, <2>4, FS_Injection
    <2> QED BY <2>5, <2>6
  <1> HIDE DEF A, B
  <1>8. /\ Cardinality(A) \in Nat /\ Cardinality(B) \in Nat
        /\ Cardinality(A) <= Cardinality(B)
    BY <1>3, <1>5, FS_CardinalityType, FS_Subset
  <1>9. ASSUME NEW k \in Nat, k > Cardinality(A)
        PROVE  (k - 1) * hop \in Nat /\ (k - 1) * hop >= n
    <2>1. q + 1 \in Nat /\ k - 1 \in Nat /\ q + 1 <= k - 1
      BY <1>6, <1>7, <1>8, <1>9
    <2>2. (q + 1) * hop <= (k - 1) * hop
      BY <2>1, MulMono
    <2>3. (q + 1) * hop \in Nat /\ (k - 1) * hop \in Nat
      BY <2>1
    <2>4. last(n) < (k - 1) * hop
      BY <1>2, <1>6, <2>2, <2>3
    <2> QED BY <2>3, <2>4
  <1> HIDE DEF last
  <1> QED BY <1>3, <1>4, <1>8, <1>9 DEF A, B

\* Numbers that are the same have the same sum, and zeros add nothing to one.
LEMMA SumsEqual ==
    ASSUME NEW g, NEW h, NEW S, IsFiniteSet(S), \A x \in S : g[x] \in Int /\ h[x] = g[x]
    PROVE  SumFunctionOnSet(h, S) = SumFunctionOnSet(g, S)
  <1>1. \A x \in S : g[x] \in Int /\ h[x] = g[x] * 1
    OBVIOUS
  <1>2. SumFunctionOnSet(h, S) = SumFunctionOnSet(g, S) * 1 /\ SumFunctionOnSet(g, S) \in Int
    BY <1>1, SumOfMultiples, SumIsInt
  <1> QED BY <1>2

LEMMA SumOverPart ==
    ASSUME NEW g, NEW S, IsFiniteSet(S), NEW T \in SUBSET S,
           \A x \in S : g[x] \in Int /\ (x \notin T => g[x] = 0)
    PROVE  SumFunctionOnSet(g, S) = SumFunctionOnSet(g, T)
  <1> DEFINE Sum_(s) == SumFunctionOnSet(g, s)
             Bad == {s \in SUBSET S : T \subseteq s /\ Sum_(s) # Sum_(T)}
  <1> SUFFICES ASSUME Bad # {} PROVE FALSE
    OBVIOUS
  <1>1. \A s \in SUBSET S : IsFiniteSet(s) /\ Sum_(s) \in Int
    BY FS_Subset, SumIsInt
  <1>2. PICK s \in Bad : \A t \in Bad : t \subseteq s => t = s
    <2>1. \A s \in Bad : IsFiniteSet(s)
      BY <1>1
    <2> HIDE DEF Bad
    <2> QED BY <2>1, LeastSet
  <1>3. s \in SUBSET S /\ T \subseteq s /\ Sum_(s) # Sum_(T)
    BY <1>2
  <1>4. PICK x \in s : x \notin T
    BY <1>3
  <1>5. Sum_(s) = g[x] + Sum_(s \ {x})
    BY <1>1, <1>3, <1>4, SumSplits
  <1>6. s \ {x} \in SUBSET S /\ T \subseteq s \ {x} /\ s \ {x} # s
    BY <1>3, <1>4
  <1>7. Sum_(s \ {x}) = Sum_(T)
    BY <1>2, <1>6
  <1>8. g[x] = 0 /\ Sum_(T) \in Int
    BY <1>1, <1>3, <1>4
  <1> HIDE DEF Sum_
  <1> QED BY <1>3, <1>5, <1>7, <1>8

\* The energy of a window.
WindowPlaces(c) == (1..c) \X (1..RmsWindow)
WindowEnergy(audio, c, k) ==
    SumFunction([p \in WindowPlaces(c) |->
        EnergyOf(Padded(audio[p[1]], (k - 1) * RmsHop, RmsWindow)[p[2]])])
Jumps(e, k) == e[k] > 0 /\ 1000 * e[k] >= 3981 * e[k - 1]

LEMMA SeriesIs ==
    ASSUME NEW c \in Nat \ {0}, NEW n \in Nat, NEW audio \in Audio(c, n),
           Cardinality(Starts(n, RmsHop)) \in Nat
    PROVE  /\ RmsSeries(audio) =
                 [k \in 1..Cardinality(Starts(n, RmsHop)) |-> WindowEnergy(audio, c, k)]
           /\ Len(RmsSeries(audio)) = Cardinality(Starts(n, RmsHop))
  <1>1. DOMAIN audio = 1..c /\ Frames(audio) = n
    BY AudioIs
  <1>2. RmsSeries(audio) =
           [k \in 1..Cardinality(Starts(n, RmsHop)) |-> WindowEnergy(audio, c, k)]
    BY <1>1, Zenon DEF RmsSeries, WindowEnergy, WindowPlaces
  <1> QED BY <1>2

LEMMA EnergyWithTail ==
    ASSUME NEW c \in Nat \ {0}, NEW n \in Nat, NEW audio \in Audio(c, n), NEW m \in Nat,
           NEW tailed, HasTail(audio, tailed, c, n, m),
           NEW k \in Nat, (k - 1) * RmsHop \in Nat
    PROVE  /\ WindowEnergy(tailed, c, k) = WindowEnergy(audio, c, k)
           /\ (k - 1) * RmsHop >= n => WindowEnergy(audio, c, k) = 0
  <1> DEFINE start == (k - 1) * RmsHop
             S == WindowPlaces(c)
             g == [p \in S |-> EnergyOf(Padded(audio[p[1]], start, RmsWindow)[p[2]])]
             h == [p \in S |-> EnergyOf(Padded(tailed[p[1]], start, RmsWindow)[p[2]])]
  <1>1. RmsWindow \in Nat /\ start \in Nat
    BY SignalAssumption
  <1>2. WindowEnergy(audio, c, k) = SumFunction(g) /\ WindowEnergy(tailed, c, k) = SumFunction(h)
    BY DEF WindowEnergy
  <1> HIDE DEF start
  <1>3. \A p \in S : p[1] \in 1..c /\ p[2] \in 1..RmsWindow
    BY DEF WindowPlaces
  <1> DEFINE W(x, q) == Padded(x[q], start, RmsWindow)
  <1>4. \A q \in 1..c : /\ W(tailed, q) = W(audio, q)
                        /\ start >= n => \A i \in 1..RmsWindow : W(audio, q)[i] = 0
    <2> TAKE q \in 1..c
    <2>1. W(tailed, q) = W(audio, q)
      BY <1>1, WindowsWithTail
    <2>2. start >= n => \A i \in 1..RmsWindow : W(audio, q)[i] = 0
      BY <1>1, WindowsWithTail
    <2> QED BY <2>1, <2>2
  <1>5. g = h
    <2>1. \A p \in S : W(tailed, p[1]) = W(audio, p[1])
      <3> HIDE DEF W, S
      <3> QED BY <1>3, <1>4
    <2> QED BY <2>1
  <1>6. ASSUME start >= n
        PROVE  SumFunction(g) = 0
    <2>1. \A p \in S : W(audio, p[1])[p[2]] = 0
      <3> HIDE DEF W, S
      <3> QED BY <1>3, <1>6, <1>4
    <2>2. \A p \in S : g[p] = 0
      BY <2>1 DEF EnergyOf
    <2>3. IsFiniteSet(S)
      <3>1. IsFiniteSet(1..c) /\ IsFiniteSet(1..RmsWindow)
        BY <1>1, UpTo
      <3> QED BY <3>1, FS_Product DEF WindowPlaces
    <2>4. DOMAIN g = S
      OBVIOUS
    <2> HIDE DEF g, S
    <2> QED BY <2>2, <2>3, <2>4, SumOfZeros DEF SumFunction
  <1> QED BY <1>2, <1>5, <1>6 DEF start

LEMMA TransientsWithTail ==
    ASSUME NEW c \in Nat \ {0}, NEW n \in Nat, NEW audio \in Audio(c, n), NEW m \in Nat,
           NEW tailed, HasTail(audio, tailed, c, n, m)
    PROVE  Transients(tailed) = Transients(audio)
  <1> DEFINE before == Cardinality(Starts(n, RmsHop))
             after == Cardinality(Starts(n + m, RmsHop))
             a == RmsSeries(audio)
             b == RmsSeries(tailed)
             A == {k \in 2..before : Jumps(a, k)}
             B == {k \in 2..after : Jumps(b, k)}
  <1>1. tailed \in Audio(c, n + m) /\ n + m \in Nat
    BY DEF HasTail
  <1>2. RmsHop \in Nat \ {0}
    BY SignalAssumption
  <1>3. /\ before \in Nat /\ after \in Nat /\ before <= after
        /\ \A k \in Nat : k > before => (k - 1) * RmsHop \in Nat /\ (k - 1) * RmsHop >= n
    BY <1>2, StartsReach
  <1>4. /\ a = [k \in 1..before |-> WindowEnergy(audio, c, k)] /\ Len(a) = before
        /\ b = [k \in 1..after |-> WindowEnergy(tailed, c, k)] /\ Len(b) = after
    BY <1>1, <1>3, SeriesIs
  <1>5. Transients(audio) = Cardinality(A) /\ Transients(tailed) = Cardinality(B)
    BY <1>4 DEF Transients, Jumps
  <1> HIDE DEF before, after, a, b
  <1>6. \A k \in Nat \ {0} : /\ WindowEnergy(tailed, c, k) = WindowEnergy(audio, c, k)
                             /\ k > before => WindowEnergy(audio, c, k) = 0
    <2> TAKE k \in Nat \ {0}
    <2>1. (k - 1) * RmsHop \in Nat
      BY <1>2
    <2> QED BY <1>3, <2>1, EnergyWithTail
  <1>7. \A k \in 2..after : b[k] = WindowEnergy(audio, c, k) /\ b[k - 1] = WindowEnergy(audio, c, k - 1)
    <2>1. \A k \in 2..after : k \in 1..after /\ k - 1 \in 1..after /\ k \in Nat \ {0} /\ k - 1 \in Nat \ {0}
      BY <1>3
    <2> QED BY <1>4, <1>6, <2>1
  <1>8. \A k \in 2..before : a[k] = WindowEnergy(audio, c, k) /\ a[k - 1] = WindowEnergy(audio, c, k - 1)
    <2>1. \A k \in 2..before : k \in 1..before /\ k - 1 \in 1..before
      BY <1>3
    <2> QED BY <1>4, <2>1
  <1>9. \A k \in 2..after : ~(k <= before) => ~Jumps(b, k)
    <2> SUFFICES ASSUME NEW k \in 2..after, ~(k <= before) PROVE ~Jumps(b, k)
      OBVIOUS
    <2>1. k \in Nat \ {0} /\ k > before
      BY <1>3
    <2>2. b[k] = 0
      BY <1>6, <1>7, <2>1
    <2> QED BY <2>2 DEF Jumps
  <1>10. \A k \in 2..before : k \in 2..after /\ (Jumps(a, k) <=> Jumps(b, k))
    <2>1. \A k \in 2..before : k \in 2..after
      BY <1>3
    <2> QED BY <1>7, <1>8, <2>1 DEF Jumps
  <1>11. \A k \in 2..after : k <= before => k \in 2..before
    BY <1>3
  <1>12. A = B
    BY <1>9, <1>10, <1>11
  <1> QED BY <1>5, <1>12

LEMMA NoMomentOfSilence ==
    ASSUME NEW n \in Nat, NEW xs \in [1..n -> Int], \A i \in 1..n : xs[i] = 0
    PROVE  CoMoment(xs, xs) = 0
  <1>1. IsFiniteSet(1..n)
    BY UpTo
  <1>2. Total(n, xs) = 0
    BY <1>1, SumOfZeros DEF Total
  <1>3. \A i \in 1..n : Times(n, xs, xs)[i] = 0
    BY DEF Times
  <1>4. Total(n, Times(n, xs, xs)) = 0
    BY <1>1, <1>3, SumOfZeros DEF Total
  <1>5. CoMoment(xs, xs) = n * Total(n, Times(n, xs, xs)) - Total(n, xs) * Total(n, xs)
    BY CoMomentIs
  <1>6. CoMoment(xs, xs) = n * 0 - 0 * 0
    BY <1>2, <1>4, <1>5
  <1> QED BY <1>6

LEMMA CorrelationsWithTail ==
    ASSUME NEW c \in Nat \ {0}, NEW n \in Nat, NEW audio \in Audio(c, n), NEW m \in Nat,
           NEW tailed, HasTail(audio, tailed, c, n, m)
    PROVE  Correlations(tailed) = Correlations(audio)
  <1> DEFINE A == Starts(n, StereoWindow)
             B == Starts(n + m, StereoWindow)
  <1>1. tailed \in Audio(c, n + m) /\ n + m \in Nat
    BY DEF HasTail
  <1>2. StereoWindow \in Nat \ {0}
    BY SignalAssumption
  <1>3. A \subseteq B /\ B \subseteq Nat /\ \A s \in B \ A : s >= n
    BY <1>2, StartsReach
  <1>4. /\ Correlations(audio) =
              IF c < 2 THEN {} ELSE {x \in {Moments(audio, s) : s \in A} : Correlated(x)}
        /\ Correlations(tailed) =
              IF c < 2 THEN {} ELSE {x \in {Moments(tailed, s) : s \in B} : Correlated(x)}
    BY <1>1, CorrelationsAre
  <1> HIDE DEF A, B
  <1>5. CASE c < 2
    BY <1>4, <1>5
  <1>6. CASE ~(c < 2)
    <2>1. 1 \in 1..c /\ 2 \in 1..c
      BY <1>6
    <2>2. audio[1] \in [1..n -> Int] /\ audio[2] \in [1..n -> Int]
      BY <2>1, AudioIs
    <2>3. \A s \in B : Moments(tailed, s) = Moments(audio, s)
      <3> TAKE s \in B
      <3>1. s \in Nat /\ StereoWindow \in Nat
        BY <1>2, <1>3
      <3>2. WindowOf(tailed[1], s) = WindowOf(audio[1], s)
        BY <2>1, <3>1, WindowsWithTail DEF WindowOf
      <3>3. WindowOf(tailed[2], s) = WindowOf(audio[2], s)
        BY <2>1, <3>1, WindowsWithTail DEF WindowOf
      <3> QED BY <3>2, <3>3, Zenon DEF Moments
    <2>4. ASSUME NEW s \in B, s \notin A
          PROVE  ~Correlated(Moments(audio, s))
      <3> DEFINE xs == WindowOf(audio[1], s)
                 ys == WindowOf(audio[2], s)
      <3>1. s \in Nat /\ s >= n /\ StereoWindow \in Nat
        BY <1>2, <1>3, <2>4
      <3>2. xs \in [1..StereoWindow -> Int]
        BY <2>2, <3>1, PaddedType DEF WindowOf
      <3>3. ys \in [1..StereoWindow -> Int]
        BY <2>2, <3>1, PaddedType DEF WindowOf
      <3>4. \A i \in 1..StereoWindow : xs[i] = 0
        BY <2>1, <3>1, WindowsWithTail DEF WindowOf
      <3>5. Moments(audio, s).left = CoMoment(xs, xs) /\ Moments(audio, s).right = CoMoment(ys, ys)
        BY DEF Moments
      <3> HIDE DEF xs, ys
      <3>6. CoMoment(xs, xs) = 0
        BY <3>1, <3>2, <3>4, NoMomentOfSilence
      <3>7. CoMoment(ys, ys) \in Int
        BY <3>1, <3>3, CoMomentWithItself
      <3>8. 0 * CoMoment(ys, ys) = 0
        BY <3>7
      <3> QED BY <3>5, <3>6, <3>8 DEF Correlated
    <2>5. {x \in {Moments(audio, s) : s \in A} : Correlated(x)}
             = {x \in {Moments(tailed, s) : s \in B} : Correlated(x)}
      BY <1>3, <2>3, <2>4
    <2> QED BY <1>4, <1>6, <2>5
  <1> QED BY <1>5, <1>6

ChannelEnergy(channel) == SumFunction([i \in DOMAIN channel |-> EnergyOf(channel[i])])

LEMMA EnergiesWithTail ==
    ASSUME NEW c \in Nat \ {0}, NEW n \in Nat, NEW audio \in Audio(c, n), NEW m \in Nat,
           NEW tailed, HasTail(audio, tailed, c, n, m), NEW k \in 1..c
    PROVE  ChannelEnergy(tailed[k]) = ChannelEnergy(audio[k])
  <1> DEFINE S == 1..n
             T == 1..(n + m)
             g == [i \in S |-> EnergyOf(audio[k][i])]
             h == [i \in T |-> EnergyOf(tailed[k][i])]
  <1>1. tailed \in Audio(c, n + m) /\ n + m \in Nat
    BY DEF HasTail
  <1>2. audio[k] \in [1..n -> Int] /\ tailed[k] \in [1..(n + m) -> Int]
    BY <1>1, AudioIs
  <1>3. ChannelEnergy(audio[k]) = SumFunctionOnSet(g, S) /\ ChannelEnergy(tailed[k]) = SumFunctionOnSet(h, T)
    BY <1>2 DEF ChannelEnergy, SumFunction
  <1>4. S \in SUBSET T /\ IsFiniteSet(S) /\ IsFiniteSet(T)
    BY <1>1, UpTo
  <1>5. \A a \in Int : EnergyOf(a) \in Int
    BY DEF EnergyOf
  <1>6. EnergyOf(0) = 0
    BY DEF EnergyOf
  <1>7. \A i \in S : g[i] \in Int /\ h[i] = g[i]
    <2>1. \A i \in S : tailed[k][i] = audio[k][i] /\ audio[k][i] \in Int /\ i \in T
      BY <1>2, <1>4 DEF HasTail
    <2> QED BY <1>5, <2>1
  <1>8. \A i \in T : h[i] \in Int /\ (i \notin S => h[i] = 0)
    <2>1. \A i \in T : i \notin S => i \in (n + 1)..(n + m)
      OBVIOUS
    <2>2. \A i \in T : i \notin S => tailed[k][i] = 0
      BY <2>1 DEF HasTail
    <2>3. \A i \in T : tailed[k][i] \in Int
      BY <1>2
    <2> HIDE DEF S, T
    <2> QED BY <1>5, <1>6, <2>2, <2>3
  <1> HIDE DEF S, T, g, h
  <1>9. SumFunctionOnSet(h, T) = SumFunctionOnSet(h, S)
    BY <1>4, <1>8, SumOverPart
  <1>10. SumFunctionOnSet(h, S) = SumFunctionOnSet(g, S)
    BY <1>4, <1>7, SumsEqual
  <1> QED BY <1>3, <1>9, <1>10

LEMMA BalanceWithTail ==
    ASSUME NEW c \in Nat \ {0}, NEW n \in Nat, NEW audio \in Audio(c, n), NEW m \in Nat,
           NEW tailed, HasTail(audio, tailed, c, n, m)
    PROVE  Balance(tailed) = Balance(audio)
  <1>1. tailed \in Audio(c, n + m) /\ n + m \in Nat
    BY DEF HasTail
  <1>2. Channels(audio) = c /\ Channels(tailed) = c
    BY <1>1, AudioIs
  <1>3. /\ Balance(audio) =
              IF c < 2 THEN <<>> ELSE <<ChannelEnergy(audio[1]), ChannelEnergy(audio[2])>>
        /\ Balance(tailed) =
              IF c < 2 THEN <<>> ELSE <<ChannelEnergy(tailed[1]), ChannelEnergy(tailed[2])>>
    BY <1>2 DEF Balance, ChannelEnergy
  <1>4. ~(c < 2) => 1 \in 1..c /\ 2 \in 1..c
    OBVIOUS
  <1>5. ~(c < 2) => /\ ChannelEnergy(tailed[1]) = ChannelEnergy(audio[1])
                    /\ ChannelEnergy(tailed[2]) = ChannelEnergy(audio[2])
    BY <1>4, EnergiesWithTail
  <1> QED BY <1>3, <1>5

\* The energy of the whole recording stays, its mean falls.
LEMMA WholeEnergyWithTail ==
    ASSUME NEW c \in Nat \ {0}, NEW n \in Nat, NEW audio \in Audio(c, n), NEW m \in Nat,
           NEW tailed, HasTail(audio, tailed, c, n, m)
    PROVE  Energy(audio) \in Nat /\ Energy(tailed) = Energy(audio)
  <1> DEFINE S == Places(audio)
             T == Places(tailed)
             g == [p \in S |-> EnergyOf(audio[p[1]][p[2]])]
             h == [p \in T |-> EnergyOf(tailed[p[1]][p[2]])]
  <1>1. tailed \in Audio(c, n + m) /\ n + m \in Nat
    BY DEF HasTail
  <1>2. S = (1..c) \X (1..n) /\ IsFiniteSet(S)
    BY AudioIs
  <1>3. T = (1..c) \X (1..(n + m)) /\ IsFiniteSet(T)
    BY <1>1, AudioIs
  <1>4. \A p \in S : audio[p[1]][p[2]] \in Int
    BY AudioIs
  <1>5. \A p \in T : tailed[p[1]][p[2]] \in Int
    BY <1>1, AudioIs
  <1>6. Energy(audio) = SumFunctionOnSet(g, S) /\ Energy(tailed) = SumFunctionOnSet(h, T)
    BY DEF Energy, SumFunction
  <1>7. \A p \in S : g[p] = EnergyOf(audio[p[1]][p[2]])
    OBVIOUS
  <1>8. \A p \in T : h[p] = EnergyOf(tailed[p[1]][p[2]])
    OBVIOUS
  <1>9. \A a \in Int : EnergyOf(a) \in Nat
    <2>1. \A a \in Int : a * a \in Int /\ a * a >= 0
      <3> TAKE a \in Int
      <3>1. CASE a >= 0
        BY <3>1, ProductIsNatural
      <3>2. CASE a < 0
        <4>1. -a \in Nat /\ (-a) * (-a) = a * a
          BY <3>2
        <4> QED BY <4>1, ProductIsNatural
      <3> QED BY <3>1, <3>2
    <2> QED BY <2>1 DEF EnergyOf
  <1>10. EnergyOf(0) = 0
    BY DEF EnergyOf
  <1> HIDE DEF S, T, g, h
  <1>11. \A p \in S : g[p] \in Nat
    BY <1>4, <1>7, <1>9
  <1>12. \A p \in S : p \in T /\ tailed[p[1]][p[2]] = audio[p[1]][p[2]]
    <2> TAKE p \in S
    <2>1. p[1] \in 1..c /\ p[2] \in 1..n /\ p = <<p[1], p[2]>>
      BY <1>2
    <2>2. p[2] \in 1..(n + m)
      BY <2>1
    <2> QED BY <1>3, <2>1, <2>2 DEF HasTail
  <1>13. \A p \in S : g[p] \in Int /\ h[p] = g[p]
    BY <1>7, <1>8, <1>11, <1>12
  <1>14. \A p \in T : h[p] \in Int
    BY <1>5, <1>8, <1>9
  <1>15. \A p \in T : p \notin S => h[p] = 0
    <2> SUFFICES ASSUME NEW p \in T, p \notin S PROVE h[p] = 0
      OBVIOUS
    <2>1. p[1] \in 1..c /\ p[2] \in 1..(n + m) /\ p = <<p[1], p[2]>>
      BY <1>3
    <2>2. p[2] \notin 1..n
      BY <1>2, <2>1
    <2>3. p[2] \in (n + 1)..(n + m)
      BY <2>1, <2>2
    <2> QED BY <1>8, <1>10, <2>1, <2>3 DEF HasTail
  <1>16. SumFunctionOnSet(h, T) = SumFunctionOnSet(h, S)
    <2>1. S \in SUBSET T
      BY <1>12
    <2> QED BY <1>3, <1>14, <1>15, <2>1, SumOverPart
  <1>17. SumFunctionOnSet(h, S) = SumFunctionOnSet(g, S)
    BY <1>2, <1>13, SumsEqual
  <1>18. SumFunctionOnSet(g, S) \in Nat
    BY <1>2, <1>11, SumOfNaturals
  <1> QED BY <1>6, <1>16, <1>17, <1>18

LEMMA DensityFalls ==
    ASSUME NEW c \in Nat \ {0}, NEW n \in Nat, NEW audio \in Audio(c, n), NEW m \in Nat,
           NEW tailed, HasTail(audio, tailed, c, n, m)
    PROVE  AtMost(TransientDensity(tailed), TransientDensity(audio))
  <1> DEFINE count == Transients(audio)
             many == Cardinality(Starts(n, RmsHop))
             T == {k \in 2..many : Jumps(RmsSeries(audio), k)}
  <1>1. tailed \in Audio(c, n + m) /\ n + m \in Nat
    BY DEF HasTail
  <1>2. Frames(audio) = n /\ Frames(tailed) = n + m
    BY <1>1, AudioIs
  <1>3. Transients(tailed) = count
    BY TransientsWithTail
  <1>4. many \in Nat
    <2>1. RmsHop \in Nat \ {0}
      BY SignalAssumption
    <2> QED BY <2>1, StartsReach
  <1>5. count \in Nat
    <2>1. Len(RmsSeries(audio)) = many
      BY <1>4, SeriesIs
    <2>2. count = Cardinality(T)
      BY <2>1 DEF Transients, Jumps
    <2>3. T \in SUBSET (1..many) /\ IsFiniteSet(1..many)
      <3>1. 2..many \subseteq 1..many
        BY <1>4
      <3> QED BY <1>4, <3>1, UpTo
    <2>4. IsFiniteSet(T)
      BY <2>3, FS_Subset
    <2> QED BY <2>2, <2>4, FS_CardinalityType
  <1>6. n = 0 => count = 0
    <2> SUFFICES ASSUME n = 0 PROVE count = 0
      OBVIOUS
    <2>1. \A k \in 2..many : RmsSeries(audio)[k] = 0
      <3> TAKE k \in 2..many
      <3>1. k \in 1..many /\ k \in Nat
        BY <1>4
      <3>2. (k - 1) * RmsHop \in Nat /\ (k - 1) * RmsHop >= n
        <4>1. k - 1 \in Nat /\ RmsHop \in Nat
          BY <1>4, SignalAssumption
        <4>2. (k - 1) * RmsHop \in Nat
          BY <4>1, ProductIsNatural
        <4> QED BY <4>2
      <3>3. RmsSeries(audio)[k] = WindowEnergy(audio, c, k)
        BY <1>4, <3>1, SeriesIs
      <3>4. WindowEnergy(audio, c, k) = 0
        BY <3>1, <3>2, EnergyWithTail
      <3> QED BY <3>3, <3>4
    <2>2. T = {}
      BY <2>1 DEF Jumps
    <2>3. Len(RmsSeries(audio)) = many
      BY <1>4, SeriesIs
    <2>4. count = Cardinality(T)
      BY <2>3 DEF Transients, Jumps
    <2> QED BY <2>2, <2>4, FS_EmptySet
  <1> HIDE DEF count
  <1>7. CASE n = 0
    <2>1. TransientDensity(audio) = Fraction(0, 1)
      BY <1>2, <1>7 DEF TransientDensity
    <2>2. TransientDensity(tailed) \in {Fraction(0, 1), Fraction(0, n + m)}
      BY <1>2, <1>3, <1>6, <1>7 DEF TransientDensity
    <2> QED BY <1>1, <2>1, <2>2 DEF AtMost, Fraction
  <1>8. CASE n # 0
    <2>1. n + m # 0
      BY <1>8
    <2>2. TransientDensity(audio) = Fraction(count, n) /\ TransientDensity(tailed) = Fraction(count, n + m)
      BY <1>2, <1>3, <1>8, <2>1 DEF TransientDensity, count
    <2>3. n * count <= (n + m) * count
      BY <1>1, <1>5, MulMono
    <2>4. n * count = count * n /\ (n + m) * count = count * (n + m)
      BY <1>5
    <2> QED BY <2>2, <2>3, <2>4 DEF AtMost, Fraction
  <1> QED BY <1>7, <1>8

LEMMA CrestRises ==
    ASSUME NEW c \in Nat \ {0}, NEW n \in Nat, NEW audio \in Audio(c, n), NEW m \in Nat,
           NEW tailed, HasTail(audio, tailed, c, n, m)
    PROVE  AtMost(CrestFactor(audio), CrestFactor(tailed))
  <1> DEFINE e == Energy(audio)
             p == SamplePeak(audio)
             q == p * p
             a == c * n * q
             b == c * (n + m) * q
  <1>1. tailed \in Audio(c, n + m) /\ n + m \in Nat
    BY DEF HasTail
  <1>2. Channels(audio) = c /\ Frames(audio) = n /\ Channels(tailed) = c /\ Frames(tailed) = n + m
    BY <1>1, AudioIs
  <1>3. e \in Nat /\ Energy(tailed) = e
    BY WholeEnergyWithTail
  <1>4. SamplePeak(tailed) = p
    BY PeakWithTail
  <1>5. p \in Nat
    BY PeakIs
  <1>6. /\ CrestFactor(audio) = IF e = 0 THEN Fraction(1, 1) ELSE Fraction(Max({e, a}), e)
        /\ CrestFactor(tailed) = IF e = 0 THEN Fraction(1, 1) ELSE Fraction(Max({e, b}), e)
    BY <1>2, <1>3, <1>4 DEF CrestFactor
  <1> HIDE DEF e, p
  <1>7. q \in Nat
    BY <1>5, ProductIsNatural
  <1> HIDE DEF q
  <1>8. a \in Nat /\ b \in Nat /\ a <= b
    <2>1. n * c <= (n + m) * c
      BY <1>1, MulMono
    <2>2. c * n = n * c /\ c * (n + m) = (n + m) * c
      OBVIOUS
    <2>3. c * n \in Nat /\ c * (n + m) \in Nat
      BY <1>1, ProductIsNatural
    <2> DEFINE x == c * n
               y == c * (n + m)
    <2>4. x \in Nat /\ y \in Nat /\ x <= y
      BY <2>1, <2>2, <2>3
    <2> HIDE DEF x, y
    <2>5. x * q \in Nat /\ y * q \in Nat /\ x * q <= y * q
      BY <1>7, <2>4, MulMono, ProductIsNatural
    <2> QED BY <2>5 DEF x, y
  <1> HIDE DEF a, b
  <1>9. Max({e, a}) = (IF e <= a THEN a ELSE e) /\ Max({e, b}) = IF e <= b THEN b ELSE e
    <2>1. Max({e, a}) = IF e <= a THEN a ELSE e
      BY <1>3, <1>8, MinOfTwo
    <2>2. Max({e, b}) = IF e <= b THEN b ELSE e
      BY <1>3, <1>8, MinOfTwo
    <2> QED BY <2>1, <2>2, Zenon
  <1> DEFINE x == Max({e, a})
             y == Max({e, b})
  <1>10. x \in Nat /\ y \in Nat /\ x <= y
    BY <1>3, <1>8, <1>9
  <1> HIDE DEF x, y
  <1>11. x * e <= y * e
    BY <1>3, <1>10, MulMono
  <1>12. AtMost(Fraction(x, e), Fraction(y, e)) /\ AtMost(Fraction(1, 1), Fraction(1, 1))
    BY <1>11 DEF AtMost, Fraction
  <1> QED BY <1>6, <1>12 DEF x, y

LEMMA SilenceOnlyDilutes == DecoderInv => TrailingSilenceOnlyDilutes
  <1> SUFFICES ASSUME DecoderInv, Decoded, NEW m \in {1, StereoWindow}
      PROVE  LET tailed == [c \in DOMAIN decoded |-> decoded[c] \o [i \in 1..m |-> 0]] IN
             /\ SamplePeak(tailed) = SamplePeak(decoded)
             /\ ClippedSamples(tailed) = ClippedSamples(decoded)
             /\ ApproxTruePeak(tailed) = ApproxTruePeak(decoded)
             /\ Transients(tailed) = Transients(decoded)
             /\ Correlations(tailed) = Correlations(decoded)
             /\ Balance(tailed) = Balance(decoded)
             /\ AtMost(TransientDensity(tailed), TransientDensity(decoded))
             /\ AtMost(CrestFactor(decoded), CrestFactor(tailed))
    BY DEF TrailingSilenceOnlyDilutes
  <1> DEFINE n == FramesBefore(source.events, next)
             c == Channels(decoded)
             tailed == [k \in DOMAIN decoded |-> decoded[k] \o [i \in 1..m |-> 0]]
  <1>1. n \in Nat /\ c \in Nat \ {0} /\ decoded \in Audio(c, n)
    BY DecodedIs
  <1>2. m \in Nat
    BY SignalAssumption
  <1> HIDE DEF n, c
  <1>3. HasTail(decoded, tailed, c, n, m)
    BY <1>1, <1>2, TailedIs
  <1> HIDE DEF tailed
  <1>4. SamplePeak(tailed) = SamplePeak(decoded) /\ ApproxTruePeak(tailed) = ApproxTruePeak(decoded)
    BY <1>1, <1>2, <1>3, PeakWithTail
  <1>5. ClippedSamples(tailed) = ClippedSamples(decoded)
    BY <1>1, <1>2, <1>3, ClippedWithTail
  <1>6. Transients(tailed) = Transients(decoded)
    BY <1>1, <1>2, <1>3, TransientsWithTail
  <1>7. Correlations(tailed) = Correlations(decoded)
    BY <1>1, <1>2, <1>3, CorrelationsWithTail
  <1>8. Balance(tailed) = Balance(decoded)
    BY <1>1, <1>2, <1>3, BalanceWithTail
  <1>9. AtMost(TransientDensity(tailed), TransientDensity(decoded))
    BY <1>1, <1>2, <1>3, DensityFalls
  <1>10. AtMost(CrestFactor(decoded), CrestFactor(tailed))
    BY <1>1, <1>2, <1>3, CrestRises
  <1> QED BY <1>4, <1>5, <1>6, <1>7, <1>8, <1>9, <1>10, Zenon DEF tailed

\* The measures of a decoded recording agree with each other (the correlations
\* of compute_metrics stay within one, the loudness meter gets every frame
\* once), and silence at its end makes no peak, clipping, transient, correlation
\* or balance: it can only lower the density of transients, which is taken over
\* the duration, and only raise the crest factor, whose mean is.
THEOREM MeasuresStaySound == SignalSpec => []MeasuresAreSound
  <1>1. DecoderInv => MeasuresAreSound
    BY MeasuresDoAgree, SilenceOnlyDilutes DEF MeasuresAreSound
  <1> QED BY <1>1, DecoderInvariant, PTL
=============================================================================
