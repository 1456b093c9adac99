----------------------------- MODULE Diversity -----------------------------
(***************************************************************************)
(* The diversity sentinel (diversity.rs): does the sound of a project's    *)
(* runs collapse?  It compares the first runs of a window with the last.   *)
(*                                                                         *)
(* A variance is kept as the integer n * sum(x^2) - sum(x)^2, a ratio of   *)
(* two as a pair, and a distance as its square, so that every threshold is *)
(* compared exactly; a division by a vanishing EPS counts as infinite.     *)
(***************************************************************************)
EXTENDS Integers, Sequences, FiniteSets, FiniteSetsExt, SequencesExt, Ranking

CONSTANTS Recordings,  \* what a valid run can tell of its audio
          MaxPast,     \* bound on the history
          Cap,         \* the two windows hold at most so many runs
          MinHistory,  \* MIN_DIVERSITY_HISTORY
          Missing

\* Each stands for the features that are treated alike.
FeatureIds == <<"loudness", "dynamics", "low", "centroid", "correlation", "balance">>
Features == ToSet(FeatureIds)
StereoKeys == {"correlation", "balance"}
Keys == {"loudness", "dynamics", "low"} \union StereoKeys

ASSUME DiversityAssumption ==
    /\ Recordings \subseteq [drift : 0..100, value : [Features -> Int \union {Missing}]]
    /\ \A r \in Recordings : \A f \in Features \ StereoKeys : r.value[f] # Missing
    /\ Missing \notin Int
    /\ MaxPast \in Nat /\ MinHistory \in Nat /\ Cap \in Nat

VARIABLE past  \* the selected valid runs, oldest first

DiversityInit == past = <<>>

AddRun ==
    /\ Len(past) < MaxPast
    /\ \E r \in Recordings : past' = Append(past, r)

DiversitySpec == DiversityInit /\ [][AddRun]_past

-----------------------------------------------------------------------------
(* Windows and features.                                                   *)

M == Min({Cap, Len(past)})
Baseline == SubSeq(past, 1, M)

\* Faulty: one run short.
RecentTooFew == SubSeq(past, Len(past) - M + 2, Len(past))

Recent == SubSeq(past, Len(past) - M + 1, Len(past))

Present(runs, f) == Cardinality({i \in DOMAIN runs : runs[i].value[f] # Missing})

\* Missing values are imputed.
Imputed(run, f) == IF run.value[f] = Missing THEN 0 ELSE run.value[f]
Values(runs, f) == [i \in DOMAIN runs |-> Imputed(runs[i], f)]

Spread(runs, f) ==
    LET xs == Values(runs, f)
        squares == [i \in DOMAIN xs |-> xs[i] * xs[i]]
    IN  Len(xs) * SumFunction(squares) - SumFunction(xs) * SumFunction(xs)

-----------------------------------------------------------------------------
(* Variance ratios.                                                        *)

Infinite == <<1, 0>>

VarianceRatio(f) ==
    IF Spread(Baseline, f) # 0 THEN <<Spread(Recent, f), Spread(Baseline, f)>>
    ELSE IF Spread(Recent, f) = 0 THEN <<0, 1>> ELSE Infinite

RatioBelow(r, s) == r[1] * s[2] < s[1] * r[2]

\* Things with a ratio, by it; tie orders those of the same ratio.
ByRatio(rated, tie(_, _)) ==
    Ranked(rated, {p \in rated \X rated :
                      \/ RatioBelow(p[1].ratio, p[2].ratio)
                      \/ (~RatioBelow(p[2].ratio, p[1].ratio) /\ tie(p[1].of, p[2].of))})

\* The median ratio, of an even number of features, is at most n tenths.
MedianRatioAtMost(n) ==
    LET rated == {[of |-> i, ratio |-> VarianceRatio(FeatureIds[i])] : i \in DOMAIN FeatureIds}
        sorted == ByRatio(rated, <)
        a == sorted[Len(sorted) \div 2].ratio
        b == sorted[Len(sorted) \div 2 + 1].ratio
    IN  Infinite \notin {a, b} /\ 10 * (a[1] * b[2] + b[1] * a[2]) <= 2 * n * a[2] * b[2]

\* Stereo features count when most runs of both windows have them.
Majority == (M + 1) \div 2
Counted(f) == M > 0 /\ Present(Baseline, f) >= Majority /\ Present(Recent, f) >= Majority

\* With EPS under the fraction, half is below half.
KeyFeatureHits ==
    {f \in Keys : (f \in StereoKeys => Counted(f)) /\ ~RatioBelow(<<1, 2>>, VarianceRatio(f))}

-----------------------------------------------------------------------------
(* Distances between sounds, each feature relative to its spread in the    *)
(* baseline.                                                               *)

Moving == {f \in Features : Spread(Baseline, f) # 0}

Square(x) == x * x

\* The common denominator over that of f.
Cofactor(spread, f) ==
    LET factor(g) == IF g = f \/ spread[g] = 0 THEN 1 ELSE spread[g] IN
    factor("loudness") * factor("dynamics") * factor("low") * factor("centroid")
        * factor("correlation") * factor("balance")

\* A difference in a feature that the baseline never varies is beyond measure.
DistanceBetween(r, s, spread) ==
    LET moving == {f \in Features : spread[f] # 0} IN
    IF \E f \in Features \ moving : Imputed(r, f) # Imputed(s, f) THEN Infinite
    ELSE <<SumFunction([f \in moving |->
               Square(Imputed(r, f) - Imputed(s, f)) * Cofactor(spread, f)]), 1>>

\* The two middle ones of the pairs, the same if their number is odd.
PairBefore(p, q) == p[1] < q[1] \/ (p[1] = q[1] /\ p[2] < q[2])
MiddleDistances(runs) ==
    LET of(f) == Spread(Baseline, f)
        spread == [loudness |-> of("loudness"), dynamics |-> of("dynamics"), low |-> of("low"),
                   centroid |-> of("centroid"), correlation |-> of("correlation"),
                   balance |-> of("balance")]
        pairs == {p \in (DOMAIN runs) \X (DOMAIN runs) : p[1] < p[2]}
        rated == {[of |-> p, ratio |-> DistanceBetween(runs[p[1]], runs[p[2]], spread)] : p \in pairs}
        sorted == ByRatio(rated, PairBefore)
    IN  IF Len(runs) < 2 THEN [lower |-> <<0, 1>>, upper |-> <<0, 1>>]
        ELSE [lower |-> sorted[(Len(sorted) + 1) \div 2].ratio,
              upper |-> sorted[Len(sorted) \div 2 + 1].ratio]

\* The roots of a and b add up to at most those of c and d, without the roots.
RootsAtMost(a, b, c, d) ==
    LET p == a + b - c - d
        u == 4 * a * b
        v == 4 * c * d
    IN  \/ a <= c /\ b <= d
        \/ /\ a <= c \/ b <= d
           /\ \/ p <= 0 /\ (u <= v + p * p \/ Square(u - v - p * p) <= 4 * p * p * v)
              \/ p > 0 /\ u + p * p <= v /\ 4 * p * p * u <= Square(v - u - p * p)

\* The recent median distance is at most n tenths of that of the baseline.
DistancesAtMost(n) ==
    LET b == MiddleDistances(Baseline)
        r == MiddleDistances(Recent)
    IN  /\ Infinite \notin {r.lower, r.upper}
        /\ RootsAtMost(100 * r.lower[1], 100 * r.upper[1],
                       n * n * b.lower[1], n * n * b.upper[1])

-----------------------------------------------------------------------------
(* Alerts.                                                                 *)

ZeroDriftShareAtLeast(n) ==
    LET calm == Cardinality({i \in DOMAIN past : past[i].drift <= 1}) IN
    past # <<>> /\ 10 * calm >= n * Len(past)

RiskCondition == M >= 2 /\ ZeroDriftShareAtLeast(8) /\ DistancesAtMost(4) /\ MedianRatioAtMost(3)
WatchCondition == M >= 2 /\ (DistancesAtMost(6) \/ Cardinality(KeyFeatureHits) >= 2)

DiversityAlert ==
    IF Len(past) < MinHistory \/ M < MinHistory THEN "insufficient_history"
    ELSE IF RiskCondition THEN "homogenization_risk"
    ELSE IF WatchCondition THEN "homogenization_watch" ELSE "none"

-----------------------------------------------------------------------------
\* While the windows are the same runs nothing can have changed between them,
\* and an alarm means that the project stands still: most pairs of runs sound
\* the same, or two key features never vary.  For a risk all of the project's
\* sound does: the median distance and half of the features are still.
ShortHistoryAlarmsOnlyStill ==
    Len(past) <= Cap =>
       LET still == Features \ Moving
           same == MiddleDistances(past).upper[1] = 0
       IN  /\ DiversityAlert = "homogenization_watch" =>
                 same \/ Cardinality(still \intersect Keys) >= 2
           /\ DiversityAlert = "homogenization_risk" =>
                 same /\ 2 * Cardinality(still) > Cardinality(Features)
=============================================================================
