----------------------------- MODULE Evaluation -----------------------------
(***************************************************************************)
(* The verdict on a run: availability of targets (constitution.rs), gates  *)
(* (gates.rs), drift (drift.rs, scoring.rs), as the worker computes it for *)
(* the pinned constitution and as the shadow impact of a candidate         *)
(* (policy_registry.rs) forecasts it from the metrics in the report.       *)
(*                                                                         *)
(* Measured values are integers.  A deviation is a number of Scale-ths of  *)
(* the corridor's width, so widths of corridors must divide Scale.         *)
(***************************************************************************)
EXTENDS Integers, FiniteSets, FiniteSetsExt, Ranking

CONSTANTS Bands,          \* the spectral bands
          Constitutions,  \* what a registered constitution can say
          Measurements,   \* what the analyzer can measure
          NoDepth,        \* the bit depth of an asset whose column is NULL
          Unset, None,
          Scale

Targets == {"loudness", "dynamics", "correlation", "balance"} \union Bands

\* Targets of a domain share one weight; that of the bands is the mean of two
\* priorities.
DomainTargets == [loudness |-> {"loudness"}, dynamics |-> {"dynamics"},
                  spectral |-> Bands, stereo |-> {"correlation", "balance"}]
Domains == DOMAIN DomainTargets

\* Lists of the contract are empty when they are not configured.
ConstitutionType ==
    [rates : SUBSET Nat, depths : SUBSET Nat, ceiling : Int \union {Unset},
     clipping : BOOLEAN \union {Unset},
     corridor : [Targets -> (Int \X Int) \union {Unset}],
     weight : [Domains -> Nat]]

\* value["balance"] is without its sign; a mono file has no stereo values.
MeasurementType ==
    [rate : Nat, peak : Int, clipped : Nat, value : [Targets -> Int \union {Unset}]]

ASSUME EvaluationAssumption ==
    /\ IsFiniteSet(Bands)
    /\ Constitutions \subseteq ConstitutionType
    /\ Measurements \subseteq MeasurementType
    /\ NoDepth \notin Nat
    /\ Unset \notin Int \union BOOLEAN \union (Int \X Int)
    /\ Scale \in Nat \ {0}

VARIABLES
    pinned,     \* the constitution the run is pinned to
    candidate,  \* another version in the registry
    measured,   \* the metrics of the run's audio
    report,     \* gates.json and drift.json of the run
    forecast,   \* shadow/impact of the candidate over this run
    rerun       \* the verdict on the same audio once the candidate is active

vars == <<pinned, candidate, measured, report, forecast, rerun>>

-----------------------------------------------------------------------------
(* Corridors.                                                              *)

Low(r) == Min({r[1], r[2]})
High(r) == Max({r[1], r[2]})
Distance(v, r) == IF v < Low(r) THEN Low(r) - v ELSE v - High(r)

\* Relative to the corridor's width and at most 1; next to a corridor without
\* width any distance is too much (EPS).
Deviation(v, r) ==
    IF v \in Low(r)..High(r) THEN 0
    ELSE IF Low(r) = High(r) THEN Scale
    ELSE Min({Scale, (Distance(v, r) * Scale) \div (High(r) - Low(r))})

Configured(c, t) == c.corridor[t] # Unset
Applicable(m, t) == m.value[t] # Unset
Scored(c, m, targets) == {t \in targets : Configured(c, t) /\ Applicable(m, t)}
TargetDeviation(c, m, t) == Deviation(m.value[t], c.corridor[t])

-----------------------------------------------------------------------------
(* evaluate_gates.                                                         *)

\* A depth nobody knows is not applicable.
BadDepth(c, d) == c.depths # {} /\ d # NoDepth /\ d \notin c.depths
BadRate(c, m) == c.rates # {} /\ m.rate \notin c.rates
OverCeiling(c, m) == c.ceiling # Unset /\ m.peak > c.ceiling
BadClipping(c, m) == c.clipping = FALSE /\ m.clipped # 0

FailedBlockers(c, m, d) ==
    {g \in {"G001", "G002", "G003", "G004"} :
        \/ g = "G001" /\ BadRate(c, m)
        \/ g = "G002" /\ BadDepth(c, d)
        \/ g = "G003" /\ OverCeiling(c, m)
        \/ g = "G004" /\ BadClipping(c, m)}

WarnTargets == [W001 |-> {"correlation"}, W002 |-> {"balance"}, W003 |-> Bands,
                W004 |-> {"dynamics"}, W005 |-> {"loudness"}]

FailedWarns(c, m) ==
    {g \in DOMAIN WarnTargets :
        \E t \in Scored(c, m, WarnTargets[g]) : TargetDeviation(c, m, t) > 0}

Gates == {"G001", "G002", "G003", "G004"} \union DOMAIN WarnTargets

GateStatus(blockers, warns) ==
    IF blockers # {} THEN "FAIL" ELSE IF warns # {} THEN "WARN" ELSE "PASS"

-----------------------------------------------------------------------------
(* compute_drift.                                                          *)

DriftVector(c, m) == {t \in Scored(c, m, Targets) : TargetDeviation(c, m, t) > 0}

\* Faulty: the mean over the targets that deviate.
MeanOfViolations(c, m, d) ==
    LET off == DomainTargets[d] \intersect DriftVector(c, m) IN
    IF off = {} THEN 0
    ELSE SumFunction([t \in off |-> TargetDeviation(c, m, t)]) \div Cardinality(off)

\* The mean over the domain's scored targets.
DomainScore(c, m, d) ==
    LET scored == Scored(c, m, DomainTargets[d]) IN
    SumFunction([t \in scored |-> TargetDeviation(c, m, t)]) \div Cardinality(scored)

ScoredDomains(c, m) == {d \in Domains : Scored(c, m, DomainTargets[d]) # {}}
WeightSum(c, m) == SumFunctionOnSet(c.weight, ScoredDomains(c, m))

\* 100 * weighted mean, rounded half up.
DriftScore(c, m) ==
    LET total == SumFunction([d \in ScoredDomains(c, m) |-> c.weight[d] * DomainScore(c, m, d)])
        whole == WeightSum(c, m) * Scale
    IN  IF WeightSum(c, m) > 0 THEN (200 * total + whole) \div (2 * whole) ELSE 0

Evaluate(c, m, d) ==
    LET blockers == FailedBlockers(c, m, d)
        warns == FailedWarns(c, m)
    IN  [failed |-> blockers \union warns,
         status |-> GateStatus(blockers, warns),
         score |-> DriftScore(c, m)]

Verdicts == [failed : SUBSET Gates, status : {"PASS", "WARN", "FAIL"}, score : 0..100]

-----------------------------------------------------------------------------
Init ==
    /\ pinned \in Constitutions
    /\ candidate \in Constitutions
    /\ measured \in Measurements
    /\ report = None
    /\ forecast = None
    /\ rerun = None

\* The worker passes assets.bit_depth on, which no statement ever fills: the
\* INSERT of an asset leaves it NULL.  So G002 is not applicable to any run.
ProcessRun ==
    /\ report = None
    /\ report' = Evaluate(pinned, measured, NoDepth)
    /\ UNCHANGED <<pinned, candidate, measured, forecast, rerun>>

\* Faulty: gates that failed before as well.
StillFailing(before, after) == after.failed \intersect before.failed

NewlyFailing(before, after) == after.failed \ before.failed

NewFail(before, after) == before.status # "FAIL" /\ after.status = "FAIL"

\* From the metrics in the report, which holds no bit depth either.
BuildShadowImpact ==
    /\ report # None /\ forecast = None
    /\ LET verdict == Evaluate(candidate, measured, NoDepth) IN
       forecast' = [verdict |-> verdict,
                    new_fail |-> NewFail(report, verdict),
                    newly_failing |-> NewlyFailing(report, verdict)]
    /\ UNCHANGED <<pinned, candidate, measured, report, rerun>>

\* The candidate is activated and the same asset registered again.
ProcessAgain ==
    /\ report # None /\ rerun = None
    /\ rerun' = Evaluate(candidate, measured, NoDepth)
    /\ UNCHANGED <<pinned, candidate, measured, report, forecast>>

Next == ProcessRun \/ BuildShadowImpact \/ ProcessAgain

Spec == Init /\ [][Next]_vars

-----------------------------------------------------------------------------
\* Verdicts have their types; a drift score is a percentage.
EvaluationTypeOK ==
    /\ report \in Verdicts \union {None}
    /\ rerun \in Verdicts \union {None}
    /\ forecast = None \/ /\ forecast.verdict \in Verdicts
                          /\ forecast.new_fail \in BOOLEAN
                          /\ forecast.newly_failing \subseteq Gates

Rank == [PASS |-> 0, WARN |-> 1, FAIL |-> 2]

\* c asks for the same things as d, and for less of each.
Relaxes(c, d) ==
    /\ c.weight = d.weight
    /\ d.rates \subseteq c.rates /\ (d.rates = {} <=> c.rates = {})
    /\ d.depths \subseteq c.depths /\ (d.depths = {} <=> c.depths = {})
    /\ IF d.ceiling = Unset THEN c.ceiling = Unset
       ELSE c.ceiling # Unset /\ c.ceiling >= d.ceiling
    /\ c.clipping = d.clipping \/ (d.clipping = FALSE /\ c.clipping = TRUE)
    /\ \A t \in Targets :
          IF Configured(d, t)
          THEN /\ Configured(c, t)
               /\ Low(c.corridor[t]) <= Low(d.corridor[t])
               /\ High(d.corridor[t]) <= High(c.corridor[t])
          ELSE ~Configured(c, t)

\* Relaxing a constitution never makes a verdict worse: gates, gate status and
\* drift score of the same audio can only improve, although a deviation is
\* relative to the corridor's width and the score a mean of means.
RelaxingNeverHurts ==
    report # None /\ rerun # None /\ Relaxes(candidate, pinned) =>
       /\ rerun.failed \subseteq report.failed
       /\ Rank[rerun.status] <= Rank[report.status]
       /\ rerun.score <= report.score

\* A run whose status the candidate worsens shows up under the newly failing
\* gates, by a blocker if it is a new failure; and these are the gates that
\* activating the candidate adds to the failures of the same audio.
RegressionsAreCounted ==
    forecast # None =>
       /\ rerun # None => forecast.newly_failing = rerun.failed \ report.failed
       /\ Rank[forecast.verdict.status] > Rank[report.status] => forecast.newly_failing # {}
       /\ forecast.new_fail => forecast.newly_failing \ DOMAIN WarnTargets # {}
=============================================================================
