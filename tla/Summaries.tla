----------------------------- MODULE Summaries -----------------------------
(***************************************************************************)
(* What the tools say about several runs: the CI check (ci_check.rs), the  *)
(* gate and drift trends (cll.rs) and the shadow impact of a candidate     *)
(* (build_shadow_impact in policy_registry.rs).  Each walks the window of  *)
(* valid runs with code of its own; here a run is its verdict by           *)
(* Evaluation, with the constitution it names in its meta.                 *)
(***************************************************************************)
EXTENDS Evaluation, Sequences, SequencesExt

CONSTANTS Reported,  \* what is reported on: a constitution and audio
          LastN,     \* requested_last_n, 0 for all runs
          MaxRuns    \* bound on the history

ASSUME SummariesAssumption ==
    /\ Reported \subseteq Constitutions \X Measurements
    /\ LastN \in Nat /\ MaxRuns \in Nat

VARIABLE history  \* the valid runs, oldest first

HistoryInit == history = <<>>

\* A worker's report on some audio.
ReportRun(c, m) ==
    /\ Len(history) < MaxRuns
    /\ history' = Append(history, [by |-> c, metrics |-> m, report |-> Evaluate(c, m, NoDepth)])

HistoryNext == \E r \in Reported : ReportRun(r[1], r[2])

\* The impact of a candidate on the history, next to the one run that Evaluation
\* follows.
SummariesInit == Init /\ HistoryInit

SummariesNext ==
    \/ Next /\ UNCHANGED history
    \/ HistoryNext /\ UNCHANGED vars

SummariesSpec == SummariesInit /\ [][SummariesNext]_<<vars, history>>

Window ==
    IF LastN = 0 \/ LastN >= Len(history) THEN history
    ELSE SubSeq(history, Len(history) - LastN + 1, Len(history))

-----------------------------------------------------------------------------
(* Counting.                                                               *)

CountStatus(runs, status) == Cardinality({i \in DOMAIN runs : runs[i].report.status = status})

\* Names in the alphabet's order; for targets some fixed order stands for it.
GateOrder == <<"G001", "G002", "G003", "G004", "W001", "W002", "W003", "W004", "W005">>
MetricOrder == SetToSeq(Targets)

\* The names found in some run, the most frequent first, then by name.
MostFrequent(order, found) ==
    LET count(i) == Cardinality({k \in DOMAIN found : order[i] \in found[k]})
        listed == {i \in DOMAIN order : count(i) > 0}
        before == {p \in listed \X listed :
                      \/ count(p[1]) > count(p[2])
                      \/ (count(p[1]) = count(p[2]) /\ p[1] < p[2])}
        sorted == Ranked(listed, before)
    IN  [k \in DOMAIN sorted |-> [name |-> order[sorted[k]], count |-> count(sorted[k])]]

Blockers == {"G001", "G002", "G003", "G004"}

BlockersOf(runs) == [i \in DOMAIN runs |-> runs[i].report.failed \cap Blockers]
WarnsOf(runs) == [i \in DOMAIN runs |-> runs[i].report.failed \ Blockers]

-----------------------------------------------------------------------------
(* The CI check.                                                           *)

\* Faulty: WARN hides an earlier FAIL.
LatestWarnWins(current, incoming) ==
    IF "WARN" \in {current, incoming} THEN "WARN"
    ELSE IF "FAIL" \in {current, incoming} THEN "FAIL" ELSE "PASS"

WorstStatus(current, incoming) ==
    IF "FAIL" \in {current, incoming} THEN "FAIL"
    ELSE IF "WARN" \in {current, incoming} THEN "WARN" ELSE "PASS"

ExitCode(status) == [PASS |-> 0, WARN |-> 1, FAIL |-> 2][status]

\* A summary names a constitution only if all its runs do.
RecoverConstitution(runs) ==
    IF runs # <<>> /\ \A i \in DOMAIN runs : runs[i].by = runs[1].by THEN runs[1].by ELSE None

CiSummary(runs) ==
    [exit |-> ExitCode(FoldLeft(LAMBDA worst, run : WorstStatus(worst, run.report.status),
                                "PASS", runs)),
     counts |-> [s \in {"PASS", "WARN", "FAIL"} |-> CountStatus(runs, s)],
     blockers |-> MostFrequent(GateOrder, BlockersOf(runs)),
     constitution |-> RecoverConstitution(runs)]

-----------------------------------------------------------------------------
(* The trends document.                                                    *)

GateTrends(runs) ==
    [counts |-> [s \in {"PASS", "WARN", "FAIL"} |-> CountStatus(runs, s)],
     blockers |-> MostFrequent(GateOrder, BlockersOf(runs)),
     warns |-> MostFrequent(GateOrder, WarnsOf(runs))]

\* Targets off their corridor, and the scores in time.
DriftTrends(runs) ==
    [scores |-> [i \in DOMAIN runs |-> runs[i].report.score],
     recurring |-> MostFrequent(MetricOrder,
                     [i \in DOMAIN runs |-> DriftVector(runs[i].by, runs[i].metrics)])]

-----------------------------------------------------------------------------
(* The shadow impact of the candidate.                                     *)

Forecasts(runs) ==
    [i \in DOMAIN runs |-> Evaluate(candidate, runs[i].metrics, NoDepth)]

\* Millionths, rounded (round6).
Share(part, whole) ==
    IF whole = 0 THEN 0 ELSE (2 * 1000000 * part + whole) \div (2 * whole)

\* Twice the median.
TwiceMedian(values) ==
    LET sorted == Ascending(values)
        mid == Len(values) \div 2
    IN  IF values = <<>> THEN 0
        ELSE IF Len(values) % 2 = 0 THEN sorted[mid] + sorted[mid + 1]
        ELSE 2 * sorted[mid + 1]

DriftDeltas(runs) ==
    [i \in DOMAIN runs |-> Forecasts(runs)[i].score - runs[i].report.score]

\* Faulty: every run the candidate fails is new.
AllFails(runs) == {i \in DOMAIN runs : Forecasts(runs)[i].status = "FAIL"}

NewFails(runs) == {i \in DOMAIN runs : NewFail(runs[i].report, Forecasts(runs)[i])}

\* More than 0.80 of the runs.
HighRisk(runs) == Share(Cardinality(NewFails(runs)), Len(runs)) > 800000

\* The sum of the deltas stands for their mean; a run counts as a new blocker
\* when it newly fails.
Impact(runs) ==
    LET forecast_(i) == Forecasts(runs)[i]
        delta(s) == Cardinality({i \in DOMAIN runs : forecast_(i).status = s})
                        - CountStatus(runs, s)
    IN  [new_fail_count |-> Cardinality(NewFails(runs)),
         new_blockers_count |-> Cardinality(NewFails(runs)),
         gate_status_delta |-> [s \in {"PASS", "WARN", "FAIL"} |-> delta(s)],
         drift_sum |-> SumFunction(DriftDeltas(runs)),
         drift_median2 |-> TwiceMedian(DriftDeltas(runs)),
         newly_failing |-> [g \in Gates |->
             Cardinality({i \in DOMAIN runs : g \in NewlyFailing(runs[i].report, forecast_(i))})],
         risk |-> IF HighRisk(runs) THEN "high" ELSE "low"]

-----------------------------------------------------------------------------
\* The exit code of the CI check, its counts and its lists of gates tell one
\* story, and the trends over the same runs tell the same one: 2 exactly if a
\* blocker is listed, 0 exactly if nothing is.
SummariesAgree ==
    LET ci == CiSummary(Window)
        trends == GateTrends(Window)
    IN  /\ ci.exit = 2 <=> trends.blockers # <<>>
        /\ ci.exit = 0 <=> trends.blockers = <<>> /\ trends.warns = <<>>
        /\ ci.exit = 2 <=> ci.counts["FAIL"] > 0
        /\ \A i \in DOMAIN ci.blockers : ci.blockers[i].count <= ci.counts["FAIL"]

\* The totals of an impact add up, and the risk level means a regression: at
\* high risk most runs of the window lose their verdict although some may
\* recover, and each of them shows in the list of newly failing gates.
HighRiskIsRegression ==
    LET impact == Impact(Window) IN
       /\ impact.gate_status_delta["PASS"] + impact.gate_status_delta["WARN"]
             + impact.gate_status_delta["FAIL"] = 0
       /\ impact.gate_status_delta["FAIL"] <= impact.new_fail_count
       /\ impact.new_fail_count <= SumFunctionOnSet(impact.newly_failing, Blockers)
       /\ impact.risk = "high" => 5 * impact.gate_status_delta["FAIL"] > 3 * Len(Window)

\* A candidate that relaxes the constitution of every run of the window shows
\* no regression: no new failure, no worse total, low risk, and a mean and a
\* median drift that do not rise.
RelaxedCandidateShowsNoHarm ==
    (\A i \in DOMAIN Window : Relaxes(candidate, Window[i].by)) =>
       LET impact == Impact(Window) IN
          /\ impact.new_fail_count = 0 /\ impact.risk = "low"
          /\ impact.gate_status_delta["FAIL"] <= 0 /\ impact.gate_status_delta["PASS"] >= 0
          /\ impact.drift_sum <= 0 /\ impact.drift_median2 <= 0

\* Loosening a constitution cannot look like tightening it, per run or in sum.
RelaxingIsHarmless == RelaxingNeverHurts /\ RelaxedCandidateShowsNoHarm
=============================================================================
