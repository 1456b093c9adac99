----------------------------- MODULE Translation -----------------------------
(***************************************************************************)
(* The verdicts of the translation matrix (translation_sim.rs and          *)
(* translation_matrix.rs): one audio file, as six playback targets render  *)
(* it, under the constitution of its run.  Signal models the rendering;    *)
(* here a target is what the analyzer measures of it.                      *)
(***************************************************************************)
EXTENDS Evaluation, Sequences, SequencesExt

CONSTANT Renderings  \* what may be measured of the targets, in the order of TARGETS

ASSUME TranslationAssumption == Renderings \subseteq Seq(Measurements)

VARIABLE rendered  \* the metrics of the targets

TranslationInit == rendered = <<>>

SimulateTargets ==
    /\ rendered = <<>>
    /\ rendered' \in Renderings

TranslationSpec ==
    /\ Init /\ TranslationInit
    /\ [][SimulateTargets /\ UNCHANGED vars]_<<vars, rendered>>

-----------------------------------------------------------------------------
(* One target.                                                             *)

\* Faulty: failed gates weigh nothing.
RiskFromDrift(e) == e.score

TranslationRisk(e) ==
    LET warns == e.failed \intersect DOMAIN WarnTargets IN
    Min({100, e.score + 15 * Cardinality(e.failed \ warns) + 5 * Cardinality(warns)})

\* The note of compute_drift.
DriftNote(c, m) ==
    IF WeightSum(c, m) = 0 THEN "not evaluated"
    ELSE IF DriftVector(c, m) = {} THEN "inside" ELSE "none"

\* A rendering has no bit depth.
TargetOutput(c, m) ==
    LET e == Evaluate(c, m, NoDepth) IN
    [status |-> e.status, failed |-> e.failed, risk |-> TranslationRisk(e),
     note |-> DriftNote(c, m)]

Outputs == [i \in DOMAIN rendered |-> TargetOutput(pinned, rendered[i])]

-----------------------------------------------------------------------------
(* build_summary.                                                          *)

\* The first target of those with the highest risk, and with the lowest.
FirstWith(risk, outputs) ==
    Min({i \in DOMAIN outputs : outputs[i].risk = risk})
Risks(outputs) == {outputs[i].risk : i \in DOMAIN outputs}

GateRank == [PASS |-> 0, WARN |-> 1, FAIL |-> 2]

\* Faulty: sorted by risk alone.
FailsWorseByRisk(outputs, i, j) ==
    \/ outputs[i].risk > outputs[j].risk
    \/ outputs[i].risk = outputs[j].risk /\ i < j

\* By gate status, then risk, then order.
FailsWorse(outputs, i, j) ==
    \/ GateRank[outputs[i].status] > GateRank[outputs[j].status]
    \/ /\ outputs[i].status = outputs[j].status
       /\ \/ outputs[i].risk > outputs[j].risk
          \/ outputs[i].risk = outputs[j].risk /\ i < j

TopFailing(outputs) ==
    LET failing == {i \in DOMAIN outputs : outputs[i].status # "PASS"}
        sorted == Ranked(failing, {p \in failing \X failing : FailsWorse(outputs, p[1], p[2])})
    IN  SubSeq(sorted, 1, Min({3, Len(sorted)}))

\* The sum of the risks stands for their mean.
BuildSummary(outputs) ==
    [worst |-> FirstWith(Max(Risks(outputs)), outputs),
     best |-> FirstWith(Min(Risks(outputs)), outputs),
     risk_sum |-> SumFunction([i \in DOMAIN outputs |-> outputs[i].risk]),
     top_failing |-> TopFailing(outputs)]

-----------------------------------------------------------------------------
\* Risk, gates and notes of a target tell one story although each is computed
\* from other parts of the verdict: no risk exactly if every gate passes, at
\* least 15 if a blocker fails, and "no action required" about the corridors
\* exactly if no warning fails (where anything was scored).
RiskMatchesGates ==
    \A i \in DOMAIN Outputs :
       LET o == Outputs[i] IN
       /\ o.risk = 0 <=> o.status = "PASS"
       /\ o.status = "FAIL" => o.risk >= 15
       /\ o.note # "not evaluated" =>
             (o.note = "inside" <=> o.failed \intersect DOMAIN WarnTargets = {})

\* The summary hides no failure.  The worst target by risk need not be the one
\* that fails, but no warning is listed while a failing target is not; a target
\* passes exactly if the best one does; and the worst one is missing from the
\* list only if it passes or three others fail.
SummaryHidesNoFailure ==
    rendered # <<>> =>
       LET summary == BuildSummary(Outputs)
           listed == ToSet(summary.top_failing)
           failing == {i \in DOMAIN Outputs : Outputs[i].status = "FAIL"}
       IN  /\ failing \subseteq listed \/ (listed \subseteq failing /\ Cardinality(listed) = 3)
           /\ Outputs[summary.best].status = "PASS"
                 <=> \E i \in DOMAIN Outputs : Outputs[i].status = "PASS"
           /\ summary.worst \in listed \/ Outputs[summary.worst].status = "PASS"
                 \/ Cardinality(failing) >= 3
           /\ summary.risk_sum <= Len(Outputs) * Outputs[summary.worst].risk
=============================================================================
