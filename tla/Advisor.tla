------------------------------- MODULE Advisor -------------------------------
(***************************************************************************)
(* The constitution that `sce_cli suggest-constitution` derives from the   *)
(* selected runs (constitution_advisor.rs): corridors between the tenth    *)
(* and the ninetieth percentile of what was measured, widened, and widened *)
(* again when the diversity sentinel warns.                                *)
(*                                                                         *)
(* Values are in units of 1/One, fine enough for tenths, halves and the    *)
(* factors 1.15 and 1.20 to be exact.                                      *)
(***************************************************************************)
EXTENDS Diversity

CONSTANTS Unit,         \* recordings are in units of 1/Unit
          Fine,         \* and corridors so much finer
          FloorOf,      \* the minimum width of a feature's corridor
          Outs,         \* where the suggestion may be written
          NoSuggestion

\* correlation_min, which is from -1 to 1, and lr_balance_db of a run are taken
\* as those features.
AdvisedFeatures == {"loudness", "dynamics", "low", "correlation", "balance"}

One == Fine * Unit

ASSUME AdvisorAssumption ==
    /\ Unit \in Nat \ {0}
    /\ Fine \in Nat \ {0} /\ Fine % 20000 = 0
    /\ FloorOf \in [AdvisedFeatures -> Nat] /\ \A f \in AdvisedFeatures : FloorOf[f] % 4 = 0
    /\ \A r \in Recordings : r.value["correlation"] \in {Missing} \union (-Unit)..Unit
    /\ Outs \subseteq {"constitution", "suggested", "elsewhere"}

VARIABLE suggestion  \* what suggest-constitution has written

AdvisorInit == DiversityInit /\ suggestion = NoSuggestion

-----------------------------------------------------------------------------
(* build_corridor.                                                         *)

\* Type 7: between the values around position (n - 1) * tenths / 10.
Quantile(values, tenths) ==
    LET sorted == Ascending(values)
        position == (Len(sorted) - 1) * tenths
        k == position \div 10 + 1
    IN  IF k >= Len(sorted) THEN Last(sorted)
        ELSE sorted[k] + ((position % 10) * (sorted[k + 1] - sorted[k])) \div 10

Corridor(min, max) == [min |-> min, max |-> max]
Width(r) == r.max - r.min
Midpoint(r) == (r.min + r.max) \div 2
Around(r, half) == Corridor(Midpoint(r) - half, Midpoint(r) + half)

\* Wider by a number of twentieths.
Widen(r, twentieths) == Around(r, (Width(r) * (20 + twentieths)) \div 40)
EnforceMinWidth(r, floor) == IF Width(r) >= floor THEN r ELSE Around(r, floor \div 2)

Clamped(x, lower, upper) == Min({upper, Max({lower, x})})

\* Corridors of correlation and balance are clamped.
Clamp(r, f) ==
    IF f = "correlation" THEN Corridor(Clamped(r.min, -One, One), Clamped(r.max, -One, One))
    ELSE IF f = "balance" THEN Corridor(Clamped(r.min, 0, 6 * One), Clamped(r.max, 0, 6 * One))
    ELSE r

\* Faulty: with a warning the second widening stands for the minimum width.
BuildCorridorWithoutFloor(values, f, warn) ==
    LET base == Widen(Corridor(Quantile(values, 1), Quantile(values, 9)), 3) IN
    IF warn THEN Clamp(Widen(base, 4), f) ELSE Clamp(EnforceMinWidth(base, FloorOf[f]), f)

BuildCorridor(values, f, warn) ==
    LET base == Widen(Corridor(Quantile(values, 1), Quantile(values, 9)), 3)
        floored == Clamp(EnforceMinWidth(base, FloorOf[f]), f)
    IN  IF warn THEN Clamp(Widen(floored, 4), f) ELSE floored

-----------------------------------------------------------------------------
(* suggest_constitution.                                                   *)

Magnitude(x) == IF x < 0 THEN -x ELSE x

\* The measured values of a feature, by run; the balance is taken without its sign.
Measured(f) ==
    [i \in {i \in DOMAIN past : past[i].value[f] # Missing} |->
        Fine * (IF f = "balance" THEN Magnitude(past[i].value[f]) ELSE past[i].value[f])]

\* Stereo corridors need two stereo runs with a value.
Advised == {f \in AdvisedFeatures : f \in StereoKeys => Cardinality(DOMAIN Measured(f)) >= 2}

Suggested(warn) ==
    [f \in Advised |->
        LET r == BuildCorridor(Measured(f), f, warn) IN
        IF f = "correlation" THEN Corridor(r.min, One)
        ELSE IF f = "balance" THEN Corridor(0, Clamped(Max({r.max, One \div 2}), 0, 6 * One))
        ELSE r]

DiversityWarns == DiversityAlert = "homogenization_risk"

\* Refused for SCE/constitution.yaml; any other path is overwritten.
Suggest ==
    /\ suggestion = NoSuggestion
    /\ past # <<>>
    /\ \E out \in Outs \ {"constitution"} :
          suggestion' = [out |-> out, corridors |-> Suggested(DiversityWarns)]
    /\ UNCHANGED past

AdvisorNext ==
    \/ suggestion = NoSuggestion /\ AddRun /\ UNCHANGED suggestion
    \/ Suggest

AdvisorSpec == AdvisorInit /\ [][AdvisorNext]_<<past, suggestion>>

-----------------------------------------------------------------------------
\* A suggestion accepts the history it was made from: of at most ten runs, only
\* the smallest and the largest value of a feature can lie outside its
\* corridor, but for a balance beyond the 6 dB a constitution can ask for.
SuggestionFitsHistory ==
    suggestion # NoSuggestion /\ Len(past) <= 10 =>
       LET corridors == suggestion.corridors IN
       \A f \in Advised :
          LET sorted == Ascending(Measured(f)) IN
          \A i \in 2..(Len(sorted) - 1) :
             \/ f = "balance" /\ sorted[i] > 6 * One
             \/ sorted[i] \in corridors[f].min..corridors[f].max

\* The sentinel's warning never narrows a corridor: whatever was clamped or
\* held to its minimum width, the widened corridor contains the other.
WarningWidens ==
    suggestion # NoSuggestion =>
       \A f \in Advised :
          /\ Suggested(TRUE)[f].min <= Suggested(FALSE)[f].min
          /\ Suggested(FALSE)[f].max <= Suggested(TRUE)[f].max

\* Adopting a suggestion does not turn the recordings it was made from into
\* outliers, and a homogenization warning never tightens it.
SuggestionIsSound == SuggestionFitsHistory /\ WarningWidens
=============================================================================
