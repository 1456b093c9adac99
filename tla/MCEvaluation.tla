---------------------------- MODULE MCEvaluation ----------------------------
(* Small instances of Evaluation for TLC: contracts without targets against  *)
(* each other, targets without a contract likewise, and signals for both.    *)
(* A behaviour evaluates one run, summarises a history of three kinds of     *)
(* runs, or renders one on six targets.                                      *)
EXTENDS Summaries, Translation

TwoBands == {"low", "high"}
Even == [loudness |-> 1, dynamics |-> 1, spectral |-> 1, stereo |-> 1]
TopHeavy == [Even EXCEPT !.spectral = 3]

NoCorridors == [t \in Targets |-> Unset]
Contracts ==
    [rates : {{}, {1}}, depths : {{}, {16}}, ceiling : {Unset, 0},
     clipping : {Unset, FALSE}, corridor : {NoCorridors}, weight : {Even}]

\* Unordered ends, a corridor without width, and one that another contains.
Corridors ==
    [loudness : {<<2, 2>>, <<3, 1>>}, dynamics : {Unset},
     correlation : {Unset, <<1, 2>>}, balance : {<<0, 1>>},
     low : {Unset, <<2, 3>>, <<1, 3>>}, high : {<<2, 4>>, <<0, 4>>}]
TargetSets ==
    [rates : {{}}, depths : {{}}, ceiling : {Unset}, clipping : {Unset},
     corridor : Corridors, weight : {Even, TopHeavy}]

\* A contract with corridors, and one that tolerates more.
Strict ==
    [rates |-> {1}, depths |-> {}, ceiling |-> 0, clipping |-> Unset,
     corridor |-> [NoCorridors EXCEPT !["low"] = <<1, 2>>, !["loudness"] = <<1, 2>>],
     weight |-> Even]
Tolerant == [Strict EXCEPT !.ceiling = 1, !.corridor["low"] = <<0, 4>>]
Weightless == [Strict EXCEPT !.weight["spectral"] = 0]
ContractsAndTargets == Contracts \union TargetSets \union {Strict, Tolerant, Weightless}

\* Good and bad for a contract; inside and outside of corridors, stereo or mono.
Signals ==
    [rate : {1, 2}, peak : {0, 1}, clipped : {0, 1},
     value : {[t \in Targets |-> IF t = "high" THEN 2 ELSE 1]}]
Sounds ==
    [rate : {1}, peak : {0}, clipped : {0},
     value : [loudness : {0, 2}, dynamics : {0}, correlation : {0}, balance : {2},
              low : {0, 1, 2}, high : {1, 5}]
             \union [loudness : {3}, dynamics : {0}, correlation : {Unset}, balance : {Unset},
                     low : {1}, high : {5}]]

Sound(peak, low) ==
    [rate |-> 1, peak |-> peak, clipped |-> 0,
     value |-> [t \in Targets |-> IF t = "low" THEN low ELSE 1]]
Mono(m) == [m EXCEPT !.value["correlation"] = Unset, !.value["balance"] = Unset]
SignalsAndSounds ==
    Signals \union Sounds \union {Sound(p, l) : p \in {0, 1}, l \in {0, 1, 3}}
        \union {Mono(Sound(0, 1))}

\* Strict warns of Sound(0, 3) and fails Sound(1, 0), Tolerant passes both.
ThreeKinds ==
    {<<Strict, Sound(0, 3)>>, <<Strict, Sound(1, 0)>>,
     <<Tolerant, Sound(1, 0)>>}

\* Passing, warning, failing, and both.
SixRenderings ==
    [1..6 -> {Mono(Sound(0, 1)), Sound(0, 3), Sound(1, 1), Sound(1, 3)}]

VARIABLE scene

EvaluationInit ==
    /\ HistoryInit /\ TranslationInit
    /\ \/ /\ scene = "run"
          /\ Init
          /\ {pinned, candidate} \subseteq Contracts \/ {pinned, candidate} \subseteq TargetSets
          /\ measured \in Signals \union Sounds
       \/ /\ scene \in {"history", "matrix"}
          /\ pinned \in IF scene = "history" THEN {Strict} ELSE {Strict, Weightless}
          /\ candidate \in IF scene = "history" THEN {Strict, Tolerant} ELSE {Strict}
          /\ measured = Sound(0, 3)
          /\ report = None /\ forecast = None /\ rerun = None

EvaluationNext ==
    \/ scene = "run" /\ Next /\ UNCHANGED <<history, rendered, scene>>
    \/ scene = "history" /\ HistoryNext /\ UNCHANGED <<vars, rendered, scene>>
    \/ scene = "matrix" /\ SimulateTargets /\ UNCHANGED <<vars, history, scene>>

EvaluationSpec == EvaluationInit /\ [][EvaluationNext]_<<vars, history, rendered, scene>>
=============================================================================
