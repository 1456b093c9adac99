SPECIFICATION EvaluationSpec
CHECK_DEADLOCK FALSE
CONSTANTS
    NoDepth = NoDepth
    Unset = Unset
    None = None
    Scale = 8
    LastN = 5
    MaxRuns = 6
    Bands <- TwoBands
    Constitutions <- ContractsAndTargets
    Measurements <- SignalsAndSounds
    Reported <- ThreeKinds
    Renderings <- SixRenderings
INVARIANTS
    RegressionsAreCounted
    SummariesAgree
    HighRiskIsRegression
    RelaxingIsHarmless
    RiskMatchesGates
    SummaryHidesNoFailure
