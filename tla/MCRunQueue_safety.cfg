SPECIFICATION Spec
CONSTANTS
    d1 = d1
    d2 = d2
    NoRun = NoRun
    NoDaemon = NoDaemon
    Runs = {1, 2}
    Daemons <- TwoDaemons
    MaxClock = 1
    MaxCrashes = 1
    MaxDbErrors = 1
SYMMETRY DaemonSymmetry
INVARIANTS
    OneHolder
    TableTellsTruth
    NoOvertaking
    StrandedNeedsFault
PROPERTIES
    RowsStay
    ImplementsJobQueue
