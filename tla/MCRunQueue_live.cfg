SPECIFICATION FairSpec
CONSTANTS
    d1 = d1
    d2 = d2
    NoRun = NoRun
    NoDaemon = NoDaemon
    Runs = {1}
    Daemons <- TwoDaemons
    MaxClock = 1
    MaxCrashes = 1
    MaxDbErrors = 1
PROPERTIES
    RunsAreServed
    ShutdownCompletes
