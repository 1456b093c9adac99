SPECIFICATION SceneSpec
CONSTANTS
    d1 = d1
    d2 = d2
    x1 = x1
    x2 = x2
    NoRun = NoRun
    NoDaemon = NoDaemon
    NoFile = NoFile
    Torn = Torn
    NoWindow = NoWindow
    Runs = {1, 2, 3}
    Daemons <- TwoDaemons
    MaxClock = 1
    MaxCrashes = 0
    MaxDbErrors = 0
    Readers <- TwoReaders
    ReaderJobs = {"answer", "open"}
    Windows = {0, 1}
    Scenes = {"reading", "writing", "appending"}
SYMMETRY ReaderSymmetry
INVARIANTS
    ReadersAreRight
    WatchDiesOfCollision
PROPERTIES
    HistoryAppends
