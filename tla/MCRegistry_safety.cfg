SPECIFICATION SceneSpec
CONSTANTS
    v1 = v1
    v2 = v2
    c1 = c1
    c2 = c2
    o1 = o1
    o2 = o2
    t1 = t1
    t2 = t2
    NoContent = NoContent
    NoPointer = NoPointer
    NoVersion = NoVersion
    NoTake = NoTake
    LegacyPin = LegacyPin
    Versions <- TwoVersions
    Contents <- TwoContents
    Operators <- TwoOperators
    Clients <- TwoOperators
    Takes <- TwoTakes
    MaxSaves = 2
    Commands = {"add", "init", "activate", "status"}
    Scenes = {"operators", "run", "file"}
SYMMETRY RegistrySymmetry
CHECK_DEADLOCK FALSE
INVARIANTS
    ActiveIsRegistered
    StatusIsConsistent
    ResultsAreTraceable
PROPERTIES
    ImplementsVersionLog
    OnlyOldRunsAreLost
