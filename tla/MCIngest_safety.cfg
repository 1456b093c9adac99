SPECIFICATION SceneSpec
CONSTANTS
    v1 = v1
    v2 = v2
    c1 = c1
    o1 = o1
    g1 = g1
    q1 = q1
    q2 = q2
    q3 = q3
    NoContent = NoContent
    NoPointer = NoPointer
    NoVersion = NoVersion
    NoRequest = NoRequest
    NoRow = NoRow
    NoFile = NoFile
    Torn = Torn
    Versions <- TwoVersions
    Contents <- OneContent
    Operators <- OneOperator
    Granters <- OneGranter
    Requests <- ThreeRequests
    Clients <- AllClients
    Commands = {"init", "activate"}
    Audio = {"mix"}
    Budgets = {1, 2, 3}
    MaxGrants = 2
    MaxFaults = 1
    Scenes = {"renewals", "trio"}
SYMMETRY IngestSymmetry
INVARIANTS
    CanaryExact
    PinsAreGood
    ProjectionIsSound
PROPERTIES
    PinIsCurrent
    ProjectionKeepsUp
