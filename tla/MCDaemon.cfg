SPECIFICATION CastSpec
CHECK_DEADLOCK FALSE
CONSTANTS
    v1 = v1
    default = default
    edited = edited
    create1 = create1
    create2 = create2
    enqueue1 = enqueue1
    enqueue2 = enqueue2
    list1 = list1
    NoContent = NoContent
    NoPointer = NoPointer
    NoTemplate = NoTemplate
    Truncated = Truncated
    FirstVersion = v1
    DefaultContent = default
    Versions <- OneVersion
    Contents <- TwoContents
    Creates <- TwoCreates
    Enqueues <- TwoEnqueues
    Lists <- OneList
    Threads = 2
    Connections = 1
    MaxCommands = 1
    MaxCrashes = 1
INVARIANTS
    ProjectsAreUsable
PROPERTIES
    RequestsAnswered
    ShutdownDrains
