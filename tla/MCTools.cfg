SPECIFICATION ToolsSpec
CHECK_DEADLOCK FALSE
CONSTANTS
    FullScale = 40
    StereoWindow = 2
    RmsWindow = 2
    RmsHop = 1
    ChunkFrames = 2
    Files <- SmallFiles
    Devices <- SomeDevices
    Recordings <- Sounds
    MaxPast = 6
    Cap = 3
    MinHistory = 2
    Missing = Missing
    NoSuggestion = NoSuggestion
    Unit = 2
    Fine = 20000
    FloorOf <- Floors
    Outs = {"constitution", "suggested"}
INVARIANTS
    NothingSkipped
    MeasuresAreSound
    TargetsKeepPeak
    FoldDownCommutes
    ShortHistoryAlarmsOnlyStill
    SuggestionIsSound
