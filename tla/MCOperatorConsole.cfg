SPECIFICATION CFairSpec
CONSTANTS
    Targets = 2
    Every <- Intervals
    FlashFor = 1
    Limit = 2
    ProbeTime = 1
    Scenes <- FiveScenes
INVARIANTS
    CTypeOK
    GrowthIsReal
    TableHonest
    MessageSeen
    VerdictSound
PROPERTIES
    CrashOnlyByRemoval
    NotesOutliveStart
    OutputCatchesUp
CHECK_DEADLOCK FALSE
