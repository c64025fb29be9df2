SPECIFICATION AFairSpec
CONSTANTS
    Frames <- ThreeEntities
    TailSize = 2
    StaleS = 1
    DeadS = 2
    RowCap = 2
    MaxTime = 2
    MaxMsgs = 3
INVARIANTS
    MirrorsLastFrames
    BarBackedByTable
PROPERTIES
    OnlyFramesRevive
    ScreenCatchesUp
CHECK_DEADLOCK FALSE
