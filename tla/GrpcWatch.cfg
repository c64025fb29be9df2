SPECIFICATION GFairSpec
CONSTANTS
    MaxServerChanges = 4
    MaxBreaks = 2
INVARIANTS
    StreamCurrent
    RetryDelay
PROPERTIES
    ServerMirrored
CHECK_DEADLOCK FALSE
