SPECIFICATION PFairSpec
CONSTANTS
    Inputs = {"frame", "bad", "garbled"}
    Outputs = {"frame", "bad", "garbled", "none"}
    MaxRead = 4
    PipeCap = 1
    BufCap = 1
INVARIANTS
    ArrivesInOrder
PROPERTIES
    BridgeFailureShown
    WindsUp
CHECK_DEADLOCK FALSE
