SPECIFICATION SSpec
CONSTANTS
    Stdin = {stdin}
    Ingest = {g1}
    Inputs <- AllInputs
    MaxRead = 3
INVARIANTS
    ForwardsInOrder
    StrictStopsAtBadLine
CHECK_DEADLOCK FALSE
