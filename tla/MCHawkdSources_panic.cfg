SPECIFICATION SSpec
CONSTANTS
    Stdin = {stdin}
    Ingest = {g1}
    Inputs <- AllInputs
    MaxRead = 2
PROPERTIES
    BadLineEndsNoSource
CHECK_DEADLOCK FALSE
