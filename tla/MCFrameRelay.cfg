CONSTANTS
    Lines <- MCLines
    Built <- MCBuilt
    MaxHops = 3
    MaxCuts = 2
    KvLen = 3
    DescLen = 3
SPECIFICATION RSpec
CHECK_DEADLOCK FALSE
INVARIANTS
    StableAfterFirstHop
    CutConfined
    TtlSafe
