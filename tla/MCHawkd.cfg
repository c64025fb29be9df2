SPECIFICATION HawkdFairSpec
CONSTANTS
    Clients = {c1}
    Lines <- Carried
    Banner = banner
    ClientBanner = FALSE
    SockCap = 1
    MaxLines = 4
    NoLine = noline
    NoClient = noclient
    Stdin = {stdin}
    Ingest = {g1}
    Inputs <- FrameOrBad
    MaxRead = 2
INVARIANTS
    SourceOrderAtClient
PROPERTIES
    ImplementsBroadcast
    LineReachesClient
CHECK_DEADLOCK FALSE
