SPECIFICATION FairSpec
CONSTANTS
    Clients = {c1, c2}
    Lines = {l1, l2}
    Banner = banner
    ClientBanner = TRUE
    SockCap = 1
    MaxLines = 3
    NoLine = noline
    NoClient = noclient
INVARIANTS
    NoneLeftBehind
    ReapedByNextLine
PROPERTIES
    OpenClientKept
    EveryClientServed
    ImplementsFanOut
CHECK_DEADLOCK FALSE
