CONSTANTS
    Disks <- MCDisks
    Commands <- MCCommands
    PipeCap = 2
    MaxRemovals = 1
SPECIFICATION DFairSpec
CHECK_DEADLOCK FALSE
INVARIANTS
    DoctorVerdict
    DoctorOkLoads
    VanishedReported
    LoadedThreadStarts
PROPERTIES
    CommandEnds
