CONSTANTS
    Disks <- UnstampedDisks
    Commands <- MCCommands
    PipeCap = 2
    MaxRemovals = 0
SPECIFICATION DSpec
CHECK_DEADLOCK FALSE
INVARIANTS
    ValidOutputPasses
