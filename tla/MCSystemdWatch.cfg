SPECIFICATION WFairSpec
CONSTANTS
    UnitStates <- FewStates
    MaxChanges = 3
    MaxFailures = 7
INVARIANTS
    AtRestCurrent
    OutageStands
    DelayByFailures
PROPERTIES
    MirroredUnlessMissed
CHECK_DEADLOCK FALSE
