CONSTANTS
    TicksPerDay = 1
    DaysPerMonth = 10
    FreezesPerMonth = 2
    LastDay = 9
SPECIFICATION Spec
INVARIANTS
    CurrentIsBackwardWalk
CHECK_DEADLOCK FALSE
