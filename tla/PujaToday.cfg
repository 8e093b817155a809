SPECIFICATION Spec
CHECK_DEADLOCK FALSE
CONSTANTS
    TicksPerDay = 1
    DaysPerMonth = 4
    FreezesPerMonth = 2
    LastDay = 5
    ChunkDays = 3
    MaxChunks = 2
    YearDays = 4
INVARIANTS
    PujaAliveFromYesterday
