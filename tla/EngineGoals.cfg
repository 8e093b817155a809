CONSTANTS
    TicksPerDay = 2
    DaysPerMonth = 30
    FreezesPerMonth = 2
    ActivityTypes = {"verses"}
    Putters = {p1, p2}
    Zones <- HomeAndAhead
    GoalChoices <- OneOrTwo
    LastTick = 5
    MaxQuantity = 1
    OccurredAtMaxFuture = 2
    OccurredAtMaxAgeDays = 0
    LocalDaySlackDays = 0
    Readers = {r1}
    Reads = {"today", "history", "rebuild"}
    AskedDays = {1}
    Acts <- Afternoon
    InitialGoals <- TwoVersesADay
    OverrideSlackDays = 0
    HistoryMaxDays = 1
    WriteConcurrency = 2
    MaxFailures = 1
SPECIFICATION EngineSpec
CONSTRAINT PutsApart
SYMMETRY MCPutters
INVARIANTS
    GoalReplyIsStored
    FloorBelowIngest
    OldRowsStillCount
CHECK_DEADLOCK FALSE
