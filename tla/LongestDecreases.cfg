CONSTANTS
    TicksPerDay = 1
    DaysPerMonth = 30
    FreezesPerMonth = 2
    ActivityTypes = {"verses"}
    Putters = {}
    Zones <- UTCOnly
    GoalChoices <- NoChoices
    LastTick = 1
    MaxQuantity = 1
    OccurredAtMaxFuture = 1
    OccurredAtMaxAgeDays = 1
    LocalDaySlackDays = 1
    Readers = {r1, r2}
    Reads = {"today"}
    AskedDays = {0}
    Acts <- TwoActs
    InitialGoals <- OneVerseADay
    OverrideSlackDays = 0
    HistoryMaxDays = 1
    WriteConcurrency = 1
    MaxFailures = 0
SPECIFICATION EngineSpec
PROPERTIES
    LongestNeverDecreases
CHECK_DEADLOCK FALSE
