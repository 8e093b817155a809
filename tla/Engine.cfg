CONSTANTS
    TicksPerDay = 1
    DaysPerMonth = 30
    FreezesPerMonth = 2
    ActivityTypes = {"verses"}
    Putters = {p1}
    Zones <- UTCOnly
    GoalChoices <- Two
    LastTick = 2
    MaxQuantity = 1
    OccurredAtMaxFuture = 1
    OccurredAtMaxAgeDays = 2
    LocalDaySlackDays = 1
    Readers = {r1, r2}
    Reads = {"today", "rebuild"}
    AskedDays = {1}
    Acts <- TwoActs
    InitialGoals <- OneVerseADay
    OverrideSlackDays = 0
    HistoryMaxDays = 1
    WriteConcurrency = 1
    MaxFailures = 1
    App = r1
    Operator = r2
SPECIFICATION Spec
INVARIANTS
    NeverOvercounts
    MetIffCounted
PROPERTIES
    SelfHeals
CHECK_DEADLOCK FALSE
