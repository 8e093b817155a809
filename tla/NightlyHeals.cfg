CONSTANTS
    TicksPerDay = 1
    DaysPerMonth = 30
    FreezesPerMonth = 2
    ActivityTypes = {"verses"}
    Putters = {}
    Zones <- UTCOnly
    GoalChoices <- NoChoices
    LastTick = 2
    MaxQuantity = 1
    OccurredAtMaxFuture = 0
    OccurredAtMaxAgeDays = 0
    LocalDaySlackDays = 1
    Readers = {r1}
    Reads = {"history"}
    AskedDays = {0, 1, 2, 3}
    Acts <- OneAct
    InitialGoals <- OneVerseADay
    OverrideSlackDays = 0
    HistoryMaxDays = 1
    WriteConcurrency = 1
    MaxFailures = 1
    Passes = {j1}
    LookbackDays = 1
    MaxMissedNights = 1
SPECIFICATION FairNightlySpec
PROPERTIES
    NightlyHeals
CHECK_DEADLOCK FALSE
