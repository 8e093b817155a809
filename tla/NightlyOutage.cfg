CONSTANTS
    TicksPerDay = 1
    DaysPerMonth = 4
    FreezesPerMonth = 2
    ActivityTypes = {"verses"}
    Putters = {}
    Zones <- UTCOnly
    GoalChoices <- NoChoices
    LastTick = 9
    MaxQuantity = 1
    OccurredAtMaxFuture = 0
    OccurredAtMaxAgeDays = 0
    LocalDaySlackDays = 0
    Readers = {}
    Reads = {"today"}
    AskedDays = {0}
    Acts <- PromptActs
    InitialGoals <- OneVerseADay
    OverrideSlackDays = 0
    HistoryMaxDays = 1
    WriteConcurrency = 1
    MaxFailures = 0
    Passes = {j1}
    LookbackDays = 7
    MaxMissedNights = 7
SPECIFICATION NightlySpec
PROPERTIES
    DormantStreakCurrent
CHECK_DEADLOCK FALSE
