CONSTANTS
    TicksPerDay = 2
    DaysPerMonth = 30
    FreezesPerMonth = 2
    ActivityTypes = {"verses"}
    Putters = {}
    Zones <- ThreeZones
    GoalChoices <- NoChoices
    LastTick = 13
    MaxQuantity = 1
    OccurredAtMaxFuture = 0
    OccurredAtMaxAgeDays = 0
    LocalDaySlackDays = 1
    Readers = {}
    Reads = {"today"}
    AskedDays = {0}
    Acts <- Flights
    InitialGoals <- OneVerseADay
    OverrideSlackDays = 0
    HistoryMaxDays = 1
    WriteConcurrency = 1
    MaxFailures = 0
    Passes = {j1}
    LookbackDays = 4
    MaxMissedNights = 1
SPECIFICATION NightlySpec
INVARIANTS
    ClosureMatchesContract
PROPERTIES
    ClosedDaysPersisted
CHECK_DEADLOCK FALSE
