SPECIFICATION Spec
CHECK_DEADLOCK FALSE
CONSTANTS
    Subs = {s1, s2}
    Clients = {c1}
    Hooks = {h1}
    Kinds = {"cancel", "renewals"}
    MaxMishaps = 1
    Listed = {"subscriptions", "user_roles", "user_profiles"}
    Unlisted = {"activity_events"}
    fk <- MCForeignKeys
    MaxWrites = 2
    MaxFailures = 2
    TicksPerDay = 1
    DaysPerMonth = 30
    MaxQuantity = 1
    OccurredAtMaxFuture = 1
    OccurredAtMaxAgeDays = 1
    LocalDaySlackDays = 1
    Devices = {d1, d2}
    Calls = {c1, c2}
    Acts <- MCActs
    MaxBatch = 2
    LastTick = 2
    MaxFaults = 2
INVARIANTS
    PaidHasRow
    OneChargeIfCareful
    GoneLeavesNothing
    NothingLost
    CountsAddUp
PROPERTIES
    PaymentBringsRole
    EndTakesRole
    DeletionSucceeds
    KeepsPromise
    QueuesDrain
