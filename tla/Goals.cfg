CONSTANTS
    TicksPerDay = 2
    DaysPerMonth = 30
    FreezesPerMonth = 2
    ActivityTypes = {"verses"}
    Putters = {p1, p2}
    Zones <- MCZones
    GoalChoices <- MCGoalChoices
    LastTick = 5
    TokenId = {t1, t2, t3}
    Requests = {q1, q2}
    Devices = {d1}
    Mixes <- MCMixes
    MaxPasswords = 2
    MaxDeaths = 1
SPECIFICATION OverlapSpec
SYMMETRY MCPutters
INVARIANTS
    OneHeirUnlessForked
    SessionsEndWhenTold
    SignedInHasRole
PROPERTIES
    NotRetroactive
    GoalNeverVanishes
CHECK_DEADLOCK FALSE
