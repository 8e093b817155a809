SPECIFICATION PartSpec
CHECK_DEADLOCK FALSE
CONSTANTS
    TicksPerDay = 1
    DaysPerMonth = 4
    FreezesPerMonth = 2
    LastDay = 9
    ChunkDays = 3
    MaxChunks = 2
    YearDays = 7
    Calls = {c1, c2}
    MaxAttempts = 2
    RateLimit = 2
    RateWindow = 1
    MaxClock = 1
    Taps = {p1, p2}
    Steps = {1, 3}
    MaxTaps = 4
    Today = {1, 2}
    DailyPrayers = {"fajr"}
    LogDays = {1, 2, 3}
    LogToday = 2
    LogCalls = {c1, c2}
    MaxLogCalls = 3
    Items = {i1, i2}
    Runs = {r1, r2}
    Repeats = 1
    MaxFaults = 1
    MaxEdits = 1
    Pairs = {1, 2, 3}
    Limit = 2
    MaxPages = 2
    Retries = 1
    Jobs = {j1, j2}
    Switches = {k1, k2}
    MaxJobs = 3
    RoleIds = {o1, o2, o3}
    RoleNames = {"admin", "user", "other"}
    RightIds = {g1, g2, g3}
    RightNames = {"*", "read"}
    Assigners = {a1, a2}
    TokenLife = 1
    MaxRoleEdits = 2
    Owners = {u1, u2}
    Phones = {f1, f2}
    PhoneCalls = {c1, c2}
    MaxPhoneCalls = 4
    Surahs = {1, 2, 3}
    MaxVerses = 2
    Limits = {1, 2, 3}
    Content <- MCContent
    Refs <- MCRefs
    MaxItems = 2
    VerseCount = 2
    MaxDefects = 2
    MaxSeeded = 1
    VerseTexts <- MCVerseTexts
    HadithTexts <- MCHadithTexts
    CanonicalNumbers <- MCCanonical
    Remedies <- MCRemedies
    MaxRange = 2
    OrthographyMin = 2
    MaxArrived = 1
    Edition <- MCEdition
    Pins <- MCPins
    OverlapSection = "overlap"
    ChapterRuleMinRows = 3
    MaxBackfills = 1
    StoredAtFirst <- MCStoredAtFirst
    MaxBreaks = 1
    MaxReseeds = 1
    ChapterVerses <- MCChapterVerses
    LooseVerses <- MCLooseVerses
    Seedings = {r1, r2}
    MaxCopies = 2
    HijriStart <- MCHijriStart
    LongMonth = 3
    CivilMonth <- MCCivilMonth
    Feast <- MCFeast
    Ahead = 4
    DayTicks = 2
    HourTtl = 1
    DayTtl = 2
    WeekTtl = 4
    Zones <- MCZones
    MaxRequests = 3
    LastTick = 15
    FirstCivil <- MCFirstCivil
    LastCivilYear = 2101
    Half = 2
    Amavasya = 30
    AmantaMonths <- MCMonths
    HinduFestivals <- MCFestivals
    MaxIrregular = 2
    MaxDark = 1
    Quarters = 96
    Clocks <- MCClocks
    SunTimes <- MCSunTimes
    HeartTables <- MCTables
    Marked = {m1}
    Reborn = {m2}
    Notes = {n1, n2}
    Hearts = {h1, h2}
    MaxHearts = 4
    LastSurah = 3
    MostVerses = 3
    Scripts = {"simple", "uthmani", "indopak"}
    Volumes = {"v1", "v2"}
    Premium = {"v2"}
    LastNumber = 3
    PageLimits = {2}
    DayHours = 2
    LastHour = 4
INVARIANTS
    ScanMatchesBridges
    StreaksAgree
    CodesLimited
    PracticesAddUp
    SeedsWhole
    NightAccounted
    AccountHolds
    JuzWhole
    ItemsResolved
    GatesSound
    CalendarsAgree
    LibraryServes
PROPERTIES
    ShownMovesByRule
    ReviewKept
