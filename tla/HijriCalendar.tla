------------------------------ MODULE HijriCalendar ------------------------------
(***************************************************************************)
(* islam/calendar/services/calendar.service.ts: dates of either calendar in  *)
(* the other, grids of a month, and the feasts to come, from a library's     *)
(* tables, with answers cached for an hour, a day or a week.                 *)
(*                                                                           *)
(* A civil day is a number.  A zone is what it does to an instant: it is     *)
(* some ticks ahead of UTC, where the server runs.                           *)
(***************************************************************************)
EXTENDS Integers, Sequences, FiniteSets

CONSTANTS
    HijriStart,     \* the library: the first day of each Hijri month, and the last's end
    LongMonth,      \* 30 in the calendar; other months are a day shorter
    CivilMonth,     \* the days of the Gregorian month that is asked for
    Feast,          \* the Hijri date of the one event: <<month, day>>
    Ahead,          \* how far to look for feasts, 90 days in the code
    DayTicks,       \* ticks of the clock in a day
    HourTtl, DayTtl, WeekTtl,
    Zones,          \* ticks ahead of UTC
    MaxRequests, LastTick,
    FirstCivil, LastCivilYear   \* where the arithmetic conversion is walked

ASSUME HijriAssumption ==
    /\ HijriStart \in Seq(Int) /\ LongMonth \in Nat \ {0, 1}
    /\ \A m \in 1 .. Len(HijriStart) - 1 : HijriStart[m + 1] - HijriStart[m] \in {LongMonth - 1, LongMonth}
    /\ CivilMonth \subseteq Int /\ \E d \in CivilMonth : \A e \in CivilMonth : d <= e
    /\ Feast \in (1 .. Len(HijriStart) - 1) \X (1 .. LongMonth)
    /\ {Ahead, HourTtl, DayTtl, WeekTtl} \subseteq Nat /\ DayTicks \in Nat \ {0}
    /\ \A zone \in Zones : zone \in Int /\ -DayTicks < zone /\ zone < DayTicks

VARIABLES
    hijriClock,     \* ticks
    hijriCache,     \* key -> [value, read, expires]
    hijriAnswer,    \* the last answer: [request, value, read]
    requests,       \* how many there were
    civil           \* the day whose conversion has no table

hijriVars == <<hijriClock, hijriCache, hijriAnswer, requests, civil>>

-----------------------------------------------------------------------------
(* Dates.                                                                  *)

HijriMonths == 1 .. Len(HijriStart) - 1
HijriMonthDays(m) == HijriStart[m] .. HijriStart[m + 1] - 1
MonthOfDay(d) == CHOOSE m \in HijriMonths : d \in HijriMonthDays(m)

\* The library, in both directions.
LibraryToHijri(d) == <<MonthOfDay(d), d - HijriStart[MonthOfDay(d)] + 1>>
LibraryToCivil(m, day) == HijriStart[m] + day - 1

\* extractDateInTimezone: the civil day of an instant in a zone.
DayIn(zone, tick) == (tick + zone) \div DayTicks
MidnightOf(d) == d * DayTicks

\* localGregorianToHijriNumbers.
ToHijriNumbers(d, adjust) == LibraryToHijri(d - adjust)

\* buildHijriInfo.
HijriInfo(hijri, d) == [hijri |-> hijri, date |-> d, feast |-> hijri = Feast]

\* Faulty variant: the adjustment is taken off in both directions.
FromHijri_SameSign(m, day, zone, adjust) ==
    HijriInfo(<<m, day>>, DayIn(zone, MidnightOf(LibraryToCivil(m, day) - adjust)))

FromHijri(m, day, zone, adjust) ==
    HijriInfo(<<m, day>>, DayIn(zone, MidnightOf(LibraryToCivil(m, day) + adjust)))

\* getHijriMonthLength: the library refuses a day that the month has not.
GetHijriMonthLength(m) ==
    IF LibraryToCivil(m, LongMonth) \in HijriMonthDays(m) THEN LongMonth ELSE LongMonth - 1

\* The civil day of an instant, and its Hijri date.
ConvertInstant(tick, zone, adjust) ==
    LET d == DayIn(zone, tick) IN HijriInfo(ToHijriNumbers(d, adjust), d)

\* getDateInTimezone: the wall clock of the zone, read as the server's own.
WallClock(zone) == hijriClock + zone

-----------------------------------------------------------------------------
(* Requests.                                                               *)

Request(kind, zone, adjust) == [kind |-> kind, zone |-> zone, adjust |-> adjust]
Kinds == {"today", "month", "hijri month", "upcoming"}

\* Faulty variant: a key that forgets which convention was asked for.
CacheKey_NoAdjust(request) ==
    <<request.kind, IF request.kind = "today" THEN DayIn(request.zone, WallClock(request.zone)) ELSE 0,
      request.zone>>

\* "hijri:<date>:<zone>:<adjust>"; the feasts to come have no date in theirs.
CacheKey(request) ==
    <<request.kind, IF request.kind = "today" THEN DayIn(request.zone, WallClock(request.zone)) ELSE 0,
      request.zone, request.adjust>>

EventsKey == <<"events">>

Cached(key) == key \in DOMAIN hijriCache /\ hijriClock < hijriCache[key].expires

\* When the events that getAllEvents answers with were read from the table.
EventsRead == IF Cached(EventsKey) THEN hijriCache[EventsKey].read ELSE hijriClock

\* getUpcomingEvents, from today in the zone.
Upcoming(zone, adjust) ==
    LET today == DayIn(0, WallClock(zone))
    IN  {[date |-> today + i, until |-> i] :
            i \in {k \in 0 .. Ahead - 1 : ToHijriNumbers(today + k, adjust) = Feast}}

Compute(request) ==
    LET zone == request.zone  adjust == request.adjust
    IN  CASE request.kind = "today" -> {ConvertInstant(WallClock(zone), zone, adjust)}
          [] request.kind = "month" -> {ConvertInstant(MidnightOf(d), zone, adjust) : d \in CivilMonth}
          [] request.kind = "hijri month" ->
                {FromHijri(Feast[1], day, zone, adjust) : day \in 1 .. GetHijriMonthLength(Feast[1])}
          [] request.kind = "upcoming" -> Upcoming(zone, adjust)

\* Faulty variant: a month is kept as long as its events.
TtlOf_Week(kind) == CASE kind = "today" -> DayTtl [] kind = "upcoming" -> HourTtl [] OTHER -> WeekTtl

TtlOf(kind) == CASE kind = "today" -> DayTtl [] kind = "month" -> DayTtl [] kind = "upcoming" -> HourTtl
                 [] OTHER -> 0

\* A single date reads the table itself; the others go through getAllEvents.
ReadsTable(kind) == kind = "today"

Keep(key, value, read, ttl, cache) ==
    [k \in DOMAIN cache \union {key} |->
        IF k = key THEN [value |-> value, read |-> read, expires |-> hijriClock + ttl] ELSE cache[k]]

AskCalendar(request) ==
    LET key == CacheKey(request)
        read == IF ReadsTable(request.kind) THEN hijriClock ELSE EventsRead
        value == Compute(request)
        indexed == IF ReadsTable(request.kind) \/ Cached(EventsKey) THEN hijriCache
                   ELSE Keep(EventsKey, {}, hijriClock, WeekTtl, hijriCache)
    IN  /\ requests < MaxRequests /\ civil = FirstCivil
        /\ requests' = requests + 1
        /\ IF Cached(key)
           THEN /\ hijriAnswer' = [request |-> request, value |-> hijriCache[key].value,
                                   read |-> hijriCache[key].read, at |-> hijriClock]
                /\ UNCHANGED hijriCache
           ELSE /\ hijriAnswer' = [request |-> request, value |-> value, read |-> read, at |-> hijriClock]
                /\ hijriCache' = IF TtlOf(request.kind) = 0 THEN indexed
                                 ELSE Keep(key, value, read, TtlOf(request.kind), indexed)
        /\ UNCHANGED <<hijriClock, civil>>

\* Time passes, and what has expired is forgotten.
HijriTick ==
    LET alive == {key \in DOMAIN hijriCache : hijriClock + 1 < hijriCache[key].expires}
    IN  /\ hijriClock < LastTick /\ requests \in 1 .. MaxRequests - 1 /\ hijriClock' = hijriClock + 1
        /\ hijriCache' = [key \in alive |-> hijriCache[key]] /\ hijriAnswer' = <<>>
        /\ UNCHANGED <<requests, civil>>

-----------------------------------------------------------------------------
(* The arithmetic for a day that the library's tables do not have.          *)

Leap(y) == y % 4 = 0 /\ (y % 100 # 0 \/ y % 400 = 0)
DaysInMonth(y, m) ==
    CASE m = 2 -> IF Leap(y) THEN 29 ELSE 28 [] m \in {4, 6, 9, 11} -> 30 [] OTHER -> 31

Tomorrow(c) ==
    IF c.day < DaysInMonth(c.year, c.month) THEN [c EXCEPT !.day = @ + 1]
    ELSE IF c.month < 12 THEN [c EXCEPT !.day = 1, !.month = @ + 1]
    ELSE [year |-> c.year + 1, month |-> 1, day |-> 1]

IsDate(c) ==
    /\ c = [year |-> c.year, month |-> c.month, day |-> c.day]
    /\ c.year \in Int /\ c.month \in 1 .. 12 /\ c.day \in 1 .. DaysInMonth(c.year, c.month)

ASSUME CivilAssumption == IsDate(FirstCivil)

\* Faulty variant: every fourth year is a leap year.
ToJulianDay_Julian(c) ==
    LET a == (14 - c.month) \div 12
        y == c.year + 4800 - a
        m == c.month + 12 * a - 3
    IN  c.day + (153 * m + 2) \div 5 + 365 * y + y \div 4 - 32083

ToJulianDay(c) ==
    LET a == (14 - c.month) \div 12
        y == c.year + 4800 - a
        m == c.month + 12 * a - 3
    IN  c.day + (153 * m + 2) \div 5 + 365 * y + y \div 4 - y \div 100 + y \div 400 - 32045

\* In a cycle of thirty years, the year of a day, and the day's place in it.
YearOfCycle(w) ==
    ((10985 - w) \div 5316) * ((50 * w) \div 17719) + (w \div 5670) * ((43 * w) \div 15238)
PlaceInYear(w, j) ==
    w - ((30 - j) \div 15) * ((17719 * j) \div 50) - (j \div 16) * ((15238 * j) \div 43) + 29

JulianDayToHijri(jd) ==
    LET z == jd - 1948439 + 10632
        n == (z - 1) \div 10631
        z2 == z - 10631 * n + 354
        j == YearOfCycle(z2)
        z3 == PlaceInYear(z2, j)
        month == (24 * z3) \div 709
    IN  [year |-> 30 * n + j - 30, month |-> month, day |-> z3 - (709 * month) \div 24]

\* A civil day after another, as the walk takes them.
Turn ==
    /\ requests = 0 /\ civil.year < LastCivilYear /\ civil' = Tomorrow(civil)
    /\ UNCHANGED <<hijriClock, hijriCache, hijriAnswer, requests>>

HijriInit ==
    /\ hijriClock = MidnightOf(CHOOSE d \in CivilMonth : \A e \in CivilMonth : d <= e)
    /\ hijriCache = <<>> /\ hijriAnswer = <<>> /\ requests = 0 /\ civil = FirstCivil

HijriNext ==
    \/ \E kind \in Kinds, zone \in Zones, adjust \in {0, 1} : AskCalendar(Request(kind, zone, adjust))
    \/ HijriTick
    \/ Turn

-----------------------------------------------------------------------------
(* Properties.                                                             *)

\* The civil day and the Hijri date of an entry belong together.
Belong(entry, adjust) ==
    /\ entry.hijri = LibraryToHijri(entry.date - adjust)
    /\ entry.feast <=> entry.hijri = Feast

\* How old what an answer says of the events may be.
OldestEvents(kind) ==
    CASE kind = "today" -> DayTtl [] kind = "month" -> DayTtl + WeekTtl
      [] kind = "upcoming" -> HourTtl + WeekTtl [] OTHER -> WeekTtl

\* Whatever is cached under whichever key, an answer is for the convention that
\* was asked for: in either direction a civil day and its Hijri date belong
\* together (a Hijri month read from a zone behind UTC is a day off, and left
\* out), the feasts to come are those of the day that was today when they were
\* computed, at most an hour ago, and the events are as old as the two caches
\* allow, no older (calendar.service.ts:142-149, 163-165, 260-263).
HijriAgrees ==
    hijriAnswer # <<>> =>
        LET request == hijriAnswer.request
            started == {DayIn(0, tick + request.zone) : tick \in hijriAnswer.at - HourTtl .. hijriAnswer.at}
        IN  /\ hijriAnswer.at - hijriAnswer.read <= OldestEvents(request.kind)
            /\ request.kind \in {"today", "month"} =>
                    \A entry \in hijriAnswer.value : Belong(entry, request.adjust)
            /\ request.kind = "hijri month" /\ request.zone >= 0 =>
                    /\ \A entry \in hijriAnswer.value : Belong(entry, request.adjust)
                    /\ {entry.date - request.adjust : entry \in hijriAnswer.value} = HijriMonthDays(Feast[1])
            /\ request.kind = "upcoming" =>
                    \E today \in started :
                        hijriAnswer.value =
                            {[date |-> d, until |-> d - today] :
                                d \in {e \in today .. today + Ahead - 1 :
                                        LibraryToHijri(e - request.adjust) = Feast}}

\* Consecutive civil days have consecutive Julian days and consecutive Hijri
\* dates, over the ends of months, years and centuries (calendar.service.ts:470-475).
FallbackConsecutive ==
    LET next == Tomorrow(civil)
        h == JulianDayToHijri(ToJulianDay(civil))
        k == JulianDayToHijri(ToJulianDay(next))
    IN  /\ ToJulianDay(next) = ToJulianDay(civil) + 1
        /\ \/ k = [h EXCEPT !.day = @ + 1] /\ h.day < 30
           \/ k = [year |-> h.year, month |-> h.month + 1, day |-> 1] /\ h.day \in {29, 30} /\ h.month < 12
           \/ k = [year |-> h.year + 1, month |-> 1, day |-> 1] /\ h.day \in {29, 30} /\ h.month = 12
=============================================================================
