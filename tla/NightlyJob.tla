----------------------------- MODULE NightlyJob -----------------------------
(***************************************************************************)
(* The nightly rollup of rollup-cron.service.ts on one (user, faith) pair, *)
(* next to the uploads and the reads of RetentionEngine: which days of the *)
(* trailing window have closed in the zone of their own events, their      *)
(* rollups, the future rows it drops, the streak.                          *)
(*                                                                         *)
(* pass[j] is one rollUpPair: `at' the instant its invocation began,       *)
(* `toClose' the closed days it has not persisted yet, `day' the one under *)
(* way.  A night may be missed, a pass may be retried while the first is   *)
(* still running, and a pass may die between any two of its queries.       *)
(***************************************************************************)
EXTENDS RetentionEngine

CONSTANTS
    Passes,             \* concurrent passes over the pair
    LookbackDays,       \* ROLLUP_LOOKBACK_DAYS
    MaxMissedNights     \* bound: nights in a row the schedule may miss

ASSUME NightlyAssumption ==
    /\ LookbackDays \in Nat \ {0}
    /\ MaxMissedNights \in Nat

VARIABLES
    pass,
    lastNight           \* the UTC date of the latest night that ran to its end

nightlyVars == <<engineVars, pass, lastNight>>

NoPass == [phase |-> "idle", at |-> 0, stored |-> {}, userToday |-> NoDay, window |-> {},
           closed |-> {}, toClose |-> {}, day |-> NoDay, events |-> {}, goal |-> NoGoal,
           rows |-> <<>>, longest |-> 0, pending |-> {}]

\* Faulty variant: a window of LookbackDays days, today included.
WindowFrom_Inclusive(j) == pass[j].userToday - (LookbackDays - 1)

WindowFrom(j) == pass[j].userToday - LookbackDays

NightlyInit ==
    /\ EngineInit
    /\ pass = [j \in Passes |-> NoPass]
    /\ lastNight = StartOfUtcDay(now)

-----------------------------------------------------------------------------
\* Some event is recent enough for the pair to be on the job's list.
Active == \E e \in events : e.localDay >= StartOfUtcDay(now) - (LookbackDays + 1)

\* A night on which the pair is not on the list ends without a pass.
InactiveNight ==
    /\ ~ Active
    /\ lastNight' = StartOfUtcDay(now)
    /\ UNCHANGED <<engineVars, pass>>

\* userToday: the calendar day where the user last was.  `stored' remembers
\* the events there were, for the properties.
StartPass(j) ==
    /\ pass[j].phase = "idle" /\ Active
    /\ \E zone \in LatestZones(events) :
        pass' = [pass EXCEPT ![j] =
            [NoPass EXCEPT !.phase = "window", !.at = now, !.stored = events,
                           !.userToday = LocalDayIn(zone, now)]]
    /\ UNCHANGED <<engineVars, lastNight>>

PassReadWindow(j) ==
    /\ pass[j].phase = "window"
    /\ pass' = [pass EXCEPT
        ![j].window = {e \in events : e.localDay >= WindowFrom(j)}, ![j].phase = "prior"]
    /\ UNCHANGED <<engineVars, lastNight>>

\* resolveDayZone: of the latest event on the day, else of the latest before
\* it within the window, else the zone carried into the window.  Of two events
\* of one instant either may come back as the latest.
ResolvedZones(day, window, priorZone) ==
    LET onDay  == EventsOn(window, day)
        before == {e \in window : e.localDay < day}
    IN  IF onDay # {} THEN LatestZones(onDay)
        ELSE IF before # {} THEN LatestZones(before) ELSE {priorZone}

\* The zone of the user's latest event before the window.
PriorZones(j) == LatestZones({e \in events : e.localDay < WindowFrom(j)})

\* The days of the window that have ended in the zone resolved for them.
Closures(j, priorZone) ==
    LET days == WindowFrom(j) .. pass[j].userToday
    IN  {closed \in SUBSET days :
            \A d \in days : \E zone \in ResolvedZones(d, pass[j].window, priorZone) :
                d \in closed <=> LocalDayIn(zone, pass[j].at) > d}

\* Faulty variant: one zone, the user's present one, closes every day.
PassReadPrior_PresentZone(j) ==
    /\ pass[j].phase = "prior"
    /\ LET closed == WindowFrom(j) .. (pass[j].userToday - 1)
       IN  pass' = [pass EXCEPT ![j].closed = closed, ![j].toClose = closed, ![j].phase = "days"]
    /\ UNCHANGED <<engineVars, lastNight>>

\* Faulty variant: a day that has a row already is not computed again.
PassReadPrior_SkipsPersisted(j) ==
    /\ pass[j].phase = "prior"
    /\ \E priorZone \in PriorZones(j) : \E closed \in Closures(j, priorZone) :
        pass' = [pass EXCEPT ![j].closed = closed, ![j].toClose = closed \ DOMAIN rollups,
                             ![j].phase = "days"]
    /\ UNCHANGED <<engineVars, lastNight>>

\* The last query before the loop; with it the days of the window that have
\* closed are determined.
PassReadPrior(j) ==
    /\ pass[j].phase = "prior"
    /\ \E priorZone \in PriorZones(j) : \E closed \in Closures(j, priorZone) :
        pass' = [pass EXCEPT ![j].closed = closed, ![j].toClose = closed, ![j].phase = "days"]
    /\ UNCHANGED <<engineVars, lastNight>>

\* persistDailyRollup of the earliest closed day left: its events, the goal in
\* force on it, the upsert.
PassEvents(j) ==
    /\ pass[j].phase = "days"
    /\ \E day \in pass[j].toClose :
        /\ \A d \in pass[j].toClose : day <= d
        /\ pass' = [pass EXCEPT ![j].day = day, ![j].events = EventsOn(events, day),
                                ![j].toClose = @ \ {day}, ![j].phase = "goal"]
    /\ UNCHANGED <<engineVars, lastNight>>

PassGoal(j) ==
    /\ pass[j].phase = "goal"
    /\ pass' = [pass EXCEPT ![j].goal = GoalInForce(goals, pass[j].day), ![j].phase = "write"]
    /\ UNCHANGED <<engineVars, lastNight>>

PassWrite(j) ==
    /\ pass[j].phase = "write"
    /\ rollups' = Upsert(rollups, pass[j].day, RollupFrom(pass[j].events, pass[j].goal))
    /\ pass' = [pass EXCEPT ![j].phase = "days"]
    /\ UNCHANGED <<now, goals, put, events, streakState, req, persist, failures, lastNight>>

\* Rows of days after the user's today, left by a /history, are deleted.
PassDropFuture(j) ==
    /\ pass[j].phase = "days" /\ pass[j].toClose = {}
    /\ rollups' = [d \in {d \in DOMAIN rollups : d <= pass[j].userToday} |-> rollups[d]]
    /\ pass' = [pass EXCEPT ![j].phase = "project",
                              ![j].pending = {"rows", "longest"}]
    /\ UNCHANGED <<now, goals, put, events, streakState, req, persist, failures, lastNight>>

\* projectStreak: two queries in any order, then the upsert.
PassReadRows(j) ==
    /\ "rows" \in pass[j].pending
    /\ pass' = [pass EXCEPT ![j].rows = rollups, ![j].pending = @ \ {"rows"}]
    /\ UNCHANGED <<engineVars, lastNight>>

PassReadLongest(j) ==
    /\ "longest" \in pass[j].pending
    /\ pass' = [pass EXCEPT ![j].longest = streakState.longest, ![j].pending = @ \ {"longest"}]
    /\ UNCHANGED <<engineVars, lastNight>>

PassFinish(j) ==
    /\ pass[j].phase = "project" /\ pass[j].pending = {}
    /\ streakState' = StreakFrom(pass[j].userToday, pass[j].rows, <<>>, pass[j].longest)
    /\ pass' = [pass EXCEPT ![j] = NoPass]
    /\ lastNight' = Larger(lastNight, StartOfUtcDay(pass[j].at))
    /\ UNCHANGED <<now, goals, put, events, rollups, req, persist, failures>>

\* A query fails, or the function is killed at its time limit.
PassFail(j) ==
    /\ pass[j].phase # "idle"
    /\ failures < MaxFailures
    /\ failures' = failures + 1
    /\ pass' = [pass EXCEPT ![j] = NoPass]
    /\ UNCHANGED <<now, goals, put, tables, req, persist, lastNight>>

PassStep(j) ==
    \/ PassReadWindow(j) \/ PassReadPrior(j) \/ PassEvents(j) \/ PassGoal(j) \/ PassWrite(j)
    \/ PassDropFuture(j) \/ PassReadRows(j) \/ PassReadLongest(j)
    \/ PassFinish(j)

\* The schedule misses no more nights in a row than the bound.
NightsTick ==
    /\ StartOfUtcDay(now + 1) - lastNight <= MaxMissedNights + 1
    /\ EngineTick
    /\ UNCHANGED <<pass, lastNight>>

NightlyNext ==
    \/ NightsTick
    \/ InactiveNight
    \/ \E j \in Passes : StartPass(j) \/ PassStep(j) \/ PassFail(j)
    \/ /\ \/ \E e \in Acts : Ingest(e)
          \/ \E r \in Readers : ReaderStarts(r) \/ RequestStep(r)
       /\ UNCHANGED <<pass, lastNight>>

NightlySpec == NightlyInit /\ [][NightlyNext]_nightlyVars
-----------------------------------------------------------------------------
\* The zone that governs a day: of its own latest event, of the latest before
\* it, or UTC.
GoverningZones(day) ==
    IF EventsOn(events, day) # {} THEN LatestZones(EventsOn(events, day))
    ELSE LatestZones({e \in events : e.localDay < day})

\* A day is closed once it has ended in the zone that governs it: in every one
\* of them, where events of one instant tie.
ClosedAt(day, instant) ==
    \A zone \in GoverningZones(day) : LocalDayIn(zone, instant) > day

MayCloseAt(day, instant) ==
    \E zone \in GoverningZones(day) : LocalDayIn(zone, instant) > day

\* The user's days went by in the order of the instants, no flight east to west
\* having set them back a date.
DaysInOrder == \A e, f \in events : e.occurredAt < f.occurredAt => e.localDay <= f.localDay

\* The days a pass finalises are the closed days of its window, by the rule of
\* the contract over everything the user ever logged, though the pass reads
\* the window and a single event before it.  (A day without events may be
\* governed by an event outside the window that is later than those in it, on
\* an earlier date; the code then asks another event.)
ClosureMatchesContract ==
    \A j \in Passes :
        pass[j].phase = "days" /\ pass[j].stored = events =>
            \A d \in WindowFrom(j) .. pass[j].userToday :
                EventsOn(events, d) # {} \/ DaysInOrder =>
                    /\ ClosedAt(d, pass[j].at) => d \in pass[j].closed
                    /\ d \in pass[j].closed => MayCloseAt(d, pass[j].at)

\* After a pass every day up to the user's today that has closed and has events, in
\* whatever zones the user logged them, has its row, with all of its events in it.
\* (Where the day has closed that is tomorrow where the user has flown, from UTC+14
\* to UTC-11, its row is dropped as one of the future until they catch up with it.)
ClosedDaysPersisted ==
    [][\A j \in Passes : PassFinish(j) /\ pass[j].stored = events =>
            \A d \in {e.localDay : e \in events} : d <= pass[j].userToday /\ ClosedAt(d, pass[j].at) =>
                d \in DOMAIN rollups /\ rollups[d] = ExactRow(d)]_nightlyVars

\* The streak of the days that have closed, each with what its events give.
ClosedStreak(today, instant) ==
    LET days == {d \in {e.localDay : e \in events} : ClosedAt(d, instant)}
    IN  StreakFrom(today, <<>>, ComputeRange(events, goals, days), 0)

\* For a user who logs but never opens the app, a pass leaves in streak_states
\* the streak of all the days that have closed, those of the nights the
\* schedule missed included.
DormantStreakCurrent ==
    [][\A j \in Passes : PassFinish(j) /\ pass[j].stored = events =>
            streakState'.current = ClosedStreak(pass[j].userToday, pass[j].at).current]_nightlyVars
-----------------------------------------------------------------------------
\* Passes and requests under way take their next step, and the schedule keeps
\* firing; nobody has to open the app.
NightlyFairness ==
    /\ \A j \in Passes : WF_nightlyVars(StartPass(j)) /\ WF_nightlyVars(PassStep(j))
    /\ \A r \in Readers : WF_nightlyVars(RequestStep(r) /\ UNCHANGED <<pass, lastNight>>)

FairNightlySpec == NightlySpec /\ NightlyFairness

ClosedWindowExact ==
    \A e \in events :
        /\ e.localDay >= StartOfUtcDay(now) - LookbackDays
        /\ ClosedAt(e.localDay, now)
        => e.localDay \in DOMAIN rollups /\ rollups[e.localDay] = ExactRow(e.localDay)

\* Once the uploads end, the job alone brings every closed day of its window to
\* the value its events give it, and no request that computed from older reads
\* undoes that for good.
NightlyHeals == <>[]ClosedWindowExact
=============================================================================
