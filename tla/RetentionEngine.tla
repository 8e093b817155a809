-------------------------- MODULE RetentionEngine --------------------------
(***************************************************************************)
(* The read path of the retention engine on one (user, faith) pair: events *)
(* arrive, GET /today, GET /history and the operator's rebuild recompute   *)
(* daily_rollups and streak_states, PUT /goal re-evaluates its day, all at *)
(* once.  No request is a transaction (but for PUT's own): a request reads *)
(* its tables one query at a time in any order, computes from what it saw, *)
(* and writes the rows that differ from the rows it saw.                   *)
(*                                                                         *)
(* req[r] is a request of RollupService.  `kind' says which: "refresh"     *)
(* (today with a floor; rebuildAll with none), "range" (rebuildRange),     *)
(* "project" (projectStreak) or "rebuild" (the operator's rebuild of a     *)
(* range, which turns into a range and then into a project as of           *)
(* `userToday').  `pending' are the queries not yet answered, `seen' the   *)
(* answers, `written' the days it has upserted, `streakDue' whether it     *)
(* still has to upsert the streak.                                         *)
(* persist[p] is a persistDailyRollup of one day; `crossed', for the       *)
(* properties, tells that another PUT committed between p's own commit and *)
(* its reading of the goal.                                                *)
(***************************************************************************)
EXTENDS GoalSetting, IngestRules

CONSTANTS
    Readers,            \* concurrent requests that read and rebuild
    Reads,              \* what they ask for: "today", "history", "rebuild"
    AskedDays,          \* the days ranges are asked for from and to
    Acts,               \* the events devices may upload
    InitialGoals,       \* the goals set before the behaviour begins
    OverrideSlackDays,  \* LOCAL_DAY_OVERRIDE_SLACK_DAYS
    HistoryMaxDays,     \* HISTORY_MAX_DAYS
    WriteConcurrency,   \* WRITE_CONCURRENCY
    MaxFailures         \* bound: how many requests may die midway

ASSUME EngineAssumption ==
    /\ \A e \in Acts :
        e.occurredAt \in Int /\ e.localDay \in Nat /\ e.quantity \in Nat /\ e.zone \in ZoneOffsets
    /\ InitialGoals \subseteq GoalRow
    /\ \A a, b \in InitialGoals : a.effectiveFrom = b.effectiveFrom => a = b
    /\ AskedDays \subseteq Nat
    /\ OverrideSlackDays \in Nat
    /\ HistoryMaxDays \in Nat \ {0}
    /\ WriteConcurrency \in Nat \ {0}
    /\ MaxFailures \in Nat

VARIABLES events, rollups, streakState, req, persist, failures

tables == <<events, rollups, streakState>>
engineVars == <<now, goals, put, events, rollups, streakState, req, persist, failures>>

\* Faulty variant: the days a zone may be ahead of UTC are forgotten.
RebuildWindowDays_UtcOnly == OccurredAtMaxAgeDays + LocalDaySlackDays + OverrideSlackDays

\* TODAY_REBUILD_WINDOW_DAYS: the oldest occurredAt, the localDay slack, a
\* local day ahead of UTC, a client moving the anchor back.
RebuildWindowDays == OccurredAtMaxAgeDays + LocalDaySlackDays + 1 + OverrideSlackDays

NoFloor == NoDay

NoSight == [first |-> NoDay, events |-> {}, goals |-> {}, rollups |-> <<>>, longest |-> 0]

NoRequest == [kind |-> "idle", floor |-> NoFloor, to |-> NoDay, userToday |-> NoDay,
              pending |-> {}, seen |-> NoSight, written |-> {}, streakDue |-> FALSE]

NoPersist ==
    [phase |-> "idle", day |-> NoDay, events |-> {}, goal |-> NoGoal, crossed |-> FALSE]

ReadsOf(kind) ==
    IF kind = "refresh" THEN {"first", "events", "goals", "rollups", "streak"}
    ELSE IF kind = "range" THEN {"events", "goals", "rollups"}
    ELSE IF kind = "rebuild" THEN {"first"}
    ELSE {"rollups", "streak"}

Asked(kind, floor, to) ==
    [NoRequest EXCEPT !.kind = kind, !.floor = floor, !.to = to,
                      !.pending = ReadsOf(kind), !.streakDue = kind \in {"refresh", "project"}]

Upsert(table, day, row) == [d \in DOMAIN table \union {day} |-> IF d = day THEN row ELSE table[d]]

EngineInit ==
    /\ now = TicksPerDay
    /\ goals = InitialGoals
    /\ put = [p \in Putters |-> NoPut]
    /\ events = {}
    /\ rollups = <<>>
    /\ streakState = ComputeStreak({}, StartOfUtcDay(now))
    /\ req = [r \in Readers |-> NoRequest]
    /\ persist = [p \in Putters |-> NoPersist]
    /\ failures = 0

-----------------------------------------------------------------------------
(* Events                                                                   *)

\* ActivityService.ingest stores one accepted event; the first write of an id
\* wins and a second is a duplicate.  Ingest writes no rollup.
Ingest(e) ==
    /\ InTime(e, now)
    /\ \A stored \in events : stored.id # e.id
    /\ events' = events \union {e}
    /\ UNCHANGED <<now, goals, put, rollups, streakState, req, persist, failures>>

EngineTick ==
    /\ Tick
    /\ UNCHANGED <<events, rollups, streakState, req, persist, failures>>

-----------------------------------------------------------------------------
(* RollupService: refresh, rebuildRange, projectStreak                      *)

StartRequest(r, kind, floor, to) ==
    /\ req[r].kind = "idle"
    /\ req' = [req EXCEPT ![r] = Asked(kind, floor, to)]
    /\ UNCHANGED <<now, goals, put, events, rollups, streakState, persist, failures>>

\* GET /today: the day it is in the stated zone, or a day the client puts at
\* most OverrideSlackDays either side of it.
StartToday(r, zone, moved) ==
    LET day == LocalDayIn(zone, now) + moved
    IN  StartRequest(r, "refresh", day - RebuildWindowDays, day)

\* GET /history: any range of at most HistoryMaxDays, future days included.
StartHistory(r, from, to) ==
    /\ from <= to
    /\ to - from + 1 <= HistoryMaxDays
    /\ StartRequest(r, "range", from, to)

\* The zones the latest of some events may carry; UTC when there is none.  Two
\* events of one instant tie, and either may come back.
LatestZones(some) ==
    IF some = {} THEN {0}
    ELSE {e.zone : e \in {f \in some : \A g \in some : g.occurredAt <= f.occurredAt}}

\* The operator's rebuild takes the user's today from their latest event.
StartRebuildAll(r) ==
    \E zone \in LatestZones(events) :
        StartRequest(r, "refresh", NoFloor, LocalDayIn(zone, now))

\* runFullRebuild with a range: of the user's days up to their today.
StartRebuildRange(r, from, to) ==
    \E userToday \in {LocalDayIn(zone, now) : zone \in LatestZones(events)} :
        /\ from <= to
        /\ req[r].kind = "idle"
        /\ req' = [req EXCEPT ![r] =
            [Asked("rebuild", from, IF to < userToday THEN to ELSE userToday)
                EXCEPT !.userToday = userToday]]
        /\ UNCHANGED <<now, goals, put, events, rollups, streakState, persist, failures>>

Answer(r, query, seen) ==
    /\ query \in req[r].pending
    /\ req' = [req EXCEPT ![r].pending = @ \ {query}, ![r].seen = seen]
    /\ UNCHANGED <<now, goals, put, events, rollups, streakState, persist, failures>>

\* The day of the user's first event ever, whatever the floor.
ReadFirst(r) ==
    \E day \in {e.localDay : e \in events} \union {NoDay} :
        /\ IF events = {} THEN day = NoDay
           ELSE day # NoDay /\ \A e \in events : day <= e.localDay
        /\ Answer(r, "first", [req[r].seen EXCEPT !.first = day])

ReadEvents(r) ==
    Answer(r, "events", [req[r].seen EXCEPT !.events =
        {e \in events : req[r].floor <= e.localDay /\ e.localDay <= req[r].to}])

ReadGoals(r) ==
    Answer(r, "goals", [req[r].seen EXCEPT !.goals = Started(goals, req[r].to)])

\* A range reads the rows of its own days; the streak needs every row.
ReadRollups(r) ==
    LET days == IF req[r].kind = "range"
                THEN DOMAIN rollups \intersect (req[r].floor .. req[r].to)
                ELSE DOMAIN rollups
    IN  Answer(r, "rollups", [req[r].seen EXCEPT !.rollups = [d \in days |-> rollups[d]]])

ReadStreak(r) ==
    Answer(r, "streak", [req[r].seen EXCEPT !.longest = streakState.longest])

\* The range starts no earlier than the first event, and may be empty.
BeginRange(r) ==
    LET start == Larger(req[r].seen.first, req[r].floor)
    IN  /\ req[r].kind = "rebuild" /\ req[r].pending = {}
        /\ req' = [req EXCEPT ![r] =
            [(IF req[r].seen.first # NoDay /\ start <= req[r].to
              THEN Asked("range", start, req[r].to)
              ELSE Asked("project", NoFloor, req[r].userToday))
                EXCEPT !.userToday = req[r].userToday]]
        /\ UNCHANGED <<now, goals, put, events, rollups, streakState, persist, failures>>

\* The days a request computes: the range asked for, or from the first event
\* (never below the floor) through today.
DaysOfRequest(r) ==
    IF req[r].kind = "range" THEN req[r].floor .. req[r].to
    ELSE IF req[r].kind = "refresh" /\ req[r].seen.first # NoDay
         THEN Larger(req[r].seen.first, req[r].floor) .. req[r].to
         ELSE {}

Computed(r) == ComputeRange(req[r].seen.events, req[r].seen.goals, DaysOfRequest(r))

\* Faulty variant: a day that has no row yet gets none.
Changed_ExistingOnly(r) ==
    {d \in DaysOfRequest(r) \intersect DOMAIN req[r].seen.rollups :
        Computed(r)[d] # req[r].seen.rollups[d]}

\* Faulty variant: a goal that changed alone leaves the row as it is.
Changed_CountsOnly(r) ==
    {d \in DaysOfRequest(r) :
        \/ d \notin DOMAIN req[r].seen.rollups
        \/ Computed(r)[d].counts # req[r].seen.rollups[d].counts}

\* Only the days whose computed value differs from the row as it was read.
Changed(r) ==
    {d \in DaysOfRequest(r) :
        \/ d \notin DOMAIN req[r].seen.rollups
        \/ Computed(r)[d] # req[r].seen.rollups[d]}

Unwritten(r) == Changed(r) \ req[r].written

\* The changed days go out in chunks; a chunk waits for the one before it.
ChunkOf(r, day) == Cardinality({d \in Changed(r) : d < day}) \div WriteConcurrency

\* Faulty variant: the row adds to the row it replaces.
WriteRollup_Increments(r, day) ==
    /\ req[r].kind # "idle" /\ req[r].pending = {}
    /\ day \in Unwritten(r)
    /\ \A d \in Unwritten(r) : ChunkOf(r, d) >= ChunkOf(r, day)
    /\ rollups' = Upsert(rollups, day,
            IF day \in DOMAIN rollups
            THEN [Computed(r)[day] EXCEPT !.counts =
                    [a \in ActivityTypes |-> @[a] + rollups[day].counts[a]]]
            ELSE Computed(r)[day])
    /\ req' = [req EXCEPT ![r].written = @ \union {day}]
    /\ UNCHANGED <<now, goals, put, events, streakState, persist, failures>>

WriteRollup(r, day) ==
    /\ req[r].kind # "idle" /\ req[r].pending = {}
    /\ day \in Unwritten(r)
    /\ \A d \in Unwritten(r) : ChunkOf(r, d) >= ChunkOf(r, day)
    /\ rollups' = Upsert(rollups, day, Computed(r)[day])
    /\ req' = [req EXCEPT ![r].written = @ \union {day}]
    /\ UNCHANGED <<now, goals, put, events, streakState, persist, failures>>

\* Faulty variant: the streak is projected over the persisted rows alone.
StreakOf_WithoutOverlay(r) ==
    StreakFrom(req[r].to, req[r].seen.rollups, <<>>, req[r].seen.longest)

\* The streak a request reports and stores.
StreakOf(r) == StreakFrom(req[r].to, req[r].seen.rollups, Computed(r), req[r].seen.longest)

WriteStreak(r) ==
    /\ req[r].kind # "idle" /\ req[r].pending = {} /\ req[r].streakDue
    /\ streakState' = StreakOf(r)
    /\ req' = [req EXCEPT ![r].streakDue = FALSE]
    /\ UNCHANGED <<now, goals, put, events, rollups, persist, failures>>

Ready(r) ==
    /\ req[r].kind \notin {"idle", "rebuild"}
    /\ req[r].pending = {}
    /\ Unwritten(r) = {}
    /\ ~ req[r].streakDue

\* A rebuilt range is followed by the projection of the streak.
Respond(r) ==
    /\ Ready(r)
    /\ req' = [req EXCEPT ![r] =
        IF req[r].kind = "range" /\ req[r].userToday # NoDay
        THEN Asked("project", NoFloor, req[r].userToday) ELSE NoRequest]
    /\ UNCHANGED <<now, goals, put, events, rollups, streakState, persist, failures>>

\* A query fails or the function is killed: what was written stays written.
FailRequest(r) ==
    /\ req[r].kind # "idle"
    /\ failures < MaxFailures
    /\ failures' = failures + 1
    /\ req' = [req EXCEPT ![r] = NoRequest]
    /\ UNCHANGED <<now, goals, put, events, rollups, streakState, persist>>

RequestStep(r) ==
    \/ ReadFirst(r) \/ ReadEvents(r) \/ ReadGoals(r) \/ ReadRollups(r) \/ ReadStreak(r)
    \/ \E day \in DaysOfRequest(r) : WriteRollup(r, day)
    \/ BeginRange(r)
    \/ WriteStreak(r)
    \/ Respond(r)

-----------------------------------------------------------------------------
(* PUT /goal: the transaction of GoalSetting, then persistDailyRollup       *)

StartGoal(p, zone, goal) ==
    /\ persist[p].phase = "idle"
    /\ StartPut(p, zone, goal)
    /\ UNCHANGED <<events, rollups, streakState, req, persist, failures>>

Crosses(p, q) ==
    /\ q # p /\ put'[p].phase = "committed"
    /\ put[q].phase = "committed" /\ persist[q].phase \in {"idle", "goal"}

GoalTransaction(p) ==
    /\ ReadLatest(p) \/ UpdateInPlace(p) \/ CloseOpen(p) \/ Create(p)
    /\ persist' = [q \in Putters |-> [persist[q] EXCEPT !.crossed = @ \/ Crosses(p, q)]]
    /\ UNCHANGED <<events, rollups, streakState, req, failures>>

\* computeDailyRollup reads the day's events, then the goal in force.
PersistEvents(p) ==
    /\ put[p].phase = "committed" /\ persist[p].phase = "idle"
    /\ persist' = [persist EXCEPT ![p].phase = "goal", ![p].day = LocalDayOf(p),
                                  ![p].events = EventsOn(events, LocalDayOf(p))]
    /\ UNCHANGED <<now, goals, put, events, rollups, streakState, req, failures>>

PersistGoal(p) ==
    /\ persist[p].phase = "goal"
    /\ persist' = [persist EXCEPT ![p].phase = "write",
                                  ![p].goal = GoalInForce(goals, persist[p].day)]
    /\ UNCHANGED <<now, goals, put, events, rollups, streakState, req, failures>>

PersistedRow(p) == RollupFrom(persist[p].events, persist[p].goal)

PersistWrite(p) ==
    /\ persist[p].phase = "write"
    /\ rollups' = Upsert(rollups, persist[p].day, PersistedRow(p))
    /\ persist' = [persist EXCEPT ![p].phase = "reply"]
    /\ UNCHANGED <<now, goals, put, events, streakState, req, failures>>

\* What PUT /goal answers: progress and met against the goal it was sent.
GoalReplyMet(p) == Met(put[p].goal, CountsOf(persist[p].events))

ReplyGoal(p) ==
    /\ persist[p].phase = "reply"
    /\ FinishPut(p)
    /\ persist' = [persist EXCEPT ![p] = NoPersist]
    /\ UNCHANGED <<events, rollups, streakState, req, failures>>

FailGoal(p) ==
    /\ put[p].phase # "idle"
    /\ failures < MaxFailures
    /\ failures' = failures + 1
    /\ put' = [put EXCEPT ![p] = NoPut]
    /\ persist' = [persist EXCEPT ![p] = NoPersist]
    /\ UNCHANGED <<now, goals, events, rollups, streakState, req>>

GoalStep(p) ==
    \/ GoalTransaction(p) \/ PersistEvents(p) \/ PersistGoal(p) \/ PersistWrite(p) \/ ReplyGoal(p)

-----------------------------------------------------------------------------
ReaderStarts(r) ==
    \/ /\ "today" \in Reads
       /\ \E zone \in Zones, moved \in (-OverrideSlackDays) .. OverrideSlackDays :
            StartToday(r, zone, moved)
    \/ "history" \in Reads /\ \E from, to \in AskedDays : StartHistory(r, from, to)
    \/ /\ "rebuild" \in Reads
       /\ StartRebuildAll(r) \/ \E from, to \in AskedDays : StartRebuildRange(r, from, to)

EngineNext ==
    \/ EngineTick
    \/ \E e \in Acts : Ingest(e)
    \/ \E r \in Readers : ReaderStarts(r) \/ RequestStep(r) \/ FailRequest(r)
    \/ \E p \in Putters :
        \/ \E zone \in Zones, goal \in GoalChoices : StartGoal(p, zone, goal)
        \/ GoalStep(p)
        \/ FailGoal(p)

EngineSpec == EngineInit /\ [][EngineNext]_engineVars

-----------------------------------------------------------------------------
Row == [counts : [ActivityTypes -> Nat], goalMet : BOOLEAN]

StreakRow == [current : Nat, longest : Nat, lastGoalMetDay : Int,
              freezesLeft : Int, freezeResetOn : Int]

EngineTypeOK ==
    /\ GoalTypeOK
    /\ events \subseteq Acts
    /\ rollups \in [DOMAIN rollups -> Row] /\ DOMAIN rollups \subseteq Int
    /\ streakState \in StreakRow /\ streakState.current <= streakState.longest
    /\ \A r \in Readers :
        /\ req[r].kind \in {"idle", "refresh", "range", "rebuild", "project"}
        /\ req[r].pending \subseteq ReadsOf(req[r].kind)
        /\ req[r].seen.events \subseteq Acts
        /\ req[r].written \subseteq DaysOfRequest(r)
    /\ \A p \in Putters : persist[p].phase \in {"idle", "goal", "write", "reply"}
    /\ failures \in 0 .. MaxFailures

\* What a day's row should hold.
ExactRow(day) == RollupFrom(EventsOn(events, day), GoalInForce(goals, day))

\* However requests overlap, fail or repeat, no row counts a quantity that was
\* not recorded for its day: a rollup is computed from events, never from the
\* row it replaces.
NeverOvercounts ==
    \A d \in DOMAIN rollups : \A a \in ActivityTypes :
        rollups[d].counts[a] <= CountsOf(EventsOn(events, d))[a]

\* The row of the day a /today answers for: the last of the computed days or,
\* when none was computed, an empty day's rollup that is not stored.
TodayRow(r) ==
    IF req[r].to \in DaysOfRequest(r) THEN Computed(r)[req[r].to]
    ELSE RollupFrom(EventsOn(req[r].seen.events, req[r].to),
                    GoalInForce(req[r].seen.goals, req[r].to))

\* The streak of an answer includes today if and only if its goal.met is true,
\* whatever was written between its five queries, for a user the first-event
\* query saw an event of.
MetIffCounted ==
    \A r \in Readers :
        Ready(r) /\ req[r].kind = "refresh" /\ req[r].seen.first \in 0 .. req[r].to =>
            (TodayRow(r).goalMet <=> StreakOf(r).lastGoalMetDay = req[r].to)

\* `longest' never decreases.
LongestNeverDecreases == [][streakState'.longest >= streakState.longest]_engineVars

\* No event that ingest would accept now belongs to a day below the floor of a
\* /today under way, whatever zone and override it was anchored with: the days
\* a bounded rebuild skips are days no upload can still change.
FloorBelowIngest ==
    \A r \in Readers :
        req[r].kind = "refresh" /\ req[r].floor # NoFloor =>
            \A e \in Acts : InTime(e, now) => e.localDay >= req[r].floor

\* A request whose queries for events and goals saw what there is now.
SawAll(r) ==
    /\ req[r].seen.events = {e \in events : req[r].floor <= e.localDay /\ e.localDay <= req[r].to}
    /\ \A e \in events : req[r].seen.first <= e.localDay
    /\ events # {} => req[r].seen.first # NoDay
    /\ req[r].seen.goals = Started(goals, req[r].to)

\* The streak of a rebuild of every day that has events.
FullStreak(today) ==
    StreakFrom(today, <<>>, ComputeRange(events, goals, {e.localDay : e \in events}), 0)

\* Days below the floor keep counting: when the rows it read for them hold what
\* their events give, the bounded rebuild reports the streak the unbounded one
\* would.
OldRowsStillCount ==
    \A r \in Readers :
        /\ Ready(r) /\ req[r].kind = "refresh" /\ SawAll(r)
        /\ \A e \in events : e.localDay < req[r].floor =>
                /\ e.localDay \in DOMAIN req[r].seen.rollups
                /\ req[r].seen.rollups[e.localDay] = ExactRow(e.localDay)
        => StreakOf(r).current = FullStreak(req[r].to).current

\* What a PUT /goal answers as `met' is what it has just stored as `goalMet',
\* so the goal card drawn from the answer and the next /today agree, unless
\* another PUT committed between its commit and its reading of the goal.  (And
\* but for a request from so far west that a goal already starts after its
\* day: its goal is in force from that later day only.)
GoalReplyIsStored ==
    \A p \in Putters :
        /\ persist[p].phase = "reply" /\ ~ persist[p].crossed
        /\ \A row \in goals : row.effectiveFrom <= LocalDayOf(p)
        => GoalReplyMet(p) = PersistedRow(p).goalMet

-----------------------------------------------------------------------------
\* Of one device: its requests take their next step, and its app's primary screen
\* keeps being opened.
EngineFairness(r) ==
    /\ WF_engineVars(RequestStep(r))
    /\ SF_engineVars(\E zone \in Zones : StartToday(r, zone, 0))

\* Every row within the window of today that the user has events for.
WindowExact ==
    LET today == StartOfUtcDay(now)
    IN  \A e \in events : e.localDay \in (today - RebuildWindowDays) .. today =>
            /\ e.localDay \in DOMAIN rollups
            /\ rollups[e.localDay] = ExactRow(e.localDay)

\* A row that overlapping or dying requests left stale, or a PUT /goal that
\* died after its commit, heals: once the uploads end and the goal stays, opening
\* the app brings every row of the window to the value its events and goal give
\* it, for good.
SelfHeals == <>[]WindowExact
=============================================================================
