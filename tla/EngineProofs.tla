---------------------------- MODULE EngineProofs ----------------------------
(***************************************************************************)
(* The read path of the engine for every number of requests, events, goals *)
(* and ticks in a day, every zone, limit and slack, and an unbounded       *)
(* clock.  Three inductive invariants:                                     *)
(*                                                                         *)
(*   GoalInv    of GoalSetting alone: types, one row per start, and a      *)
(*              latest row among the rows that have started;               *)
(*   FloorInv   every floor of a /today lies at or below the oldest day an *)
(*              upload may still belong to;                                *)
(*   EngineInv  every row, stored or seen, is what some of its day's       *)
(*              events give under some goal; what a request has seen is a  *)
(*              past of the tables; a committed goal stays in its row      *)
(*              until another PUT commits.                                 *)
(*                                                                         *)
(* And the nightly job, for any number of passes and any look-back,        *)
(* whatever nights are missed: its writes keep EngineInv, and PassInv says *)
(* that what a pass has read is a past of the log that lacks nothing of    *)
(* what there was when the pass began, and its closed days follow from it. *)
(* For a user who never opens the app, HealInv says which days are as they *)
(* should be since the last night, and what a pass under way owes; at home *)
(* in one zone no row is of a day that is not over (DormantInv).           *)
(*                                                                         *)
(* A streak enters as a function of the set of its met days alone: nothing *)
(* here depends on how the scan recurses.                                  *)
(***************************************************************************)
EXTENDS NightlyJob, FiniteSetTheorems, WellFoundedInduction, TLAPS

-----------------------------------------------------------------------------
(* GoalSetting                                                              *)

\* A local day is a calendar day, whatever the zone.
LEMMA LocalDayIsInt ==
    ASSUME NEW zone \in Int, NEW t \in Int
    PROVE  LocalDayIn(zone, t) \in Int
BY CalendarAssumption DEF LocalDayIn, CalendarAssumption

\* The zones requests state are offsets in ticks.
LEMMA ZonesAreInts == Zones \subseteq Int
BY GoalAssumption, CalendarAssumption DEF GoalAssumption, CalendarAssumption, ZoneOffsets

\* Among the rows that have started by a day, one started last.
HasLatest(table) ==
    \A day \in Int : Started(table, day) # {} =>
        \E g \in Started(table, day) :
            \A h \in Started(table, day) : h.effectiveFrom <= g.effectiveFrom

OneRowPerStart(table) ==
    \A a, b \in table : a.effectiveFrom = b.effectiveFrom => a = b

\* The lookup returns the goal of the row that started last.
LEMMA LatestIsInForce ==
    ASSUME NEW table \in SUBSET GoalRow, OneRowPerStart(table),
           NEW day \in Int, NEW g \in Started(table, day),
           \A h \in Started(table, day) : h.effectiveFrom <= g.effectiveFrom
    PROVE  GoalInForce(table, day) = [activityType |-> g.activityType, target |-> g.target]
<1> DEFINE started == Started(table, day)
           c == CHOOSE r \in started : \A h \in started : h.effectiveFrom <= r.effectiveFrom
<1>1. started # {} /\ started \subseteq table
  BY DEF Started
<1>2. c \in started /\ \A h \in started : h.effectiveFrom <= c.effectiveFrom
  OBVIOUS
<1>3. \A r \in started : r.effectiveFrom \in Int
  BY <1>1 DEF GoalRow
<1>4. c.effectiveFrom = g.effectiveFrom
  BY <1>2, <1>3
<1>5. c = g
  BY <1>1, <1>2, <1>4 DEF OneRowPerStart
<1> QED
  BY <1>1, <1>5 DEF GoalInForce

\* Two tables whose started rows carry the same starts and goals have the same
\* goal in force.
LEMMA SameGoalInForce ==
    ASSUME NEW old \in SUBSET GoalRow, OneRowPerStart(old), HasLatest(old),
           NEW new \in SUBSET GoalRow, OneRowPerStart(new), HasLatest(new),
           NEW day \in Int,
           \A g \in Started(old, day) : \E h \in Started(new, day) :
               /\ h.effectiveFrom = g.effectiveFrom
               /\ h.activityType = g.activityType
               /\ h.target = g.target,
           \A h \in Started(new, day) : \E g \in Started(old, day) :
               h.effectiveFrom = g.effectiveFrom
    PROVE  GoalInForce(new, day) = GoalInForce(old, day)
<1>1. CASE Started(old, day) = {}
  BY <1>1 DEF GoalInForce
<1>2. CASE Started(old, day) # {}
  <2>1. PICK g \in Started(old, day) :
            \A h \in Started(old, day) : h.effectiveFrom <= g.effectiveFrom
    BY <1>2 DEF HasLatest
  <2>2. PICK k \in Started(new, day) :
            /\ k.effectiveFrom = g.effectiveFrom
            /\ k.activityType = g.activityType
            /\ k.target = g.target
    OBVIOUS
  <2>3. \A h \in Started(new, day) : h.effectiveFrom <= k.effectiveFrom
    BY <2>1, <2>2
  <2>4. GoalInForce(new, day) = [activityType |-> k.activityType, target |-> k.target]
    BY <2>3, LatestIsInForce
  <2>5. GoalInForce(old, day) = [activityType |-> g.activityType, target |-> g.target]
    BY <2>1, LatestIsInForce
  <2> QED
    BY <2>2, <2>4, <2>5
<1> QED
  BY <1>1, <1>2

-----------------------------------------------------------------------------
\* The inductive invariant.
\* The unique key of UserGoal: no two rows start on the same day, so the latest
\* start does not tie and one goal is in force on a day.
OneGoalPerStart ==
    \A a, b \in goals : a.effectiveFrom = b.effectiveFrom => a = b

GoalInv == GoalTypeOK /\ OneGoalPerStart /\ HasLatest(goals)

\* The value an idle request has is a request.
LEMMA NoPutIsRequest == NoPut \in PutRequest
BY DEF NoPut, PutRequest, PutPhases, NoDay

\* The empty table satisfies the inductive invariant.
LEMMA GoalInvInit == GoalInit => GoalInv
<1> SUFFICES ASSUME GoalInit PROVE GoalInv
  OBVIOUS
<1>1. NoPut \in PutRequest
  BY NoPutIsRequest
<1>2. GoalTypeOK
  BY <1>1, CalendarAssumption DEF GoalInit, GoalTypeOK, NoPut, CalendarAssumption
<1>3. OneGoalPerStart /\ HasLatest(goals)
  BY DEF GoalInit, OneGoalPerStart, HasLatest, Started
<1> QED
  BY <1>2, <1>3 DEF GoalInv

\* The local day of a request under way.
LEMMA RequestDay ==
    ASSUME GoalTypeOK, NEW p \in Putters, put[p].phase # "idle"
    PROVE  LocalDayOf(p) \in Int
<1>1. put[p] \in PutRequest /\ put[p].zone \in Zones
  BY DEF GoalTypeOK
<1>2. put[p].at \in Int
  BY <1>1 DEF PutRequest
<1>3. put[p].zone \in Int
  BY <1>1, ZonesAreInts
<1> QED
  BY <1>2, <1>3, LocalDayIsInt DEF LocalDayOf

\* Replacing rows by rows with the same starts keeps the invariants on the table.
LEMMA SameStarts ==
    ASSUME NEW old \in SUBSET GoalRow, OneRowPerStart(old), HasLatest(old),
           NEW new \in SUBSET GoalRow, OneRowPerStart(new),
           \A g \in old : \E h \in new : h.effectiveFrom = g.effectiveFrom,
           \A h \in new : \E g \in old : h.effectiveFrom = g.effectiveFrom
    PROVE  HasLatest(new)
<1> SUFFICES ASSUME NEW day \in Int, Started(new, day) # {}
             PROVE  \E g \in Started(new, day) :
                        \A h \in Started(new, day) : h.effectiveFrom <= g.effectiveFrom
  BY DEF HasLatest
<1>1. Started(old, day) # {}
  BY DEF Started
<1>2. PICK g \in Started(old, day) :
          \A h \in Started(old, day) : h.effectiveFrom <= g.effectiveFrom
  BY <1>1 DEF HasLatest
<1>3. PICK k \in new : k.effectiveFrom = g.effectiveFrom
  BY DEF Started
<1>4. k \in Started(new, day)
  BY <1>3 DEF Started
<1>5. \A h \in Started(new, day) : h.effectiveFrom <= k.effectiveFrom
  BY <1>2, <1>3 DEF Started
<1> QED
  BY <1>4, <1>5

\* So does inserting a row.
LEMMA RowAdded ==
    ASSUME NEW old \in SUBSET GoalRow, HasLatest(old), NEW row \in GoalRow
    PROVE  HasLatest(old \union {row})
<1> SUFFICES ASSUME NEW day \in Int, Started(old \union {row}, day) # {}
             PROVE  \E g \in Started(old \union {row}, day) :
                        \A h \in Started(old \union {row}, day) :
                            h.effectiveFrom <= g.effectiveFrom
  BY DEF HasLatest
<1>1. CASE Started(old, day) = {}
  BY <1>1 DEF Started, GoalRow
<1>2. CASE Started(old, day) # {}
  <2>1. PICK g \in Started(old, day) :
            \A h \in Started(old, day) : h.effectiveFrom <= g.effectiveFrom
    BY <1>2 DEF HasLatest
  <2>2. g.effectiveFrom \in Int /\ row.effectiveFrom \in Int
    BY DEF Started, GoalRow
  <2>3. CASE row.effectiveFrom <= day /\ g.effectiveFrom <= row.effectiveFrom
    BY <2>1, <2>2, <2>3 DEF Started, GoalRow
  <2>4. CASE ~ (row.effectiveFrom <= day /\ g.effectiveFrom <= row.effectiveFrom)
    BY <2>1, <2>2, <2>4 DEF Started, GoalRow
  <2> QED
    BY <2>3, <2>4
<1> QED
  BY <1>1, <1>2

\* A request that begins touches only its own record.
LEMMA GoalInvStart ==
    ASSUME GoalInv, NEW p \in Putters, NEW zone \in Zones, NEW goal \in GoalChoices,
           StartPut(p, zone, goal)
    PROVE  GoalInv'
<1> DEFINE request == [NoPut EXCEPT !.phase = "read", !.at = now, !.zone = zone, !.goal = goal]
<1>0. now \in Nat
  BY DEF GoalInv, GoalTypeOK
<1>1. request \in PutRequest /\ request.phase = "read"
      /\ request.zone = zone /\ request.goal = goal
  BY <1>0, NoPutIsRequest DEF PutRequest, PutPhases
<1>2. put' = [put EXCEPT ![p] = request] /\ now' = now /\ goals' = goals
  BY DEF StartPut
<1> HIDE DEF request
<1>3. GoalTypeOK'
  BY <1>1, <1>2 DEF GoalInv, GoalTypeOK, LocalDayOf
<1> QED
  BY <1>2, <1>3 DEF GoalInv, OneGoalPerStart, HasLatest, Started

\* A request that takes the in-place branch read a row that starts on its own
\* day or later; otherwise it goes on to close and create.
LEMMA GoalInvRead ==
    ASSUME GoalInv, NEW p \in Putters, ReadLatest(p)
    PROVE  GoalInv'
<1>1. now' = now /\ goals' = goals
  BY DEF ReadLatest
<1>2. put[p] \in PutRequest /\ put[p].zone \in Zones /\ put[p].goal \in GoalChoices
  BY DEF GoalInv, GoalTypeOK, ReadLatest
<1>3. ASSUME put' = [put EXCEPT ![p].phase = "close"]
      PROVE  GoalTypeOK'
  BY <1>1, <1>2, <1>3 DEF GoalInv, GoalTypeOK, PutRequest, PutPhases, LocalDayOf
<1>4. ASSUME NEW row \in goals,
             put' = [put EXCEPT
                ![p].latest = row.effectiveFrom,
                ![p].phase = IF row.effectiveFrom >= LocalDayOf(p) THEN "update" ELSE "close"]
      PROVE  GoalTypeOK'
  <2>1. row.effectiveFrom \in Int
    BY DEF GoalInv, GoalTypeOK, GoalRow
  <2> QED
    BY <1>1, <1>2, <1>4, <2>1 DEF GoalInv, GoalTypeOK, PutRequest, PutPhases, LocalDayOf
<1>5. GoalTypeOK'
  BY <1>3, <1>4 DEF ReadLatest, GoalInv
<1> QED
  BY <1>1, <1>5 DEF GoalInv, OneGoalPerStart, HasLatest, Started

\* The closes a request holds uncommitted name days.
LEMMA GoalInvClose ==
    ASSUME GoalInv, NEW p \in Putters, CloseOpen(p)
    PROVE  GoalInv'
<1> DEFINE open == {row \in goals : row.effectiveTo = NoDay
                                 /\ row.effectiveFrom < LocalDayOf(p)}
           starts == {row.effectiveFrom : row \in open}
<1>1. now' = now /\ goals' = goals
  BY DEF CloseOpen
<1>2. put' = [put EXCEPT ![p].phase = "create", ![p].closing = starts]
  BY DEF CloseOpen
<1>3. starts \in SUBSET Int
  BY DEF GoalInv, GoalTypeOK, GoalRow
<1>4. put[p] \in PutRequest /\ put[p].zone \in Zones /\ put[p].goal \in GoalChoices
  BY DEF GoalInv, GoalTypeOK, CloseOpen
<1> HIDE DEF starts
<1>5. GoalTypeOK'
  BY <1>1, <1>2, <1>3, <1>4 DEF GoalInv, GoalTypeOK, PutRequest, PutPhases, LocalDayOf
<1> QED
  BY <1>1, <1>5 DEF GoalInv, OneGoalPerStart, HasLatest, Started

\* A request that ends leaves the table alone.
LEMMA GoalInvEnd ==
    ASSUME GoalInv, NEW p \in Putters, put' = [put EXCEPT ![p] = NoPut],
           now' = now, goals' = goals
    PROVE  GoalInv'
<1>1. NoPut \in PutRequest /\ NoPut.phase = "idle"
  BY NoPutIsRequest DEF NoPut
<1>2. GoalTypeOK'
  BY <1>1 DEF GoalInv, GoalTypeOK, LocalDayOf
<1> QED
  BY <1>2 DEF GoalInv, OneGoalPerStart, HasLatest, Started

\* The request's new row, and the rows it closes.
Created(p) == [effectiveFrom |-> LocalDayOf(p), effectiveTo |-> NoDay,
               activityType |-> put[p].goal.activityType,
               target |-> put[p].goal.target]

Closed(p, row) == IF row.effectiveFrom \in put[p].closing
                  THEN [row EXCEPT !.effectiveTo = LocalDayOf(p)] ELSE row

CreatedIn(p) == {Closed(p, row) : row \in goals} \union {Created(p)}

\* The table after a create: every row keeps its start and its goal, and the
\* only new start is the request's day.
LEMMA CreatedTable ==
    ASSUME GoalInv, NEW p \in Putters, put[p].phase = "create",
           \A row \in goals : row.effectiveFrom # LocalDayOf(p),
           NEW new, new = CreatedIn(p)
    PROVE  /\ new \in SUBSET GoalRow
           /\ OneRowPerStart(new)
           /\ HasLatest(new)
           /\ \A row \in goals : \E h \in new :
                  /\ h.effectiveFrom = row.effectiveFrom
                  /\ h.activityType = row.activityType
                  /\ h.target = row.target
           /\ \A h \in new : \/ h.effectiveFrom = LocalDayOf(p)
                            \/ \E row \in goals : h.effectiveFrom = row.effectiveFrom
<1> DEFINE kept == {Closed(p, row) : row \in goals}
<1>1. new = kept \union {Created(p)}
  BY DEF CreatedIn
<1>2. goals \in SUBSET GoalRow /\ put[p].goal \in GoalChoices
  BY DEF GoalInv, GoalTypeOK
<1>3. LocalDayOf(p) \in Int
  BY RequestDay DEF GoalInv
<1>4. \A row \in goals : /\ Closed(p, row) \in GoalRow
                         /\ Closed(p, row).effectiveFrom = row.effectiveFrom
                         /\ Closed(p, row).activityType = row.activityType
                         /\ Closed(p, row).target = row.target
  BY <1>2, <1>3 DEF GoalRow, Closed
<1>5. Created(p) \in GoalRow /\ Created(p).effectiveFrom = LocalDayOf(p)
  BY <1>2, <1>3, GoalAssumption DEF GoalRow, GoalAssumption, NoDay, Created
<1>6. kept \in SUBSET GoalRow
  BY <1>4
<1>7. OneRowPerStart(kept)
  BY <1>4 DEF OneRowPerStart, GoalInv, OneGoalPerStart
<1>8. HasLatest(kept)
  BY <1>2, <1>4, <1>6, <1>7, SameStarts DEF GoalInv, OneGoalPerStart, OneRowPerStart
<1>9. OneRowPerStart(new)
  BY <1>1, <1>4, <1>5, <1>7 DEF OneRowPerStart
<1>10. HasLatest(new)
  BY <1>1, <1>5, <1>6, <1>8, RowAdded
<1> QED
  BY <1>1, <1>4, <1>5, <1>6, <1>9, <1>10

\* A create inserts a row for a new day, or fails on the unique key.
LEMMA GoalInvCreate ==
    ASSUME GoalInv, NEW p \in Putters, Create(p)
    PROVE  GoalInv'
<1>1. CASE \E row \in goals : row.effectiveFrom = LocalDayOf(p)
  BY <1>1, GoalInvEnd DEF Create
<1>2. CASE \A row \in goals : row.effectiveFrom # LocalDayOf(p)
  <2>1. /\ goals' \in SUBSET GoalRow
        /\ OneRowPerStart(goals')
        /\ HasLatest(goals')
    BY <1>2, CreatedTable DEF Create, CreatedIn, Created, Closed
  <2>2. put' = [put EXCEPT ![p].phase = "committed", ![p].closing = {}] /\ now' = now
    BY <1>2 DEF Create
  <2>3. put[p] \in PutRequest /\ put[p].zone \in Zones /\ put[p].goal \in GoalChoices
    BY DEF GoalInv, GoalTypeOK, Create
  <2>4. GoalTypeOK'
    BY <2>1, <2>2, <2>3 DEF GoalInv, GoalTypeOK, PutRequest, PutPhases, LocalDayOf
  <2> QED
    BY <2>1, <2>4 DEF GoalInv, OneGoalPerStart, OneRowPerStart
<1> QED
  BY <1>1, <1>2

\* A row rewritten in place is a row with the same start.
LEMMA RowRewritten ==
    ASSUME NEW row \in GoalRow, NEW type \in ActivityTypes, NEW target \in Nat \ {0}
    PROVE  LET new == [row EXCEPT !.effectiveTo = NoDay, !.activityType = type,
                                  !.target = target]
           IN  new \in GoalRow /\ new.effectiveFrom = row.effectiveFrom
<1> DEFINE opened == [row EXCEPT !.effectiveTo = NoDay]
           typed == [opened EXCEPT !.activityType = type]
           new == [typed EXCEPT !.target = target]
<1>1. NoDay \in Int
  BY DEF NoDay
<1>2. opened \in GoalRow /\ opened.effectiveFrom = row.effectiveFrom
  BY <1>1 DEF GoalRow
<1> HIDE DEF opened
<1>3. typed \in GoalRow /\ typed.effectiveFrom = row.effectiveFrom
  BY <1>2 DEF GoalRow
<1> HIDE DEF typed
<1>4. new \in GoalRow /\ new.effectiveFrom = row.effectiveFrom
  BY <1>3 DEF GoalRow
<1> QED
  BY <1>4 DEF opened, typed

\* The row updated in place keeps its start.
Updated(p, row) == [row EXCEPT !.effectiveTo = NoDay,
                               !.activityType = put[p].goal.activityType,
                               !.target = put[p].goal.target]

\* The table after an update in place: the same starts, and the same rows for
\* every day before the request's own.
LEMMA UpdatedTable ==
    ASSUME GoalInv, NEW p \in Putters, put[p].phase = "update",
           NEW row \in goals, row.effectiveFrom = put[p].latest,
           NEW new, new = (goals \ {row}) \union {Updated(p, row)}
    PROVE  /\ new \in SUBSET GoalRow
           /\ OneRowPerStart(new)
           /\ HasLatest(new)
           /\ \A g \in goals : \E h \in new : h.effectiveFrom = g.effectiveFrom
           /\ \A day \in Int : day < LocalDayOf(p) => Started(new, day) = Started(goals, day)
<1> DEFINE updated == Updated(p, row)
<1>1. goals \in SUBSET GoalRow /\ put[p].goal \in GoalChoices
      /\ put[p].latest >= LocalDayOf(p) /\ put[p].latest \in Int
  BY DEF GoalInv, GoalTypeOK, PutRequest
<1>2. LocalDayOf(p) \in Int
  BY RequestDay DEF GoalInv
<1>3. updated \in GoalRow /\ updated.effectiveFrom = row.effectiveFrom
  <2>1. put[p].goal.activityType \in ActivityTypes /\ put[p].goal.target \in Nat \ {0}
    BY <1>1, GoalAssumption DEF GoalAssumption
  <2>2. row \in GoalRow
    BY <1>1
  <2> QED
    BY <2>1, <2>2, RowRewritten DEF Updated
<1>4. new = (goals \ {row}) \union {updated}
  OBVIOUS
<1> HIDE DEF updated
<1>5. new \in SUBSET GoalRow
  BY <1>1, <1>3, <1>4
<1>6. OneRowPerStart(new)
  BY <1>3, <1>4 DEF OneRowPerStart, GoalInv, OneGoalPerStart
<1>7. /\ \A g \in goals : \E h \in new : h.effectiveFrom = g.effectiveFrom
      /\ \A h \in new : \E g \in goals : h.effectiveFrom = g.effectiveFrom
  BY <1>3, <1>4
<1>8. HasLatest(new)
  BY <1>1, <1>5, <1>6, <1>7, SameStarts DEF GoalInv, OneGoalPerStart, OneRowPerStart
<1>9. ASSUME NEW day \in Int, day < LocalDayOf(p)
      PROVE  Started(new, day) = Started(goals, day)
  <2>1. ~ (row.effectiveFrom <= day) /\ ~ (updated.effectiveFrom <= day)
    BY <1>1, <1>2, <1>3, <1>9
  <2> QED
    BY <1>4, <2>1 DEF Started
<1> QED
  BY <1>5, <1>6, <1>7, <1>8, <1>9

\* An update in place keeps the starts apart, as no start changes.
LEMMA GoalInvUpdate ==
    ASSUME GoalInv, NEW p \in Putters, UpdateInPlace(p)
    PROVE  GoalInv'
<1>1. PICK row \in goals :
        /\ row.effectiveFrom = put[p].latest
        /\ goals' = (goals \ {row}) \union {Updated(p, row)}
  BY DEF UpdateInPlace, Updated
<1>2. put' = [put EXCEPT ![p].phase = "committed"] /\ now' = now /\ put[p].phase = "update"
  BY DEF UpdateInPlace
<1>3. goals' \in SUBSET GoalRow /\ OneRowPerStart(goals') /\ HasLatest(goals')
  BY <1>1, <1>2, UpdatedTable
<1>4. put[p] \in PutRequest /\ put[p].zone \in Zones /\ put[p].goal \in GoalChoices
  BY <1>2 DEF GoalInv, GoalTypeOK
<1>5. GoalTypeOK'
  BY <1>2, <1>3, <1>4 DEF GoalInv, GoalTypeOK, PutRequest, PutPhases, LocalDayOf
<1> QED
  BY <1>3, <1>5 DEF GoalInv, OneGoalPerStart, OneRowPerStart

\* No step leaves the inductive invariant: one case per action.
LEMMA GoalInvNext == GoalInv /\ [GoalNext]_goalVars => GoalInv'
<1> SUFFICES ASSUME GoalInv, [GoalNext]_goalVars PROVE GoalInv'
  OBVIOUS
<1>1. CASE Tick
  BY <1>1 DEF Tick, GoalInv, GoalTypeOK, OneGoalPerStart, HasLatest, Started, LocalDayOf
<1>2. ASSUME NEW p \in Putters, NEW zone \in Zones, NEW goal \in GoalChoices,
             StartPut(p, zone, goal)
      PROVE  GoalInv'
  BY <1>2, GoalInvStart
<1>3. ASSUME NEW p \in Putters, PutStep(p)
      PROVE  GoalInv'
  <2>1. CASE ReadLatest(p)
    BY <2>1, GoalInvRead
  <2>2. CASE UpdateInPlace(p)
    BY <2>2, GoalInvUpdate
  <2>3. CASE CloseOpen(p)
    BY <2>3, GoalInvClose
  <2>4. CASE Create(p)
    BY <2>4, GoalInvCreate
  <2>5. CASE AbortPut(p)
    BY <2>5, GoalInvEnd DEF AbortPut
  <2> QED
    BY <1>3, <2>1, <2>2, <2>3, <2>4, <2>5 DEF PutStep
<1>4. ASSUME NEW p \in Putters, FinishPut(p)
      PROVE  GoalInv'
  BY <1>4, GoalInvEnd DEF FinishPut
<1>5. CASE UNCHANGED goalVars
  BY <1>5 DEF goalVars, GoalInv, GoalTypeOK, OneGoalPerStart, HasLatest, Started, LocalDayOf
<1> QED
  BY <1>1, <1>2, <1>3, <1>4, <1>5 DEF GoalNext

\* Every behaviour stays within the inductive invariant.
THEOREM GoalInvariance == GoalSpec => []GoalInv
BY GoalInvInit, GoalInvNext, PTL DEF GoalSpec

\* However many PUT /goal race, their rows and requests stay well formed, and a
\* request updates in place only a row that starts on its own day or later.
THEOREM GoalTypeCorrect == GoalSpec => []GoalTypeOK
<1>1. GoalInv => GoalTypeOK
  BY DEF GoalInv
<1> QED
  BY <1>1, GoalInvariance, PTL

-----------------------------------------------------------------------------
\* The days a property speaks of are days.
LEMMA DaysAreInts == Days \subseteq Int
BY CalendarAssumption, GoalAssumption
   DEF Days, StartOfUtcDay, CalendarAssumption, GoalAssumption

\* A day that was over for every request lies before the day of each.
LEMMA OverIsEarlier ==
    ASSUME GoalInv, NEW day \in Int, OverForAll(day), NEW p \in Putters, put[p].phase # "idle"
    PROVE  day < LocalDayOf(p)
BY DEF OverForAll, LocalDayOf, GoalInv, GoalTypeOK

\* The three ways a step touches the table.
LEMMA TableSteps ==
    ASSUME GoalInv, [GoalNext]_goalVars
    PROVE  \/ goals' = goals
           \/ \E p \in Putters, row \in goals :
                /\ put[p].phase = "update" /\ row.effectiveFrom = put[p].latest
                /\ goals' = (goals \ {row}) \union {Updated(p, row)}
           \/ \E p \in Putters :
                /\ put[p].phase = "create"
                /\ \A row \in goals : row.effectiveFrom # LocalDayOf(p)
                /\ goals' = CreatedIn(p)
<1>1. ASSUME NEW p \in Putters, UpdateInPlace(p)
      PROVE  \E row \in goals :
                /\ put[p].phase = "update" /\ row.effectiveFrom = put[p].latest
                /\ goals' = (goals \ {row}) \union {Updated(p, row)}
  BY <1>1 DEF UpdateInPlace, Updated
<1>2. ASSUME NEW p \in Putters, Create(p)
      PROVE  \/ goals' = goals
             \/ /\ put[p].phase = "create"
                /\ \A row \in goals : row.effectiveFrom # LocalDayOf(p)
                /\ goals' = CreatedIn(p)
  BY <1>2 DEF Create, CreatedIn, Created, Closed
<1> QED
  BY <1>1, <1>2 DEF GoalNext, PutStep, Tick, StartPut, ReadLatest, CloseOpen, AbortPut,
                    FinishPut, goalVars

\* No request, however slow and however far west, changes the goal in force on
\* a day that was over before it began.
THEOREM GoalsNotRetroactive == GoalSpec => NotRetroactive
<1>1. ASSUME GoalInv, GoalInv', [GoalNext]_goalVars, NEW day \in Days, OverForAll(day)
      PROVE  GoalInForce(goals', day) = GoalInForce(goals, day)
  <2>1. day \in Int
    BY DaysAreInts
  <2>2. CASE goals' = goals
    BY <2>2
  <2>3. ASSUME NEW p \in Putters, NEW row \in goals,
               put[p].phase = "update", row.effectiveFrom = put[p].latest,
               goals' = (goals \ {row}) \union {Updated(p, row)}
        PROVE  GoalInForce(goals', day) = GoalInForce(goals, day)
    <3>1. day < LocalDayOf(p)
      BY <1>1, <2>1, <2>3, OverIsEarlier
    <3>2. Started(goals', day) = Started(goals, day)
      BY <1>1, <2>1, <2>3, <3>1, UpdatedTable
    <3> QED
      BY <3>2 DEF GoalInForce
  <2>4. ASSUME NEW p \in Putters, put[p].phase = "create",
               \A row \in goals : row.effectiveFrom # LocalDayOf(p),
               goals' = CreatedIn(p)
        PROVE  GoalInForce(goals', day) = GoalInForce(goals, day)
    <3>1. day < LocalDayOf(p) /\ LocalDayOf(p) \in Int
      BY <1>1, <2>1, <2>4, OverIsEarlier, RequestDay DEF GoalInv
    <3>2. /\ \A row \in goals : \E h \in goals' :
                  /\ h.effectiveFrom = row.effectiveFrom
                  /\ h.activityType = row.activityType
                  /\ h.target = row.target
          /\ \A h \in goals' : \/ h.effectiveFrom = LocalDayOf(p)
                              \/ \E row \in goals : h.effectiveFrom = row.effectiveFrom
      <4>1. GoalInv /\ put[p].phase = "create"
            /\ \A row \in goals : row.effectiveFrom # LocalDayOf(p)
        BY <1>1, <2>4
      <4>2. goals' = CreatedIn(p)
        BY <2>4
      <4> QED
        BY <4>1, <4>2, CreatedTable
    <3>3. /\ goals \in SUBSET GoalRow /\ OneRowPerStart(goals) /\ HasLatest(goals)
          /\ goals' \in SUBSET GoalRow /\ OneRowPerStart(goals') /\ HasLatest(goals')
      BY <1>1 DEF GoalInv, GoalTypeOK, OneGoalPerStart, OneRowPerStart
    <3>4. \A g \in Started(goals, day) : \E h \in Started(goals', day) :
               /\ h.effectiveFrom = g.effectiveFrom
               /\ h.activityType = g.activityType
               /\ h.target = g.target
      BY <3>2 DEF Started
    <3>5. \A h \in Started(goals', day) : \E g \in Started(goals, day) :
               h.effectiveFrom = g.effectiveFrom
      BY <2>1, <3>1, <3>2 DEF Started
    <3> QED
      BY <2>1, <3>3, <3>4, <3>5, SameGoalInForce
  <2> QED
    BY <1>1, <2>2, <2>3, <2>4, TableSteps
<1>2. GoalInv /\ GoalInv' /\ [GoalNext]_goalVars =>
        [\A day \in Days : OverForAll(day) =>
            GoalInForce(goals', day) = GoalInForce(goals, day)]_goalVars
  BY <1>1
<1> QED
  BY <1>2, GoalInvariance, PTL DEF GoalSpec, NotRetroactive

\* A day that has a goal in force keeps one, though a change closes the old row
\* and inserts the new one in two statements.
THEOREM GoalsNeverVanish == GoalSpec => GoalNeverVanishes
<1>1. ASSUME GoalInv, GoalInv', [GoalNext]_goalVars, NEW day \in Days,
             GoalInForce(goals, day) # NoGoal
      PROVE  GoalInForce(goals', day) # NoGoal
  <2>1. day \in Int
    BY DaysAreInts
  <2>2. PICK g \in goals : g.effectiveFrom <= day
    BY <1>1 DEF GoalInForce, Started
  <2>3. \E h \in goals' : h.effectiveFrom = g.effectiveFrom
    <3>1. CASE goals' = goals
      BY <3>1
    <3>2. ASSUME NEW p \in Putters, NEW row \in goals,
                 put[p].phase = "update", row.effectiveFrom = put[p].latest,
                 goals' = (goals \ {row}) \union {Updated(p, row)}
          PROVE  \E h \in goals' : h.effectiveFrom = g.effectiveFrom
      BY <1>1, <3>2, UpdatedTable
    <3>3. ASSUME NEW p \in Putters, put[p].phase = "create",
                 \A row \in goals : row.effectiveFrom # LocalDayOf(p),
                 goals' = CreatedIn(p)
          PROVE  \E h \in goals' : h.effectiveFrom = g.effectiveFrom
      BY <1>1, <3>3, CreatedTable
    <3> QED
      BY <1>1, <3>1, <3>2, <3>3, TableSteps
  <2>4. Started(goals', day) # {}
    BY <2>2, <2>3 DEF Started
  <2>5. PICK k \in Started(goals', day) :
            \A h \in Started(goals', day) : h.effectiveFrom <= k.effectiveFrom
    BY <1>1, <2>1, <2>4 DEF GoalInv, HasLatest
  <2>6. goals' \in SUBSET GoalRow /\ OneRowPerStart(goals')
    BY <1>1 DEF GoalInv, GoalTypeOK, OneGoalPerStart, OneRowPerStart
  <2>7. GoalInForce(goals', day) = [activityType |-> k.activityType, target |-> k.target]
    BY <2>1, <2>5, <2>6, LatestIsInForce
  <2>8. k.target # 0
    BY <2>6 DEF Started, GoalRow
  <2> QED
    BY <2>7, <2>8 DEF NoGoal
<1>2. GoalInv /\ GoalInv' /\ [GoalNext]_goalVars =>
        [\A day \in Days : GoalInForce(goals, day) # NoGoal =>
            GoalInForce(goals', day) # NoGoal]_goalVars
  BY <1>1
<1> QED
  BY <1>2, GoalInvariance, PTL DEF GoalSpec, GoalNeverVanishes

-----------------------------------------------------------------------------
(* RetentionEngine                                                          *)

\* What division by the length of a day means.
LEMMA DayBounds ==
    ASSUME NEW t \in Int
    PROVE  /\ StartOfUtcDay(t) \in Int
           /\ StartOfUtcDay(t) * TicksPerDay <= t
           /\ t < (StartOfUtcDay(t) + 1) * TicksPerDay
BY CalendarAssumption DEF StartOfUtcDay, CalendarAssumption

\* A product by the length of a day orders as its factor does.
LEMMA DaysOrder ==
    ASSUME NEW a \in Int, NEW b \in Int, a * TicksPerDay < b * TicksPerDay
    PROVE  a < b
BY CalendarAssumption DEF CalendarAssumption

\* An instant at most n days before another lies at most n days before its day.
LEMMA DaysApart ==
    ASSUME NEW t \in Int, NEW u \in Int, NEW n \in Int, t - u <= n * TicksPerDay
    PROVE  StartOfUtcDay(t) - n <= StartOfUtcDay(u)
<1>1. TicksPerDay \in Int
  BY CalendarAssumption DEF CalendarAssumption
<1>2. /\ StartOfUtcDay(t) \in Int /\ StartOfUtcDay(t) * TicksPerDay <= t
      /\ StartOfUtcDay(u) \in Int /\ u < (StartOfUtcDay(u) + 1) * TicksPerDay
  BY DayBounds
<1>3. (StartOfUtcDay(t) - n) * TicksPerDay < (StartOfUtcDay(u) + 1) * TicksPerDay
  BY <1>1, <1>2
<1> QED
  BY <1>2, <1>3, DaysOrder

\* No zone is more than a day ahead of the server's date.
LEMMA AheadByADay ==
    ASSUME NEW zone \in ZoneOffsets, NEW t \in Int
    PROVE  LocalDayIn(zone, t) \in Int /\ LocalDayIn(zone, t) <= StartOfUtcDay(t) + 1
<1>1. zone \in Int /\ zone <= TicksPerDay /\ TicksPerDay \in Int
  BY CalendarAssumption DEF CalendarAssumption, ZoneOffsets
<1>2. LocalDayIn(zone, t) = StartOfUtcDay(t + zone) /\ StartOfUtcDay(t + zone) \in Int
  BY <1>1, DayBounds DEF LocalDayIn, StartOfUtcDay
<1>3. StartOfUtcDay(t + zone) - 1 <= StartOfUtcDay(t)
  BY <1>1, DaysApart
<1>4. StartOfUtcDay(t) \in Int
  BY DayBounds
<1> QED
  BY <1>2, <1>3, <1>4

\* What ingest accepts belongs to no day before the age limit and the slack.
LEMMA AcceptedDay ==
    ASSUME NEW e \in Acts, NEW t \in Int, InTime(e, t)
    PROVE  e.localDay >= StartOfUtcDay(t) - OccurredAtMaxAgeDays - LocalDaySlackDays
<1>1. /\ e.occurredAt \in Int /\ e.localDay \in Int
      /\ OccurredAtMaxAgeDays \in Int /\ LocalDaySlackDays \in Int
  BY EngineAssumption, IngestAssumption DEF EngineAssumption, IngestAssumption
<1>2. t - e.occurredAt <= OccurredAtMaxAgeDays * TicksPerDay
  BY <1>1, CalendarAssumption DEF InTime, TooOld, CalendarAssumption
<1>3. StartOfUtcDay(t) - OccurredAtMaxAgeDays <= StartOfUtcDay(e.occurredAt)
  BY <1>1, <1>2, DaysApart
<1>4. StartOfUtcDay(t) \in Int /\ StartOfUtcDay(e.occurredAt) \in Int
  BY <1>1, DayBounds
<1>5. Apart(e.localDay, StartOfUtcDay(e.occurredAt)) <= LocalDaySlackDays
  BY <1>1, <1>4 DEF InTime, DayMismatch, Apart
<1> QED
  BY <1>1, <1>3, <1>4, <1>5 DEF Apart

-----------------------------------------------------------------------------
\* The highest floor a /today may have at an instant.
FloorLimit(t) == StartOfUtcDay(t) - OccurredAtMaxAgeDays - LocalDaySlackDays

HasFloorBelow(request, t) ==
    /\ {"kind", "floor", "pending", "seen", "written", "streakDue"} \subseteq DOMAIN request
    /\ request.kind = "refresh" /\ request.floor # NoFloor =>
            request.floor \in Int /\ request.floor <= FloorLimit(t)

\* The inductive invariant: every floor lies at or below the limit.
FloorInv ==
    /\ now \in Int
    /\ DOMAIN req = Readers
    /\ \A r \in Readers : HasFloorBelow(req[r], now)

\* Requests just asked, and idle ones, have the fields of a request.
LEMMA AskedFields ==
    ASSUME NEW kind, NEW floor, NEW to
    PROVE  /\ Asked(kind, floor, to).kind = kind
           /\ Asked(kind, floor, to).floor = floor
           /\ DOMAIN Asked(kind, floor, to) = DOMAIN NoRequest
           /\ {"kind", "floor", "pending", "seen", "written", "streakDue"} \subseteq DOMAIN NoRequest
           /\ NoRequest.kind = "idle"
BY DEF Asked, NoRequest

\* The limit only rises.
LEMMA LimitRises ==
    ASSUME NEW t \in Int
    PROVE  FloorLimit(t) \in Int /\ FloorLimit(t) <= FloorLimit(t + 1)
<1>1. TicksPerDay \in Nat \ {0} /\ OccurredAtMaxAgeDays \in Int /\ LocalDaySlackDays \in Int
  BY CalendarAssumption, IngestAssumption DEF CalendarAssumption, IngestAssumption
<1>2. StartOfUtcDay(t) \in Int /\ StartOfUtcDay(t + 1) \in Int
  BY DayBounds
<1>3. t - (t + 1) <= 0 * TicksPerDay
  BY <1>1
<1>4. StartOfUtcDay(t) - 0 <= StartOfUtcDay(t + 1)
  BY <1>3, DaysApart
<1> QED
  BY <1>1, <1>2, <1>4 DEF FloorLimit

\* The floor of a /today.
TodayFloor(zone, moved, t) == (LocalDayIn(zone, t) + moved) - RebuildWindowDays

\* A /today is anchored at most a day and the override's slack ahead of the
\* server's date, and its window reaches back exactly as much further.
LEMMA WindowReachesBack ==
    ASSUME NEW zone \in Zones, NEW moved \in (-OverrideSlackDays) .. OverrideSlackDays,
           NEW t \in Int
    PROVE  TodayFloor(zone, moved, t) \in Int /\ TodayFloor(zone, moved, t) <= FloorLimit(t)
<1>1. /\ OccurredAtMaxAgeDays \in Int /\ LocalDaySlackDays \in Int /\ OverrideSlackDays \in Int
      /\ moved \in Int /\ moved <= OverrideSlackDays
  BY IngestAssumption, EngineAssumption DEF IngestAssumption, EngineAssumption
<1>2. LocalDayIn(zone, t) \in Int /\ LocalDayIn(zone, t) <= StartOfUtcDay(t) + 1
  BY AheadByADay, GoalAssumption DEF GoalAssumption
<1>3. StartOfUtcDay(t) \in Int
  BY DayBounds
<1> QED
  BY <1>1, <1>2, <1>3 DEF TodayFloor, RebuildWindowDays, FloorLimit

-----------------------------------------------------------------------------
\* A step that touches no request and not the clock.
LEMMA FloorInvKept == FloorInv /\ now' = now /\ req' = req => FloorInv'
BY DEF FloorInv, HasFloorBelow

\* A step that replaces one request.
LEMMA FloorInvReplaced ==
    ASSUME FloorInv, NEW r \in Readers, NEW request, HasFloorBelow(request, now),
           now' = now, req' = [req EXCEPT ![r] = request]
    PROVE  FloorInv'
BY DEF FloorInv, HasFloorBelow

\* A request that is not a refresh is under no limit.
LEMMA NotRefresh ==
    ASSUME NEW kind, NEW floor, NEW to, kind # "refresh" \/ floor = NoFloor
    PROVE  /\ HasFloorBelow(Asked(kind, floor, to), now)
           /\ \A day : HasFloorBelow([Asked(kind, floor, to) EXCEPT !.userToday = day], now)
           /\ HasFloorBelow(NoRequest, now)
BY AskedFields DEF HasFloorBelow, NoRequest, Asked

\* The clock lifts the limit and nothing else.
LEMMA FloorInvTick == FloorInv /\ EngineTick => FloorInv'
<1> SUFFICES ASSUME FloorInv, EngineTick PROVE FloorInv'
  OBVIOUS
<1>1. now \in Int /\ now' = now + 1 /\ req' = req
  BY DEF FloorInv, EngineTick, Tick
<1>2. FloorLimit(now) \in Int /\ FloorLimit(now + 1) \in Int
      /\ FloorLimit(now) <= FloorLimit(now + 1)
  BY <1>1, LimitRises
<1>3. ASSUME NEW r \in Readers PROVE HasFloorBelow(req[r], now + 1)
  BY <1>2 DEF FloorInv, HasFloorBelow
<1> QED
  BY <1>1, <1>3 DEF FloorInv

\* Every way a reader may begin: only /today has a floor, and it is in bounds.
LEMMA FloorInvStart ==
    ASSUME FloorInv, NEW r \in Readers, ReaderStarts(r)
    PROVE  FloorInv'
<1>1. now \in Int
  BY DEF FloorInv
<1>2. ASSUME NEW zone \in Zones, NEW moved \in (-OverrideSlackDays) .. OverrideSlackDays,
             StartToday(r, zone, moved)
      PROVE  FloorInv'
  <2> DEFINE day == LocalDayIn(zone, now) + moved
             floor == day - RebuildWindowDays
             request == Asked("refresh", floor, day)
  <2>1. now' = now /\ req' = [req EXCEPT ![r] = request]
    BY <1>2 DEF StartToday, StartRequest
  <2>2. floor = TodayFloor(zone, moved, now)
    BY DEF TodayFloor
  <2> HIDE DEF day, floor
  <2>3. floor \in Int /\ floor <= FloorLimit(now)
    BY <1>1, <2>2, WindowReachesBack
  <2>4. HasFloorBelow(request, now)
    BY <2>3, AskedFields DEF HasFloorBelow
  <2> QED
    BY <2>1, <2>4, FloorInvReplaced
<1>3. ASSUME NEW from \in AskedDays, NEW to \in AskedDays, StartHistory(r, from, to)
      PROVE  FloorInv'
  <2>1. now' = now /\ req' = [req EXCEPT ![r] = Asked("range", from, to)]
    BY <1>3 DEF StartHistory, StartRequest
  <2> QED
    BY <2>1, NotRefresh, FloorInvReplaced
<1>4. ASSUME StartRebuildAll(r)
      PROVE  FloorInv'
  <2>1. PICK to : now' = now /\ req' = [req EXCEPT ![r] = Asked("refresh", NoFloor, to)]
    BY <1>4 DEF StartRebuildAll, StartRequest
  <2> QED
    BY <2>1, NotRefresh, FloorInvReplaced
<1>5. ASSUME NEW from \in AskedDays, NEW to \in AskedDays, StartRebuildRange(r, from, to)
      PROVE  FloorInv'
  <2>1. PICK userToday :
          /\ now' = now
          /\ req' = [req EXCEPT ![r] =
                [Asked("rebuild", from, IF to < userToday THEN to ELSE userToday)
                    EXCEPT !.userToday = userToday]]
    BY <1>5 DEF StartRebuildRange
  <2> DEFINE request == [Asked("rebuild", from, IF to < userToday THEN to ELSE userToday)
                            EXCEPT !.userToday = userToday]
  <2>2. HasFloorBelow(request, now)
    BY NotRefresh
  <2> QED
    BY <2>1, <2>2, FloorInvReplaced
<1> QED
  BY <1>2, <1>3, <1>4, <1>5 DEF ReaderStarts

\* The steps of a request keep its kind and floor, or turn it into one that is
\* no refresh.
LEMMA FloorInvRequest ==
    ASSUME FloorInv, NEW r \in Readers, RequestStep(r)
    PROVE  FloorInv'
<1>1. HasFloorBelow(req[r], now)
  BY DEF FloorInv
<1>2. ASSUME NEW query, NEW seen, Answer(r, query, seen)
      PROVE  FloorInv'
  <2> DEFINE request == [req[r] EXCEPT !.pending = @ \ {query}, !.seen = seen]
  <2>1. HasFloorBelow(request, now)
    BY <1>1 DEF HasFloorBelow
  <2>2. now' = now /\ req' = [req EXCEPT ![r] = request]
    BY <1>2 DEF Answer
  <2> QED
    BY <2>1, <2>2, FloorInvReplaced
<1>3. CASE ReadFirst(r) \/ ReadEvents(r) \/ ReadGoals(r) \/ ReadRollups(r) \/ ReadStreak(r)
  BY <1>2, <1>3 DEF ReadFirst, ReadEvents, ReadGoals, ReadRollups, ReadStreak
<1>4. ASSUME NEW day \in DaysOfRequest(r), WriteRollup(r, day)
      PROVE  FloorInv'
  <2> DEFINE request == [req[r] EXCEPT !.written = @ \union {day}]
  <2>1. HasFloorBelow(request, now)
    BY <1>1 DEF HasFloorBelow
  <2>2. now' = now /\ req' = [req EXCEPT ![r] = request]
    BY <1>4 DEF WriteRollup
  <2> QED
    BY <2>1, <2>2, FloorInvReplaced
<1>5. CASE BeginRange(r)
  <2>1. PICK kind, floor, to, day :
          /\ kind # "refresh" /\ now' = now
          /\ req' = [req EXCEPT ![r] = [Asked(kind, floor, to) EXCEPT !.userToday = day]]
    <3> DEFINE start == Larger(req[r].seen.first, req[r].floor)
    <3>1. CASE req[r].seen.first # NoDay /\ start <= req[r].to
      BY <1>5, <3>1 DEF BeginRange
    <3>2. CASE ~ (req[r].seen.first # NoDay /\ start <= req[r].to)
      BY <1>5, <3>2 DEF BeginRange
    <3> QED
      BY <3>1, <3>2
  <2>2. HasFloorBelow([Asked(kind, floor, to) EXCEPT !.userToday = day], now)
    BY <2>1, NotRefresh
  <2> QED
    BY <2>1, <2>2, FloorInvReplaced
<1>6. CASE WriteStreak(r)
  <2> DEFINE request == [req[r] EXCEPT !.streakDue = FALSE]
  <2>1. HasFloorBelow(request, now)
    BY <1>1 DEF HasFloorBelow
  <2>2. now' = now /\ req' = [req EXCEPT ![r] = request]
    BY <1>6 DEF WriteStreak
  <2> QED
    BY <2>1, <2>2, FloorInvReplaced
<1>7. CASE Respond(r)
  <2>1. PICK to : /\ now' = now
                  /\ \/ req' = [req EXCEPT ![r] = Asked("project", NoFloor, to)]
                     \/ req' = [req EXCEPT ![r] = NoRequest]
    BY <1>7 DEF Respond
  <2>2. HasFloorBelow(Asked("project", NoFloor, to), now) /\ HasFloorBelow(NoRequest, now)
    BY NotRefresh
  <2> QED
    BY <2>1, <2>2, FloorInvReplaced
<1> QED
  BY <1>3, <1>4, <1>5, <1>6, <1>7 DEF RequestStep

\* No step of the engine leaves the inductive invariant.
LEMMA FloorInvNext == FloorInv /\ [EngineNext]_engineVars => FloorInv'
<1> SUFFICES ASSUME FloorInv, [EngineNext]_engineVars PROVE FloorInv'
  OBVIOUS
<1>1. CASE EngineTick
  BY <1>1, FloorInvTick
<1>2. ASSUME NEW e \in Acts, Ingest(e)
      PROVE  FloorInv'
  BY <1>2, FloorInvKept DEF Ingest
<1>3. ASSUME NEW r \in Readers, ReaderStarts(r) \/ RequestStep(r) \/ FailRequest(r)
      PROVE  FloorInv'
  <2>1. CASE FailRequest(r)
    <3>1. now' = now /\ req' = [req EXCEPT ![r] = NoRequest]
      BY <2>1 DEF FailRequest
    <3> QED
      BY <3>1, NotRefresh, FloorInvReplaced
  <2> QED
    BY <1>3, <2>1, FloorInvStart, FloorInvRequest
<1>4. ASSUME NEW p \in Putters, NEW zone \in Zones, NEW goal \in GoalChoices,
             StartGoal(p, zone, goal)
      PROVE  FloorInv'
  BY <1>4, FloorInvKept DEF StartGoal, StartPut
<1>5. ASSUME NEW p \in Putters, GoalStep(p)
      PROVE  FloorInv'
  <2>1. now' = now /\ req' = req
    BY <1>5 DEF GoalStep, GoalTransaction, ReadLatest, UpdateInPlace, CloseOpen, Create,
                PersistEvents, PersistGoal, PersistWrite, ReplyGoal, FinishPut
  <2> QED
    BY <2>1, FloorInvKept
<1>6. ASSUME NEW p \in Putters, FailGoal(p)
      PROVE  FloorInv'
  BY <1>6, FloorInvKept DEF FailGoal
<1>7. CASE UNCHANGED engineVars
  BY <1>7, FloorInvKept DEF engineVars
<1> QED
  BY <1>1, <1>2, <1>3, <1>4, <1>5, <1>6, <1>7 DEF EngineNext

\* Initially no request is under way.
LEMMA FloorInvInit == EngineInit => FloorInv
<1> SUFFICES ASSUME EngineInit PROVE FloorInv
  OBVIOUS
<1>1. now \in Int
  BY CalendarAssumption DEF EngineInit, CalendarAssumption
<1>2. HasFloorBelow(NoRequest, now)
  BY NotRefresh
<1> QED
  BY <1>1, <1>2 DEF EngineInit, FloorInv

\* Whatever the limits, slacks, zones and the length of a day: the days that the
\* bounded rebuild of a /today skips are days no accepted upload can still
\* change, from the request's first query to its last write.
THEOREM WindowHoldsIngest == EngineSpec => []FloorBelowIngest
<1>1. FloorInv => FloorBelowIngest
  <2> SUFFICES ASSUME FloorInv, NEW r \in Readers, NEW e \in Acts,
                      req[r].kind = "refresh", req[r].floor # NoFloor, InTime(e, now)
               PROVE  e.localDay >= req[r].floor
    BY DEF FloorBelowIngest
  <2>1. now \in Int /\ req[r].floor \in Int /\ req[r].floor <= FloorLimit(now)
    BY DEF FloorInv, HasFloorBelow
  <2>2. e.localDay \in Int /\ e.localDay >= FloorLimit(now)
    BY <2>1, AcceptedDay, EngineAssumption DEF EngineAssumption, FloorLimit
  <2>3. FloorLimit(now) \in Int
    BY <2>1, LimitRises
  <2> QED
    BY <2>1, <2>2, <2>3
<1> QED
  BY <1>1, FloorInvInit, FloorInvNext, PTL DEF EngineSpec

-----------------------------------------------------------------------------

\* A set of naturals has a least element: what stands in for induction here.
LEMMA LeastNat ==
    ASSUME NEW T, T \subseteq Nat, T # {}
    PROVE  \E x \in T : \A y \in T : x <= y
<1> DEFINE R == OpToRel(<, Nat)
<1>1. IsWellFoundedOn(R, Nat)
  BY NatLessThanWellFounded
<1>2. PICK x \in T : \A y \in T : ~ (<<y, x>> \in R)
  <2> HIDE DEF R
  <2> QED
    BY <1>1, WFMin
<1>3. \A y \in T : y < x => <<y, x>> \in R
  BY DEF OpToRel
<1> HIDE DEF R
<1>4. \A y \in T : y \in Int
  OBVIOUS
<1>5. \A y \in T : ~ (y < x)
  BY <1>2, <1>3
<1> QED
  BY <1>4, <1>5, SMT

\* A set of days with none after some day has a last one.
LEMMA LatestOf ==
    ASSUME NEW days \in SUBSET Int, days # {}, NEW top \in Int, \A d \in days : d <= top
    PROVE  Latest(days) \in days /\ \A d \in days : d <= Latest(days)
<1> DEFINE back == {top - d : d \in days}
<1>1. back \subseteq Nat /\ back # {}
  <2>1. \A d \in days : top - d \in Nat
    OBVIOUS
  <2>2. PICK d \in days : TRUE
    OBVIOUS
  <2>3. top - d \in back
    OBVIOUS
  <2> QED
    BY <2>1, <2>3
<1>2. PICK x \in back : \A y \in back : x <= y
  BY <1>1, LeastNat
<1>3. PICK last \in days : x = top - last
  OBVIOUS
<1>4. ASSUME NEW d \in days PROVE d <= last
  <2>1. top - d \in back
    OBVIOUS
  <2>2. top - last <= top - d /\ d \in Int /\ last \in Int
    BY <1>2, <1>3, <2>1
  <2> QED
    BY <2>2
<1> QED
  BY <1>4 DEF Latest

\* Whatever rows a table holds, one of those started by a day started last.
LEMMA RowsHaveLatest ==
    ASSUME NEW table \in SUBSET GoalRow
    PROVE  HasLatest(table)
<1> SUFFICES ASSUME NEW day \in Int, Started(table, day) # {}
             PROVE  \E g \in Started(table, day) :
                        \A h \in Started(table, day) : h.effectiveFrom <= g.effectiveFrom
  BY DEF HasLatest
<1> DEFINE started == Started(table, day)
           starts == {g.effectiveFrom : g \in started}
<1>1. \A g \in started : g.effectiveFrom \in Int /\ g.effectiveFrom <= day
  BY DEF Started, GoalRow
<1>2. starts \in SUBSET Int /\ starts # {} /\ \A d \in starts : d <= day
  BY <1>1
<1>3. PICK d \in starts : \A c \in starts : c <= d
  BY <1>2, LatestOf
<1> QED
  BY <1>3

\* The goals a user can have.
AnyGoal == [activityType : ActivityTypes, target : Nat \ {0}] \union {NoGoal}

\* The goal in force is one of them.
LEMMA InForceIsGoal ==
    ASSUME NEW table \in SUBSET GoalRow, NEW day \in Int
    PROVE  GoalInForce(table, day) \in AnyGoal
<1>1. CASE Started(table, day) = {}
  BY <1>1 DEF GoalInForce, AnyGoal
<1>2. CASE Started(table, day) # {}
  <2>1. PICK g \in Started(table, day) :
            \A h \in Started(table, day) : h.effectiveFrom <= g.effectiveFrom
    BY <1>2, RowsHaveLatest DEF HasLatest
  <2> DEFINE c == CHOOSE r \in Started(table, day) :
                     \A h \in Started(table, day) : h.effectiveFrom <= r.effectiveFrom
  <2>2. c \in Started(table, day)
    BY <2>1
  <2>3. c \in GoalRow
    BY <2>2 DEF Started
  <2>4. GoalInForce(table, day) = [activityType |-> c.activityType, target |-> c.target]
    BY <1>2 DEF GoalInForce
  <2> HIDE DEF c
  <2> QED
    BY <2>3, <2>4 DEF AnyGoal, GoalRow
<1> QED
  BY <1>1, <1>2

\* Only the rows started by a later day matter to a lookup.
LEMMA StartedByLater ==
    ASSUME NEW table \in SUBSET GoalRow, NEW day \in Int, NEW later \in Int, day <= later
    PROVE  GoalInForce(Started(table, later), day) = GoalInForce(table, day)
<1>1. \A g \in table : g.effectiveFrom \in Int
  BY DEF GoalRow
<1>2. Started(Started(table, later), day) = Started(table, day)
  BY <1>1 DEF Started
<1> QED
  BY <1>2 DEF GoalInForce

-----------------------------------------------------------------------------
\* The units of finitely many events are finitely many.
LEMMA UnitsFinite ==
    ASSUME NEW some \in SUBSET Acts, IsFiniteSet(some)
    PROVE  IsFiniteSet(UnitsOf(some))
<1> DEFINE units(e) == {e} \X (1 .. e.quantity)
           each == {units(e) : e \in some}
           f == [e \in some |-> units(e)]
<1>1. f \in Surjection(some, each)
  BY DEF Surjection
<1>2. IsFiniteSet(each)
  <2> HIDE DEF f, each
  <2> QED
    BY <1>1, FS_Surjection
<1>3. \A e \in some : IsFiniteSet(units(e))
  <2> SUFFICES ASSUME NEW e \in some PROVE IsFiniteSet(units(e))
    OBVIOUS
  <2>1. e.quantity \in Int
    BY EngineAssumption DEF EngineAssumption
  <2>2. IsFiniteSet({e})
    BY FS_Singleton
  <2>3. IsFiniteSet(1 .. e.quantity)
    BY <2>1, FS_Interval
  <2> QED
    BY <2>2, <2>3, FS_Product
<1>4. \A T \in each : IsFiniteSet(T)
  BY <1>3
<1>5. UnitsOf(some) = UNION each
  BY DEF UnitsOf
<1> HIDE DEF each
<1> QED
  BY <1>2, <1>4, <1>5, FS_UNION

\* Fewer events never count for more, and no events count for nothing.
LEMMA CountsGrow ==
    ASSUME NEW all \in SUBSET Acts, IsFiniteSet(all), NEW some \in SUBSET all,
           NEW a \in ActivityTypes
    PROVE  /\ CountsOf(some)[a] \in Nat /\ CountsOf(all)[a] \in Nat
           /\ CountsOf(some)[a] <= CountsOf(all)[a]
<1> DEFINE of(from) == {e \in from : e.activityType = a}
<1>1. of(all) \in SUBSET Acts /\ of(some) \in SUBSET Acts /\ of(some) \subseteq of(all)
  OBVIOUS
<1>2. IsFiniteSet(of(all))
  BY FS_Subset
<1>3. IsFiniteSet(UnitsOf(of(all)))
  BY <1>1, <1>2, UnitsFinite
<1>4. UnitsOf(of(some)) \subseteq UnitsOf(of(all))
  BY DEF UnitsOf
<1>5. /\ Cardinality(UnitsOf(of(all))) \in Nat
      /\ IsFiniteSet(UnitsOf(of(some)))
      /\ Cardinality(UnitsOf(of(some))) <= Cardinality(UnitsOf(of(all)))
  BY <1>3, <1>4, FS_Subset, FS_CardinalityType
<1>6. Cardinality(UnitsOf(of(some))) \in Nat
  BY <1>5, FS_CardinalityType
<1>7. /\ CountsOf(some)[a] = Cardinality(UnitsOf(of(some)))
      /\ CountsOf(all)[a] = Cardinality(UnitsOf(of(all)))
  BY DEF CountsOf
<1> QED
  BY <1>5, <1>6, <1>7

\* A goal is met by something: a day without events meets none.
LEMMA MetNeedsEvents ==
    ASSUME NEW goal \in AnyGoal, NEW some, Met(goal, CountsOf(some))
    PROVE  some # {}
<1> SUFFICES ASSUME some = {} PROVE FALSE
  OBVIOUS
<1>1. goal.activityType \in ActivityTypes /\ goal.target \in Nat \ {0}
  BY DEF Met, AnyGoal
<1>2. UnitsOf({e \in some : e.activityType = goal.activityType}) = {}
  BY DEF UnitsOf
<1>3. CountsOf(some)[goal.activityType] = 0
  BY <1>1, <1>2, FS_EmptySet DEF CountsOf
<1> QED
  BY <1>1, <1>3 DEF Met

-----------------------------------------------------------------------------
\* A row holds what some of a day's events give under some goal.
Founded(row, some) == \E T \in SUBSET some : \E goal \in AnyGoal : row = RollupFrom(T, goal)

RowsFounded(table, all) ==
    /\ DOMAIN table \subseteq Int
    /\ \A d \in DOMAIN table : Founded(table[d], EventsOn(all, d))

\* What a request has seen is a past of the events and rows there are.
SightOK(seen, all) ==
    /\ DOMAIN seen = DOMAIN NoSight
    /\ seen.first \in Int
    /\ seen.events \subseteq all
    /\ seen.goals \subseteq GoalRow
    /\ RowsFounded(seen.rollups, all)

RequestOK(request, all) ==
    /\ DOMAIN request = DOMAIN NoRequest
    /\ request.floor \in Int /\ request.to \in Int /\ request.userToday \in Int
    /\ request.kind = "refresh" => request.floor = NoFloor \/ request.floor <= request.to
    /\ SightOK(request.seen, all)

SameGoal(row, goal) == row.activityType = goal.activityType /\ row.target = goal.target

\* A persist under way is its own committed PUT's, on that PUT's day, over
\* events of the day.
PersistOK(p) ==
    /\ DOMAIN persist[p] = DOMAIN NoPersist
    /\ persist[p].phase # "idle" =>
        /\ put[p].phase = "committed" /\ persist[p].day = LocalDayOf(p)
        /\ persist[p].events \subseteq EventsOn(events, persist[p].day)

\* Until another PUT commits, a committed goal stays in its row, from the day of
\* the request on.
GoalLives(p) ==
    put[p].phase = "committed" /\ persist[p].phase \in {"idle", "goal"} /\ ~ persist[p].crossed =>
        \E row \in goals : row.effectiveFrom >= LocalDayOf(p) /\ SameGoal(row, put[p].goal)

\* The goal a persist has read is its own PUT's, or some goal starts later.
GoalSeen(p) ==
    persist[p].phase \in {"write", "reply"} =>
        /\ persist[p].goal \in AnyGoal
        /\ \/ persist[p].crossed
           \/ persist[p].goal = put[p].goal
           \/ \E row \in goals : row.effectiveFrom > LocalDayOf(p)

StoreInv ==
    /\ GoalInv
    /\ events \subseteq Acts /\ IsFiniteSet(events)
    /\ RowsFounded(rollups, events)

RequestsInv == DOMAIN req = Readers /\ \A r \in Readers : RequestOK(req[r], events)

PutsInv ==
    /\ DOMAIN persist = Putters
    /\ \A p \in Putters : PersistOK(p) /\ GoalLives(p) /\ GoalSeen(p)

\* The inductive invariant.
EngineInv == StoreInv /\ RequestsInv /\ PutsInv

\* Events only come: what was founded stays founded.
LEMMA FoundedStays ==
    ASSUME NEW table, NEW all, NEW more, all \subseteq more, RowsFounded(table, all)
    PROVE  RowsFounded(table, more)
<1>1. \A d \in DOMAIN table : EventsOn(all, d) \subseteq EventsOn(more, d)
  BY DEF EventsOn
<1> QED
  BY <1>1 DEF RowsFounded, Founded

LEMMA SightStays ==
    ASSUME NEW seen, NEW all, NEW more, all \subseteq more, SightOK(seen, all)
    PROVE  SightOK(seen, more)
BY FoundedStays DEF SightOK

LEMMA RequestStays ==
    ASSUME NEW request, NEW all, NEW more, all \subseteq more, RequestOK(request, all)
    PROVE  RequestOK(request, more)
BY SightStays DEF RequestOK

\* A freshly computed row is founded.
LEMMA ComputedFounded ==
    ASSUME NEW all, NEW r \in Readers, RequestOK(req[r], all), NEW day \in DaysOfRequest(r)
    PROVE  /\ day \in Int
           /\ Computed(r)[day] = RollupFrom(EventsOn(req[r].seen.events, day),
                                            GoalInForce(req[r].seen.goals, day))
           /\ Founded(Computed(r)[day], EventsOn(all, day))
<1>1. day \in Int
  BY DEF DaysOfRequest, RequestOK, SightOK, Larger
<1>2. Computed(r)[day] = RollupFrom(EventsOn(req[r].seen.events, day),
                                    GoalInForce(req[r].seen.goals, day))
  BY DEF Computed, ComputeRange
<1>3. EventsOn(req[r].seen.events, day) \subseteq EventsOn(all, day)
  BY DEF EventsOn, RequestOK, SightOK
<1>4. GoalInForce(req[r].seen.goals, day) \in AnyGoal
  BY <1>1, InForceIsGoal DEF RequestOK, SightOK
<1> QED
  BY <1>1, <1>2, <1>3, <1>4 DEF Founded

\* So is a table with one more founded row.
LEMMA UpsertFounded ==
    ASSUME NEW table, NEW all, RowsFounded(table, all), NEW day \in Int, NEW row,
           Founded(row, EventsOn(all, day))
    PROVE  RowsFounded(Upsert(table, day, row), all)
<1>1. DOMAIN Upsert(table, day, row) = DOMAIN table \union {day}
  BY DEF Upsert
<1>2. \A d \in DOMAIN table \union {day} :
        Upsert(table, day, row)[d] = IF d = day THEN row ELSE table[d]
  BY DEF Upsert
<1> QED
  BY <1>1, <1>2 DEF RowsFounded

\* A request that is asked, and an idle one, is well formed.
LEMMA AskedOK ==
    ASSUME NEW all, NEW kind, NEW floor \in Int, NEW to \in Int,
           kind = "refresh" => floor = NoFloor \/ floor <= to
    PROVE  /\ RequestOK(Asked(kind, floor, to), all)
           /\ \A day \in Int : RequestOK([Asked(kind, floor, to) EXCEPT !.userToday = day], all)
           /\ RequestOK(NoRequest, all)
<1>1. SightOK(NoSight, all)
  BY DEF SightOK, NoSight, RowsFounded, NoDay
<1>2. /\ DOMAIN Asked(kind, floor, to) = DOMAIN NoRequest
      /\ Asked(kind, floor, to).kind = kind
      /\ Asked(kind, floor, to).floor = floor
      /\ Asked(kind, floor, to).to = to
      /\ Asked(kind, floor, to).userToday = NoDay
      /\ Asked(kind, floor, to).seen = NoSight
      /\ NoRequest.seen = NoSight /\ NoRequest.kind = "idle" /\ NoRequest.floor = NoDay
      /\ NoRequest.to = NoDay /\ NoRequest.userToday = NoDay
      /\ "userToday" \in DOMAIN NoRequest
  BY DEF Asked, NoRequest, NoFloor
<1>3. NoDay \in Int
  BY DEF NoDay
<1>4. ASSUME NEW day \in Int
      PROVE  RequestOK([Asked(kind, floor, to) EXCEPT !.userToday = day], all)
  BY <1>1, <1>2, <1>3 DEF RequestOK
<1> QED
  BY <1>1, <1>2, <1>3, <1>4 DEF RequestOK

\* A step that replaces one request, and may store a founded row.
LEMMA RequestReplaced ==
    ASSUME EngineInv, NEW r \in Readers, NEW request, RequestOK(request, events),
           req' = [req EXCEPT ![r] = request], RowsFounded(rollups', events),
           UNCHANGED <<now, goals, put, events, persist>>
    PROVE  EngineInv'
<1>1. StoreInv'
  BY DEF EngineInv, StoreInv, GoalInv, GoalTypeOK, OneGoalPerStart, HasLatest, Started,
         LocalDayOf
<1>2. RequestsInv'
  BY DEF EngineInv, RequestsInv
<1>3. PutsInv'
  BY DEF EngineInv, PutsInv, PersistOK, GoalLives, GoalSeen, LocalDayOf
<1> QED
  BY <1>1, <1>2, <1>3 DEF EngineInv

\* What a request is asked for.
LEMMA EngineInvStart ==
    ASSUME EngineInv, NEW r \in Readers, ReaderStarts(r)
    PROVE  EngineInv'
<1>1. now \in Int /\ RowsFounded(rollups, events)
  BY DEF EngineInv, StoreInv, GoalInv, GoalTypeOK
<1>2. ASSUME NEW kind, NEW floor \in Int, NEW to \in Int, StartRequest(r, kind, floor, to),
             kind = "refresh" => floor = NoFloor \/ floor <= to
      PROVE  EngineInv'
  BY <1>1, <1>2, AskedOK, RequestReplaced DEF StartRequest
<1>3. ASSUME NEW zone \in Zones, NEW moved \in (-OverrideSlackDays) .. OverrideSlackDays,
             StartToday(r, zone, moved)
      PROVE  EngineInv'
  <2> DEFINE day == LocalDayIn(zone, now) + moved
  <2>1. OverrideSlackDays \in Nat /\ RebuildWindowDays \in Nat
    BY EngineAssumption, IngestAssumption
       DEF EngineAssumption, IngestAssumption, RebuildWindowDays
  <2>2. LocalDayIn(zone, now) \in Int
    BY <1>1, ZonesAreInts, LocalDayIsInt
  <2>3. day \in Int /\ day - RebuildWindowDays \in Int /\ day - RebuildWindowDays <= day
    BY <2>1, <2>2
  <2>4. StartRequest(r, "refresh", day - RebuildWindowDays, day)
    BY <1>3 DEF StartToday
  <2> HIDE DEF day
  <2> QED
    BY <1>2, <2>3, <2>4
<1>4. ASSUME NEW from \in AskedDays, NEW to \in AskedDays, StartHistory(r, from, to)
      PROVE  EngineInv'
  <2>1. from \in Int /\ to \in Int
    BY EngineAssumption DEF EngineAssumption
  <2> QED
    BY <1>2, <1>4, <2>1 DEF StartHistory
<1>5. \A zone \in LatestZones(events) : LocalDayIn(zone, now) \in Int
  <2> SUFFICES ASSUME NEW zone \in LatestZones(events) PROVE LocalDayIn(zone, now) \in Int
    OBVIOUS
  <2>1. \A e \in events : e.zone \in Int
    BY EngineAssumption DEF EngineInv, StoreInv, EngineAssumption, ZoneOffsets
  <2>2. zone \in Int
    BY <2>1 DEF LatestZones
  <2> QED
    BY <1>1, <2>2, LocalDayIsInt
<1>6. ASSUME StartRebuildAll(r)
      PROVE  EngineInv'
  <2>1. PICK zone \in LatestZones(events) :
            StartRequest(r, "refresh", NoFloor, LocalDayIn(zone, now))
    BY <1>6 DEF StartRebuildAll
  <2>2. NoFloor \in Int /\ LocalDayIn(zone, now) \in Int
    BY <1>5 DEF NoFloor, NoDay
  <2> QED
    BY <1>2, <2>1, <2>2
<1>7. ASSUME NEW from \in AskedDays, NEW to \in AskedDays, StartRebuildRange(r, from, to)
      PROVE  EngineInv'
  <2>1. PICK zone \in LatestZones(events) :
          /\ req' = [req EXCEPT ![r] =
                [Asked("rebuild", from,
                       IF to < LocalDayIn(zone, now) THEN to ELSE LocalDayIn(zone, now))
                    EXCEPT !.userToday = LocalDayIn(zone, now)]]
          /\ UNCHANGED <<now, goals, put, events, rollups, streakState, persist, failures>>
    BY <1>7 DEF StartRebuildRange
  <2> DEFINE day == LocalDayIn(zone, now)
  <2>2. from \in Int /\ to \in Int /\ day \in Int
    BY <1>5, EngineAssumption DEF EngineAssumption
  <2>3. day \in Int /\ (IF to < day THEN to ELSE day) \in Int
    BY <2>2
  <2> HIDE DEF day
  <2>4. RequestOK([Asked("rebuild", from, IF to < day THEN to ELSE day)
                      EXCEPT !.userToday = day], events)
    BY <2>2, <2>3, AskedOK
  <2> QED
    BY <1>1, <2>1, <2>4, RequestReplaced DEF day
<1> QED
  BY <1>3, <1>4, <1>6, <1>7 DEF ReaderStarts

\* The steps of a request.
LEMMA EngineInvRequest ==
    ASSUME EngineInv, NEW r \in Readers, RequestStep(r) \/ FailRequest(r)
    PROVE  EngineInv'
<1>1. /\ RequestOK(req[r], events) /\ RowsFounded(rollups, events)
      /\ goals \subseteq GoalRow /\ events \subseteq Acts
      /\ DOMAIN NoRequest = {"kind", "floor", "to", "userToday", "pending", "seen", "written", "streakDue"}
      /\ DOMAIN NoSight = {"first", "events", "goals", "rollups", "longest"}
  BY DEF EngineInv, StoreInv, RequestsInv, GoalInv, GoalTypeOK, NoRequest, NoSight
<1>2. ASSUME NEW query, NEW seen, Answer(r, query, seen), SightOK(seen, events)
      PROVE  EngineInv'
  <2> DEFINE request == [req[r] EXCEPT !.pending = @ \ {query}, !.seen = seen]
  <2>1. RequestOK(request, events)
    BY <1>1, <1>2 DEF RequestOK
  <2>2. req' = [req EXCEPT ![r] = request]
        /\ UNCHANGED <<now, goals, put, events, rollups, streakState, persist, failures>>
    BY <1>2 DEF Answer
  <2> HIDE DEF request
  <2> QED
    BY <1>1, <2>1, <2>2, RequestReplaced
<1>3. SightOK(req[r].seen, events)
  BY <1>1 DEF RequestOK
<1>4. CASE ReadFirst(r)
  <2>1. PICK day \in {e.localDay : e \in events} \union {NoDay} :
            Answer(r, "first", [req[r].seen EXCEPT !.first = day])
    BY <1>4 DEF ReadFirst
  <2>2. day \in Int
    BY <1>1, EngineAssumption DEF EngineAssumption, NoDay
  <2>3. SightOK([req[r].seen EXCEPT !.first = day], events)
    BY <1>1, <1>3, <2>2 DEF SightOK
  <2> QED
    BY <1>2, <2>1, <2>3
<1>5. CASE ReadEvents(r)
  <2> DEFINE found == {e \in events : req[r].floor <= e.localDay /\ e.localDay <= req[r].to}
  <2>1. found \subseteq events
    OBVIOUS
  <2>2. Answer(r, "events", [req[r].seen EXCEPT !.events = found])
    BY <1>5 DEF ReadEvents
  <2> HIDE DEF found
  <2>3. SightOK([req[r].seen EXCEPT !.events = found], events)
    BY <1>1, <1>3, <2>1 DEF SightOK
  <2> QED
    BY <1>2, <2>2, <2>3
<1>6. CASE ReadGoals(r)
  <2>1. Started(goals, req[r].to) \subseteq GoalRow
    BY <1>1 DEF Started
  <2>2. SightOK([req[r].seen EXCEPT !.goals = Started(goals, req[r].to)], events)
    BY <1>1, <1>3, <2>1 DEF SightOK
  <2> QED
    BY <1>2, <1>6, <2>2 DEF ReadGoals
<1>7. CASE ReadRollups(r)
  <2>1. PICK days : /\ days \subseteq DOMAIN rollups
                    /\ Answer(r, "rollups",
                              [req[r].seen EXCEPT !.rollups = [d \in days |-> rollups[d]]])
    BY <1>7 DEF ReadRollups
  <2> DEFINE found == [d \in days |-> rollups[d]]
  <2>2. RowsFounded(found, events)
    BY <1>1, <2>1 DEF RowsFounded
  <2> HIDE DEF found
  <2>3. SightOK([req[r].seen EXCEPT !.rollups = found], events)
    BY <1>1, <1>3, <2>2 DEF SightOK
  <2> QED
    BY <1>2, <2>1, <2>3 DEF found
<1>8. CASE ReadStreak(r)
  <2>1. SightOK([req[r].seen EXCEPT !.longest = streakState.longest], events)
    BY <1>1, <1>3 DEF SightOK
  <2> QED
    BY <1>2, <1>8, <2>1 DEF ReadStreak
<1>9. ASSUME NEW day \in DaysOfRequest(r), WriteRollup(r, day)
      PROVE  EngineInv'
  <2> DEFINE request == [req[r] EXCEPT !.written = @ \union {day}]
  <2>1. RequestOK(request, events)
    BY <1>1 DEF RequestOK
  <2>2. RowsFounded(Upsert(rollups, day, Computed(r)[day]), events)
    BY <1>1, ComputedFounded, UpsertFounded
  <2>3. /\ req' = [req EXCEPT ![r] = request]
        /\ rollups' = Upsert(rollups, day, Computed(r)[day])
        /\ UNCHANGED <<now, goals, put, events, persist>>
    BY <1>9 DEF WriteRollup
  <2> HIDE DEF request
  <2> QED
    BY <2>1, <2>2, <2>3, RequestReplaced
<1>10. CASE BeginRange(r)
  <2> DEFINE start == Larger(req[r].seen.first, req[r].floor)
  <2>1. start \in Int /\ req[r].to \in Int /\ req[r].userToday \in Int /\ NoFloor \in Int
    BY <1>1 DEF RequestOK, SightOK, Larger, NoFloor, NoDay
  <2>2. PICK request \in {[Asked("range", start, req[r].to) EXCEPT !.userToday = req[r].userToday],
                          [Asked("project", NoFloor, req[r].userToday)
                              EXCEPT !.userToday = req[r].userToday]} :
            /\ req' = [req EXCEPT ![r] = request]
            /\ UNCHANGED <<now, goals, put, events, rollups, streakState, persist, failures>>
    BY <1>10 DEF BeginRange
  <2> HIDE DEF start
  <2>3. /\ RequestOK([Asked("range", start, req[r].to) EXCEPT !.userToday = req[r].userToday], events)
        /\ RequestOK([Asked("project", NoFloor, req[r].userToday)
                         EXCEPT !.userToday = req[r].userToday], events)
    <3>1. ASSUME NEW kind, kind # "refresh", NEW floor \in Int, NEW to \in Int
          PROVE  RequestOK([Asked(kind, floor, to) EXCEPT !.userToday = req[r].userToday], events)
      BY <2>1, <3>1, AskedOK
    <3> QED
      BY <2>1, <3>1
  <2> QED
    BY <1>1, <2>2, <2>3, RequestReplaced
<1>11. CASE WriteStreak(r)
  <2> DEFINE request == [req[r] EXCEPT !.streakDue = FALSE]
  <2>1. RequestOK(request, events)
    BY <1>1 DEF RequestOK
  <2>2. req' = [req EXCEPT ![r] = request] /\ UNCHANGED <<now, goals, put, events, rollups, persist>>
    BY <1>11 DEF WriteStreak
  <2> HIDE DEF request
  <2> QED
    BY <1>1, <2>1, <2>2, RequestReplaced
<1>12. CASE Respond(r) \/ FailRequest(r)
  <2>1. PICK request \in {Asked("project", NoFloor, req[r].userToday), NoRequest} :
            /\ req' = [req EXCEPT ![r] = request]
            /\ UNCHANGED <<now, goals, put, events, rollups, streakState, persist>>
    BY <1>12 DEF Respond, FailRequest
  <2>2. req[r].userToday \in Int /\ NoFloor \in Int
    BY <1>1 DEF RequestOK, NoFloor, NoDay
  <2>3. RequestOK(request, events)
    BY <2>1, <2>2, AskedOK
  <2> QED
    BY <1>1, <2>1, <2>3, RequestReplaced
<1> QED
  BY <1>4, <1>5, <1>6, <1>7, <1>8, <1>9, <1>10, <1>11, <1>12 DEF RequestStep

-----------------------------------------------------------------------------
\* The steps of PUT /goal are steps of GoalSetting; every other step leaves the
\* goals, the requests for them and, but for a tick, the clock alone.
LEMMA EngineStepsGoals ==
    ASSUME GoalInv, [EngineNext]_engineVars
    PROVE  [GoalNext]_goalVars
<1>1. ASSUME NEW p \in Putters, FailGoal(p)
      PROVE  GoalNext
  <2>1. put[p].phase \in PutPhases
    BY DEF GoalInv, GoalTypeOK, PutRequest
  <2>2. AbortPut(p) \/ FinishPut(p)
    BY <1>1, <2>1 DEF FailGoal, AbortPut, FinishPut, PutPhases
  <2> QED
    BY <2>2 DEF GoalNext, PutStep
<1>2. ASSUME NEW p \in Putters, GoalStep(p)
      PROVE  [GoalNext]_goalVars
  BY <1>2 DEF GoalStep, GoalTransaction, PersistEvents, PersistGoal, PersistWrite, ReplyGoal,
              GoalNext, PutStep, goalVars
<1>3. ASSUME NEW p \in Putters, NEW zone \in Zones, NEW goal \in GoalChoices,
             StartGoal(p, zone, goal)
      PROVE  GoalNext
  BY <1>3 DEF StartGoal, GoalNext
<1>4. ASSUME NEW r \in Readers, ReaderStarts(r) \/ RequestStep(r) \/ FailRequest(r)
      PROVE  UNCHANGED goalVars
  BY <1>4 DEF ReaderStarts, RequestStep, FailRequest, StartToday, StartHistory, StartRebuildAll,
              StartRebuildRange, StartRequest, ReadFirst, ReadEvents, ReadGoals, ReadRollups,
              ReadStreak, Answer, WriteRollup, BeginRange, WriteStreak, Respond, goalVars
<1>5. ASSUME NEW e \in Acts, Ingest(e)
      PROVE  UNCHANGED goalVars
  BY <1>5 DEF Ingest, goalVars
<1>6. CASE EngineTick
  BY <1>6 DEF EngineTick, GoalNext
<1>7. CASE UNCHANGED engineVars
  BY <1>7 DEF engineVars, goalVars
<1> QED
  BY <1>1, <1>2, <1>3, <1>4, <1>5, <1>6, <1>7 DEF EngineNext

\* A step that changes neither the goals nor the events, and one persist at most.
LEMMA PutReplaced ==
    ASSUME EngineInv, NEW p \in Putters, goals' = goals, events' = events,
           DOMAIN persist' = Putters,
           \A q \in Putters \ {p} : put'[q] = put[q] /\ persist'[q] = persist[q],
           PersistOK(p)', GoalLives(p)', GoalSeen(p)'
    PROVE  PutsInv'
<1>1. ASSUME NEW q \in Putters, q # p
      PROVE  PersistOK(q)' /\ GoalLives(q)' /\ GoalSeen(q)'
  <2>1. put'[q] = put[q] /\ persist'[q] = persist[q] /\ LocalDayOf(q)' = LocalDayOf(q)
    BY <1>1 DEF LocalDayOf
  <2> QED
    BY <2>1 DEF EngineInv, PutsInv, PersistOK, GoalLives, GoalSeen
<1> QED
  BY <1>1 DEF PutsInv

\* A transaction that commits crosses every PUT that is still to read its goal.
LEMMA PutsTransaction ==
    ASSUME EngineInv, NEW p \in Putters, GoalTransaction(p)
    PROVE  PutsInv'
<1>1. GoalInv /\ \A q \in Putters : PersistOK(q) /\ GoalLives(q) /\ GoalSeen(q)
  BY DEF EngineInv, StoreInv, PutsInv
<1>2. events' = events /\ persist' = [q \in Putters |-> [persist[q] EXCEPT !.crossed = @ \/ Crosses(p, q)]]
  BY DEF GoalTransaction
<1>3. put \in [Putters -> PutRequest] /\ goals \in SUBSET GoalRow
      /\ put[p].phase \notin {"idle", "committed"}
  BY <1>1 DEF GoalInv, GoalTypeOK, GoalTransaction, ReadLatest, UpdateInPlace, CloseOpen, Create
<1>4. \A q \in Putters :
        /\ DOMAIN persist'[q] = DOMAIN NoPersist
        /\ persist'[q].phase = persist[q].phase
        /\ persist'[q].day = persist[q].day
        /\ persist'[q].events = persist[q].events
        /\ persist'[q].goal = persist[q].goal
        /\ persist'[q].crossed = (persist[q].crossed \/ Crosses(p, q))
  <2>1. DOMAIN NoPersist = {"phase", "day", "events", "goal", "crossed"}
    BY DEF NoPersist
  <2> QED
    BY <1>1, <1>2, <2>1 DEF PersistOK
<1>5. persist[p].phase = "idle"
  BY <1>1, <1>3 DEF PersistOK
<1>6. \A q \in Putters \ {p} : put'[q] = put[q] /\ LocalDayOf(q)' = LocalDayOf(q)
  <2> SUFFICES ASSUME NEW q \in Putters, q # p
               PROVE  put'[q] = put[q] /\ LocalDayOf(q)' = LocalDayOf(q)
    OBVIOUS
  <2>1. put'[q] = put[q]
    <3>1. CASE ReadLatest(p)
      BY <1>3, <3>1 DEF ReadLatest
    <3>2. CASE UpdateInPlace(p)
      BY <1>3, <3>2 DEF UpdateInPlace
    <3>3. CASE CloseOpen(p)
      BY <1>3, <3>3 DEF CloseOpen
    <3>4. CASE Create(p)
      BY <1>3, <3>4 DEF Create
    <3> QED
      BY <3>1, <3>2, <3>3, <3>4 DEF GoalTransaction
  <2> QED
    BY <2>1 DEF LocalDayOf
<1>7. \A q \in Putters : PersistOK(q)'
  BY <1>1, <1>2, <1>4, <1>5, <1>6 DEF PersistOK
<1>8. ASSUME \A row \in goals : \E h \in goals' : h.effectiveFrom = row.effectiveFrom
      PROVE  \A q \in Putters : GoalSeen(q)'
  <2> SUFFICES ASSUME NEW q \in Putters, persist'[q].phase \in {"write", "reply"}
               PROVE  GoalSeen(q)'
    BY DEF GoalSeen
  <2>1. q # p /\ GoalSeen(q) /\ persist[q].phase \in {"write", "reply"}
    BY <1>1, <1>4, <1>5
  <2>2. put'[q] = put[q] /\ LocalDayOf(q)' = LocalDayOf(q)
    BY <1>6, <2>1
  <2> QED
    BY <1>4, <1>8, <2>1, <2>2 DEF GoalSeen
<1>9. CASE goals' = goals /\ put'[p].phase # "committed"
  <2>1. \A q \in Putters : GoalSeen(q)'
    BY <1>8, <1>9
  <2>2. \A q \in Putters : GoalLives(q)'
    BY <1>1, <1>4, <1>6, <1>9 DEF GoalLives
  <2> QED
    BY <1>2, <1>7, <2>1, <2>2 DEF PutsInv
<1>10. ASSUME put'[p].phase = "committed", GoalLives(p)',
              \A row \in goals : \E h \in goals' : h.effectiveFrom = row.effectiveFrom
       PROVE  PutsInv'
  <2>1. \A q \in Putters : GoalSeen(q)'
    BY <1>8, <1>10
  <2>2. ASSUME NEW q \in Putters, q # p
        PROVE  GoalLives(q)'
    BY <1>4, <1>6, <1>10, <2>2 DEF GoalLives, Crosses
  <2> QED
    BY <1>2, <1>7, <1>10, <2>1, <2>2 DEF PutsInv
<1>11. CASE ReadLatest(p) \/ CloseOpen(p)
  <2>1. goals' = goals /\ put'[p].phase # "committed"
    BY <1>3, <1>11 DEF ReadLatest, CloseOpen, PutRequest
  <2> QED
    BY <1>9, <2>1
<1>12. CASE UpdateInPlace(p)
  <2>1. PICK row \in goals :
          /\ row.effectiveFrom = put[p].latest
          /\ goals' = (goals \ {row}) \union {Updated(p, row)}
    BY <1>12 DEF UpdateInPlace, Updated
  <2>2. put' = [put EXCEPT ![p].phase = "committed"] /\ put[p].phase = "update"
    BY <1>12 DEF UpdateInPlace
  <2>3. /\ put'[p].phase = "committed" /\ put'[p].goal = put[p].goal
        /\ LocalDayOf(p)' = LocalDayOf(p)
    BY <1>3, <2>2 DEF PutRequest, LocalDayOf
  <2>4. put[p].latest >= LocalDayOf(p)
    BY <1>1, <2>2 DEF GoalInv, GoalTypeOK
  <2>5. Updated(p, row) \in goals' /\ row \in GoalRow
    BY <1>3, <2>1
  <2>6. /\ Updated(p, row).effectiveFrom = row.effectiveFrom
        /\ SameGoal(Updated(p, row), put[p].goal)
    BY <2>5 DEF Updated, SameGoal, GoalRow
  <2>7. GoalLives(p)'
    BY <2>1, <2>3, <2>4, <2>5, <2>6 DEF GoalLives, SameGoal
  <2>8. \A g \in goals : \E h \in goals' : h.effectiveFrom = g.effectiveFrom
    BY <2>1, <2>5, <2>6
  <2> QED
    BY <1>10, <2>3, <2>7, <2>8
<1>13. CASE Create(p)
  <2>1. CASE \E row \in goals : row.effectiveFrom = LocalDayOf(p)
    <3>1. goals' = goals /\ put' = [put EXCEPT ![p] = NoPut]
      BY <1>13, <2>1 DEF Create
    <3>2. put'[p].phase # "committed"
      BY <1>3, <3>1 DEF NoPut
    <3> QED
      BY <1>9, <3>1, <3>2
  <2>2. CASE \A row \in goals : row.effectiveFrom # LocalDayOf(p)
    <3>1. /\ goals' = CreatedIn(p) /\ put[p].phase = "create"
          /\ put' = [put EXCEPT ![p].phase = "committed", ![p].closing = {}]
      BY <1>13, <2>2 DEF Create, CreatedIn, Created, Closed
    <3>2. /\ put'[p].phase = "committed" /\ put'[p].goal = put[p].goal
          /\ LocalDayOf(p)' = LocalDayOf(p)
      BY <1>3, <3>1 DEF PutRequest, LocalDayOf
    <3>3. Created(p) \in goals'
      BY <3>1 DEF CreatedIn
    <3>4. Created(p).effectiveFrom = LocalDayOf(p) /\ SameGoal(Created(p), put[p].goal)
      BY DEF Created, SameGoal
    <3>5. LocalDayOf(p) \in Int
      BY <1>1, <1>3, RequestDay DEF GoalInv
    <3>6. GoalLives(p)'
      BY <3>2, <3>3, <3>4, <3>5 DEF GoalLives, SameGoal
    <3>7. \A g \in goals : \E h \in goals' : h.effectiveFrom = g.effectiveFrom
      BY <1>1, <2>2, <3>1, CreatedTable
    <3> QED
      BY <1>10, <3>2, <3>6, <3>7
  <2> QED
    BY <2>1, <2>2
<1> QED
  BY <1>11, <1>12, <1>13 DEF GoalTransaction

\* A persist reads the events of its PUT's day and then the goal in force on it,
\* which is the PUT's own unless some goal starts later.
LEMMA PutsPersist ==
    ASSUME EngineInv, NEW p \in Putters, PersistEvents(p) \/ PersistGoal(p) \/ PersistWrite(p)
    PROVE  PutsInv'
<1>1. /\ GoalInv /\ PersistOK(p) /\ GoalLives(p) /\ GoalSeen(p)
      /\ DOMAIN persist = Putters
      /\ DOMAIN NoPersist = {"phase", "day", "events", "goal", "crossed"}
  BY DEF EngineInv, StoreInv, PutsInv, NoPersist
<1>2. put' = put /\ goals' = goals /\ events' = events /\ LocalDayOf(p)' = LocalDayOf(p)
  BY DEF PersistEvents, PersistGoal, PersistWrite, LocalDayOf
<1>3. ASSUME NEW row, persist' = [persist EXCEPT ![p] = row],
             PersistOK(p)', GoalLives(p)', GoalSeen(p)'
      PROVE  PutsInv'
  BY <1>1, <1>2, <1>3, PutReplaced
<1>4. CASE PersistEvents(p)
  <2> DEFINE found == EventsOn(events, LocalDayOf(p))
             row == [persist[p] EXCEPT !.phase = "goal", !.day = LocalDayOf(p), !.events = found]
  <2>1. persist' = [persist EXCEPT ![p] = row] /\ put[p].phase = "committed" /\ persist[p].phase = "idle"
    BY <1>4 DEF PersistEvents
  <2>2. /\ DOMAIN row = DOMAIN NoPersist /\ row.phase = "goal" /\ row.day = LocalDayOf(p)
        /\ row.events = found /\ row.crossed = persist[p].crossed
    BY <1>1 DEF PersistOK
  <2>3. persist'[p] = row
    BY <1>1, <2>1
  <2> HIDE DEF row
  <2>4. PersistOK(p)'
    BY <1>2, <2>1, <2>2, <2>3 DEF PersistOK
  <2>5. GoalLives(p)' /\ GoalSeen(p)'
    BY <1>1, <1>2, <2>1, <2>2, <2>3 DEF GoalLives, GoalSeen
  <2> QED
    BY <1>3, <2>1, <2>4, <2>5
<1>5. CASE PersistGoal(p)
  <2> DEFINE found == GoalInForce(goals, persist[p].day)
             row == [persist[p] EXCEPT !.phase = "write", !.goal = found]
  <2>1. persist' = [persist EXCEPT ![p] = row] /\ persist[p].phase = "goal"
    BY <1>5 DEF PersistGoal
  <2>2. /\ put[p].phase = "committed" /\ persist[p].day = LocalDayOf(p)
        /\ persist[p].events \subseteq EventsOn(events, persist[p].day)
    BY <1>1, <2>1 DEF PersistOK
  <2>3. /\ DOMAIN row = DOMAIN NoPersist /\ row.phase = "write" /\ row.day = persist[p].day
        /\ row.events = persist[p].events /\ row.goal = found /\ row.crossed = persist[p].crossed
    BY <1>1 DEF PersistOK
  <2>4. persist'[p] = row
    BY <1>1, <2>1
  <2>5. /\ goals \in SUBSET GoalRow /\ OneRowPerStart(goals) /\ LocalDayOf(p) \in Int
        /\ put[p].goal \in GoalChoices
    BY <1>1, <2>2, RequestDay DEF GoalInv, GoalTypeOK, OneGoalPerStart, OneRowPerStart
  <2>6. \A g \in goals : g.effectiveFrom \in Int
    BY <2>5 DEF GoalRow
  <2>7. found \in AnyGoal
    BY <2>2, <2>5, InForceIsGoal
  <2>8. ASSUME ~ persist[p].crossed, \A g \in goals : ~ (g.effectiveFrom > LocalDayOf(p))
        PROVE  found = put[p].goal
    <3>1. PICK g \in goals : g.effectiveFrom >= LocalDayOf(p) /\ SameGoal(g, put[p].goal)
      BY <1>1, <2>1, <2>2, <2>8 DEF GoalLives
    <3>2. g.effectiveFrom = LocalDayOf(p)
      BY <2>5, <2>6, <2>8, <3>1
    <3>3. g \in Started(goals, LocalDayOf(p))
          /\ \A h \in Started(goals, LocalDayOf(p)) : h.effectiveFrom <= g.effectiveFrom
      BY <2>5, <2>6, <3>2 DEF Started
    <3>4. found = [activityType |-> g.activityType, target |-> g.target]
      BY <2>2, <2>5, <3>3, LatestIsInForce
    <3>5. put[p].goal \in [activityType : ActivityTypes, target : Nat \ {0}]
      BY <2>5, GoalAssumption DEF GoalAssumption
    <3>6. put[p].goal = [activityType |-> put[p].goal.activityType, target |-> put[p].goal.target]
      BY <3>5
    <3> QED
      BY <3>1, <3>4, <3>6 DEF SameGoal
  <2> HIDE DEF row, found
  <2>9. PersistOK(p)'
    BY <1>2, <2>2, <2>3, <2>4 DEF PersistOK
  <2>10. GoalLives(p)'
    BY <2>3, <2>4 DEF GoalLives
  <2>11. GoalSeen(p)'
    BY <1>2, <2>3, <2>4, <2>7, <2>8 DEF GoalSeen
  <2> QED
    BY <1>3, <2>1, <2>9, <2>10, <2>11
<1>6. CASE PersistWrite(p)
  <2> DEFINE row == [persist[p] EXCEPT !.phase = "reply"]
  <2>1. persist' = [persist EXCEPT ![p] = row] /\ persist[p].phase = "write"
    BY <1>6 DEF PersistWrite
  <2>2. /\ DOMAIN row = DOMAIN NoPersist /\ row.phase = "reply" /\ row.day = persist[p].day
        /\ row.events = persist[p].events /\ row.goal = persist[p].goal
        /\ row.crossed = persist[p].crossed
    BY <1>1 DEF PersistOK
  <2>3. persist'[p] = row
    BY <1>1, <2>1
  <2> HIDE DEF row
  <2>4. PersistOK(p)' /\ GoalLives(p)' /\ GoalSeen(p)'
    BY <1>1, <1>2, <2>1, <2>2, <2>3 DEF PersistOK, GoalLives, GoalSeen
  <2> QED
    BY <1>3, <2>1, <2>4
<1> QED
  BY <1>4, <1>5, <1>6

\* The steps of PUT /goal, from its start to its answer or its failure.
LEMMA EngineInvGoal ==
    ASSUME EngineInv, GoalInv', NEW p \in Putters,
           GoalStep(p) \/ FailGoal(p)
             \/ (\E zone \in Zones, goal \in GoalChoices : StartGoal(p, zone, goal))
    PROVE  EngineInv'
<1>1. events' = events /\ req' = req
  BY DEF GoalStep, FailGoal, StartGoal, GoalTransaction, PersistEvents, PersistGoal,
         PersistWrite, ReplyGoal
<1>2. RequestsInv'
  BY <1>1 DEF EngineInv, RequestsInv
<1>3. RowsFounded(rollups', events)
  <2>1. CASE PersistWrite(p)
    <3>1. /\ PersistOK(p) /\ GoalSeen(p) /\ RowsFounded(rollups, events) /\ GoalInv
          /\ persist[p].phase = "write"
      BY <2>1 DEF EngineInv, PutsInv, StoreInv, PersistWrite
    <3>2. /\ put[p].phase = "committed" /\ persist[p].day = LocalDayOf(p)
          /\ persist[p].events \subseteq EventsOn(events, persist[p].day)
          /\ persist[p].goal \in AnyGoal
      BY <3>1 DEF PersistOK, GoalSeen
    <3>3. persist[p].day \in Int
      BY <3>1, <3>2, RequestDay DEF GoalInv
    <3>4. Founded(PersistedRow(p), EventsOn(events, persist[p].day))
      BY <3>2 DEF Founded, PersistedRow
    <3>5. rollups' = Upsert(rollups, persist[p].day, PersistedRow(p))
      BY <2>1 DEF PersistWrite
    <3> QED
      BY <3>1, <3>3, <3>4, <3>5, UpsertFounded
  <2>2. CASE rollups' = rollups
    BY <2>2 DEF EngineInv, StoreInv
  <2> QED
    BY <2>1, <2>2 DEF GoalStep, FailGoal, StartGoal, GoalTransaction, PersistEvents, PersistGoal,
                      ReplyGoal
<1>4. StoreInv'
  BY <1>1, <1>3 DEF EngineInv, StoreInv
<1>5. ASSUME put[p].phase = "idle" \/ put'[p].phase = "idle", put'[p].phase # "committed",
             goals' = goals, \A q \in Putters \ {p} : put'[q] = put[q] /\ persist'[q] = persist[q],
             DOMAIN persist' = Putters, persist'[p].phase = "idle",
             DOMAIN persist'[p] = DOMAIN NoPersist
      PROVE  PutsInv'
  <2>1. PersistOK(p)' /\ GoalLives(p)' /\ GoalSeen(p)'
    BY <1>5 DEF PersistOK, GoalLives, GoalSeen
  <2> QED
    BY <1>1, <1>5, <2>1, PutReplaced
<1>6. /\ DOMAIN persist = Putters /\ \A q \in Putters : DOMAIN persist[q] = DOMAIN NoPersist
      /\ put \in [Putters -> PutRequest] /\ NoPersist.phase = "idle" /\ NoPut.phase = "idle"
  BY DEF EngineInv, PutsInv, PersistOK, StoreInv, GoalInv, GoalTypeOK, NoPersist, NoPut
<1>7. CASE FailGoal(p) \/ ReplyGoal(p)
  <2>1. /\ put' = [put EXCEPT ![p] = NoPut] /\ persist' = [persist EXCEPT ![p] = NoPersist]
        /\ goals' = goals
    BY <1>7 DEF FailGoal, ReplyGoal, FinishPut
  <2>2. PutsInv'
    BY <1>5, <1>6, <2>1
  <2> QED
    BY <1>2, <1>4, <2>2 DEF EngineInv
<1>8. ASSUME NEW zone \in Zones, NEW goal \in GoalChoices, StartGoal(p, zone, goal)
      PROVE  EngineInv'
  <2> DEFINE request == [NoPut EXCEPT !.phase = "read", !.at = now, !.zone = zone, !.goal = goal]
  <2>1. /\ put' = [put EXCEPT ![p] = request] /\ persist' = persist /\ goals' = goals
        /\ put[p].phase = "idle" /\ persist[p].phase = "idle"
    BY <1>8 DEF StartGoal, StartPut
  <2>2. request.phase = "read"
    BY DEF NoPut
  <2> HIDE DEF request
  <2>3. PutsInv'
    BY <1>5, <1>6, <2>1, <2>2
  <2> QED
    BY <1>2, <1>4, <2>3 DEF EngineInv
<1>9. CASE GoalTransaction(p) \/ PersistEvents(p) \/ PersistGoal(p) \/ PersistWrite(p)
  BY <1>2, <1>4, <1>9, PutsTransaction, PutsPersist DEF EngineInv
<1> QED
  BY <1>7, <1>8, <1>9 DEF GoalStep

\* An event stored leaves every past a past.
LEMMA EngineInvIngest ==
    ASSUME EngineInv, NEW e \in Acts, Ingest(e)
    PROVE  EngineInv'
<1>1. events' = events \union {e} /\ UNCHANGED <<now, goals, put, rollups, req, persist>>
  BY DEF Ingest
<1>2. events \subseteq events'
  BY <1>1
<1>3. StoreInv'
  <2>1. IsFiniteSet(events')
    BY <1>1, FS_AddElement DEF EngineInv, StoreInv
  <2>2. RowsFounded(rollups, events')
    BY <1>2, FoundedStays DEF EngineInv, StoreInv
  <2> QED
    BY <1>1, <2>1, <2>2 DEF EngineInv, StoreInv, GoalInv, GoalTypeOK, OneGoalPerStart, HasLatest,
                            Started, LocalDayOf
<1>4. RequestsInv'
  <2>1. \A r \in Readers : RequestOK(req[r], events')
    BY <1>2, RequestStays DEF EngineInv, RequestsInv
  <2> QED
    BY <1>1, <2>1 DEF EngineInv, RequestsInv
<1>5. PutsInv'
  <2>1. \A d : EventsOn(events, d) \subseteq EventsOn(events', d)
    BY <1>2 DEF EventsOn
  <2> QED
    BY <1>1, <2>1 DEF EngineInv, PutsInv, PersistOK, GoalLives, GoalSeen, LocalDayOf
<1> QED
  BY <1>3, <1>4, <1>5 DEF EngineInv

\* No step of the engine leaves the inductive invariant.
LEMMA EngineInvNext == EngineInv /\ [EngineNext]_engineVars => EngineInv'
<1> SUFFICES ASSUME EngineInv, [EngineNext]_engineVars PROVE EngineInv'
  OBVIOUS
<1>1. GoalInv'
  BY EngineStepsGoals, GoalInvNext DEF EngineInv, StoreInv
<1>2. ASSUME UNCHANGED <<goals, put, events, rollups, req, persist>>
      PROVE  EngineInv'
  BY <1>1, <1>2 DEF EngineInv, StoreInv, RequestsInv, PutsInv, PersistOK, GoalLives, GoalSeen,
                    LocalDayOf
<1>3. CASE EngineTick
  BY <1>2, <1>3 DEF EngineTick, Tick
<1>4. ASSUME NEW e \in Acts, Ingest(e)
      PROVE  EngineInv'
  BY <1>4, EngineInvIngest
<1>5. ASSUME NEW r \in Readers, ReaderStarts(r) \/ RequestStep(r) \/ FailRequest(r)
      PROVE  EngineInv'
  BY <1>5, EngineInvStart, EngineInvRequest
<1>6. ASSUME NEW p \in Putters,
             GoalStep(p) \/ FailGoal(p)
               \/ (\E zone \in Zones, goal \in GoalChoices : StartGoal(p, zone, goal))
      PROVE  EngineInv'
  BY <1>1, <1>6, EngineInvGoal
<1>7. CASE UNCHANGED engineVars
  BY <1>2, <1>7 DEF engineVars
<1> QED
  BY <1>3, <1>4, <1>5, <1>6, <1>7 DEF EngineNext

\* Nothing has been seen, stored or set but the goals of before.
LEMMA EngineInvInit == EngineInit => EngineInv
<1> SUFFICES ASSUME EngineInit PROVE EngineInv
  OBVIOUS
<1>1. GoalInv
  <2>1. NoPut \in PutRequest /\ NoPut.phase = "idle"
    BY NoPutIsRequest DEF NoPut
  <2>2. now \in Nat /\ goals \in SUBSET GoalRow
    BY CalendarAssumption, EngineAssumption
       DEF EngineInit, CalendarAssumption, EngineAssumption
  <2>3. GoalTypeOK
    BY <2>1, <2>2 DEF EngineInit, GoalTypeOK
  <2>4. OneGoalPerStart
    BY EngineAssumption DEF EngineInit, EngineAssumption, OneGoalPerStart
  <2> QED
    BY <2>2, <2>3, <2>4, RowsHaveLatest DEF GoalInv
<1>2. StoreInv
  BY <1>1, FS_EmptySet DEF EngineInit, StoreInv, RowsFounded
<1>3. RequestsInv
  <2>1. RequestOK(NoRequest, events)
    BY AskedOK
  <2> QED
    BY <2>1 DEF EngineInit, RequestsInv
<1>4. PutsInv
  <2>1. NoPersist.phase = "idle" /\ NoPut.phase = "idle"
    BY DEF NoPersist, NoPut
  <2> QED
    BY <2>1 DEF EngineInit, PutsInv, PersistOK, GoalLives, GoalSeen
<1> QED
  BY <1>2, <1>3, <1>4 DEF EngineInv

\* Every behaviour of the engine stays within the inductive invariant.
THEOREM EngineInvariance == EngineSpec => []EngineInv
BY EngineInvInit, EngineInvNext, PTL DEF EngineSpec

-----------------------------------------------------------------------------
\* Founded rows count no more than their day's events give.
LEMMA FoundedNeverOvercounts == EngineInv => NeverOvercounts
<1> SUFFICES ASSUME EngineInv, NEW d \in DOMAIN rollups, NEW a \in ActivityTypes
             PROVE  rollups[d].counts[a] <= CountsOf(EventsOn(events, d))[a]
  BY DEF NeverOvercounts
<1>1. events \in SUBSET Acts /\ IsFiniteSet(events) /\ Founded(rollups[d], EventsOn(events, d))
  BY DEF EngineInv, StoreInv, RowsFounded
<1>2. PICK T \in SUBSET EventsOn(events, d) : rollups[d].counts = CountsOf(T)
  BY <1>1 DEF Founded, RollupFrom
<1>3. EventsOn(events, d) \in SUBSET Acts /\ IsFiniteSet(EventsOn(events, d))
  BY <1>1, FS_Subset DEF EventsOn
<1> QED
  BY <1>2, <1>3, CountsGrow

\* However many requests and uploads overlap, fail or repeat, no row counts a
\* quantity that was not recorded for its day: no request adds to a row, each
\* recomputes it from events that are there.
THEOREM RowsNeverOvercount == EngineSpec => []NeverOvercounts
BY FoundedNeverOvercounts, EngineInvariance, PTL

\* What a PUT /goal answers is what it has stored, however many PUTs, reads and
\* uploads surround it, unless another PUT commits before it reads its goal.
THEOREM RepliesAreStored == EngineSpec => []GoalReplyIsStored
<1>1. EngineInv => GoalReplyIsStored
  <2> SUFFICES ASSUME EngineInv, NEW p \in Putters,
                      persist[p].phase = "reply", ~ persist[p].crossed,
                      \A row \in goals : row.effectiveFrom <= LocalDayOf(p)
               PROVE  GoalReplyMet(p) = PersistedRow(p).goalMet
    BY DEF GoalReplyIsStored
  <2>1. GoalSeen(p) /\ PersistOK(p) /\ GoalInv
    BY DEF EngineInv, PutsInv, StoreInv
  <2>2. put[p].phase = "committed"
    BY <2>1 DEF PersistOK
  <2>3. LocalDayOf(p) \in Int /\ \A row \in goals : row.effectiveFrom \in Int
    BY <2>1, <2>2, RequestDay DEF GoalInv, GoalTypeOK, GoalRow
  <2>4. persist[p].goal = put[p].goal
    BY <2>1, <2>3 DEF GoalSeen
  <2> QED
    BY <2>4 DEF GoalReplyMet, PersistedRow, RollupFrom
<1> QED
  BY <1>1, EngineInvariance, PTL

\* The days a request's streak counts.
MetDays(persisted, computed, today) ==
    {d \in DOMAIN persisted \union DOMAIN computed :
        (IF d \in DOMAIN computed THEN computed[d] ELSE persisted[d]).goalMet /\ d <= today}

\* A streak is that of its met days.
LEMMA StreakOfMetDays ==
    ASSUME NEW today, NEW persisted, NEW computed, NEW longest
    PROVE  /\ StreakFrom(today, persisted, computed, longest).current
                = ComputeStreak(MetDays(persisted, computed, today), today).current
           /\ StreakFrom(today, persisted, computed, longest).lastGoalMetDay
                = ComputeStreak(MetDays(persisted, computed, today), today).lastGoalMetDay
<1> DEFINE streak == ComputeStreak(MetDays(persisted, computed, today), today)
<1>1. StreakFrom(today, persisted, computed, longest)
        = [streak EXCEPT !.longest = Larger(streak.longest, longest)]
  BY DEF StreakFrom, MetDays
<1>2. DOMAIN streak = {"current", "longest", "lastGoalMetDay", "freezesLeft", "freezeResetOn"}
  BY DEF ComputeStreak
<1> HIDE DEF streak
<1>3. ASSUME NEW v
      PROVE  /\ [streak EXCEPT !.longest = v].current = streak.current
             /\ [streak EXCEPT !.longest = v].lastGoalMetDay = streak.lastGoalMetDay
  BY <1>2
<1> QED
  BY <1>1, <1>3 DEF streak

\* The last met day of a streak.
LEMMA LastOfStreak ==
    ASSUME NEW metDays, NEW today
    PROVE  ComputeStreak(metDays, today).lastGoalMetDay
                = IF metDays = {} THEN NoDay ELSE Latest(metDays)
BY DEF ComputeStreak

\* The streak of a /today counts today if and only if the /today says its goal
\* is met, whatever was written between the request's queries.
THEOREM TodayCounts == EngineSpec => []MetIffCounted
<1>1. EngineInv => MetIffCounted
  <2> SUFFICES ASSUME EngineInv, NEW r \in Readers, Ready(r), req[r].kind = "refresh",
                      req[r].seen.first \in 0 .. req[r].to
               PROVE  TodayRow(r).goalMet <=> StreakOf(r).lastGoalMetDay = req[r].to
    BY DEF MetIffCounted
  <2> DEFINE today == req[r].to
             met == MetDays(req[r].seen.rollups, Computed(r), today)
  <2>1. RequestOK(req[r], events)
    BY DEF EngineInv, RequestsInv
  <2>2. today \in Nat /\ req[r].floor \in Int /\ req[r].seen.first # NoDay
        /\ req[r].seen.first \in Int /\ req[r].seen.first <= today /\ req[r].floor <= today
    BY <2>1 DEF RequestOK, SightOK, NoDay, NoFloor
  <2>3. today \in DaysOfRequest(r) /\ DaysOfRequest(r) \subseteq Int
    BY <2>2 DEF DaysOfRequest, Larger
  <2>4. DOMAIN Computed(r) = DaysOfRequest(r)
    BY DEF Computed, ComputeRange
  <2>5. TodayRow(r) = Computed(r)[today]
    BY <2>3 DEF TodayRow
  <2>6. met \in SUBSET Int /\ (\A d \in met : d <= today)
    BY <2>1, <2>3, <2>4 DEF MetDays, RequestOK, SightOK, RowsFounded
  <2>7. today \in met <=> TodayRow(r).goalMet
    BY <2>2, <2>3, <2>4, <2>5 DEF MetDays
  <2>8. StreakOf(r).lastGoalMetDay = IF met = {} THEN NoDay ELSE Latest(met)
    BY StreakOfMetDays, LastOfStreak DEF StreakOf
  <2> HIDE DEF met
  <2>9. met # {} => Latest(met) \in met /\ \A d \in met : d <= Latest(met)
    BY <2>2, <2>6, LatestOf
  <2>10. CASE met = {}
    BY <2>2, <2>7, <2>8, <2>10 DEF NoDay
  <2>11. CASE met # {}
    <3>1. ASSUME today \in met PROVE Latest(met) = today
      <4>1. Latest(met) \in Int /\ Latest(met) <= today /\ today <= Latest(met)
        BY <2>6, <2>9, <2>11, <3>1
      <4> QED
        BY <2>2, <4>1
    <3> QED
      BY <2>7, <2>8, <2>9, <2>11, <3>1
  <2> QED
    BY <2>10, <2>11
<1> QED
  BY <1>1, EngineInvariance, PTL

\* Days below the floor of a /today keep counting: where the rows below it are
\* what their events give, the bounded rebuild reports the streak of a rebuild
\* of everything.
THEOREM OldRowsCount == EngineSpec => []OldRowsStillCount
<1>1. EngineInv => OldRowsStillCount
  <2> SUFFICES ASSUME EngineInv, NEW r \in Readers, Ready(r), req[r].kind = "refresh", SawAll(r),
                      \A e \in events : e.localDay < req[r].floor =>
                          /\ e.localDay \in DOMAIN req[r].seen.rollups
                          /\ req[r].seen.rollups[e.localDay] = ExactRow(e.localDay)
               PROVE  StreakOf(r).current = FullStreak(req[r].to).current
    BY DEF OldRowsStillCount
  <2> DEFINE today == req[r].to
             sight == req[r].seen
             days == {e.localDay : e \in events}
             every == ComputeRange(events, goals, days)
             met == MetDays(sight.rollups, Computed(r), today)
             full == MetDays(<<>>, every, today)
  <2>1. /\ RequestOK(req[r], events) /\ goals \in SUBSET GoalRow
        /\ \A e \in events : e.localDay \in Nat
    BY EngineAssumption
       DEF EngineInv, StoreInv, RequestsInv, GoalInv, GoalTypeOK, EngineAssumption
  <2>2. today \in Int /\ req[r].floor \in Int /\ sight.first \in Int
        /\ DOMAIN sight.rollups \subseteq Int
    BY <2>1 DEF RequestOK, SightOK, RowsFounded
  <2>3. DOMAIN Computed(r) = DaysOfRequest(r) /\ DaysOfRequest(r) \subseteq Int
    BY <2>2 DEF Computed, ComputeRange, DaysOfRequest, Larger
  <2>4. \A d \in DaysOfRequest(r) : req[r].floor <= d /\ d <= today
    BY <2>2 DEF DaysOfRequest, Larger
  <2>5. \A e \in events : e.localDay <= today /\ req[r].floor <= e.localDay =>
            e.localDay \in DaysOfRequest(r)
    BY <2>1, <2>2 DEF SawAll, DaysOfRequest, Larger
  <2>6. ASSUME NEW d \in DaysOfRequest(r)
        PROVE  Computed(r)[d] = ExactRow(d)
    <3>1. Computed(r)[d] = RollupFrom(EventsOn(sight.events, d), GoalInForce(sight.goals, d))
      BY <2>6 DEF Computed, ComputeRange
    <3>2. EventsOn(sight.events, d) = EventsOn(events, d)
      BY <2>4 DEF EventsOn, SawAll
    <3>3. GoalInForce(sight.goals, d) = GoalInForce(goals, d)
      BY <2>1, <2>2, <2>3, <2>4, StartedByLater DEF SawAll
    <3> QED
      BY <3>1, <3>2, <3>3 DEF ExactRow
  <2>7. ASSUME NEW d \in Int, NEW row, Founded(row, EventsOn(events, d)), row.goalMet
        PROVE  d \in days
    <3>1. PICK T \in SUBSET EventsOn(events, d), goal \in AnyGoal : row = RollupFrom(T, goal)
      BY <2>7 DEF Founded
    <3>2. Met(goal, CountsOf(T))
      BY <2>7, <3>1 DEF RollupFrom
    <3>3. T # {}
      BY <3>2, MetNeedsEvents
    <3> QED
      BY <3>1, <3>3 DEF EventsOn
  <2>8. \A d \in DOMAIN sight.rollups : Founded(sight.rollups[d], EventsOn(events, d))
    BY <2>1 DEF RequestOK, SightOK, RowsFounded
  <2>9. \A d \in DaysOfRequest(r) : Founded(Computed(r)[d], EventsOn(events, d))
    BY <2>1, ComputedFounded
  <2>10. DOMAIN every = days /\ \A d \in days : every[d] = ExactRow(d)
    BY DEF ComputeRange, ExactRow
  <2>11. ASSUME NEW d \in met
         PROVE  d \in full
    <3>1. CASE d \in DaysOfRequest(r)
      <4>1. Computed(r)[d].goalMet /\ d <= today /\ d \in Int
        BY <2>3, <2>11, <3>1 DEF MetDays
      <4>2. d \in days
        BY <2>7, <2>9, <3>1, <4>1
      <4> QED
        BY <2>6, <2>10, <3>1, <4>1, <4>2 DEF MetDays
    <3>2. CASE d \notin DaysOfRequest(r)
      <4>1. d \in DOMAIN sight.rollups /\ sight.rollups[d].goalMet /\ d <= today /\ d \in Int
        BY <2>2, <2>3, <2>11, <3>2 DEF MetDays
      <4>2. d \in days
        BY <2>7, <2>8, <4>1
      <4>3. d < req[r].floor
        BY <2>2, <2>5, <3>2, <4>1, <4>2
      <4>4. sight.rollups[d] = ExactRow(d)
        BY <4>2, <4>3
      <4> QED
        BY <2>10, <4>1, <4>2, <4>4 DEF MetDays
    <3> QED
      BY <3>1, <3>2
  <2>12. ASSUME NEW d \in full
         PROVE  d \in met
    <3>1. d \in days /\ ExactRow(d).goalMet /\ d <= today /\ d \in Int
      BY <2>1, <2>10, <2>12 DEF MetDays
    <3>2. CASE req[r].floor <= d
      <4>1. d \in DaysOfRequest(r)
        BY <2>5, <3>1, <3>2
      <4> QED
        BY <2>3, <2>6, <3>1, <4>1 DEF MetDays
    <3>3. CASE d < req[r].floor
      <4>1. d \notin DaysOfRequest(r)
        BY <2>2, <2>4, <3>1, <3>3
      <4>2. d \in DOMAIN sight.rollups /\ sight.rollups[d] = ExactRow(d)
        BY <3>1, <3>3
      <4> QED
        BY <2>3, <3>1, <4>1, <4>2 DEF MetDays
    <3> QED
      BY <2>2, <3>1, <3>2, <3>3
  <2>13. met = full
    BY <2>11, <2>12
  <2>14. StreakOf(r).current = ComputeStreak(met, today).current
    BY StreakOfMetDays DEF StreakOf
  <2>15. FullStreak(today).current = ComputeStreak(full, today).current
    BY StreakOfMetDays DEF FullStreak
  <2> HIDE DEF met, full
  <2> QED
    BY <2>13, <2>14, <2>15
<1> QED
  BY <1>1, EngineInvariance, PTL

-----------------------------------------------------------------------------
(* NightlyJob                                                               *)

\* What each phase of a pass has established.
PassOK(j) ==
    /\ DOMAIN pass[j] = DOMAIN NoPass
    /\ pass[j].userToday \in Int /\ pass[j].day \in Int /\ pass[j].toClose \subseteq Int
    /\ pass[j].stored \subseteq events
    /\ pass[j].phase \in {"goal", "write"} => pass[j].events \subseteq EventsOn(events, pass[j].day)
    /\ pass[j].phase = "write" => pass[j].goal \in AnyGoal
    /\ pass[j].phase \notin {"idle", "window"} =>
        /\ pass[j].window \subseteq events
        /\ \A e \in pass[j].window : e.localDay >= WindowFrom(j)
        /\ \A e \in pass[j].stored : e.localDay >= WindowFrom(j) => e \in pass[j].window
    /\ pass[j].phase \in {"days", "goal", "write"} /\ pass[j].stored = events =>
        \E priorZone \in PriorZones(j) : pass[j].closed \in Closures(j, priorZone)

PassInv == DOMAIN pass = Passes /\ \A j \in Passes : PassOK(j)

\* The inductive invariant.
NightlyInv == EngineInv /\ PassInv

\* The fields of a pass, and an idle one.
LEMMA PassFields ==
    /\ DOMAIN NoPass = {"phase", "at", "stored", "userToday", "window", "closed", "toClose",
                        "day", "events", "goal", "rows", "longest", "pending"}
    /\ NoPass.phase = "idle" /\ NoPass.userToday = NoDay /\ NoPass.day = NoDay
    /\ NoPass.toClose = {} /\ NoPass.stored = {}
    /\ NoDay \in Int
BY DEF NoPass, NoDay

\* A step that replaces one pass and leaves the log alone.
LEMMA PassReplaced ==
    ASSUME NightlyInv, NEW j \in Passes, NEW record, pass' = [pass EXCEPT ![j] = record],
           events' = events, PassOK(j)'
    PROVE  PassInv'
<1>1. DOMAIN pass' = Passes
  BY DEF NightlyInv, PassInv
<1>2. ASSUME NEW i \in Passes, i # j
      PROVE  PassOK(i)'
  <2>1. pass'[i] = pass[i]
    BY <1>2 DEF NightlyInv, PassInv
  <2>2. PassOK(i)
    BY DEF NightlyInv, PassInv
  <2> QED
    BY <2>1, <2>2 DEF PassOK, WindowFrom, PriorZones, Closures
<1> QED
  BY <1>1, <1>2 DEF PassInv

\* A step of the engine keeps its own invariant; a pass stays as it is, and no
\* longer has seen all there is once an event comes.
LEMMA PassInvEngine ==
    ASSUME NightlyInv, pass' = pass,
           events' = events \/ (\E e \in Acts : Ingest(e))
    PROVE  PassInv'
<1> SUFFICES ASSUME NEW j \in Passes PROVE PassOK(j)'
  BY DEF NightlyInv, PassInv
<1>1. PassOK(j)
  BY DEF NightlyInv, PassInv
<1>2. CASE events' = events
  BY <1>1, <1>2 DEF PassOK, WindowFrom, PriorZones, Closures
<1>3. ASSUME NEW e \in Acts, Ingest(e)
      PROVE  PassOK(j)'
  <2>1. events' = events \union {e} /\ e \notin events
    BY <1>3 DEF Ingest
  <2>2. pass[j].stored # events'
    BY <1>1, <2>1 DEF PassOK
  <2>3. \A day : EventsOn(events, day) \subseteq EventsOn(events', day)
    BY <2>1 DEF EventsOn
  <2>4. WindowFrom(j)' = WindowFrom(j)
    BY DEF WindowFrom
  <2> QED
    BY <1>1, <2>1, <2>2, <2>3, <2>4 DEF PassOK
<1> QED
  BY <1>2, <1>3

\* A step of a pass changes no table but the rollups, which stay founded, and
\* the streak.
LEMMA EngineInvPass ==
    ASSUME NightlyInv, UNCHANGED <<now, goals, put, events, req, persist>>,
           RowsFounded(rollups', events)
    PROVE  EngineInv'
<1>1. GoalInv'
  BY DEF NightlyInv, EngineInv, StoreInv, GoalInv, GoalTypeOK, OneGoalPerStart, HasLatest,
         Started, LocalDayOf
<1> QED
  BY <1>1 DEF NightlyInv, EngineInv, StoreInv, RequestsInv, PutsInv, PersistOK, GoalLives,
              GoalSeen, LocalDayOf

\* A pass begins with the log as it is, from the user's today.
LEMMA PassInvStart ==
    ASSUME NightlyInv, NEW j \in Passes, StartPass(j)
    PROVE  PassInv'
<1>1. PICK zone \in LatestZones(events) :
        pass' = [pass EXCEPT ![j] =
            [NoPass EXCEPT !.phase = "window", !.at = now, !.stored = events,
                           !.userToday = LocalDayIn(zone, now)]]
  BY DEF StartPass
<1>2. events' = events
  BY DEF StartPass, engineVars
<1>3. LocalDayIn(zone, now) \in Int
  <2>1. \A e \in events : e.zone \in Int
    BY EngineAssumption DEF NightlyInv, EngineInv, StoreInv, EngineAssumption, ZoneOffsets
  <2>2. zone \in Int /\ now \in Int
    BY <2>1 DEF LatestZones, NightlyInv, EngineInv, StoreInv, GoalInv, GoalTypeOK
  <2> QED
    BY <2>2, LocalDayIsInt
<1> DEFINE record == [NoPass EXCEPT !.phase = "window", !.at = now, !.stored = events,
                                    !.userToday = LocalDayIn(zone, now)]
<1>4. /\ DOMAIN record = DOMAIN NoPass /\ record.phase = "window" /\ record.stored = events
      /\ record.userToday = LocalDayIn(zone, now) /\ record.day = NoDay /\ record.toClose = {}
  BY PassFields
<1>5. pass'[j] = record
  BY <1>1 DEF NightlyInv, PassInv
<1>6. pass' = [pass EXCEPT ![j] = record]
  BY <1>1
<1> HIDE DEF record
<1>7. PassOK(j)'
  BY <1>2, <1>3, <1>4, <1>5, PassFields DEF PassOK
<1> QED
  BY <1>2, <1>6, <1>7, PassReplaced

\* The queries of a pass, and what it makes of them.
LEMMA PassInvStep ==
    ASSUME NightlyInv, NEW j \in Passes, PassStep(j) \/ PassFail(j)
    PROVE  PassInv'
<1>1. /\ PassOK(j) /\ DOMAIN pass = Passes /\ events \in SUBSET Acts
      /\ goals \in SUBSET GoalRow
  BY DEF NightlyInv, PassInv, EngineInv, StoreInv, GoalInv, GoalTypeOK
<1>2. events' = events /\ goals' = goals
  BY DEF PassStep, PassFail, PassReadWindow, PassReadPrior, PassEvents, PassGoal, PassWrite,
         PassDropFuture, PassReadRows, PassReadLongest, PassFinish, engineVars, tables
<1>3. ASSUME NEW record, pass' = [pass EXCEPT ![j] = record],
             pass'[j] = record => PassOK(j)'
      PROVE  PassInv'
  BY <1>1, <1>2, <1>3, PassReplaced
<1>4. CASE PassReadWindow(j)
  <2> DEFINE found == {e \in events : e.localDay >= WindowFrom(j)}
             record == [pass[j] EXCEPT !.window = found, !.phase = "prior"]
  <2>1. pass' = [pass EXCEPT ![j] = record]
    BY <1>4 DEF PassReadWindow
  <2>2. /\ DOMAIN record = DOMAIN NoPass /\ record.window = found /\ record.phase = "prior"
        /\ record.stored = pass[j].stored /\ record.userToday = pass[j].userToday
        /\ record.day = pass[j].day /\ record.toClose = pass[j].toClose
    BY <1>1, PassFields DEF PassOK
  <2> HIDE DEF record
  <2>3. ASSUME pass'[j] = record PROVE PassOK(j)'
    BY <1>1, <1>2, <2>2, <2>3 DEF PassOK, WindowFrom
  <2> QED
    BY <1>3, <2>1, <2>3
<1>5. CASE PassReadPrior(j)
  <2>0. PICK priorZone \in PriorZones(j) : \E closed \in Closures(j, priorZone) :
            pass' = [pass EXCEPT ![j].closed = closed, ![j].toClose = closed, ![j].phase = "days"]
    BY <1>5 DEF PassReadPrior
  <2>1. PICK closed \in Closures(j, priorZone) :
            pass' = [pass EXCEPT ![j].closed = closed, ![j].toClose = closed, ![j].phase = "days"]
    BY <2>0
  <2> DEFINE record == [pass[j] EXCEPT !.closed = closed, !.toClose = closed, !.phase = "days"]
  <2>2. pass' = [pass EXCEPT ![j] = record]
    BY <2>1
  <2>3. /\ DOMAIN record = DOMAIN NoPass /\ record.phase = "days" /\ record.closed = closed
        /\ record.toClose = closed /\ record.stored = pass[j].stored /\ record.at = pass[j].at
        /\ record.userToday = pass[j].userToday /\ record.day = pass[j].day
        /\ record.window = pass[j].window
    BY <1>1, PassFields DEF PassOK
  <2>4. closed \subseteq Int
    BY DEF Closures
  <2>5. pass[j].phase = "prior"
    BY <1>5 DEF PassReadPrior
  <2> HIDE DEF record
  <2>6. ASSUME pass'[j] = record PROVE PassOK(j)'
    <3>1. WindowFrom(j)' = WindowFrom(j) /\ PriorZones(j)' = PriorZones(j)
          /\ Closures(j, priorZone)' = Closures(j, priorZone)
      BY <1>2, <2>3, <2>6 DEF WindowFrom, PriorZones, Closures
    <3>2. \E zone \in PriorZones(j)' : pass'[j].closed \in Closures(j, zone)'
      BY <2>3, <2>6, <3>1
    <3> QED
      BY <1>1, <1>2, <2>3, <2>4, <2>5, <2>6, <3>1, <3>2 DEF PassOK
  <2> QED
    BY <1>3, <2>2, <2>6
<1>6. CASE PassEvents(j)
  <2>1. PICK day \in pass[j].toClose :
          pass' = [pass EXCEPT ![j].day = day, ![j].events = EventsOn(events, day),
                               ![j].toClose = @ \ {day}, ![j].phase = "goal"]
    BY <1>6 DEF PassEvents
  <2> DEFINE found == EventsOn(events, day)
             record == [pass[j] EXCEPT !.day = day, !.events = found,
                                       !.toClose = @ \ {day}, !.phase = "goal"]
  <2>2. pass' = [pass EXCEPT ![j] = record] /\ pass[j].phase = "days"
    BY <1>6, <2>1 DEF PassEvents
  <2>3. /\ DOMAIN record = DOMAIN NoPass /\ record.phase = "goal" /\ record.closed = pass[j].closed
        /\ record.toClose \subseteq pass[j].toClose /\ record.stored = pass[j].stored
        /\ record.at = pass[j].at /\ record.userToday = pass[j].userToday /\ record.day = day
        /\ record.window = pass[j].window /\ record.events = found
    BY <1>1, PassFields DEF PassOK
  <2> HIDE DEF record, found
  <2>4. ASSUME pass'[j] = record PROVE PassOK(j)'
    <3>1. WindowFrom(j)' = WindowFrom(j) /\ PriorZones(j)' = PriorZones(j)
          /\ \A zone : Closures(j, zone)' = Closures(j, zone)
      BY <1>2, <2>3, <2>4 DEF WindowFrom, PriorZones, Closures
    <3> QED
      BY <1>1, <1>2, <2>2, <2>3, <2>4, <3>1 DEF PassOK, found
  <2> QED
    BY <1>3, <2>2, <2>4
<1>7. CASE PassGoal(j)
  <2> DEFINE found == GoalInForce(goals, pass[j].day)
             record == [pass[j] EXCEPT !.goal = found, !.phase = "write"]
  <2>1. pass' = [pass EXCEPT ![j] = record] /\ pass[j].phase = "goal"
    BY <1>7 DEF PassGoal
  <2>2. found \in AnyGoal
    BY <1>1, InForceIsGoal DEF PassOK
  <2>3. /\ DOMAIN record = DOMAIN NoPass /\ record.phase = "write" /\ record.closed = pass[j].closed
        /\ record.toClose = pass[j].toClose /\ record.stored = pass[j].stored
        /\ record.at = pass[j].at /\ record.userToday = pass[j].userToday
        /\ record.day = pass[j].day /\ record.window = pass[j].window
        /\ record.events = pass[j].events /\ record.goal = found
    BY <1>1, PassFields DEF PassOK
  <2> HIDE DEF record, found
  <2>4. ASSUME pass'[j] = record PROVE PassOK(j)'
    <3>1. WindowFrom(j)' = WindowFrom(j) /\ PriorZones(j)' = PriorZones(j)
          /\ \A zone : Closures(j, zone)' = Closures(j, zone)
      BY <1>2, <2>3, <2>4 DEF WindowFrom, PriorZones, Closures
    <3> QED
      BY <1>1, <1>2, <2>1, <2>2, <2>3, <2>4, <3>1 DEF PassOK
  <2> QED
    BY <1>3, <2>1, <2>4
<1>8. CASE PassWrite(j)
  <2> DEFINE record == [pass[j] EXCEPT !.phase = "days"]
  <2>1. pass' = [pass EXCEPT ![j] = record] /\ pass[j].phase = "write"
    BY <1>8 DEF PassWrite
  <2>2. /\ DOMAIN record = DOMAIN NoPass /\ record.phase = "days" /\ record.closed = pass[j].closed
        /\ record.toClose = pass[j].toClose /\ record.stored = pass[j].stored
        /\ record.at = pass[j].at /\ record.userToday = pass[j].userToday
        /\ record.day = pass[j].day /\ record.window = pass[j].window
    BY <1>1, PassFields DEF PassOK
  <2> HIDE DEF record
  <2>3. ASSUME pass'[j] = record PROVE PassOK(j)'
    <3>1. WindowFrom(j)' = WindowFrom(j) /\ PriorZones(j)' = PriorZones(j)
          /\ \A zone : Closures(j, zone)' = Closures(j, zone)
      BY <1>2, <2>2, <2>3 DEF WindowFrom, PriorZones, Closures
    <3> QED
      BY <1>1, <1>2, <2>1, <2>2, <2>3, <3>1 DEF PassOK
  <2> QED
    BY <1>3, <2>1, <2>3
<1>9. CASE PassFinish(j) \/ PassFail(j)
  <2>1. pass' = [pass EXCEPT ![j] = NoPass]
    BY <1>9 DEF PassFinish, PassFail
  <2>2. ASSUME pass'[j] = NoPass PROVE PassOK(j)'
    BY <2>2, PassFields DEF PassOK
  <2> QED
    BY <1>3, <2>1, <2>2
<1>10. ASSUME NEW record, pass' = [pass EXCEPT ![j] = record], DOMAIN record = DOMAIN NoPass,
              pass[j].phase \in {"days", "project"} \/ pass[j].pending # {},
              record.phase = "project" \/ record.phase = pass[j].phase, record.stored = pass[j].stored,
              record.userToday = pass[j].userToday, record.day = pass[j].day,
              record.toClose = pass[j].toClose, record.window = pass[j].window,
              record.closed = pass[j].closed, record.at = pass[j].at,
              record.events = pass[j].events, record.goal = pass[j].goal,
              pass[j].phase \in {"idle", "window"} => record.phase = pass[j].phase
       PROVE  PassInv'
  <2>1. ASSUME pass'[j] = record PROVE PassOK(j)'
    <3>1. WindowFrom(j)' = WindowFrom(j) /\ PriorZones(j)' = PriorZones(j)
          /\ \A zone : Closures(j, zone)' = Closures(j, zone)
      BY <1>2, <1>10, <2>1 DEF WindowFrom, PriorZones, Closures
    <3> QED
      BY <1>1, <1>2, <1>10, <2>1, <3>1 DEF PassOK
  <2> QED
    BY <1>3, <1>10, <2>1
<1>11. CASE PassDropFuture(j)
  <2> DEFINE record == [pass[j] EXCEPT !.phase = "project", !.pending = {"rows", "longest"}]
  <2>1. pass' = [pass EXCEPT ![j] = record] /\ pass[j].phase = "days"
    BY <1>11 DEF PassDropFuture
  <2>2. /\ DOMAIN record = DOMAIN NoPass /\ record.phase = "project"
        /\ record.stored = pass[j].stored /\ record.userToday = pass[j].userToday
        /\ record.day = pass[j].day /\ record.toClose = pass[j].toClose
        /\ record.window = pass[j].window /\ record.closed = pass[j].closed
        /\ record.at = pass[j].at /\ record.events = pass[j].events
        /\ record.goal = pass[j].goal
    BY <1>1, PassFields DEF PassOK
  <2> HIDE DEF record
  <2> QED
    BY <1>10, <2>1, <2>2
<1>12. CASE PassReadRows(j)
  <2> DEFINE record == [pass[j] EXCEPT !.rows = rollups, !.pending = @ \ {"rows"}]
  <2>1. pass' = [pass EXCEPT ![j] = record] /\ pass[j].pending # {}
    BY <1>12 DEF PassReadRows
  <2>2. /\ DOMAIN record = DOMAIN NoPass /\ record.phase = pass[j].phase
        /\ record.stored = pass[j].stored /\ record.userToday = pass[j].userToday
        /\ record.day = pass[j].day /\ record.toClose = pass[j].toClose
        /\ record.window = pass[j].window /\ record.closed = pass[j].closed
        /\ record.at = pass[j].at /\ record.events = pass[j].events
        /\ record.goal = pass[j].goal
    BY <1>1, PassFields DEF PassOK
  <2> HIDE DEF record
  <2> QED
    BY <1>10, <2>1, <2>2
<1>13. CASE PassReadLongest(j)
  <2> DEFINE record == [pass[j] EXCEPT !.longest = streakState.longest, !.pending = @ \ {"longest"}]
  <2>1. pass' = [pass EXCEPT ![j] = record] /\ pass[j].pending # {}
    BY <1>13 DEF PassReadLongest
  <2>2. /\ DOMAIN record = DOMAIN NoPass /\ record.phase = pass[j].phase
        /\ record.stored = pass[j].stored /\ record.userToday = pass[j].userToday
        /\ record.day = pass[j].day /\ record.toClose = pass[j].toClose
        /\ record.window = pass[j].window /\ record.closed = pass[j].closed
        /\ record.at = pass[j].at /\ record.events = pass[j].events
        /\ record.goal = pass[j].goal
    BY <1>1, PassFields DEF PassOK
  <2> HIDE DEF record
  <2> QED
    BY <1>10, <2>1, <2>2
<1> QED
  BY <1>4, <1>5, <1>6, <1>7, <1>8, <1>9, <1>11, <1>12, <1>13 DEF PassStep

\* The rows a pass writes are founded, and it invents none when it deletes.
LEMMA PassRowsFounded ==
    ASSUME NightlyInv, NEW j \in Passes, StartPass(j) \/ PassStep(j) \/ PassFail(j)
    PROVE  RowsFounded(rollups', events)
<1>1. PassOK(j) /\ RowsFounded(rollups, events)
  BY DEF NightlyInv, PassInv, EngineInv, StoreInv
<1>2. CASE PassWrite(j)
  <2>1. rollups' = Upsert(rollups, pass[j].day, RollupFrom(pass[j].events, pass[j].goal))
        /\ pass[j].phase = "write"
    BY <1>2 DEF PassWrite
  <2>2. Founded(RollupFrom(pass[j].events, pass[j].goal), EventsOn(events, pass[j].day))
    BY <1>1, <2>1 DEF PassOK, Founded
  <2> QED
    BY <1>1, <2>1, <2>2, UpsertFounded DEF PassOK
<1>3. CASE PassDropFuture(j)
  <2>1. rollups' = [d \in {d \in DOMAIN rollups : d <= pass[j].userToday} |-> rollups[d]]
    BY <1>3 DEF PassDropFuture
  <2> QED
    BY <1>1, <2>1 DEF RowsFounded
<1>4. CASE rollups' = rollups
  BY <1>1, <1>4
<1> QED
  BY <1>2, <1>3, <1>4 DEF StartPass, PassStep, PassFail, PassReadWindow, PassReadPrior, PassEvents,
     PassGoal, PassReadRows, PassReadLongest, PassFinish, engineVars, tables

\* No step of the job, or of the engine next to it, leaves the inductive
\* invariant.
LEMMA NightlyInvNext == NightlyInv /\ [NightlyNext]_nightlyVars => NightlyInv'
<1> SUFFICES ASSUME NightlyInv, [NightlyNext]_nightlyVars PROVE NightlyInv'
  OBVIOUS
<1>1. ASSUME [EngineNext]_engineVars, pass' = pass,
             events' = events \/ (\E e \in Acts : Ingest(e))
      PROVE  NightlyInv'
  BY <1>1, EngineInvNext, PassInvEngine DEF NightlyInv
<1>2. ASSUME NEW j \in Passes, StartPass(j) \/ PassStep(j) \/ PassFail(j)
      PROVE  NightlyInv'
  <2>1. UNCHANGED <<now, goals, put, events, req, persist>>
    BY <1>2 DEF StartPass, PassStep, PassFail, PassReadWindow, PassReadPrior, PassEvents,
       PassGoal, PassWrite, PassDropFuture, PassReadRows, PassReadLongest, PassFinish,
       engineVars, tables
  <2>2. EngineInv'
    BY <1>2, <2>1, PassRowsFounded, EngineInvPass
  <2>3. PassInv'
    BY <1>2, PassInvStart, PassInvStep
  <2> QED
    BY <2>2, <2>3 DEF NightlyInv
<1>3. CASE NightsTick
  BY <1>1, <1>3 DEF NightsTick, EngineTick, EngineNext
<1>4. CASE InactiveNight \/ UNCHANGED nightlyVars
  BY <1>1, <1>4 DEF InactiveNight, nightlyVars, engineVars
<1>5. ASSUME NEW e \in Acts, Ingest(e), pass' = pass
      PROVE  NightlyInv'
  BY <1>1, <1>5 DEF EngineNext
<1>6. ASSUME NEW r \in Readers, ReaderStarts(r) \/ RequestStep(r), pass' = pass
      PROVE  NightlyInv'
  <2>1. events' = events
    BY <1>6 DEF ReaderStarts, RequestStep, StartToday, StartHistory, StartRebuildAll,
       StartRebuildRange, StartRequest, ReadFirst, ReadEvents, ReadGoals, ReadRollups,
       ReadStreak, Answer, WriteRollup, BeginRange, WriteStreak, Respond
  <2> QED
    BY <1>1, <1>6, <2>1 DEF EngineNext
<1> QED
  BY <1>2, <1>3, <1>4, <1>5, <1>6 DEF NightlyNext

\* No pass is under way at first.
LEMMA NightlyInvInit == NightlyInit => NightlyInv
<1> SUFFICES ASSUME NightlyInit PROVE NightlyInv
  OBVIOUS
<1>1. EngineInv
  BY EngineInvInit DEF NightlyInit
<1>2. PassInv
  BY PassFields DEF NightlyInit, PassInv, PassOK
<1> QED
  BY <1>1, <1>2 DEF NightlyInv

\* Every behaviour of the job and the engine stays within the inductive invariant.
THEOREM NightlyInvariance == NightlySpec => []NightlyInv
BY NightlyInvInit, NightlyInvNext, PTL DEF NightlySpec

\* The job's writes never make a row count a quantity that was not recorded
\* for its day, whatever passes, requests and uploads it overlaps with.
THEOREM NightsNeverOvercount == NightlySpec => []NeverOvercounts
<1>1. NightlyInv => NeverOvercounts
  BY FoundedNeverOvercounts DEF NightlyInv
<1> QED
  BY <1>1, NightlyInvariance, PTL

-----------------------------------------------------------------------------
\* The zones a pass may ask about a day of its window govern the day: the log
\* outside the window matters to no day but those that the latest event before
\* it decides.
LEMMA ResolvedGovern ==
    ASSUME NEW j \in Passes, NEW day \in Int, events \subseteq Acts,
           pass[j].window = {e \in events : e.localDay >= WindowFrom(j)},
           WindowFrom(j) \in Int, WindowFrom(j) <= day,
           EventsOn(events, day) # {} \/ DaysInOrder,
           NEW priorZone \in PriorZones(j)
    PROVE  ResolvedZones(day, pass[j].window, priorZone) \subseteq GoverningZones(day)
<1> DEFINE window == pass[j].window
           onDay == EventsOn(events, day)
           before == {e \in window : e.localDay < day}
           earlier == {e \in events : e.localDay < day}
<1>1. \A e \in events : e.localDay \in Int /\ e.occurredAt \in Int
  BY EngineAssumption DEF EngineAssumption
<1>2. EventsOn(window, day) = onDay
  BY <1>1 DEF EventsOn
<1>3. CASE onDay # {}
  BY <1>2, <1>3 DEF ResolvedZones, GoverningZones
<1>4. CASE onDay = {} /\ before # {}
  <2>1. /\ ResolvedZones(day, window, priorZone) = LatestZones(before)
        /\ GoverningZones(day) = LatestZones(earlier)
    BY <1>2, <1>4 DEF ResolvedZones, GoverningZones
  <2> SUFFICES ASSUME NEW zone \in LatestZones(before) PROVE zone \in LatestZones(earlier)
    BY <2>1
  <2>2. PICK e \in before : zone = e.zone /\ \A g \in before : g.occurredAt <= e.occurredAt
    BY <1>4 DEF LatestZones
  <2>3. e \in earlier
    OBVIOUS
  <2>4. ASSUME NEW g \in earlier PROVE g.occurredAt <= e.occurredAt
    <3>1. CASE g \in window
      BY <2>2, <3>1
    <3>2. CASE g \notin window
      <4>1. g.localDay < e.localDay
        BY <1>1, <2>3, <3>2
      <4>2. ~ (e.occurredAt < g.occurredAt)
        BY <1>1, <1>4, <2>3, <4>1 DEF DaysInOrder
      <4> QED
        BY <1>1, <2>3, <4>2
    <3> QED
      BY <3>1, <3>2
  <2> QED
    BY <2>2, <2>3, <2>4 DEF LatestZones
<1>5. CASE onDay = {} /\ before = {}
  <2>1. earlier = {e \in events : e.localDay < WindowFrom(j)}
    BY <1>1, <1>5
  <2> QED
    BY <1>2, <1>5, <2>1 DEF ResolvedZones, GoverningZones, PriorZones
<1> QED
  BY <1>3, <1>4, <1>5

\* However many passes, requests and uploads overlap, the days a pass finalises
\* are those of its window that have closed by the contract's rule over all of
\* the log, unless an event came since the pass began.
THEOREM PassesCloseByContract == NightlySpec => []ClosureMatchesContract
<1>1. NightlyInv => ClosureMatchesContract
  <2> SUFFICES ASSUME NightlyInv, NEW j \in Passes, pass[j].phase = "days", pass[j].stored = events,
                      NEW d \in WindowFrom(j) .. pass[j].userToday,
                      EventsOn(events, d) # {} \/ DaysInOrder
               PROVE  /\ ClosedAt(d, pass[j].at) => d \in pass[j].closed
                      /\ d \in pass[j].closed => MayCloseAt(d, pass[j].at)
    BY DEF ClosureMatchesContract
  <2>1. PassOK(j) /\ events \subseteq Acts
    BY DEF NightlyInv, PassInv, EngineInv, StoreInv
  <2>2. pass[j].window = {e \in events : e.localDay >= WindowFrom(j)}
    BY <2>1 DEF PassOK
  <2>3. PICK priorZone \in PriorZones(j) : pass[j].closed \in Closures(j, priorZone)
    BY <2>1 DEF PassOK
  <2>4. PICK zone \in ResolvedZones(d, pass[j].window, priorZone) :
            d \in pass[j].closed <=> LocalDayIn(zone, pass[j].at) > d
    BY <2>3 DEF Closures
  <2>5. WindowFrom(j) \in Int /\ pass[j].userToday \in Int
    BY <2>1, NightlyAssumption DEF PassOK, WindowFrom, NightlyAssumption
  <2>6. d \in Int /\ WindowFrom(j) <= d
    BY <2>5
  <2>7. ResolvedZones(d, pass[j].window, priorZone) \subseteq GoverningZones(d)
    BY <2>1, <2>2, <2>5, <2>6, ResolvedGovern
  <2> QED
    BY <2>4, <2>7 DEF ClosedAt, MayCloseAt
<1> QED
  BY <1>1, NightlyInvariance, PTL

-----------------------------------------------------------------------------
(* A user who logs and never opens the app: the nights alone keep the rows. *)

\* Nobody but one pass at a time computes rows.
JobAlone == Readers = {} /\ \A i, j \in Passes : i = j

\* The dates of the zones in use, beside the server's.
SomeAhead  == IF \E e \in Acts : e.zone > 0 THEN 1 ELSE 0
SomeBehind == IF \E e \in Acts : e.zone < 0 THEN 1 ELSE 0

\* For so many days a row may still change after a night.
Unsettled(late) == Larger(SomeBehind, late)

\* The look-back covers them, over all the nights that may be missed.
NightsReach(late) == MaxMissedNights + 1 + SomeAhead + Unsettled(late) <= LookbackDays

\* No event is uploaded later than so many days after its own.
SentWithin(late) == \A e \in Acts : Ingest(e) => e.localDay >= StartOfUtcDay(now) - late

LoggedDays == {e.localDay : e \in events}
Exact(d) == d \in DOMAIN rollups /\ rollups[d] = ExactRow(d)

Closing == {"days", "goal", "write", "project"}

\* The instant of a pass and its user's today.
PassNear(p) ==
    /\ p.at \in Int /\ p.at <= now /\ p.userToday \in Int
    /\ StartOfUtcDay(p.at) - SomeBehind <= p.userToday
    /\ p.userToday <= StartOfUtcDay(p.at) + SomeAhead

\* A night that ends without this pass settles no day that this pass does not.
OldForPass(p, c) ==
    \A d \in LoggedDays : d < lastNight - c => d < StartOfUtcDay(p.at) - c

\* Nothing can have come to a day since the pass began.
Quiet(p, d, c) == d < StartOfUtcDay(p.at) - c \/ p.stored = events

\* What the pass has read of the day under way is all there is of it.
ReadsAll(p, c) ==
    /\ p.phase \in {"goal", "write"} /\ (Quiet(p, p.day, c) \/ p.day < lastNight - c) =>
            p.events = EventsOn(events, p.day)
    /\ p.phase = "write" => p.goal = GoalInForce(goals, p.day)

\* The pass has the closed days of its window on its list.
ClosesAll(p, c) ==
    p.phase \in Closing =>
        /\ p.closed \subseteq {d \in Int : p.userToday - LookbackDays <= d /\ d <= p.userToday}
        /\ \A d \in Int : /\ p.userToday - LookbackDays <= d /\ d <= p.userToday
                          /\ d < StartOfUtcDay(p.at) - c
                          => d \in p.closed
        /\ p.stored = events =>
            \A d \in LoggedDays : /\ p.userToday - LookbackDays <= d /\ d <= p.userToday
                                  /\ ClosedAt(d, p.at)
                                  => d \in p.closed

\* Of these, those it is done with have the row they should.
SettlesAll(p, c) ==
    /\ p.phase \in Closing =>
        \A d \in p.closed : d \in LoggedDays /\ Quiet(p, d, c) =>
            \/ d \in p.toClose
            \/ p.phase \in {"goal", "write"} /\ d = p.day
            \/ Exact(d)
    /\ p.phase = "project" => p.toClose = {}
    /\ p.pending # {} => p.phase = "project"

PassHeals(p, c) ==
    p.phase # "idle" =>
        PassNear(p) /\ OldForPass(p, c) /\ ReadsAll(p, c) /\ ClosesAll(p, c) /\ SettlesAll(p, c)

\* All but the latest days are as they should be since the last night.
NightsHeal(c) ==
    /\ lastNight \in Int /\ lastNight <= StartOfUtcDay(now)
    /\ StartOfUtcDay(now) <= lastNight + MaxMissedNights + 1
    /\ \A d \in LoggedDays : d < lastNight - c => Exact(d)

HealInv(c) ==
    /\ NightsHeal(c)
    /\ \A j \in Passes : PassHeals(pass[j], c) /\ (pass[j].phase = "idle" => pass[j].pending = {})

-----------------------------------------------------------------------------
\* A later instant is on no earlier date.
LEMMA DaysMonotone ==
    ASSUME NEW t \in Int, NEW u \in Int, t <= u
    PROVE  StartOfUtcDay(t) <= StartOfUtcDay(u)
<1>1. TicksPerDay \in Int /\ t - u <= 0 * TicksPerDay
  BY CalendarAssumption DEF CalendarAssumption
<1>2. StartOfUtcDay(t) - 0 <= StartOfUtcDay(u)
  BY <1>1, DaysApart
<1>3. StartOfUtcDay(t) \in Int
  BY DayBounds
<1> QED
  BY <1>2, <1>3

\* The dates of the zones that events carry, beside the server's.
LEMMA DatesNear ==
    ASSUME NEW some \in SUBSET Acts, NEW zone \in LatestZones(some), NEW t \in Int
    PROVE  /\ LocalDayIn(zone, t) \in Int
           /\ StartOfUtcDay(t) - SomeBehind <= LocalDayIn(zone, t)
           /\ LocalDayIn(zone, t) <= StartOfUtcDay(t) + SomeAhead
<1>1. zone = 0 \/ \E e \in Acts : e.zone = zone
  BY DEF LatestZones
<1>2. zone \in ZoneOffsets
  BY <1>1, EngineAssumption, CalendarAssumption DEF EngineAssumption, CalendarAssumption, ZoneOffsets
<1>3. TicksPerDay \in Nat \ {0} /\ zone \in Int /\ zone < TicksPerDay /\ -TicksPerDay < zone
  BY <1>2, CalendarAssumption DEF CalendarAssumption, ZoneOffsets
<1>4. LocalDayIn(zone, t) = StartOfUtcDay(t + zone) /\ t + zone \in Int
  BY <1>3 DEF LocalDayIn, StartOfUtcDay
<1>5. StartOfUtcDay(t + zone) \in Int /\ StartOfUtcDay(t) \in Int
  BY <1>4, DayBounds
<1>6. LocalDayIn(zone, t) <= StartOfUtcDay(t) + SomeAhead
  <2>1. CASE zone > 0
    <3>1. SomeAhead = 1
      BY <1>1, <2>1 DEF SomeAhead
    <3> QED
      BY <1>2, <3>1, AheadByADay
  <2>2. CASE zone <= 0
    <3>1. StartOfUtcDay(t + zone) <= StartOfUtcDay(t)
      BY <1>3, <1>4, <2>2, DaysMonotone
    <3>2. SomeAhead \in {0, 1}
      BY DEF SomeAhead
    <3> QED
      BY <1>4, <1>5, <3>1, <3>2
  <2> QED
    BY <1>3, <2>1, <2>2
<1>7. StartOfUtcDay(t) - SomeBehind <= LocalDayIn(zone, t)
  <2>1. CASE zone < 0
    <3>1. SomeBehind = 1
      BY <1>1, <2>1 DEF SomeBehind
    <3>2. t - (t + zone) <= 1 * TicksPerDay
      BY <1>3
    <3>3. StartOfUtcDay(t) - 1 <= StartOfUtcDay(t + zone)
      BY <1>4, <3>2, DaysApart
    <3> QED
      BY <1>4, <3>1, <3>3
  <2>2. CASE zone >= 0
    <3>1. StartOfUtcDay(t) <= StartOfUtcDay(t + zone)
      BY <1>3, <1>4, <2>2, DaysMonotone
    <3>2. SomeBehind \in {0, 1}
      BY DEF SomeBehind
    <3> QED
      BY <1>4, <1>5, <3>1, <3>2
  <2> QED
    BY <1>3, <2>1, <2>2
<1> QED
  BY <1>4, <1>5, <1>6, <1>7

\* The constants of a look-back that is long enough.
LEMMA ReachIs ==
    ASSUME NEW late \in Nat, NightsReach(late)
    PROVE  /\ Unsettled(late) \in Nat /\ SomeAhead \in {0, 1} /\ SomeBehind \in {0, 1}
           /\ SomeBehind <= Unsettled(late) /\ late <= Unsettled(late)
           /\ LookbackDays \in Nat /\ MaxMissedNights \in Nat
           /\ MaxMissedNights + 1 + SomeAhead + Unsettled(late) <= LookbackDays
<1>1. SomeAhead \in {0, 1} /\ SomeBehind \in {0, 1}
  BY DEF SomeAhead, SomeBehind
<1>2. LookbackDays \in Nat /\ MaxMissedNights \in Nat
  BY NightlyAssumption DEF NightlyAssumption
<1> QED
  BY <1>1, <1>2 DEF NightsReach, Unsettled, Larger

\* What the other invariants say of the log, the rows and a pass.
LEMMA NightlyIs ==
    ASSUME NightlyInv
    PROVE  /\ events \in SUBSET Acts /\ now \in Int /\ DOMAIN rollups \subseteq Int
           /\ LoggedDays \subseteq Nat /\ LoggedDays \subseteq Int
           /\ \A e \in Acts : e.localDay \in Int
           /\ DOMAIN pass = Passes
           /\ \A j \in Passes : PassOK(j)
           /\ StartOfUtcDay(now) \in Int
<1>1. events \in SUBSET Acts /\ now \in Int /\ DOMAIN rollups \subseteq Int
  BY DEF NightlyInv, EngineInv, StoreInv, GoalInv, GoalTypeOK, RowsFounded
<1>2. \A e \in Acts : e.localDay \in Nat /\ e.localDay \in Int
  BY EngineAssumption DEF EngineAssumption
<1> QED
  BY <1>1, <1>2, DayBounds DEF NightlyInv, PassInv, LoggedDays

\* What the steps need of the look-back.
Reaches(c) ==
    /\ c \in Nat /\ SomeAhead \in {0, 1} /\ SomeBehind \in {0, 1} /\ SomeBehind <= c
    /\ LookbackDays \in Nat /\ MaxMissedNights \in Nat
    /\ MaxMissedNights + 1 + SomeAhead + c <= LookbackDays

\* A day keeps its row, and what the row should be.
LEMMA ExactStays ==
    ASSUME NEW d, goals' = goals, EventsOn(events', d) = EventsOn(events, d),
           d \in DOMAIN rollups => d \in DOMAIN rollups' /\ rollups'[d] = rollups[d], Exact(d)
    PROVE  Exact(d)'
<1>1. ExactRow(d)' = ExactRow(d)
  BY DEF ExactRow, EventsOn
<1> QED
  BY <1>1 DEF Exact

LEMMA ClosedAtStays ==
    ASSUME events' = events, NEW d, NEW t PROVE ClosedAt(d, t)' = ClosedAt(d, t)
  BY DEF ClosedAt, GoverningZones, EventsOn

\* The clock moves, no further than the schedule lets it.
LEMMA HealTick ==
    ASSUME NightlyInv, NEW c, Reaches(c), HealInv(c), NightsTick
    PROVE  HealInv(c)'
<1>1. /\ now' = now + 1 /\ events' = events /\ goals' = goals /\ rollups' = rollups
      /\ pass' = pass /\ lastNight' = lastNight /\ StartOfUtcDay(now + 1) - lastNight <= MaxMissedNights + 1
  BY DEF NightsTick, EngineTick, Tick
<1>2. now \in Int /\ StartOfUtcDay(now) <= StartOfUtcDay(now + 1) /\ StartOfUtcDay(now + 1) \in Int
  BY NightlyIs, DaysMonotone, DayBounds
<1>3. NightsHeal(c)'
  <2>1. LoggedDays' = LoggedDays /\ \A d : Exact(d)' = Exact(d)
    BY <1>1 DEF LoggedDays, Exact, ExactRow
  <2>2. StartOfUtcDay(now)' = StartOfUtcDay(now + 1) /\ StartOfUtcDay(now) \in Int
    BY <1>1, NightlyIs DEF StartOfUtcDay
  <2> QED
    BY <1>1, <1>2, <2>1, <2>2 DEF NightsHeal, HealInv, Reaches
<1>4. ASSUME NEW j \in Passes PROVE PassHeals(pass[j], c)' /\ (pass[j].phase = "idle" => pass[j].pending = {})'
  <2>1. PassHeals(pass[j], c) /\ (pass[j].phase = "idle" => pass[j].pending = {})
    BY DEF HealInv
  <2>2. LoggedDays' = LoggedDays /\ (\A d : Exact(d)' = Exact(d)) /\ \A d, t : ClosedAt(d, t)' = ClosedAt(d, t)
    BY <1>1, ClosedAtStays DEF LoggedDays, Exact, ExactRow
  <2>3. pass[j].phase # "idle" => PassNear(pass[j])'
    BY <1>1, <1>2, <2>1 DEF PassHeals, PassNear, StartOfUtcDay
  <2> QED
    BY <1>1, <2>1, <2>2, <2>3 DEF PassHeals, OldForPass, ReadsAll, ClosesAll, SettlesAll, Quiet, StartOfUtcDay
<1> QED
  BY <1>3, <1>4 DEF HealInv

\* On a night off, all the days there are were settled long ago.
LEMMA HealInactive ==
    ASSUME NightlyInv, NEW c, Reaches(c), HealInv(c), InactiveNight
    PROVE  HealInv(c)'
<1>1. /\ now' = now /\ events' = events /\ goals' = goals /\ rollups' = rollups
      /\ pass' = pass /\ lastNight' = StartOfUtcDay(now) /\ ~ Active
  BY DEF InactiveNight, engineVars
<1>2. /\ lastNight \in Int /\ StartOfUtcDay(now) \in Int /\ lastNight <= StartOfUtcDay(now)
      /\ StartOfUtcDay(now) <= lastNight + MaxMissedNights + 1 /\ \A d \in LoggedDays : d < lastNight - c => Exact(d)
  BY NightlyIs DEF HealInv, NightsHeal
<1>3. ASSUME NEW d \in LoggedDays PROVE d < lastNight - c /\ d < lastNight' - c
  <2>1. PICK e \in events : e.localDay = d
    BY DEF LoggedDays
  <2>2. ~ (d >= StartOfUtcDay(now) - (LookbackDays + 1)) /\ d \in Int
    BY <1>1, <2>1, NightlyIs DEF Active
  <2> QED
    BY <1>1, <1>2, <2>2 DEF Reaches
<1>4. LoggedDays' = LoggedDays /\ (\A d : Exact(d)' = Exact(d)) /\ (\A d, t : ClosedAt(d, t)' = ClosedAt(d, t))
      /\ (\A t : StartOfUtcDay(t)' = StartOfUtcDay(t))
  BY <1>1, ClosedAtStays DEF LoggedDays, Exact, ExactRow, StartOfUtcDay
<1>5. StartOfUtcDay(now)' = StartOfUtcDay(now)
  BY <1>1 DEF StartOfUtcDay
<1>6. NightsHeal(c)'
  BY <1>1, <1>2, <1>3, <1>4, <1>5 DEF NightsHeal, Reaches
<1>7. ASSUME NEW j \in Passes PROVE PassHeals(pass[j], c)' /\ (pass[j].phase = "idle" => pass[j].pending = {})'
  <2> DEFINE p == pass[j]
  <2>1. PassHeals(p, c) /\ (p.phase = "idle" => p.pending = {}) /\ PassOK(j)
    BY NightlyIs DEF HealInv
  <2> SUFFICES ASSUME p.phase # "idle" PROVE PassHeals(p, c)'
    BY <1>1, <2>1 DEF PassHeals
  <2>2. PassNear(p) /\ OldForPass(p, c) /\ ReadsAll(p, c) /\ ClosesAll(p, c) /\ SettlesAll(p, c)
    BY <2>1 DEF PassHeals
  <2>3. PassNear(p)' /\ OldForPass(p, c)' /\ ClosesAll(p, c)' /\ SettlesAll(p, c)'
    BY <1>1, <1>3, <1>4, <2>2 DEF PassNear, OldForPass, ClosesAll, SettlesAll, Quiet, StartOfUtcDay
  <2>4. ReadsAll(p, c)'
    <3>1. ASSUME p.phase \in {"goal", "write"}, Quiet(p, p.day, c) \/ p.day < lastNight' - c
          PROVE  p.events = EventsOn(events, p.day)
      <4>1. CASE p.day \in LoggedDays
        <5>1. p.day < lastNight - c
          BY <1>3, <4>1
        <5> QED
          BY <2>2, <3>1, <5>1 DEF ReadsAll
      <4>2. CASE p.day \notin LoggedDays
        <5>1. EventsOn(events, p.day) = {}
          BY <4>2 DEF EventsOn, LoggedDays
        <5> QED
          BY <2>1, <3>1, <5>1 DEF PassOK
      <4> QED
        BY <4>1, <4>2
    <3>2. Quiet(p, p.day, c)' = Quiet(p, p.day, c) /\ EventsOn(events, p.day)' = EventsOn(events, p.day)
          /\ GoalInForce(goals, p.day)' = GoalInForce(goals, p.day)
      BY <1>1 DEF Quiet, StartOfUtcDay
    <3> QED
      BY <1>1, <2>2, <3>1, <3>2 DEF ReadsAll
  <2> QED
    BY <2>3, <2>4 DEF PassHeals
<1> QED
  BY <1>6, <1>7 DEF HealInv

\* An upload changes a day that no night has settled.
LEMMA HealIngest ==
    ASSUME NightlyInv, NEW c, Reaches(c), HealInv(c), NEW e \in Acts, Ingest(e),
           UNCHANGED <<pass, lastNight>>, StartOfUtcDay(now) - c <= e.localDay
    PROVE  HealInv(c)'
<1>1. /\ now' = now /\ events' = events \union {e} /\ e \notin events /\ goals' = goals /\ rollups' = rollups
      /\ pass' = pass /\ lastNight' = lastNight
  BY DEF Ingest
<1>2. /\ lastNight \in Int /\ StartOfUtcDay(now) \in Int /\ lastNight <= StartOfUtcDay(now)
      /\ StartOfUtcDay(now) <= lastNight + MaxMissedNights + 1 /\ \A d \in LoggedDays : d < lastNight - c => Exact(d)
      /\ e.localDay \in Int /\ c \in Int
  BY NightlyIs DEF HealInv, NightsHeal, Reaches
<1>3. LoggedDays' = LoggedDays \union {e.localDay}
  BY <1>1 DEF LoggedDays
<1>4. \A d : d # e.localDay => EventsOn(events', d) = EventsOn(events, d)
  BY <1>1 DEF EventsOn
<1>5. \A d : d # e.localDay /\ Exact(d) => Exact(d)'
  BY <1>1, <1>4, ExactStays
<1>6. \A d \in Int : d < StartOfUtcDay(now) - c => d # e.localDay
  BY <1>2
<1>7. NightsHeal(c)'
  <2>1. ASSUME NEW d \in LoggedDays', d < lastNight - c PROVE Exact(d)'
    <3>1. d \in Int
      BY <1>2, <1>3, NightlyIs
    <3>2. d # e.localDay
      BY <1>2, <2>1, <3>1
    <3> QED
      BY <1>2, <1>3, <1>5, <2>1, <3>2
  <2>2. StartOfUtcDay(now)' = StartOfUtcDay(now)
    BY <1>1 DEF StartOfUtcDay
  <2> QED
    BY <1>1, <1>2, <2>1, <2>2 DEF NightsHeal
<1>8. ASSUME NEW j \in Passes PROVE PassHeals(pass[j], c)' /\ (pass[j].phase = "idle" => pass[j].pending = {})'
  <2> DEFINE p == pass[j]
  <2>1. PassHeals(p, c) /\ (p.phase = "idle" => p.pending = {}) /\ PassOK(j)
    BY NightlyIs DEF HealInv
  <2> SUFFICES ASSUME p.phase # "idle" PROVE PassHeals(p, c)'
    BY <1>1, <2>1 DEF PassHeals
  <2>2. PassNear(p) /\ OldForPass(p, c) /\ ReadsAll(p, c) /\ ClosesAll(p, c) /\ SettlesAll(p, c)
    BY <2>1 DEF PassHeals
  <2>3. p.stored # events' /\ p' = p
    BY <1>1, <2>1 DEF PassOK
  <2>4. PICK then : then = StartOfUtcDay(p.at)
    OBVIOUS
  <2>5. then \in Int /\ then <= StartOfUtcDay(now)
    BY <2>2, <2>4, DayBounds, DaysMonotone, NightlyIs DEF PassNear
  <2>6. \A d : Quiet(p, d, c)' <=> d < then - c
    BY <2>3, <2>4 DEF Quiet, StartOfUtcDay
  <2>7. PassNear(p)'
    BY <1>1, <2>2 DEF PassNear, StartOfUtcDay
  <2>8. OldForPass(p, c)'
    <3>1. ~ e.localDay < lastNight - c
      BY <1>2
    <3> QED
      BY <1>1, <1>3, <2>2, <3>1 DEF OldForPass, StartOfUtcDay
  <2>9. ReadsAll(p, c)'
    <3>1. ASSUME p.phase \in {"goal", "write"}, p.day < then - c \/ p.day < lastNight - c
          PROVE  p.events = EventsOn(events', p.day)
      <4>1. p.day \in Int
        BY <2>1 DEF PassOK
      <4>2. p.day # e.localDay
        BY <1>2, <2>5, <3>1, <4>1
      <4>3. p.events = EventsOn(events, p.day)
        BY <2>2, <2>4, <3>1 DEF ReadsAll, Quiet
      <4> QED
        BY <1>4, <4>2, <4>3
    <3>2. GoalInForce(goals, p.day)' = GoalInForce(goals, p.day) /\ EventsOn(events, p.day)' = EventsOn(events', p.day)
      BY <1>1 DEF EventsOn
    <3> QED
      BY <1>1, <2>2, <2>6, <3>1, <3>2 DEF ReadsAll
  <2>10. ClosesAll(p, c)'
    BY <1>1, <2>2, <2>3 DEF ClosesAll, StartOfUtcDay
  <2>11. SettlesAll(p, c)'
    <3>1. ASSUME p.phase \in Closing, NEW d \in p.closed, d \in LoggedDays', d < then - c
          PROVE  d \in p.toClose \/ (p.phase \in {"goal", "write"} /\ d = p.day) \/ Exact(d)'
      <4>1. d \in Int
        BY <2>2, <3>1 DEF ClosesAll
      <4>2. d # e.localDay
        BY <1>2, <2>5, <3>1, <4>1
      <4>3. d \in LoggedDays /\ Quiet(p, d, c)
        BY <1>3, <2>4, <3>1, <4>2 DEF Quiet
      <4> QED
        BY <1>5, <2>2, <3>1, <4>2, <4>3 DEF SettlesAll
    <3> QED
      BY <1>1, <2>2, <2>6, <3>1 DEF SettlesAll
  <2> QED
    BY <2>7, <2>8, <2>9, <2>10, <2>11 DEF PassHeals
<1> QED
  BY <1>7, <1>8 DEF HealInv

\* Of a step that leaves the tables and the schedule as they are.
LEMMA HealStays ==
    ASSUME NEW c, NEW j \in Passes, UNCHANGED <<now, goals, events, lastNight>>
    PROVE  /\ LoggedDays' = LoggedDays
           /\ \A d : (d \in DOMAIN rollups => d \in DOMAIN rollups' /\ rollups'[d] = rollups[d]) /\ Exact(d) => Exact(d)'
           /\ NightsHeal(c) /\ rollups' = rollups => NightsHeal(c)'
           /\ /\ pass'[j].at = pass[j].at /\ pass'[j].userToday = pass[j].userToday
              /\ PassNear(pass[j]) /\ OldForPass(pass[j], c)
              => PassNear(pass[j])' /\ OldForPass(pass[j], c)'
           /\ \A d : /\ pass'[j].at = pass[j].at /\ pass'[j].stored = pass[j].stored
                     => (Quiet(pass[j], d, c)' <=> Quiet(pass[j], d, c))
           /\ /\ pass'[j].at = pass[j].at /\ pass'[j].userToday = pass[j].userToday
              /\ pass'[j].stored = pass[j].stored /\ pass'[j].closed = pass[j].closed
              /\ pass[j].phase \in Closing /\ ClosesAll(pass[j], c)
              => ClosesAll(pass[j], c)'
<1>1. LoggedDays' = LoggedDays /\ (\A d, t : ClosedAt(d, t)' = ClosedAt(d, t))
      /\ (\A d : EventsOn(events, d)' = EventsOn(events, d)) /\ (\A d : ExactRow(d)' = ExactRow(d))
      /\ (\A d : EventsOn(events', d) = EventsOn(events, d))
  BY ClosedAtStays DEF LoggedDays, ExactRow, EventsOn
<1>2. \A d : (d \in DOMAIN rollups => d \in DOMAIN rollups' /\ rollups'[d] = rollups[d]) /\ Exact(d) => Exact(d)'
  BY <1>1, ExactStays
<1>3. NightsHeal(c) /\ rollups' = rollups => NightsHeal(c)'
  BY <1>1, <1>2 DEF NightsHeal, StartOfUtcDay
<1>4. /\ pass'[j].at = pass[j].at /\ pass'[j].userToday = pass[j].userToday
      /\ PassNear(pass[j]) /\ OldForPass(pass[j], c)
      => PassNear(pass[j])' /\ OldForPass(pass[j], c)'
  BY <1>1 DEF PassNear, OldForPass, StartOfUtcDay
<1>5. \A d : /\ pass'[j].at = pass[j].at /\ pass'[j].stored = pass[j].stored
             => (Quiet(pass[j], d, c)' <=> Quiet(pass[j], d, c))
  BY DEF Quiet, StartOfUtcDay
<1>6. /\ pass'[j].at = pass[j].at /\ pass'[j].userToday = pass[j].userToday
      /\ pass'[j].stored = pass[j].stored /\ pass'[j].closed = pass[j].closed
      /\ pass[j].phase \in Closing /\ ClosesAll(pass[j], c)
      => ClosesAll(pass[j], c)'
  <2> SUFFICES ASSUME pass'[j].at = pass[j].at, pass'[j].userToday = pass[j].userToday,
                      pass'[j].stored = pass[j].stored, pass'[j].closed = pass[j].closed,
                      pass[j].phase \in Closing, ClosesAll(pass[j], c)
               PROVE  ClosesAll(pass[j], c)'
    OBVIOUS
  <2>1. \A d : ClosedAt(d, pass[j].at)' = ClosedAt(d, pass[j].at)
    BY DEF ClosedAt, GoverningZones, EventsOn
  <2> QED
    BY <1>1, <2>1 DEF ClosesAll, StartOfUtcDay
<1> QED
  BY <1>1, <1>2, <1>3, <1>4, <1>5, <1>6

\* A pass begins.
LEMMA HealStart ==
    ASSUME NightlyInv, JobAlone, NEW c, Reaches(c), HealInv(c), NEW j \in Passes, StartPass(j)
    PROVE  HealInv(c)'
<1>1. PICK zone \in LatestZones(events) :
        pass' = [pass EXCEPT ![j] =
            [NoPass EXCEPT !.phase = "window", !.at = now, !.stored = events,
                           !.userToday = LocalDayIn(zone, now)]]
  BY DEF StartPass
<1>2. UNCHANGED <<now, goals, events, rollups, lastNight>>
  BY DEF StartPass, engineVars
<1>3. NightsHeal(c)'
  BY <1>2, HealStays DEF HealInv
<1>4. /\ pass'[j].phase = "window" /\ pass'[j].at = now /\ pass'[j].pending = {}
      /\ pass'[j].userToday = LocalDayIn(zone, now)
  BY <1>1, NightlyIs DEF NoPass
<1>5. PassNear(pass[j])'
  <2>1. now \in Int /\ events \in SUBSET Acts /\ LocalDayIn(zone, now) \in Int
        /\ StartOfUtcDay(now) - SomeBehind <= LocalDayIn(zone, now)
        /\ LocalDayIn(zone, now) <= StartOfUtcDay(now) + SomeAhead
    BY NightlyIs, DatesNear
  <2>2. StartOfUtcDay(pass[j].at)' = StartOfUtcDay(now)
    BY <1>4 DEF StartOfUtcDay
  <2> QED
    BY <1>2, <1>4, <2>1, <2>2 DEF PassNear
<1>6. OldForPass(pass[j], c)'
  <2>1. lastNight \in Int /\ StartOfUtcDay(now) \in Int /\ lastNight <= StartOfUtcDay(now) /\ c \in Int
    BY NightlyIs DEF HealInv, NightsHeal, Reaches
  <2>2. StartOfUtcDay(pass[j].at)' = StartOfUtcDay(now) /\ LoggedDays' = LoggedDays
    BY <1>2, <1>4 DEF StartOfUtcDay, LoggedDays
  <2>3. \A d \in LoggedDays : d < lastNight - c => d < StartOfUtcDay(now) - c
    BY <2>1, NightlyIs
  <2> QED
    BY <1>2, <2>2, <2>3 DEF OldForPass
<1>7. PassHeals(pass[j], c)' /\ (pass[j].phase = "idle" => pass[j].pending = {})'
  BY <1>4, <1>5, <1>6 DEF PassHeals, ReadsAll, ClosesAll, SettlesAll, Closing
<1> QED
  BY <1>3, <1>7 DEF HealInv, JobAlone

\* The days that a pass takes to have closed.
LEMMA HealPrior ==
    ASSUME NightlyInv, NEW c, Reaches(c), NEW j \in Passes, PassNear(pass[j]),
           pass[j].phase = "prior", NEW priorZone \in PriorZones(j), NEW closed \in Closures(j, priorZone)
    PROVE  /\ closed \subseteq {d \in Int : pass[j].userToday - LookbackDays <= d /\ d <= pass[j].userToday}
           /\ \A d \in Int : /\ pass[j].userToday - LookbackDays <= d /\ d <= pass[j].userToday
                             /\ d < StartOfUtcDay(pass[j].at) - c
                             => d \in closed
           /\ pass[j].stored = events =>
               \A d \in LoggedDays : /\ pass[j].userToday - LookbackDays <= d /\ d <= pass[j].userToday
                                     /\ ClosedAt(d, pass[j].at)
                                     => d \in closed
<1>1. /\ PassOK(j) /\ events \in SUBSET Acts /\ LookbackDays \in Int /\ pass[j].userToday \in Int
      /\ WindowFrom(j) = pass[j].userToday - LookbackDays /\ pass[j].at \in Int
  BY NightlyIs DEF PassNear, WindowFrom, Reaches
<1>2. \A d \in Int : pass[j].userToday - LookbackDays <= d /\ d <= pass[j].userToday
                     <=> d \in WindowFrom(j) .. pass[j].userToday
  BY <1>1
<1>3. /\ closed \subseteq WindowFrom(j) .. pass[j].userToday
      /\ \A d \in WindowFrom(j) .. pass[j].userToday : \E zone \in ResolvedZones(d, pass[j].window, priorZone) :
            d \in closed <=> LocalDayIn(zone, pass[j].at) > d
  BY DEF Closures
<1>4. pass[j].window \subseteq events
  BY <1>1 DEF PassOK
<1>5. ASSUME NEW d \in Int, d \in WindowFrom(j) .. pass[j].userToday, d < StartOfUtcDay(pass[j].at) - c
      PROVE  d \in closed
  <2>1. PICK zone \in ResolvedZones(d, pass[j].window, priorZone) :
            d \in closed <=> LocalDayIn(zone, pass[j].at) > d
    BY <1>3, <1>5
  <2>2. \E some \in SUBSET Acts : zone \in LatestZones(some)
    <3>1. priorZone \in LatestZones({e \in events : e.localDay < WindowFrom(j)})
      BY DEF PriorZones
    <3>2. /\ EventsOn(pass[j].window, d) \in SUBSET Acts /\ {e \in pass[j].window : e.localDay < d} \in SUBSET Acts
          /\ {e \in events : e.localDay < WindowFrom(j)} \in SUBSET Acts
      BY <1>1, <1>4 DEF EventsOn
    <3>3. zone \in LatestZones(EventsOn(pass[j].window, d)) \/ zone \in LatestZones({e \in pass[j].window : e.localDay < d})
          \/ zone = priorZone
      BY <2>1 DEF ResolvedZones
    <3> QED
      BY <3>1, <3>2, <3>3
  <2>3. LocalDayIn(zone, pass[j].at) \in Int /\ StartOfUtcDay(pass[j].at) - SomeBehind <= LocalDayIn(zone, pass[j].at)
    BY <1>1, <2>2, DatesNear
  <2>4. StartOfUtcDay(pass[j].at) \in Int
    BY <1>1, DayBounds
  <2>5. LocalDayIn(zone, pass[j].at) > d
    BY <1>5, <2>3, <2>4 DEF Reaches
  <2> QED
    BY <2>1, <2>5
<1>6. ASSUME pass[j].stored = events, NEW d \in LoggedDays, d \in WindowFrom(j) .. pass[j].userToday,
             ClosedAt(d, pass[j].at)
      PROVE  d \in closed
  <2>1. PICK zone \in ResolvedZones(d, pass[j].window, priorZone) :
            d \in closed <=> LocalDayIn(zone, pass[j].at) > d
    BY <1>3, <1>6
  <2>2. pass[j].window = {e \in events : e.localDay >= WindowFrom(j)}
    BY <1>1, <1>6 DEF PassOK
  <2>3. d \in Int /\ WindowFrom(j) \in Int /\ WindowFrom(j) <= d
    BY <1>1, <1>6
  <2>4. EventsOn(events, d) # {}
    BY DEF LoggedDays, EventsOn
  <2>5. ResolvedZones(d, pass[j].window, priorZone) \subseteq GoverningZones(d)
    BY <1>1, <2>2, <2>3, <2>4, ResolvedGovern
  <2> QED
    BY <1>6, <2>1, <2>5 DEF ClosedAt
<1> QED
  BY <1>2, <1>3, <1>5, <1>6, NightlyIs

\* The queries of a pass, and what it writes.
LEMMA HealStep ==
    ASSUME NightlyInv, JobAlone, NEW c, Reaches(c), HealInv(c), NEW j \in Passes,
           PassStep(j) \/ PassFail(j)
    PROVE  HealInv(c)'
<1>1. /\ PassOK(j) /\ DOMAIN pass = Passes /\ PassHeals(pass[j], c) /\ NightsHeal(c)
      /\ pass[j].phase = "idle" => pass[j].pending = {}
      /\ DOMAIN pass[j] = DOMAIN NoPass
  BY NightlyIs DEF HealInv, PassOK
<1>2. UNCHANGED <<now, goals, events>>
  BY DEF PassStep, PassFail, PassReadWindow, PassReadPrior, PassEvents, PassGoal, PassWrite,
         PassDropFuture, PassReadRows, PassReadLongest, PassFinish, engineVars, tables
<1>3. SUFFICES NightsHeal(c)' /\ PassHeals(pass[j], c)' /\ (pass[j].phase = "idle" => pass[j].pending = {})'
  BY DEF HealInv, JobAlone
<1>4. pass[j].phase # "idle" =>
        /\ PassNear(pass[j]) /\ OldForPass(pass[j], c) /\ ReadsAll(pass[j], c)
        /\ ClosesAll(pass[j], c) /\ SettlesAll(pass[j], c)
  BY <1>1 DEF PassHeals
<1>5. pass[j].pending # {} => pass[j].phase = "project"
  BY <1>1, <1>4 DEF SettlesAll
<1>6. \A d : EventsOn(events, d)' = EventsOn(events, d) /\ GoalInForce(goals, d)' = GoalInForce(goals, d)
  BY <1>2 DEF EventsOn
<1>7. /\ pass[j].userToday \in Int => \A d : d \in LoggedDays => d \in Int
      /\ c \in Int
  BY NightlyIs DEF Reaches
<1>10. CASE PassReadWindow(j)
  <2>1. UNCHANGED <<rollups, lastNight>> /\ pass[j].phase = "window"
    BY <1>10 DEF PassReadWindow, engineVars
  <2>2. /\ pass'[j].phase = "prior" /\ pass'[j].at = pass[j].at /\ pass'[j].userToday = pass[j].userToday
        /\ pass'[j].pending = pass[j].pending
    BY <1>1, <1>10, PassFields DEF PassReadWindow
  <2>3. PassNear(pass[j])' /\ OldForPass(pass[j], c)' /\ NightsHeal(c)'
    BY <1>1, <1>2, <1>4, <2>1, <2>2, HealStays
  <2> QED
    BY <1>5, <2>1, <2>2, <2>3 DEF PassHeals, ReadsAll, ClosesAll, SettlesAll, Closing
<1>11. CASE PassReadPrior(j)
  <2>1. UNCHANGED <<rollups, lastNight>> /\ pass[j].phase = "prior"
    BY <1>11 DEF PassReadPrior, engineVars
  <2>2. PICK priorZone \in PriorZones(j) : \E closed \in Closures(j, priorZone) :
            pass' = [pass EXCEPT ![j].closed = closed, ![j].toClose = closed, ![j].phase = "days"]
    BY <1>11 DEF PassReadPrior
  <2>3. PICK closed \in Closures(j, priorZone) :
            pass' = [pass EXCEPT ![j].closed = closed, ![j].toClose = closed, ![j].phase = "days"]
    BY <2>2
  <2>4. /\ pass'[j].phase = "days" /\ pass'[j].at = pass[j].at /\ pass'[j].userToday = pass[j].userToday
        /\ pass'[j].pending = pass[j].pending /\ pass'[j].closed = closed /\ pass'[j].toClose = closed
        /\ pass'[j].stored = pass[j].stored
    BY <1>1, <2>3, PassFields
  <2>5. PassNear(pass[j])' /\ OldForPass(pass[j], c)' /\ NightsHeal(c)' /\ LoggedDays' = LoggedDays
    BY <1>1, <1>2, <1>4, <2>1, <2>4, HealStays
  <2>6. ClosesAll(pass[j], c)'
    <3>1. \A d : ClosedAt(d, pass[j].at)' = ClosedAt(d, pass[j].at)
      BY <1>2, <2>4 DEF ClosedAt, GoverningZones, EventsOn, LocalDayIn, StartOfUtcDay
    <3>2. StartOfUtcDay(pass[j].at)' = StartOfUtcDay(pass[j].at)
      BY <2>4 DEF StartOfUtcDay
    <3>3. PassNear(pass[j])
      BY <1>4, <2>1
    <3> QED
      BY <1>2, <2>1, <2>4, <2>5, <3>1, <3>2, <3>3, HealPrior DEF ClosesAll
  <2> QED
    BY <1>5, <2>1, <2>4, <2>5, <2>6 DEF PassHeals, ReadsAll, SettlesAll, Closing
<1>12. CASE PassEvents(j)
  <2>1. UNCHANGED <<rollups, lastNight>> /\ pass[j].phase = "days"
    BY <1>12 DEF PassEvents, engineVars
  <2>2. PICK day \in pass[j].toClose :
          pass' = [pass EXCEPT ![j].day = day, ![j].events = EventsOn(events, day),
                               ![j].toClose = @ \ {day}, ![j].phase = "goal"]
    BY <1>12 DEF PassEvents
  <2>3. /\ pass'[j].phase = "goal" /\ pass'[j].at = pass[j].at /\ pass'[j].userToday = pass[j].userToday
        /\ pass'[j].pending = pass[j].pending /\ pass'[j].closed = pass[j].closed
        /\ pass'[j].toClose = pass[j].toClose \ {day} /\ pass'[j].stored = pass[j].stored
        /\ pass'[j].day = day /\ pass'[j].events = EventsOn(events, day)
    BY <1>1, <2>2, PassFields
  <2>4. /\ PassNear(pass[j])' /\ OldForPass(pass[j], c)' /\ NightsHeal(c)' /\ LoggedDays' = LoggedDays
        /\ \A d : Quiet(pass[j], d, c)' <=> Quiet(pass[j], d, c)
        /\ \A d : Exact(d) => Exact(d)'
    BY <1>1, <1>2, <1>4, <2>1, <2>3, HealStays
  <2>5. ClosesAll(pass[j], c)'
    BY <1>2, <1>4, <2>1, <2>3, HealStays DEF Closing
  <2>6. ReadsAll(pass[j], c)'
    BY <1>6, <2>3 DEF ReadsAll
  <2>7. SettlesAll(pass[j], c)'
    BY <1>4, <1>5, <2>1, <2>3, <2>4 DEF SettlesAll, Closing
  <2> QED
    BY <2>3, <2>4, <2>5, <2>6, <2>7 DEF PassHeals
<1>13. CASE PassGoal(j)
  <2>1. UNCHANGED <<rollups, lastNight>> /\ pass[j].phase = "goal"
    BY <1>13 DEF PassGoal, engineVars
  <2>2. /\ pass'[j].phase = "write" /\ pass'[j].at = pass[j].at /\ pass'[j].userToday = pass[j].userToday
        /\ pass'[j].pending = pass[j].pending /\ pass'[j].closed = pass[j].closed
        /\ pass'[j].toClose = pass[j].toClose /\ pass'[j].stored = pass[j].stored
        /\ pass'[j].day = pass[j].day /\ pass'[j].events = pass[j].events
        /\ pass'[j].goal = GoalInForce(goals, pass[j].day)
    BY <1>1, <1>13, PassFields DEF PassGoal
  <2>3. /\ PassNear(pass[j])' /\ OldForPass(pass[j], c)' /\ NightsHeal(c)' /\ LoggedDays' = LoggedDays
        /\ \A d : Quiet(pass[j], d, c)' <=> Quiet(pass[j], d, c)
        /\ \A d : Exact(d) => Exact(d)'
    BY <1>1, <1>2, <1>4, <2>1, <2>2, HealStays
  <2>4. ClosesAll(pass[j], c)'
    BY <1>2, <1>4, <2>1, <2>2, HealStays DEF Closing
  <2>5. ReadsAll(pass[j], c)'
    <3>1. Quiet(pass[j], pass[j].day, c)' <=> Quiet(pass[j], pass[j].day, c)
      BY <1>2, <2>2 DEF Quiet, StartOfUtcDay
    <3> QED
      BY <1>2, <1>4, <1>6, <2>1, <2>2, <3>1 DEF ReadsAll, EventsOn
  <2>6. SettlesAll(pass[j], c)'
    BY <1>4, <1>5, <2>1, <2>2, <2>3 DEF SettlesAll, Closing
  <2> QED
    BY <2>2, <2>3, <2>4, <2>5, <2>6 DEF PassHeals
<1>14. CASE PassWrite(j)
  <2>1. /\ lastNight' = lastNight /\ pass[j].phase = "write"
        /\ rollups' = Upsert(rollups, pass[j].day, RollupFrom(pass[j].events, pass[j].goal))
    BY <1>14 DEF PassWrite
  <2>2. /\ pass'[j].phase = "days" /\ pass'[j].at = pass[j].at /\ pass'[j].userToday = pass[j].userToday
        /\ pass'[j].pending = pass[j].pending /\ pass'[j].closed = pass[j].closed
        /\ pass'[j].toClose = pass[j].toClose /\ pass'[j].stored = pass[j].stored
    BY <1>1, <1>14, PassFields DEF PassWrite
  <2>3. /\ PassNear(pass[j])' /\ OldForPass(pass[j], c)' /\ LoggedDays' = LoggedDays
        /\ \A d : Quiet(pass[j], d, c)' <=> Quiet(pass[j], d, c)
    BY <1>1, <1>2, <1>4, <2>1, <2>2, HealStays
  <2>4. ClosesAll(pass[j], c)'
    BY <1>2, <1>4, <2>1, <2>2, HealStays DEF Closing
  <2>5. ASSUME NEW d, Exact(d), d # pass[j].day PROVE Exact(d)'
    <3>1. d \in DOMAIN rollups => d \in DOMAIN rollups' /\ rollups'[d] = rollups[d]
      BY <2>1, <2>5 DEF Upsert
    <3> QED
      BY <1>2, <2>1, <2>5, <3>1, HealStays
  <2>6. ASSUME NEW d, d = pass[j].day, Quiet(pass[j], d, c) \/ d < lastNight - c PROVE Exact(d)'
    <3>1. pass[j].events = EventsOn(events, d) /\ pass[j].goal = GoalInForce(goals, d)
      BY <1>4, <2>1, <2>6 DEF ReadsAll
    <3>2. d \in DOMAIN rollups' /\ rollups'[d] = RollupFrom(pass[j].events, pass[j].goal)
      BY <2>1, <2>6 DEF Upsert
    <3> QED
      BY <1>6, <3>1, <3>2 DEF Exact, ExactRow
  <2>7. NightsHeal(c)'
    <3>1. ASSUME NEW d \in LoggedDays', d < lastNight - c PROVE Exact(d)'
      <4>1. Exact(d)
        BY <1>1, <2>3, <3>1 DEF NightsHeal
      <4> QED
        BY <2>5, <2>6, <3>1, <4>1
    <3> QED
      BY <1>1, <1>2, <2>1, <3>1 DEF NightsHeal, StartOfUtcDay
  <2>8. SettlesAll(pass[j], c)'
    BY <1>4, <1>5, <2>1, <2>2, <2>3, <2>5, <2>6 DEF SettlesAll, Closing
  <2> QED
    BY <2>2, <2>3, <2>4, <2>7, <2>8 DEF PassHeals, ReadsAll
<1>15. CASE PassDropFuture(j)
  <2>1. /\ lastNight' = lastNight /\ pass[j].phase = "days" /\ pass[j].toClose = {}
        /\ rollups' = [d \in {d \in DOMAIN rollups : d <= pass[j].userToday} |-> rollups[d]]
    BY <1>15 DEF PassDropFuture
  <2>2. /\ pass'[j].phase = "project" /\ pass'[j].at = pass[j].at /\ pass'[j].userToday = pass[j].userToday
        /\ pass'[j].closed = pass[j].closed
        /\ pass'[j].toClose = pass[j].toClose /\ pass'[j].stored = pass[j].stored
    BY <1>1, <1>15, PassFields DEF PassDropFuture
  <2>3. /\ PassNear(pass[j])' /\ OldForPass(pass[j], c)' /\ LoggedDays' = LoggedDays
        /\ \A d : Quiet(pass[j], d, c)' <=> Quiet(pass[j], d, c)
    BY <1>1, <1>2, <1>4, <2>1, <2>2, HealStays
  <2>4. ClosesAll(pass[j], c)'
    BY <1>2, <1>4, <2>1, <2>2, HealStays DEF Closing
  <2>5. ASSUME NEW d, Exact(d), d <= pass[j].userToday PROVE Exact(d)'
    <3>1. d \in DOMAIN rollups => d \in DOMAIN rollups' /\ rollups'[d] = rollups[d]
      BY <2>1, <2>5
    <3> QED
      BY <1>2, <2>1, <2>5, <3>1, HealStays
  <2>6. NightsHeal(c)'
    <3>1. ASSUME NEW d \in LoggedDays', d < lastNight - c PROVE Exact(d)'
      <4>1. Exact(d) /\ d \in Int /\ d < StartOfUtcDay(pass[j].at) - c
        BY <1>1, <1>4, <2>1, <2>3, <3>1, NightlyIs DEF NightsHeal, OldForPass
      <4>2. StartOfUtcDay(pass[j].at) \in Int /\ StartOfUtcDay(pass[j].at) - SomeBehind <= pass[j].userToday
            /\ pass[j].userToday \in Int
        BY <1>4, <2>1, DayBounds DEF PassNear
      <4>3. d <= pass[j].userToday
        BY <4>1, <4>2 DEF Reaches
      <4> QED
        BY <2>5, <4>1, <4>3
    <3> QED
      BY <1>1, <1>2, <2>1, <3>1 DEF NightsHeal, StartOfUtcDay
  <2>7. SettlesAll(pass[j], c)'
    <3>1. \A d \in pass[j].closed : d <= pass[j].userToday
      BY <1>4, <2>1 DEF ClosesAll, Closing
    <3> QED
      BY <1>4, <2>1, <2>2, <2>3, <2>5, <3>1 DEF SettlesAll, Closing
  <2> QED
    BY <2>2, <2>3, <2>4, <2>6, <2>7 DEF PassHeals, ReadsAll
<1>16. CASE PassReadRows(j) \/ PassReadLongest(j)
  <2>1. UNCHANGED <<rollups, lastNight>> /\ pass[j].phase = "project"
    BY <1>5, <1>16 DEF PassReadRows, PassReadLongest, engineVars
  <2>2. /\ pass'[j].phase = "project" /\ pass'[j].at = pass[j].at /\ pass'[j].userToday = pass[j].userToday
        /\ pass'[j].closed = pass[j].closed
        /\ pass'[j].toClose = pass[j].toClose /\ pass'[j].stored = pass[j].stored
    BY <1>1, <1>16, <2>1, PassFields DEF PassReadRows, PassReadLongest
  <2>3. /\ PassNear(pass[j])' /\ OldForPass(pass[j], c)' /\ NightsHeal(c)' /\ LoggedDays' = LoggedDays
        /\ \A d : Quiet(pass[j], d, c)' <=> Quiet(pass[j], d, c)
        /\ \A d : Exact(d) => Exact(d)'
    BY <1>1, <1>2, <1>4, <2>1, <2>2, HealStays
  <2>4. ClosesAll(pass[j], c)'
    BY <1>2, <1>4, <2>1, <2>2, HealStays DEF Closing
  <2>5. SettlesAll(pass[j], c)'
    BY <1>4, <2>1, <2>2, <2>3 DEF SettlesAll, Closing
  <2> QED
    BY <2>2, <2>3, <2>4, <2>5 DEF PassHeals, ReadsAll
<1>17. CASE PassFinish(j)
  <2>1. /\ pass[j].phase = "project" /\ rollups' = rollups /\ pass' = [pass EXCEPT ![j] = NoPass]
        /\ lastNight' = Larger(lastNight, StartOfUtcDay(pass[j].at))
    BY <1>17 DEF PassFinish
  <2>2. pass'[j].phase = "idle" /\ pass'[j].pending = {}
    BY <1>1, <2>1 DEF NoPass
  <2>3. LoggedDays' = LoggedDays /\ \A d : Exact(d) => Exact(d)'
    BY <1>2, <2>1 DEF LoggedDays, Exact, ExactRow, EventsOn
  <2>4. PICK then : then = StartOfUtcDay(pass[j].at)
    OBVIOUS
  <2>5. /\ then \in Int /\ then <= StartOfUtcDay(now) /\ StartOfUtcDay(now) \in Int /\ lastNight \in Int
        /\ lastNight <= StartOfUtcDay(now) /\ StartOfUtcDay(now) <= lastNight + MaxMissedNights + 1
        /\ pass[j].userToday \in Int /\ then - SomeBehind <= pass[j].userToday
        /\ pass[j].userToday <= then + SomeAhead
    BY <1>1, <1>4, <2>1, <2>4, DayBounds, DaysMonotone, NightlyIs DEF PassNear, NightsHeal
  <2>6. ASSUME NEW d \in LoggedDays, d < lastNight' - c PROVE Exact(d)
    <3>1. CASE d < lastNight - c
      BY <1>1, <3>1 DEF NightsHeal
    <3>2. CASE ~ (d < lastNight - c)
      <4>1. d \in Int
        BY NightlyIs
      <4>2. d < then - c
        BY <2>1, <2>4, <2>5, <2>6, <3>2 DEF Larger
      <4>3. pass[j].userToday - LookbackDays <= d /\ d <= pass[j].userToday
        BY <2>5, <3>2, <4>1, <4>2 DEF Reaches
      <4>4. d \in pass[j].closed /\ Quiet(pass[j], d, c)
        BY <1>4, <2>1, <2>4, <4>1, <4>2, <4>3 DEF ClosesAll, Closing, Quiet
      <4> QED
        BY <1>4, <2>1, <4>4 DEF SettlesAll, Closing
    <3> QED
      BY <3>1, <3>2
  <2>7. lastNight' \in Int /\ lastNight' <= StartOfUtcDay(now) /\ StartOfUtcDay(now) <= lastNight' + MaxMissedNights + 1
    BY <2>1, <2>4, <2>5 DEF Larger, Reaches
  <2>8. NightsHeal(c)'
    BY <1>2, <2>3, <2>6, <2>7 DEF NightsHeal, StartOfUtcDay
  <2> QED
    BY <2>2, <2>8 DEF PassHeals
<1>18. CASE PassFail(j)
  <2>1. UNCHANGED <<rollups, lastNight>> /\ pass' = [pass EXCEPT ![j] = NoPass]
    BY <1>18 DEF PassFail, tables
  <2>2. pass'[j].phase = "idle" /\ pass'[j].pending = {}
    BY <1>1, <2>1 DEF NoPass
  <2>3. NightsHeal(c)'
    BY <1>1, <1>2, <2>1, HealStays
  <2> QED
    BY <2>2, <2>3 DEF PassHeals
<1> QED
  BY <1>10, <1>11, <1>12, <1>13, <1>14, <1>15, <1>16, <1>17, <1>18 DEF PassStep

\* No step of a job that is alone leaves the inductive invariant, if no upload
\* comes too late.
LEMMA HealNext ==
    ASSUME NEW late \in Nat, JobAlone, NightsReach(late)
    PROVE  /\ NightlyInv /\ HealInv(Unsettled(late))
           /\ [NightlyNext /\ SentWithin(late)]_nightlyVars
           => HealInv(Unsettled(late))'
<1> DEFINE c == Unsettled(late)
<1>1. Reaches(c) /\ late <= c
  BY ReachIs DEF Reaches
<1> SUFFICES ASSUME NightlyInv, HealInv(c), [NightlyNext /\ SentWithin(late)]_nightlyVars
             PROVE  HealInv(c)'
  OBVIOUS
<1> HIDE DEF c
<1>2. CASE NightsTick
  BY <1>1, <1>2, HealTick
<1>3. CASE InactiveNight
  BY <1>1, <1>3, HealInactive
<1>4. ASSUME NEW j \in Passes, StartPass(j) \/ PassStep(j) \/ PassFail(j) PROVE HealInv(c)'
  BY <1>1, <1>4, HealStart, HealStep
<1>5. ASSUME NEW e \in Acts, Ingest(e), UNCHANGED <<pass, lastNight>>, SentWithin(late) PROVE HealInv(c)'
  <2>1. e.localDay >= StartOfUtcDay(now) - late
    BY <1>5 DEF SentWithin
  <2>2. StartOfUtcDay(now) - c <= e.localDay
    BY <1>1, <2>1, NightlyIs DEF Reaches
  <2> QED
    BY <1>1, <1>5, <2>2, HealIngest
<1>6. CASE UNCHANGED nightlyVars
  <2>1. UNCHANGED <<now, goals, events, rollups, pass, lastNight>>
    BY <1>6 DEF nightlyVars, engineVars
  <2>2. NightsHeal(c)' /\ LoggedDays' = LoggedDays /\ (\A d : Exact(d)' = Exact(d)) /\ \A d, t : ClosedAt(d, t)' = ClosedAt(d, t)
    BY <2>1, ClosedAtStays DEF HealInv, NightsHeal, LoggedDays, Exact, ExactRow, EventsOn, StartOfUtcDay
  <2> QED
    BY <2>1, <2>2 DEF HealInv, PassHeals, PassNear, OldForPass, ReadsAll, ClosesAll, SettlesAll, Quiet,
                      EventsOn, StartOfUtcDay
<1> QED
  BY <1>2, <1>3, <1>4, <1>5, <1>6 DEF NightlyNext, JobAlone

\* At first there is no day to settle.
LEMMA HealInit ==
    ASSUME NEW late \in Nat, NightsReach(late), NightlyInit
    PROVE  HealInv(Unsettled(late))
<1>1. events = {} /\ lastNight = StartOfUtcDay(now) /\ pass = [j \in Passes |-> NoPass]
  BY DEF NightlyInit, EngineInit
<1>2. NightlyInv
  BY NightlyInvInit
<1>3. StartOfUtcDay(now) \in Int /\ MaxMissedNights \in Nat
  BY <1>2, ReachIs, NightlyIs
<1>4. NightsHeal(Unsettled(late))
  BY <1>1, <1>3 DEF NightsHeal, LoggedDays
<1>5. \A j \in Passes : pass[j].phase = "idle" /\ pass[j].pending = {}
  BY <1>1 DEF NoPass
<1> QED
  BY <1>4, <1>5 DEF HealInv, PassHeals

\* When a pass ends every closed day up to the user's today is as it should be.
LEMMA ClosedIsExact ==
    ASSUME NightlyInv, NEW c, Reaches(c), HealInv(c), NEW j \in Passes, PassFinish(j),
           pass[j].stored = events, NEW d \in LoggedDays, d <= pass[j].userToday,
           ClosedAt(d, pass[j].at)
    PROVE  Exact(d)
<1>1. pass[j].phase = "project" /\ d \in Int
  BY NightlyIs DEF PassFinish
<1>2. PassNear(pass[j]) /\ ClosesAll(pass[j], c) /\ SettlesAll(pass[j], c) /\ NightsHeal(c)
  BY <1>1 DEF HealInv, PassHeals
<1>3. CASE pass[j].userToday - LookbackDays <= d
  <2>1. d \in pass[j].closed /\ Quiet(pass[j], d, c)
    BY <1>1, <1>2, <1>3 DEF ClosesAll, Closing, Quiet
  <2> QED
    BY <1>1, <1>2, <2>1 DEF SettlesAll, Closing
<1>4. CASE ~ (pass[j].userToday - LookbackDays <= d)
  <2>1. PICK then : then = StartOfUtcDay(pass[j].at)
    OBVIOUS
  <2>2. /\ then \in Int /\ then <= StartOfUtcDay(now) /\ StartOfUtcDay(now) \in Int /\ lastNight \in Int
        /\ StartOfUtcDay(now) <= lastNight + MaxMissedNights + 1
        /\ pass[j].userToday \in Int /\ pass[j].userToday <= then + SomeAhead
    BY <1>2, <2>1, DayBounds, DaysMonotone, NightlyIs DEF PassNear, NightsHeal
  <2>3. d < lastNight - c
    BY <1>1, <1>4, <2>2 DEF Reaches
  <2> QED
    BY <1>2, <2>3 DEF NightsHeal
<1> QED
  BY <1>3, <1>4

\* A user who logs and never opens the app has the rows of all the days that have
\* closed after every night: those of the nights that the schedule missed, and
\* those to which events came late, as long as the look-back of the job spans
\* the nights missed, the latest upload and the zones in use.
THEOREM ClosedDaysKept ==
    ASSUME NEW late \in Nat, JobAlone, NightsReach(late)
    PROVE  NightlySpec /\ [][SentWithin(late)]_nightlyVars => ClosedDaysPersisted
<1> DEFINE c == Unsettled(late)
<1>1. Reaches(c)
  BY ReachIs DEF Reaches
<1>2. NightlyInit => HealInv(c)
  BY HealInit
<1>3. NightlyInv /\ HealInv(c) /\ [NightlyNext /\ SentWithin(late)]_nightlyVars => HealInv(c)'
  BY HealNext
<1>4. NightlyInv /\ HealInv(c) =>
        [\A j \in Passes : PassFinish(j) /\ pass[j].stored = events =>
            \A d \in {e.localDay : e \in events} : d <= pass[j].userToday /\ ClosedAt(d, pass[j].at) =>
                d \in DOMAIN rollups /\ rollups[d] = ExactRow(d)]_nightlyVars
  <2> HIDE DEF c
  <2> QED
    BY <1>1, ClosedIsExact DEF LoggedDays, Exact
<1> HIDE DEF c
<1> QED
  BY <1>2, <1>3, <1>4, NightlyInvariance, PTL DEF NightlySpec, ClosedDaysPersisted

-----------------------------------------------------------------------------
(* The streak of a user who logs in one zone and never opens the app.        *)

\* The user stays in one zone.
AtHome(home) == home \in ZoneOffsets /\ \A e \in Acts : e.zone = home

\* No event is dated after the day it is uploaded on.
NotAhead == \A e \in Acts : Ingest(e) => e.localDay <= LocalDayIn(e.zone, now)

\* A pass finalises days that are over where the user is, and has read the rows
\* it projects the streak over.
PassDormant(p, home) ==
    /\ \A d \in DOMAIN rollups : d < LocalDayIn(home, p.at)
    /\ \E e \in p.stored : e.localDay <= LocalDayIn(home, p.at)
    /\ p.phase \in Closing => \A d \in p.closed : d < LocalDayIn(home, p.at)
    /\ p.phase = "days" => p.toClose \subseteq p.closed
    /\ p.phase \in {"goal", "write"} => p.toClose \union {p.day} \subseteq p.closed
    /\ p.phase = "project" /\ "rows" \notin p.pending => p.rows = rollups

\* There is no row of a day that is not over.
DormantInv(home) ==
    /\ \A e \in events : e.localDay <= LocalDayIn(home, now)
    /\ \A d \in DOMAIN rollups : d < LocalDayIn(home, now)
    /\ \A j \in Passes : pass[j].phase # "idle" => PassDormant(pass[j], home)

\* What every step has of the place and of the invariants.
Dormant(c, home) == NightlyInv /\ HealInv(c) /\ AtHome(home) /\ JobAlone /\ DormantInv(home)

\* A later instant is on no earlier day at home.
LEMMA HomeMonotone ==
    ASSUME NEW home \in ZoneOffsets, NEW t \in Int, NEW u \in Int, t <= u
    PROVE  /\ LocalDayIn(home, t) \in Int /\ LocalDayIn(home, u) \in Int
           /\ LocalDayIn(home, t) <= LocalDayIn(home, u)
<1>1. home \in Int /\ t + home \in Int /\ u + home \in Int /\ t + home <= u + home
  BY DEF ZoneOffsets
<1>2. /\ LocalDayIn(home, t) = StartOfUtcDay(t + home) /\ LocalDayIn(home, u) = StartOfUtcDay(u + home)
  BY DEF LocalDayIn, StartOfUtcDay
<1> QED
  BY <1>1, <1>2, DayBounds, DaysMonotone

\* All events are from home.
LEMMA HomeZones ==
    ASSUME NEW home, AtHome(home), NEW some \in SUBSET Acts, some # {}, NEW zone \in LatestZones(some)
    PROVE  zone = home
BY DEF AtHome, LatestZones

\* A pass begins after the day of every row.
LEMMA DormantStart ==
    ASSUME NEW c, NEW home, Dormant(c, home), NEW j \in Passes, StartPass(j)
    PROVE  DormantInv(home)'
<1>1. PICK zone \in LatestZones(events) :
        pass' = [pass EXCEPT ![j] =
            [NoPass EXCEPT !.phase = "window", !.at = now, !.stored = events,
                           !.userToday = LocalDayIn(zone, now)]]
  BY DEF StartPass
<1>2. UNCHANGED <<now, events, rollups>> /\ Active
  BY DEF StartPass, engineVars
<1>3. pass'[j].phase = "window" /\ pass'[j].at = now /\ pass'[j].stored = events
  BY <1>1, NightlyIs DEF NoPass, Dormant
<1>4. PICK e \in events : TRUE
  BY <1>2 DEF Active
<1>5. LocalDayIn(home, now)' = LocalDayIn(home, now) /\ LocalDayIn(home, pass[j].at)' = LocalDayIn(home, now)
  BY <1>2, <1>3 DEF LocalDayIn, StartOfUtcDay
<1>6. PassDormant(pass[j], home)'
  BY <1>2, <1>3, <1>4, <1>5 DEF PassDormant, Closing, Dormant, DormantInv
<1> QED
  BY <1>2, <1>5, <1>6 DEF Dormant, DormantInv, JobAlone

\* The days that a pass takes to have closed are over at home.
LEMMA DormantPrior ==
    ASSUME NEW c, NEW home, Dormant(c, home), NEW j \in Passes, pass[j].phase = "prior",
           NEW priorZone \in PriorZones(j), NEW closed \in Closures(j, priorZone), NEW d \in closed
    PROVE  d < LocalDayIn(home, pass[j].at)
<1>1. /\ PassOK(j) /\ events \in SUBSET Acts /\ PassDormant(pass[j], home)
      /\ \A e \in Acts : e.localDay \in Int
  BY NightlyIs DEF Dormant, DormantInv
<1>2. /\ d \in WindowFrom(j) .. pass[j].userToday
      /\ \E zone \in ResolvedZones(d, pass[j].window, priorZone) : LocalDayIn(zone, pass[j].at) > d
  BY DEF Closures
<1>3. PICK zone \in ResolvedZones(d, pass[j].window, priorZone) : LocalDayIn(zone, pass[j].at) > d
  BY <1>2
<1>4. /\ pass[j].window \in SUBSET Acts /\ pass[j].stored \subseteq events
      /\ \A e \in pass[j].stored : e.localDay >= WindowFrom(j) => e \in pass[j].window
  BY <1>1 DEF PassOK
<1>5. pass[j].userToday \in Int /\ WindowFrom(j) \in Int
  BY <1>1, NightlyAssumption DEF PassOK, WindowFrom, NightlyAssumption
<1>6. d \in Int
  BY <1>2, <1>5
<1>7. pass[j].at \in Int
  BY DEF Dormant, HealInv, PassHeals, PassNear
<1>8. home \in ZoneOffsets
  BY DEF Dormant, AtHome
<1>9. LocalDayIn(home, pass[j].at) \in Int
  BY <1>7, <1>8, HomeMonotone
<1> DEFINE onDay == EventsOn(pass[j].window, d)
           before == {e \in pass[j].window : e.localDay < d}
           earlier == {e \in events : e.localDay < WindowFrom(j)}
<1>10. onDay \in SUBSET Acts /\ before \in SUBSET Acts /\ earlier \in SUBSET Acts
  BY <1>1, <1>4 DEF EventsOn
<1>11. CASE zone = home
  BY <1>3, <1>6, <1>9, <1>11
<1>12. CASE zone # home
  <2>1. onDay = {} /\ before = {} /\ zone = priorZone
    BY <1>3, <1>10, <1>12, HomeZones DEF ResolvedZones, Dormant
  <2>2. earlier = {}
    BY <1>10, <1>12, <2>1, HomeZones DEF PriorZones, Dormant
  <2>3. PICK e \in pass[j].stored : e.localDay <= LocalDayIn(home, pass[j].at)
    BY <1>1 DEF PassDormant
  <2>4. e \in events /\ e.localDay \in Int
    BY <1>1, <1>4
  <2>5. e \in pass[j].window
    BY <1>4, <1>5, <2>2, <2>4
  <2>6. d < e.localDay
    BY <1>6, <2>1, <2>4, <2>5 DEF EventsOn
  <2> QED
    BY <1>6, <1>9, <2>3, <2>4, <2>6
<1> QED
  BY <1>11, <1>12

\* A pass writes rows of days that are over.
LEMMA DormantStep ==
    ASSUME NEW c, NEW home, Dormant(c, home), NEW j \in Passes, PassStep(j) \/ PassFail(j)
    PROVE  DormantInv(home)'
<1>1. /\ PassOK(j) /\ DOMAIN pass = Passes /\ DOMAIN pass[j] = DOMAIN NoPass
      /\ pass[j].phase # "idle" => PassDormant(pass[j], home)
      /\ pass[j].pending # {} => pass[j].phase = "project"
  BY NightlyIs DEF Dormant, DormantInv, HealInv, PassHeals, SettlesAll, PassOK
<1>2. UNCHANGED <<now, events>>
  BY DEF PassStep, PassFail, PassReadWindow, PassReadPrior, PassEvents, PassGoal, PassWrite,
         PassDropFuture, PassReadRows, PassReadLongest, PassFinish, engineVars, tables
<1>3. /\ \A t : LocalDayIn(home, t)' = LocalDayIn(home, t)
      /\ LocalDayIn(home, now)' = LocalDayIn(home, now)
  BY <1>2 DEF LocalDayIn, StartOfUtcDay
<1>4. ASSUME NEW then, then = pass[j].at, pass'[j].at = then
      PROVE  LocalDayIn(home, pass[j].at)' = LocalDayIn(home, pass[j].at)
  BY <1>4 DEF LocalDayIn, StartOfUtcDay
<1>5. ASSUME DOMAIN rollups' \subseteq DOMAIN rollups, pass'[j].phase # "idle" => PassDormant(pass[j], home)'
      PROVE  DormantInv(home)'
  BY <1>2, <1>3, <1>5 DEF Dormant, DormantInv, JobAlone
<1>10. CASE PassReadWindow(j)
  <2>1. rollups' = rollups /\ pass[j].phase = "window"
    BY <1>10 DEF PassReadWindow, engineVars
  <2>2. /\ pass'[j].phase = "prior" /\ pass'[j].at = pass[j].at /\ pass'[j].stored = pass[j].stored
    BY <1>1, <1>10, PassFields DEF PassReadWindow
  <2> QED
    BY <1>1, <1>4, <1>5, <2>1, <2>2 DEF PassDormant, Closing
<1>11. CASE PassReadPrior(j)
  <2>1. rollups' = rollups /\ pass[j].phase = "prior"
    BY <1>11 DEF PassReadPrior, engineVars
  <2>2. PICK priorZone \in PriorZones(j) : \E closed \in Closures(j, priorZone) :
            pass' = [pass EXCEPT ![j].closed = closed, ![j].toClose = closed, ![j].phase = "days"]
    BY <1>11 DEF PassReadPrior
  <2>3. PICK closed \in Closures(j, priorZone) :
            pass' = [pass EXCEPT ![j].closed = closed, ![j].toClose = closed, ![j].phase = "days"]
    BY <2>2
  <2>4. /\ pass'[j].phase = "days" /\ pass'[j].at = pass[j].at /\ pass'[j].stored = pass[j].stored
        /\ pass'[j].closed = closed /\ pass'[j].toClose = closed
    BY <1>1, <2>3, PassFields
  <2>5. \A d \in closed : d < LocalDayIn(home, pass[j].at)
    BY <2>1, DormantPrior
  <2> QED
    BY <1>1, <1>4, <1>5, <2>1, <2>4, <2>5 DEF PassDormant, Closing
<1>12. CASE PassEvents(j)
  <2>1. rollups' = rollups /\ pass[j].phase = "days"
    BY <1>12 DEF PassEvents, engineVars
  <2>2. PICK day \in pass[j].toClose :
          pass' = [pass EXCEPT ![j].day = day, ![j].events = EventsOn(events, day),
                               ![j].toClose = @ \ {day}, ![j].phase = "goal"]
    BY <1>12 DEF PassEvents
  <2>3. /\ pass'[j].phase = "goal" /\ pass'[j].at = pass[j].at /\ pass'[j].stored = pass[j].stored
        /\ pass'[j].closed = pass[j].closed /\ pass'[j].toClose = pass[j].toClose \ {day}
        /\ pass'[j].day = day
    BY <1>1, <2>2, PassFields
  <2> QED
    BY <1>1, <1>4, <1>5, <2>1, <2>3 DEF PassDormant, Closing
<1>13. CASE PassGoal(j)
  <2>1. rollups' = rollups /\ pass[j].phase = "goal"
    BY <1>13 DEF PassGoal, engineVars
  <2>2. /\ pass'[j].phase = "write" /\ pass'[j].at = pass[j].at /\ pass'[j].stored = pass[j].stored
        /\ pass'[j].closed = pass[j].closed /\ pass'[j].toClose = pass[j].toClose
        /\ pass'[j].day = pass[j].day
    BY <1>1, <1>13, PassFields DEF PassGoal
  <2> QED
    BY <1>1, <1>4, <1>5, <2>1, <2>2 DEF PassDormant, Closing
<1>14. CASE PassWrite(j)
  <2>1. pass[j].phase = "write" /\ DOMAIN rollups' = DOMAIN rollups \union {pass[j].day}
    BY <1>14 DEF PassWrite, Upsert
  <2>2. /\ pass'[j].phase = "days" /\ pass'[j].at = pass[j].at /\ pass'[j].stored = pass[j].stored
        /\ pass'[j].closed = pass[j].closed /\ pass'[j].toClose = pass[j].toClose
    BY <1>1, <1>14, PassFields DEF PassWrite
  <2>3. PassDormant(pass[j], home)'
    BY <1>1, <1>4, <2>1, <2>2 DEF PassDormant, Closing
  <2>4. pass[j].day \in Int /\ pass[j].day < LocalDayIn(home, pass[j].at)
    BY <1>1, <2>1 DEF PassDormant, Closing, PassOK
  <2>5. /\ LocalDayIn(home, pass[j].at) \in Int /\ LocalDayIn(home, now) \in Int
        /\ LocalDayIn(home, pass[j].at) <= LocalDayIn(home, now)
    <3>1. pass[j].at \in Int /\ now \in Int /\ pass[j].at <= now
      BY <2>1, NightlyIs DEF Dormant, HealInv, PassHeals, PassNear
    <3> QED
      BY <3>1, HomeMonotone DEF Dormant, AtHome
  <2>6. pass[j].day < LocalDayIn(home, now)
    BY <2>4, <2>5
  <2> QED
    BY <1>2, <1>3, <2>1, <2>3, <2>6 DEF Dormant, DormantInv, JobAlone
<1>15. CASE PassDropFuture(j)
  <2>1. pass[j].phase = "days" /\ DOMAIN rollups' \subseteq DOMAIN rollups
    BY <1>15 DEF PassDropFuture
  <2>2. /\ pass'[j].phase = "project" /\ pass'[j].at = pass[j].at /\ pass'[j].stored = pass[j].stored
        /\ pass'[j].closed = pass[j].closed /\ pass'[j].pending = {"rows", "longest"}
    BY <1>1, <1>15, PassFields DEF PassDropFuture
  <2> QED
    BY <1>1, <1>4, <1>5, <2>1, <2>2 DEF PassDormant, Closing
<1>16. CASE PassReadRows(j)
  <2>1. rollups' = rollups /\ pass[j].phase = "project"
    BY <1>1, <1>16 DEF PassReadRows, engineVars
  <2>2. /\ pass'[j].phase = "project" /\ pass'[j].at = pass[j].at /\ pass'[j].stored = pass[j].stored
        /\ pass'[j].closed = pass[j].closed /\ pass'[j].rows = rollups
    BY <1>1, <1>16, <2>1, PassFields DEF PassReadRows
  <2> QED
    BY <1>1, <1>4, <1>5, <2>1, <2>2 DEF PassDormant, Closing
<1>17. CASE PassReadLongest(j)
  <2>1. rollups' = rollups /\ pass[j].phase = "project"
    BY <1>1, <1>17 DEF PassReadLongest, engineVars
  <2>2. /\ pass'[j].phase = "project" /\ pass'[j].at = pass[j].at /\ pass'[j].stored = pass[j].stored
        /\ pass'[j].closed = pass[j].closed /\ pass'[j].rows = pass[j].rows
        /\ pass'[j].pending = pass[j].pending \ {"longest"}
    BY <1>1, <1>17, <2>1, PassFields DEF PassReadLongest
  <2>3. "rows" \notin pass'[j].pending => "rows" \notin pass[j].pending
    BY <2>2
  <2> QED
    BY <1>1, <1>4, <1>5, <2>1, <2>2, <2>3 DEF PassDormant, Closing
<1>18. CASE PassFinish(j) \/ PassFail(j)
  <2>1. rollups' = rollups /\ pass' = [pass EXCEPT ![j] = NoPass]
    BY <1>18 DEF PassFinish, PassFail, tables
  <2>2. pass'[j].phase = "idle"
    BY <1>1, <2>1 DEF NoPass
  <2> QED
    BY <1>5, <2>1, <2>2
<1> QED
  BY <1>10, <1>11, <1>12, <1>13, <1>14, <1>15, <1>16, <1>17, <1>18 DEF PassStep

\* No step writes a row of a day that is not over.
LEMMA DormantNext ==
    ASSUME NEW c, NEW home, Dormant(c, home), [NightlyNext /\ NotAhead]_nightlyVars
    PROVE  DormantInv(home)'
<1>1. now \in Int /\ DOMAIN rollups \subseteq Int /\ events \in SUBSET Acts /\ \A e \in Acts : e.localDay \in Int
  BY NightlyIs DEF Dormant
<1>2. home \in ZoneOffsets
  BY DEF Dormant, AtHome
<1>3. ASSUME events' = events, rollups' = rollups, pass' = pass, now' = now \/ now' = now + 1
      PROVE  DormantInv(home)'
  <2>1. /\ LocalDayIn(home, now) \in Int /\ LocalDayIn(home, now') \in Int
        /\ LocalDayIn(home, now) <= LocalDayIn(home, now')
    BY <1>1, <1>2, <1>3, HomeMonotone
  <2>2. LocalDayIn(home, now)' = LocalDayIn(home, now')
    BY DEF LocalDayIn, StartOfUtcDay
  <2>3. \A j \in Passes : pass'[j].phase # "idle" => PassDormant(pass[j], home)'
    BY <1>3 DEF Dormant, DormantInv, PassDormant, LocalDayIn, StartOfUtcDay
  <2> QED
    BY <1>1, <1>3, <2>1, <2>2, <2>3 DEF Dormant, DormantInv
<1>4. CASE NightsTick
  BY <1>3, <1>4 DEF NightsTick, EngineTick, Tick
<1>5. CASE InactiveNight \/ UNCHANGED nightlyVars
  BY <1>3, <1>5 DEF InactiveNight, nightlyVars, engineVars
<1>6. ASSUME NEW j \in Passes, StartPass(j) \/ PassStep(j) \/ PassFail(j) PROVE DormantInv(home)'
  BY <1>6, DormantStart, DormantStep
<1>7. ASSUME NEW e \in Acts, Ingest(e), pass' = pass, NotAhead PROVE DormantInv(home)'
  <2>1. events' = events \union {e} /\ rollups' = rollups /\ now' = now
    BY <1>7 DEF Ingest
  <2>2. e.localDay <= LocalDayIn(home, now)
    BY <1>7 DEF NotAhead, Dormant, AtHome
  <2>3. LocalDayIn(home, now)' = LocalDayIn(home, now)
    BY <2>1 DEF LocalDayIn, StartOfUtcDay
  <2>4. \A j \in Passes : pass'[j].phase # "idle" => PassDormant(pass[j], home)'
    BY <1>7, <2>1 DEF Dormant, DormantInv, PassDormant, LocalDayIn, StartOfUtcDay
  <2> QED
    BY <2>1, <2>2, <2>3, <2>4 DEF Dormant, DormantInv
<1> QED
  BY <1>4, <1>5, <1>6, <1>7 DEF NightlyNext, Dormant, JobAlone

\* A day of which a row says that the goal is met has events.
LEMMA MetIsLogged ==
    ASSUME NightlyInv, NEW d \in DOMAIN rollups, rollups[d].goalMet
    PROVE  d \in LoggedDays
<1>1. Founded(rollups[d], EventsOn(events, d))
  BY DEF NightlyInv, EngineInv, StoreInv, RowsFounded
<1>2. PICK T \in SUBSET EventsOn(events, d), goal \in AnyGoal : rollups[d] = RollupFrom(T, goal)
  BY <1>1 DEF Founded
<1>3. Met(goal, CountsOf(T))
  BY <1>2 DEF RollupFrom
<1>4. T # {}
  BY <1>3, MetNeedsEvents
<1> QED
  BY <1>2, <1>4 DEF EventsOn, LoggedDays

\* The streak that a pass stores is that of the closed days.
LEMMA DormantFinish ==
    ASSUME NEW c, NEW home, Reaches(c), Dormant(c, home), NEW j \in Passes, PassFinish(j), pass[j].stored = events
    PROVE  streakState'.current = ClosedStreak(pass[j].userToday, pass[j].at).current
<1> DEFINE p == pass[j]
           days == {d \in LoggedDays : ClosedAt(d, p.at)}
           every == ComputeRange(events, goals, days)
           met == MetDays(p.rows, <<>>, p.userToday)
           full == MetDays(<<>>, every, p.userToday)
<1>1. p.phase = "project" /\ p.pending = {} /\ streakState' = StreakFrom(p.userToday, p.rows, <<>>, p.longest)
  BY DEF PassFinish
<1>2. p.rows = rollups /\ \A d \in DOMAIN rollups : d < LocalDayIn(home, p.at)
  BY <1>1 DEF Dormant, DormantInv, PassDormant
<1>3. ASSUME NEW d \in days, d <= p.userToday PROVE d \in DOMAIN rollups /\ rollups[d] = ExactRow(d)
  BY <1>3, ClosedIsExact DEF Exact, Dormant
<1>4. DOMAIN every = days /\ \A d \in days : every[d] = ExactRow(d)
  BY DEF ComputeRange, ExactRow
<1>5. ASSUME NEW d \in met PROVE d \in full
  <2>1. d \in DOMAIN rollups /\ rollups[d].goalMet /\ d <= p.userToday
    BY <1>2, <1>5 DEF MetDays
  <2>2. d \in LoggedDays /\ d \in Int
    BY <2>1, MetIsLogged, NightlyIs DEF Dormant
  <2>3. ClosedAt(d, p.at)
    <3>1. /\ EventsOn(events, d) \in SUBSET Acts /\ EventsOn(events, d) # {}
      BY <2>2, NightlyIs DEF EventsOn, LoggedDays, Dormant
    <3>2. \A zone \in GoverningZones(d) : zone = home
      BY <3>1, HomeZones DEF GoverningZones, Dormant
    <3>3. p.at \in Int /\ home \in ZoneOffsets
      BY <1>1 DEF Dormant, HealInv, PassHeals, PassNear, AtHome
    <3>4. LocalDayIn(home, p.at) \in Int
      BY <3>3, HomeMonotone
    <3>5. LocalDayIn(home, p.at) > d
      BY <1>2, <2>1, <2>2, <3>4
    <3> QED
      BY <3>2, <3>5 DEF ClosedAt
  <2>4. d \in days
    BY <2>2, <2>3
  <2> QED
    BY <1>3, <1>4, <2>1, <2>4 DEF MetDays
<1>6. ASSUME NEW d \in full PROVE d \in met
  <2>1. d \in days /\ every[d].goalMet /\ d <= p.userToday
    BY <1>4, <1>6 DEF MetDays
  <2> QED
    BY <1>2, <1>3, <1>4, <2>1 DEF MetDays
<1>7. met = full
  BY <1>5, <1>6
<1>8. streakState'.current = ComputeStreak(met, p.userToday).current
  BY <1>1, StreakOfMetDays
<1>9. ClosedStreak(p.userToday, p.at).current = ComputeStreak(full, p.userToday).current
  BY StreakOfMetDays DEF ClosedStreak, LoggedDays
<1> HIDE DEF met, full
<1> QED
  BY <1>7, <1>8, <1>9

\* At first there are no rows.
LEMMA DormantInit == NightlyInit => \A home : DormantInv(home)
BY DEF NightlyInit, EngineInit, DormantInv, NoPass

\* For a user who logs in one zone and never opens the app, every night leaves in
\* streak_states the streak of all the days that have closed, those of the nights
\* that the schedule missed included.
THEOREM DormantStreakKept ==
    ASSUME NEW late \in Nat, JobAlone, NightsReach(late), NEW home, AtHome(home)
    PROVE  NightlySpec /\ [][SentWithin(late) /\ NotAhead]_nightlyVars => DormantStreakCurrent
<1> DEFINE c == Unsettled(late)
<1>1. Reaches(c)
  BY ReachIs DEF Reaches
<1>2. NightlyInit => HealInv(c) /\ DormantInv(home)
  BY HealInit, DormantInit
<1>3. NightlyInv /\ HealInv(c) /\ [NightlyNext /\ SentWithin(late)]_nightlyVars => HealInv(c)'
  BY HealNext
<1>4. NightlyInv /\ HealInv(c) /\ DormantInv(home) /\ [NightlyNext /\ NotAhead]_nightlyVars => DormantInv(home)'
  <2> HIDE DEF c
  <2> QED
    BY DormantNext DEF Dormant
<1>5. NightlyInv /\ HealInv(c) /\ DormantInv(home) =>
        [\A j \in Passes : PassFinish(j) /\ pass[j].stored = events =>
            streakState'.current = ClosedStreak(pass[j].userToday, pass[j].at).current]_nightlyVars
  <2> HIDE DEF c
  <2> QED
    BY <1>1, DormantFinish DEF Dormant
<1> HIDE DEF c
<1> QED
  BY <1>2, <1>3, <1>4, <1>5, NightlyInvariance, PTL DEF NightlySpec, DormantStreakCurrent
=============================================================================
