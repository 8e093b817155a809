---------------------------- MODULE GoalSetting ----------------------------
(***************************************************************************)
(* PUT /goal of activity-read.service.ts on the user_goals table of one    *)
(* (user, faith) pair: concurrent requests, each an interactive            *)
(* transaction of several statements at READ COMMITTED, from devices in    *)
(* different zones, under a running clock, any of which may fail midway.   *)
(*                                                                         *)
(* put[p] is a request: `at' the instant and `zone' the zone its localDay  *)
(* was derived from, `latest' the effectiveFrom of the row it read,        *)
(* `closing' the effectiveFroms of the rows its updateMany has locked and  *)
(* closed without having committed.  A row is identified by its            *)
(* effectiveFrom: the pair's unique key, never updated.                    *)
(***************************************************************************)
EXTENDS DayRollups

CONSTANTS
    Putters,        \* concurrent PUT /goal requests
    Zones,          \* the zones requests state
    GoalChoices,    \* the goals [activityType, target] requests set
    LastTick        \* bound: the instant the clock stops

ASSUME GoalAssumption ==
    /\ Zones \subseteq ZoneOffsets
    /\ GoalChoices \subseteq [activityType : ActivityTypes, target : Nat \ {0}]
    /\ LastTick \in Nat

VARIABLES now, goals, put

goalVars == <<now, goals, put>>

GoalRow ==
    [effectiveFrom : Int, effectiveTo : Int, activityType : ActivityTypes, target : Nat \ {0}]

PutPhases == {"idle", "read", "update", "close", "create", "committed"}

PutRequest ==
    [phase : PutPhases, at : Nat, zone : Zones \union {0},
     goal : GoalChoices \union {NoGoal}, latest : Int, closing : SUBSET Int]

NoPut == [phase |-> "idle", at |-> 0, zone |-> 0, goal |-> NoGoal, latest |-> NoDay, closing |-> {}]

\* The localDay a request took its goal to be effective from.
LocalDayOf(p) == LocalDayIn(put[p].zone, put[p].at)

\* Types, and what each phase of a request has established.
GoalTypeOK ==
    /\ now \in Nat
    /\ goals \subseteq GoalRow
    /\ put \in [Putters -> PutRequest]
    /\ \A p \in Putters :
        /\ put[p].phase # "idle" => put[p].zone \in Zones /\ put[p].goal \in GoalChoices
        /\ put[p].phase = "update" => put[p].latest >= LocalDayOf(p)

\* The clock starts a day after the epoch so that every local day is a Nat.
GoalInit ==
    /\ now = TicksPerDay
    /\ goals = {}
    /\ put = [p \in Putters |-> NoPut]

Tick ==
    /\ now < LastTick
    /\ now' = now + 1
    /\ UNCHANGED <<goals, put>>

StartPut(p, zone, goal) ==
    /\ put[p].phase = "idle"
    /\ put' = [put EXCEPT ![p] = [NoPut EXCEPT !.phase = "read", !.at = now,
                                               !.zone = zone, !.goal = goal]]
    /\ UNCHANGED <<now, goals>>

\* Faulty variant: the goal is one mutable row, updated whenever it exists.
ReadLatest_AlwaysUpdates(p) ==
    /\ put[p].phase = "read"
    /\ \/ /\ goals = {}
          /\ put' = [put EXCEPT ![p].phase = "close"]
       \/ \E row \in goals :
            /\ \A other \in goals : other.effectiveFrom <= row.effectiveFrom
            /\ put' = [put EXCEPT ![p].latest = row.effectiveFrom, ![p].phase = "update"]
    /\ UNCHANGED <<now, goals>>

\* tx.userGoal.findFirst: the row with the latest start decides the branch.
ReadLatest(p) ==
    /\ put[p].phase = "read"
    /\ \/ /\ goals = {}
          /\ put' = [put EXCEPT ![p].phase = "close"]
       \/ \E row \in goals :
            /\ \A other \in goals : other.effectiveFrom <= row.effectiveFrom
            /\ put' = [put EXCEPT
                ![p].latest = row.effectiveFrom,
                ![p].phase = IF row.effectiveFrom >= LocalDayOf(p) THEN "update" ELSE "close"]
    /\ UNCHANGED <<now, goals>>

\* A row whose close is not committed blocks other writers of it.
Locked(p, row) == \E q \in Putters \ {p} : row.effectiveFrom \in put[q].closing

\* Not every PUT appends: a goal that starts on localDay or later is
\* updated in place and opened again.
UpdateInPlace(p) ==
    /\ put[p].phase = "update"
    /\ \E row \in goals :
        /\ row.effectiveFrom = put[p].latest
        /\ ~ Locked(p, row)
        /\ goals' = (goals \ {row}) \union
             {[row EXCEPT !.effectiveTo = NoDay,
                          !.activityType = put[p].goal.activityType,
                          !.target = put[p].goal.target]}
    /\ put' = [put EXCEPT ![p].phase = "committed"]
    /\ UNCHANGED now

\* tx.userGoal.updateMany closes every open row that started earlier.
CloseOpen(p) ==
    LET open == {row \in goals : row.effectiveTo = NoDay
                                 /\ row.effectiveFrom < LocalDayOf(p)}
    IN  /\ put[p].phase = "close"
        /\ \A row \in open : ~ Locked(p, row)
        /\ put' = [put EXCEPT ![p].phase = "create",
                              ![p].closing = {row.effectiveFrom : row \in open}]
        /\ UNCHANGED <<now, goals>>

\* Faulty variant: the new goal replaces every earlier one.
Create_OneMutableRow(p) ==
    /\ put[p].phase = "create"
    /\ goals' = {[effectiveFrom |-> LocalDayOf(p), effectiveTo |-> NoDay,
                  activityType |-> put[p].goal.activityType,
                  target |-> put[p].goal.target]}
    /\ put' = [put EXCEPT ![p].phase = "committed", ![p].closing = {}]
    /\ UNCHANGED now

\* tx.userGoal.create and the commit.  Another request's row for the same day
\* is a unique violation: the transaction rolls back and the request fails.
Create(p) ==
    /\ put[p].phase = "create"
    /\ \/ /\ \A row \in goals : row.effectiveFrom # LocalDayOf(p)
          /\ goals' = {IF row.effectiveFrom \in put[p].closing
                       THEN [row EXCEPT !.effectiveTo = LocalDayOf(p)] ELSE row : row \in goals}
                      \union {[effectiveFrom |-> LocalDayOf(p), effectiveTo |-> NoDay,
                               activityType |-> put[p].goal.activityType,
                               target |-> put[p].goal.target]}
          /\ put' = [put EXCEPT ![p].phase = "committed", ![p].closing = {}]
       \/ /\ \E row \in goals : row.effectiveFrom = LocalDayOf(p)
          /\ goals' = goals
          /\ put' = [put EXCEPT ![p] = NoPut]
    /\ UNCHANGED now

\* A failed statement or a killed function before the commit rolls back.
AbortPut(p) ==
    /\ put[p].phase \in {"read", "update", "close", "create"}
    /\ put' = [put EXCEPT ![p] = NoPut]
    /\ UNCHANGED <<now, goals>>

FinishPut(p) ==
    /\ put[p].phase = "committed"
    /\ put' = [put EXCEPT ![p] = NoPut]
    /\ UNCHANGED <<now, goals>>

PutStep(p) ==
    \/ ReadLatest(p) \/ UpdateInPlace(p) \/ CloseOpen(p) \/ Create(p) \/ AbortPut(p)

GoalNext ==
    \/ Tick
    \/ \E p \in Putters :
        \/ \E zone \in Zones, goal \in GoalChoices : StartPut(p, zone, goal)
        \/ PutStep(p)
        \/ FinishPut(p)

GoalSpec == GoalInit /\ [][GoalNext]_goalVars

-----------------------------------------------------------------------------
\* The days a run of the clock can touch, in any zone.
Days == 0 .. (StartOfUtcDay(LastTick) + 1)

\* A day that had ended in every zone when every request now under way began.
OverForAll(day) ==
    \A p \in Putters : put[p].phase # "idle" =>
        \A zone \in Zones : day < LocalDayIn(zone, put[p].at)

\* Changing a goal is not retroactive: no request, however slow and however far
\* west, changes the goal in force on a day that was over before it began.
NotRetroactive ==
    [][\A day \in Days : OverForAll(day) =>
            GoalInForce(goals', day) = GoalInForce(goals, day)]_goalVars

\* The lookup is total: once some goal is in force on a day, no request ever
\* leaves that day with none, though close and insert are two statements.
GoalNeverVanishes ==
    [][\A day \in Days : GoalInForce(goals, day) # NoGoal =>
            GoalInForce(goals', day) # NoGoal]_goalVars

=============================================================================
