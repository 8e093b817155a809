----------------------------- MODULE DayRollups -----------------------------
(***************************************************************************)
(* The pure half of rollup.service.ts: one day's rollup out of the day's   *)
(* events and the goal in force on it, a range of days, and the streak     *)
(* projected over rollups.  One (user, faith) pair throughout.             *)
(*                                                                         *)
(* An event is [id, activityType, quantity, occurredAt, localDay, zone]; a *)
(* user_goals row [effectiveFrom, effectiveTo, activityType, target] (a    *)
(* goalType names exactly one activityType); a daily_rollups row [counts,  *)
(* goalMet], where a count of 0 is a key the code leaves out and `points', *)
(* always 0, is left out.                                                  *)
(***************************************************************************)
EXTENDS StreakRules

CONSTANT ActivityTypes

NoGoal == [activityType |-> "none", target |-> 0]

EventsOn(events, day) == {e \in events : e.localDay = day}

\* The units some events record: an event of quantity n records n.
UnitsOf(some) == UNION {{e} \X (1 .. e.quantity) : e \in some}

\* SUM(quantity) per activity type, never COUNT(events).
CountsOf(dayEvents) ==
    [a \in ActivityTypes |->
        Cardinality(UnitsOf({e \in dayEvents : e.activityType = a}))]

\* Faulty variant: a goal starts the day after the one it is effective from.
Started_DayAfter(goals, day) == {g \in goals : g.effectiveFrom < day}

Started(goals, day) == {g \in goals : g.effectiveFrom <= day}

\* The latest goal to have started on or before the day; `effectiveTo' is not
\* consulted.  findGoalInForce, goalInForce and the forward pointer of
\* computeRange are three codings of it.
GoalInForce(goals, day) ==
    LET started == Started(goals, day)
    IN  IF started = {} THEN NoGoal
        ELSE LET g == CHOOSE g \in started :
                         \A h \in started : h.effectiveFrom <= g.effectiveFrom
             IN  [activityType |-> g.activityType, target |-> g.target]

Met(goal, counts) == goal # NoGoal /\ counts[goal.activityType] >= goal.target

RollupFrom(dayEvents, goal) ==
    LET counts == CountsOf(dayEvents)
    IN  [counts |-> counts, goalMet |-> Met(goal, counts)]

ComputeRange(events, goals, days) ==
    [d \in days |-> RollupFrom(EventsOn(events, d), GoalInForce(goals, d))]

\* Faulty variant: the projected longest run is not taken into account.
StreakFrom_KeepsLongest(today, persisted, computed, existingLongest) ==
    LET row(d)    == IF d \in DOMAIN computed THEN computed[d] ELSE persisted[d]
        metDays   == {d \in DOMAIN persisted \union DOMAIN computed :
                         row(d).goalMet /\ d <= today}
    IN  [ComputeStreak(metDays, today) EXCEPT !.longest = existingLongest]

\* Faulty variant: the streak of a bounded rebuild counts its own days alone.
StreakFrom_ComputedOnly(today, persisted, computed, existingLongest) ==
    LET row(d)    == IF d \in DOMAIN computed THEN computed[d] ELSE persisted[d]
        days      == IF computed = <<>> THEN DOMAIN persisted ELSE DOMAIN computed
        projected == ComputeStreak({d \in days : row(d).goalMet /\ d <= today}, today)
    IN  [projected EXCEPT !.longest = Larger(projected.longest, existingLongest)]

\* Freshly computed days are laid over the persisted ones; future days never
\* count; `longest' never falls below the persisted value.
StreakFrom(today, persisted, computed, existingLongest) ==
    LET row(d)    == IF d \in DOMAIN computed THEN computed[d] ELSE persisted[d]
        metDays   == {d \in DOMAIN persisted \union DOMAIN computed :
                         row(d).goalMet /\ d <= today}
        projected == ComputeStreak(metDays, today)
    IN  [projected EXCEPT !.longest = Larger(projected.longest, existingLongest)]
=============================================================================
