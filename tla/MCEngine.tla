------------------------------ MODULE MCEngine ------------------------------
\* Instances of RetentionEngine: one pair, its acts and its goals.
EXTENDS RetentionEngine, TLC

Verse(id, instant, day, zone) ==
    [id |-> id, activityType |-> "verses", quantity |-> 1,
     occurredAt |-> instant, localDay |-> day, zone |-> zone]

Goal(target) == [activityType |-> "verses", target |-> target]

GoalFrom(day, target) ==
    [effectiveFrom |-> day, effectiveTo |-> NoDay, activityType |-> "verses", target |-> target]

UTCOnly == {0}
HomeAndAhead == {0, 1}
\* An act today; one today and one yesterday; days are single ticks.
OneAct == {Verse("a", 1, 1, 0)}
TwoActs == {Verse("a", 1, 1, 0), Verse("b", 0, 0, 0)}
\* Half-day ticks: an act of an afternoon in UTC, already tomorrow a zone ahead.
Afternoon == {Verse("a", 3, 1, 0)}
OneVerseADay == {GoalFrom(0, 1)}
TwoVersesADay == {GoalFrom(0, 2)}
NoChoices == {}
Two == {Goal(2)}
OneOrTwo == {Goal(1), Goal(2)}

MCPutters == Permutations(Putters)

\* PUTs that lower the goal meet the reads one at a time, until one of them or a
\* read fails; no PUT follows a failure.  Two PUTs at once, and PUTs that keep the
\* goal at 2, are checked to the second tick, where nothing is read and nothing
\* has failed.  The operator rebuilds before there is any of this.
UnderWay == {p \in Putters : put[p].phase # "idle"}

Lowers == \A p \in UnderWay : put[p].goal = Goal(1)
Lowered == \A g \in goals : g.effectiveFrom > 0 => g.target = 1
NobodyReads == \A r \in Readers : req[r].kind = "idle"
Untouched == UnderWay = {} /\ failures = 0 /\ goals = InitialGoals

\* A request of the operator's: neither /today nor /history.
Rebuilding(r) ==
    \/ req[r].kind \in {"rebuild", "project"}
    \/ req[r].kind = "range" /\ req[r].userToday # NoDay
    \/ req[r].kind = "refresh" /\ req[r].floor = NoFloor

PutsApart ==
    /\ \/ NobodyReads /\ now <= 2 /\ failures = 0
       \/ /\ Cardinality(UnderWay) <= 1 /\ Lowers /\ Lowered
          /\ failures = 0 \/ UnderWay = {}
    /\ (\E r \in Readers : Rebuilding(r)) => Untouched
=============================================================================
