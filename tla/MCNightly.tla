----------------------------- MODULE MCNightly -----------------------------
\* Instances of NightlyJob: one pair that logs an act a day, at home or flying.
EXTENDS NightlyJob

Verse(id, instant, day, zone) ==
    [id |-> id, activityType |-> "verses", quantity |-> 1,
     occurredAt |-> instant, localDay |-> day, zone |-> zone]

GoalFrom(day, target) ==
    [effectiveFrom |-> day, effectiveTo |-> NoDay, activityType |-> "verses", target |-> target]

OneVerseADay == {GoalFrom(0, 1)}
NoChoices == {}
UTCOnly == {0}
ThreeZones == {-1, 0, 1}
\* Acts of a streak that freezes keep alive, each uploaded as it is done.
PromptActs == {Verse(d, d, d, 0) : d \in {1, 2, 4, 6, 8}}
OneAct == {Verse("a", 1, 1, 0)}
\* Half-day ticks: acts logged on the local day of the zone the user is in, two
\* of them at one instant.
Flights ==
    {Verse(<<t, IF t = 3 THEN z ELSE 0>>, t, LocalDayIn(z, t), z) : t \in 2 .. 5, z \in {-1, 1}}
=============================================================================
