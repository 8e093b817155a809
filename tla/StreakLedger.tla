---------------------------- MODULE StreakLedger ----------------------------
(***************************************************************************)
(* The life of one (user, faith) streak when nothing overlaps: the goal is *)
(* met today, an offline queue brings in a day met earlier, midnight       *)
(* passes; the streak the user is shown is projected anew after each.      *)
(***************************************************************************)
EXTENDS StreakRules

CONSTANT LastDay        \* bound: the day the clock stops

ASSUME LedgerAssumption == LastDay \in Nat

VARIABLES
    today,      \* the user's current local day
    met,        \* the goal-met days, as daily_rollups holds them
    shown       \* the streak_states row, which is what /today returns

vars == <<today, met, shown>>

\* streakFrom: everything is recomputed but `longest', which never decreases.
Project(metDays, day, longest) ==
    LET projected == ComputeStreak({d \in metDays : d <= day}, day)
    IN  [projected EXCEPT !.longest = Larger(projected.longest, longest)]

Init ==
    /\ today = 0
    /\ met = {}
    /\ shown = ComputeStreak({}, 0)

MeetToday ==
    /\ today \notin met
    /\ met' = met \union {today}
    /\ shown' = Project(met', today, shown.longest)
    /\ UNCHANGED today

SyncLate ==
    /\ \E day \in (0 .. today - 1) \ met : met' = met \union {day}
    /\ shown' = Project(met', today, shown.longest)
    /\ UNCHANGED today

Midnight ==
    /\ today < LastDay
    /\ today' = today + 1
    /\ shown' = Project(met, today', shown.longest)
    /\ UNCHANGED met

Next == MeetToday \/ SyncLate \/ Midnight

Spec == Init /\ [][Next]_vars

-----------------------------------------------------------------------------
(* A second definition of the streak, by the set of gaps that are bridged   *)
(* instead of a scan.                                                       *)

Gaps == {gap \in met \X met :
            /\ gap[1] + 1 < gap[2]
            /\ GapBetween(gap[1], gap[2]) \intersect met = {}}

DaysOf(gaps) == UNION {GapBetween(gap[1], gap[2]) : gap \in gaps}

\* The one set of gaps in which every gap is bridged exactly when the gaps
\* bridged before it leave its months enough.
Bridged ==
    CHOOSE bridged \in SUBSET Gaps :
        \A gap \in Gaps :
            gap \in bridged <=>
                LET paid == DaysOf({g \in bridged : g[2] <= gap[1]})
                                \union GapBetween(gap[1], gap[2])
                IN  \A day \in GapBetween(gap[1], gap[2]) :
                        Needed(paid, MonthOf(day)) <= FreezesPerMonth

\* The met days of the run that ends on a met day.
RunEndingOn(last) ==
    {d \in met : d <= last /\ (d .. last) \subseteq (met \union DaysOf(Bridged))}

\* The scan of the code and the definition by bridged gaps agree on the
\* current run, on the days it counts and on the freezes this month has left,
\* whatever set of days was met and in whatever order the days arrived.
ScanMatchesBridges ==
    LET last == shown.lastGoalMetDay
        paid == DaysOf(Bridged)
        due  == GapBetween(last, today)
    IN  met # {} =>
        /\ \A d \in met : d <= last
        /\ shown.freezesLeft = FreezesPerMonth - Needed(paid, MonthOf(today))
        /\ shown.current =
            IF \A d \in due : Needed(paid \union due, MonthOf(d)) <= FreezesPerMonth
            THEN Cardinality(RunEndingOn(last)) ELSE 0
        /\ \A d \in met : Cardinality(RunEndingOn(d)) <= shown.longest

\* Meeting the goal adds exactly one to a streak that is alive, whatever gap
\* it closes, and starts a dead one at one: the number the user was shown in
\* the morning is the number the evening builds on (the worked example of
\* the contract, lazy freezes).
MeetingAddsOne == MeetToday => shown'.current = shown.current + 1

\* Midnight charges nothing: within a month the freezes shown do not move, a
\* day whose goal was met never costs the streak, and a streak that is lost
\* overnight is lost because the missed days exceed some month's allowance.
MidnightChargesNothing ==
    Midnight =>
        /\ shown'.current \in {shown.current, 0}
        /\ today \in met => shown'.current = shown.current
        /\ today' # shown.freezeResetOn => shown'.freezesLeft = shown.freezesLeft
        /\ today' = shown.freezeResetOn => shown'.freezesLeft = FreezesPerMonth

\* What the user sees of his streak moves by these two rules.
ShownMovesByRule == [][MeetingAddsOne /\ MidnightChargesNothing]_vars

\* The walk of the contract: backwards from the most recent met day, each gap
\* paid for as it is reached.  walk[d] is the state of the walk once the met
\* days from d on have been visited.
BackwardRun ==
    LET first == CHOOSE d \in met : \A e \in met : d <= e
        final == CHOOSE d \in met : \A e \in met : d >= e
        walk[d \in first .. final] ==
            IF d = final
            THEN [next |-> final, run |-> 1, spent |-> <<>>, over |-> FALSE]
            ELSE IF d \notin met \/ walk[d + 1].over THEN walk[d + 1]
            ELSE LET after == walk[d + 1]
                     gap   == GapBetween(d, after.next)
                 IN  IF Payable(gap, after.spent)
                     THEN [next |-> d, run |-> after.run + 1,
                           spent |-> Charge(gap, after.spent), over |-> FALSE]
                     ELSE [after EXCEPT !.over = TRUE]
    IN  walk[first].run

\* `current' is the length of the unbroken run ending at the most recent met
\* day, walking backwards and spending freezes on gaps (the contract), and
\* the forward scan computes the same thing (the comment of the code).
CurrentIsBackwardWalk ==
    met # {} /\ shown.current > 0 => shown.current = BackwardRun
=============================================================================
