---------------------------- MODULE StreakRules ----------------------------
(***************************************************************************)
(* computeStreak of rollup.service.ts: the streak of a set of goal-met     *)
(* days as of a calendar day.  A forward scan over the met days in order;  *)
(* each gap between two of them is paid for whole, from the allowances of  *)
(* the months its days fall in, or not at all.                             *)
(***************************************************************************)
EXTENDS Calendar

CONSTANT FreezesPerMonth

ASSUME FreezeAssumption == FreezesPerMonth \in Nat

NoDay == -1     \* `null' where a calendar day is expected

Larger(a, b) == IF a >= b THEN a ELSE b

\* The missed days strictly between two days.
GapBetween(previous, day) == (previous + 1) .. (day - 1)

\* How many days of a gap are charged to a month.
Needed(gap, month) == Cardinality({d \in gap : MonthOf(d) = month})

SpentIn(spent, month) == IF month \in DOMAIN spent THEN spent[month] ELSE 0

Payable(gap, spent) ==
    \A m \in {MonthOf(d) : d \in gap} :
        FreezesPerMonth - SpentIn(spent, m) >= Needed(gap, m)

Charge(gap, spent) ==
    [m \in DOMAIN spent \union {MonthOf(d) : d \in gap} |->
        SpentIn(spent, m) + Needed(gap, m)]

\* Faulty variants: the frozen days count towards the run; a gap that breaks
\* the run is charged all the same.
ScanDay_FrozenDaysCount(scan, day) ==
    LET gap     == GapBetween(scan.last, day)
        bridged == Payable(gap, scan.spent)
        run     == IF bridged THEN scan.run + 1 + Cardinality(gap) ELSE 1
    IN  [last    |-> day,
         run     |-> run,
         longest |-> IF run > scan.longest THEN run ELSE scan.longest,
         spent   |-> IF bridged THEN Charge(gap, scan.spent) ELSE scan.spent]

ScanDay_ChargesBrokenGap(scan, day) ==
    LET gap == GapBetween(scan.last, day)
        run == IF Payable(gap, scan.spent) THEN scan.run + 1 ELSE 1
    IN  [last    |-> day,
         run     |-> run,
         longest |-> IF run > scan.longest THEN run ELSE scan.longest,
         spent   |-> Charge({d \in gap : SpentIn(scan.spent, MonthOf(d)) < FreezesPerMonth},
                            scan.spent)]

\* One met day of the scan: a bridged gap lengthens the run by the met day
\* alone, an unpayable one starts a new run and is not charged.
ScanDay(scan, day) ==
    LET gap     == GapBetween(scan.last, day)
        bridged == Payable(gap, scan.spent)
        run     == IF bridged THEN scan.run + 1 ELSE 1
    IN  [last    |-> day,
         run     |-> run,
         longest |-> IF run > scan.longest THEN run ELSE scan.longest,
         spent   |-> IF bridged THEN Charge(gap, scan.spent) ELSE scan.spent]

Earliest(days) == CHOOSE d \in days : \A e \in days : d <= e
Latest(days)   == CHOOSE d \in days : \A e \in days : e <= d

\* The scan after the last met day; `metDays' is not empty.
Scan(metDays) ==
    LET first == Earliest(metDays)
        final == Latest(metDays)
        upTo[d \in first .. final] ==
            IF d = first
            THEN [last |-> first, run |-> 1, longest |-> 1, spent |-> <<>>]
            ELSE IF d \in metDays THEN ScanDay(upTo[d - 1], d) ELSE upTo[d - 1]
    IN  upTo[final]

\* Faulty variant: the trailing gap is charged as the days pass.
ComputeStreak_EagerFreezes(metDays, today) ==
    IF metDays = {}
    THEN [current |-> 0, longest |-> 0, lastGoalMetDay |-> NoDay,
          freezesLeft |-> FreezesPerMonth, freezeResetOn |-> FirstDayOfNextMonth(today)]
    ELSE LET scan     == Scan(metDays)
             trailing == GapBetween(scan.last, today)
             alive    == Payable(trailing, scan.spent)
             spent    == IF alive THEN Charge(trailing, scan.spent) ELSE scan.spent
         IN  [current        |-> IF alive THEN scan.run ELSE 0,
              longest        |-> scan.longest,
              lastGoalMetDay |-> scan.last,
              freezesLeft    |-> FreezesPerMonth - SpentIn(spent, MonthOf(today)),
              freezeResetOn  |-> FirstDayOfNextMonth(today)]

ComputeStreak(metDays, today) ==
    IF metDays = {}
    THEN [current |-> 0, longest |-> 0, lastGoalMetDay |-> NoDay,
          freezesLeft |-> FreezesPerMonth, freezeResetOn |-> FirstDayOfNextMonth(today)]
    ELSE LET scan  == Scan(metDays)
             last  == Latest(metDays)
             alive == Payable(GapBetween(last, today), scan.spent)
         IN  [current        |-> IF alive THEN scan.run ELSE 0,
              longest        |-> scan.longest,
              lastGoalMetDay |-> last,
              freezesLeft    |-> FreezesPerMonth - SpentIn(scan.spent, MonthOf(today)),
              freezeResetOn  |-> FirstDayOfNextMonth(today)]
=============================================================================
