------------------------------ MODULE Calendar ------------------------------
(***************************************************************************)
(* Instants, calendar days, zones and months of the retention engine.      *)
(*                                                                         *)
(* An instant is a number of ticks since some UTC midnight; a calendar day *)
(* is a whole number (the `YYYY-MM-DD' strings and the UTC-midnight Dates  *)
(* of the code are two spellings of it); a zone is its offset from UTC in  *)
(* ticks.  A month is a block of DaysPerMonth days.  Daylight saving, which *)
(* only moves an offset, is not modelled: nothing in the engine compares   *)
(* two offsets of one zone.                                                *)
(***************************************************************************)
EXTENDS Integers, FiniteSets

CONSTANTS
    TicksPerDay,    \* ticks in 24 hours
    DaysPerMonth    \* days in every month

ASSUME CalendarAssumption ==
    /\ TicksPerDay \in Nat \ {0}
    /\ DaysPerMonth \in Nat \ {0}

\* The offsets a zone can have: always less than a whole day (UTC-12..UTC+14).
ZoneOffsets == (1 - TicksPerDay) .. (TicksPerDay - 1)

\* The UTC calendar date of an instant.
StartOfUtcDay(t) == t \div TicksPerDay

\* The calendar date it is in a zone at an instant.
LocalDayIn(zone, t) == (t + zone) \div TicksPerDay

MonthOf(day) == day \div DaysPerMonth

FirstDayOfNextMonth(day) == (MonthOf(day) + 1) * DaysPerMonth
=============================================================================
