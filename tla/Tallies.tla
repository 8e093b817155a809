------------------------------- MODULE Tallies -------------------------------
(***************************************************************************)
(* The counted practices of one user: the qada tally of a prayer, a dhikr   *)
(* counter and a japa counter, with the history rows their statistics and   *)
(* streaks are computed from.  A tap is a request: reads, then writes, one   *)
(* action per statement or transaction.                                     *)
(***************************************************************************)
EXTENDS Integers, FiniteSets

CONSTANTS
    Taps,           \* requests that can be under way at once
    Steps,          \* what a tap adds, or the value it sets
    MaxTaps,        \* bound: taps
    Today           \* the days a tap may fall on

ASSUME TallyAssumption ==
    /\ Steps \subseteq Nat \ {0} /\ MaxTaps \in Nat
    /\ IsFiniteSet(Today)

Tables == {"qada", "dhikr", "japa"}

VARIABLES
    count,          \* prayer_qada_counts, dhikr_counters, japa_counters: count
    history,        \* dhikr_history, japa_history: the day's total
    tap, taps,
    owed,           \* ghost: the qada adjustments applied one after another
    cleared,        \* ghost: what setting a counter has added to it
    crossed         \* ghost: tables of which two taps overlapped, or one died

tallyVars == <<count, history, tap, taps, owed, cleared, crossed>>

NoTap == [table |-> "none", phase |-> "idle", by |-> 0, read |-> 0]

TallyInit ==
    /\ count = [t \in Tables |-> 0]
    /\ history = [t \in {"dhikr", "japa"} |-> [d \in Today |-> 0]]
    /\ tap = [p \in Taps |-> NoTap] /\ taps = 0
    /\ owed = 0 /\ cleared = [t \in {"dhikr", "japa"} |-> 0] /\ crossed = {}

Clamp(n) == IF n < 0 THEN 0 ELSE n

BeginTap(p, table, by) ==
    /\ tap[p].phase = "idle" /\ taps < MaxTaps
    /\ taps' = taps + 1
    /\ tap' = [tap EXCEPT ![p] = [table |-> table, phase |-> "write", by |-> by, read |-> count[table]]]
    /\ crossed' = IF \E q \in Taps \ {p} : tap[q].table = table THEN crossed \union {table} ELSE crossed

EndTap(p) == tap' = [tap EXCEPT ![p] = NoTap]

-----------------------------------------------------------------------------
(* adjustQada: a read and an upsert of the sum, in one transaction, which   *)
(* at READ COMMITTED locks nothing that was only read                       *)

ReadQada(p) ==
    /\ \E n \in Steps, sign \in {1, -1} : BeginTap(p, "qada", sign * n)
    /\ UNCHANGED <<count, history, owed, cleared>>

WriteQada(p) ==
    /\ tap[p].table = "qada" /\ tap[p].phase = "write"
    /\ count' = [count EXCEPT !["qada"] = Clamp(tap[p].read + tap[p].by)]
    /\ owed' = Clamp(owed + tap[p].by)
    /\ EndTap(p)
    /\ UNCHANGED <<history, taps, cleared, crossed>>

-----------------------------------------------------------------------------
(* dhikr: incrementCounter finds the counter and then, in one transaction,   *)
(* increments it and the day's history; updateCounterFields sets the count  *)

FindDhikr(p) ==
    /\ \E n \in Steps : BeginTap(p, "dhikr", n)
    /\ UNCHANGED <<count, history, owed, cleared>>

\* Faulty variant: the count that was read, plus the taps.
IncrementDhikr_Absolute(p, day) ==
    /\ tap[p].table = "dhikr" /\ tap[p].phase = "write"
    /\ count' = [count EXCEPT !["dhikr"] = tap[p].read + tap[p].by]
    /\ history' = [history EXCEPT !["dhikr"][day] = @ + tap[p].by]
    /\ EndTap(p)
    /\ UNCHANGED <<taps, owed, cleared, crossed>>

IncrementDhikr(p, day) ==
    /\ tap[p].table = "dhikr" /\ tap[p].phase = "write"
    /\ count' = [count EXCEPT !["dhikr"] = @ + tap[p].by]
    /\ history' = [history EXCEPT !["dhikr"][day] = @ + tap[p].by]
    /\ EndTap(p)
    /\ UNCHANGED <<taps, owed, cleared, crossed>>

\* A reset or a correction leaves no history.
SetDhikr ==
    /\ taps < MaxTaps /\ taps' = taps + 1
    /\ \E n \in Steps \union {0} :
        /\ count' = [count EXCEPT !["dhikr"] = n]
        /\ cleared' = [cleared EXCEPT !["dhikr"] = @ + n - count["dhikr"]]
    /\ UNCHANGED <<history, tap, owed, crossed>>

-----------------------------------------------------------------------------
(* japa: the client sends the new count; a history row takes the difference *)
(* to the count that was read, in a statement of its own                    *)

FindJapa(p) ==
    /\ \E n \in Steps \union {0} : BeginTap(p, "japa", n)
    /\ UNCHANGED <<count, history, owed, cleared>>

UpdateJapa(p) ==
    /\ tap[p].table = "japa" /\ tap[p].phase = "write"
    /\ count' = [count EXCEPT !["japa"] = tap[p].by]
    /\ IF tap[p].by > tap[p].read
       THEN tap' = [tap EXCEPT ![p].phase = "history"] /\ UNCHANGED cleared
       ELSE EndTap(p) /\ cleared' = [cleared EXCEPT !["japa"] = @ + tap[p].by - tap[p].read]
    /\ UNCHANGED <<history, taps, owed, crossed>>

RecordJapa(p, day) ==
    /\ tap[p].table = "japa" /\ tap[p].phase = "history"
    /\ history' = [history EXCEPT !["japa"][day] = @ + tap[p].by - tap[p].read]
    /\ EndTap(p)
    /\ UNCHANGED <<count, taps, owed, cleared, crossed>>

\* The function is killed: what a tap has written stays.
TapDies(p) ==
    /\ tap[p].phase # "idle"
    /\ crossed' = IF tap[p].phase = "history" THEN crossed \union {"japa"} ELSE crossed
    /\ EndTap(p)
    /\ UNCHANGED <<count, history, taps, owed, cleared>>

TallyNext ==
    \/ SetDhikr
    \/ \E p \in Taps :
        \/ ReadQada(p) \/ WriteQada(p) \/ FindDhikr(p) \/ FindJapa(p) \/ UpdateJapa(p) \/ TapDies(p)
        \/ \E day \in Today : IncrementDhikr(p, day) \/ RecordJapa(p, day)

TallySpec == TallyInit /\ [][TallyNext]_tallyVars

-----------------------------------------------------------------------------
Recorded(t) == LET over[days \in SUBSET Today] ==
                        IF days = {} THEN 0
                        ELSE LET d == CHOOSE d \in days : TRUE
                             IN  history[t][d] + over[days \ {d}]
               IN  over[Today]

\* The history that the statistics are computed from adds up to what was
\* counted: for dhikr always, its taps being increments of both in one
\* transaction; for japa when no two updates overlapped and none died between
\* its two statements; and the qada tally is that of the adjustments one after
\* another when no two overlapped (adjustQada, prayers.service.ts:173).
TalliesAddUp ==
    /\ count["dhikr"] = Recorded("dhikr") + cleared["dhikr"]
    /\ "japa" \notin crossed /\ (\A p \in Taps : tap[p].table # "japa")
            => count["japa"] = Recorded("japa") + cleared["japa"]
    /\ "qada" \notin crossed => count["qada"] = owed
=============================================================================
