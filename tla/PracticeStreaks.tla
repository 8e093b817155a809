--------------------------- MODULE PracticeStreaks ---------------------------
(***************************************************************************)
(* The streaks of the faith services, each computed its own way from the    *)
(* set of days with a row: prayers (read in windows, going back), dhikr,    *)
(* japa and puja.  Days are numbers; a day the client wrote may lie ahead   *)
(* of today.  The histories they are evaluated on are those of StreakLedger:  *)
(* any day of the past may get its row late.                                *)
(***************************************************************************)
EXTENDS StreakLedger, Sequences, FiniteSetsExt

CONSTANTS
    ChunkDays,      \* STREAK_CHUNK_DAYS
    MaxChunks,      \* STREAK_MAX_CHUNKS
    YearDays        \* the 365 iterations of the japa and puja loops

ASSUME PracticeAssumption ==
    /\ ChunkDays \in Nat \ {0, 1} /\ MaxChunks \in Nat \ {0} /\ YearDays \in Nat \ {0}

UpTo(days, asOf) == {d \in days : d <= asOf}
\* By rank: quicker to evaluate than a choice among all orders of the days.
Descending(days) ==
    [i \in 1 .. Cardinality(days) |-> CHOOSE d \in days : Cardinality({e \in days : e >= d}) = i]
Ascending(days) ==
    [i \in 1 .. Cardinality(days) |-> CHOOSE d \in days : Cardinality({e \in days : e <= d}) = i]
First(ks) == CHOOSE k \in ks : \A j \in ks : k <= j

\* The length of the run at the head of a descending list.
HeadRun(desc) ==
    First({i \in 1 .. Len(desc) : i = Len(desc) \/ desc[i + 1] # desc[i] - 1})

\* countStreak: future days are dropped before the gate looks at the newest.
CountStreak(days, asOf) ==
    LET desc == Descending(UpTo(days, asOf))
    IN  IF desc = <<>> \/ asOf - desc[1] > 1 THEN 0 ELSE HeadRun(desc)

Floor(k, asOf) == asOf - k * ChunkDays + 1
Fetched(days, k, asOf) == {d \in days : Floor(k, asOf) <= d /\ d <= asOf}

\* Faulty variant: a run that ends above the floor by a day is taken to go on,
\* one that reaches the floor to have ended there.
PrayerStreak_FloorMisread(days, asOf) ==
    LET streak(k) == CountStreak(Fetched(days, k, asOf), asOf)
        newest(k) == Descending(Fetched(days, k, asOf))[1]
        done(k) == streak(k) = 0 \/ newest(k) - (streak(k) - 1) >= Floor(k, asOf)
    IN  streak(First({k \in 1 .. MaxChunks : k = MaxChunks \/ done(k)}))

\* prayerStreak: the next window is read only when the run reaches the floor of
\* the windows read so far, and no run is followed past the last window.
PrayerStreak(days, asOf) ==
    LET streak(k) == CountStreak(Fetched(days, k, asOf), asOf)
        newest(k) == Descending(Fetched(days, k, asOf))[1]
        done(k) == streak(k) = 0 \/ newest(k) - (streak(k) - 1) > Floor(k, asOf)
    IN  streak(First({k \in 1 .. MaxChunks : k = MaxChunks \/ done(k)}))

\* Dhikr getStats.  Its rows are dated by the server, so none is ahead of today.
DhikrCurrent(days, asOf) ==
    LET desc == Descending(days)
    IN  IF desc # <<>> /\ desc[1] >= asOf - 1 THEN HeadRun(desc) ELSE 0

\* Its longest: a run that grows over the descending list, or starts again.
DhikrLongest(days) ==
    LET desc == Descending(days)
        run[i \in 1 .. Len(desc)] ==
            IF i > 1 /\ desc[i] = desc[i - 1] - 1 THEN run[i - 1] + 1 ELSE 1
    IN  Max({0} \union {run[i] : i \in DOMAIN desc})

\* Japa getStats: back from today, which itself may be missing.
JapaCurrent(days, asOf) ==
    LET stops == {i \in 1 .. YearDays - 1 : asOf - i \notin days}
        end == IF stops = {} THEN YearDays ELSE First(stops)
    IN  Cardinality({i \in 0 .. end - 1 : asOf - i \in days})

\* Faulty variant: a gap does not end the run.
ScanLongest_NoReset(days) ==
    LET asc == Ascending(days)
        run[i \in 1 .. Len(asc)] == IF i = 1 THEN 1 ELSE run[i - 1] + 1
    IN  Max({0} \union {run[i] : i \in DOMAIN asc})

\* The longest of japa and of puja: one scan over the sorted day keys.
ScanLongest(days) ==
    LET asc == Ascending(days)
        run[i \in 1 .. Len(asc)] ==
            IF i > 1 /\ asc[i] - asc[i - 1] = 1 THEN run[i - 1] + 1 ELSE 1
    IN  Max({0} \union {run[i] : i \in DOMAIN asc})

\* Puja getStats: the loop advances the streak only from the day before, and
\* today's day is where it starts.
PujaCurrent(days, asOf) ==
    LET streak[i \in 0 .. YearDays - 1] ==
            LET before == IF i = 0 THEN 0 ELSE streak[i - 1]
            IN  IF asOf - i \in days /\ (i = 0 \/ before = i) THEN i + 1 ELSE before
    IN  streak[YearDays - 1]

-----------------------------------------------------------------------------
(* What a streak is                                                         *)

RunsIn(days) == {run \in days \X days : run[1] <= run[2] /\ run[1] .. run[2] \subseteq days}
Length(run) == run[2] - run[1] + 1
LongestRun(days) == Max({0} \union {Length(run) : run \in RunsIn(days)})

\* The longest run that ends today or, when today has no row yet, yesterday,
\* as far as it lies in the last `reach' days.
LiveRun(days, asOf, reach) ==
    LET end == IF asOf \in days THEN asOf ELSE asOf - 1
    IN  Max({0} \union {Length(run) : run \in
                {r \in RunsIn({d \in days : asOf - d < reach}) : r[2] = end}})

\* "No log today -- current streak still alive if yesterday had one" (the comment
\* at puja-log.service.ts:70).  The loop goes on to yesterday, but counts it only
\* if today was counted.
PujaAliveFromYesterday ==
    today \notin met /\ today - 1 \in met => PujaCurrent(met, today) > 0
=============================================================================
