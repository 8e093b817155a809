------------------------------- MODULE PrayerLogs -------------------------------
(***************************************************************************)
(* One user's prayer log and what /stats says of it: prayers.service.ts.     *)
(* Writes are single statements that a client sends again when their answer  *)
(* is lost; a removal finds its row first; /stats reads in four queries,      *)
(* between which the log changes.                                            *)
(***************************************************************************)
EXTENDS PracticeStreaks

CONSTANTS
    DailyPrayers,
    LogDays, LogToday,  \* days as numbers, one ahead of today among them
    LogCalls,           \* writes in flight
    MaxLogCalls         \* bound: writes and readings of /stats

ASSUME LogAssumption ==
    /\ LogToday \in LogDays /\ LogDays \subseteq Nat /\ MaxLogCalls \in Nat
    /\ IsFiniteSet(LogDays) /\ IsFiniteSet(DailyPrayers)

VARIABLES
    logged,     \* prayer_logs, unique (prayer, date): [status, id], NoLog without a row
    logCall,    \* write -> what it does
    stats,      \* a /stats under way, or the last answer
    logCalls, lastLogId,
    meantLog    \* ghost: the status that the user counts on, if no two of his writes overlapped

logVars == <<logged, logCall, stats, logCalls, lastLogId, meantLog>>

PRAYED_STATUSES == {"on_time", "late"}
Statuses == PRAYED_STATUSES \union {"missed", "qada"}
LogKeys == DailyPrayers \X LogDays
NoLog == [status |-> "none", id |-> 0]
NoWrite == [op |-> "none", key |-> <<>>, status |-> "none", id |-> 0, blurred |-> FALSE]
NoStats == [phase |-> "idle", total |-> 0, onTime |-> 0, streak |-> 0, writes |-> 0]

BeginWrite(c, op, key, status, id) ==
    LET writing(d) == logCall[d].op # "none" /\ logCall[d].key = key
    IN  /\ logCall[c].op = "none" /\ logCalls < MaxLogCalls /\ logCalls' = logCalls + 1
        /\ logCall' = [d \in LogCalls |->
                IF d = c THEN [op |-> op, key |-> key, status |-> status, id |-> id,
                               blurred |-> \E e \in LogCalls : writing(e)]
                ELSE [logCall[d] EXCEPT !.blurred = @ \/ writing(d)]]
        /\ UNCHANGED <<logged, stats, lastLogId, meantLog>>

LeaveLog(c, left) ==
    meantLog' = [meantLog EXCEPT ![logCall[c].key] = IF logCall[c].blurred THEN "unknown" ELSE left]
\* Writes are counted from the first query of /stats on.
Wrote == stats' = IF stats.phase = "idle" THEN stats ELSE [stats EXCEPT !.writes = @ + 1]

-----------------------------------------------------------------------------
AskLog(c, key, status) == BeginWrite(c, "log", key, status, 0)

\* An upsert; when its answer is lost the client sends it once more.
LogPrayer(c) ==
    LET key == logCall[c].key  new == logged[key] = NoLog
    IN  /\ logCall[c].op \in {"log", "again"}
        /\ logged' = [logged EXCEPT ![key] =
                [status |-> logCall[c].status, id |-> IF new THEN lastLogId + 1 ELSE @.id]]
        /\ lastLogId' = IF new THEN lastLogId + 1 ELSE lastLogId
        /\ \/ logCall' = [logCall EXCEPT ![c] = NoWrite] /\ LeaveLog(c, logCall[c].status)
           \/ logCall[c].op = "log" /\ logCall' = [logCall EXCEPT ![c].op = "again"] /\ UNCHANGED meantLog
        /\ Wrote
        /\ UNCHANGED logCalls

AskDelete(c, key) == logged[key] # NoLog /\ BeginWrite(c, "find", key, "none", logged[key].id)

FindLog(c) ==
    /\ logCall[c].op = "find"
    /\ IF logged[logCall[c].key].id = logCall[c].id
       THEN logCall' = [logCall EXCEPT ![c].op = "delete"] /\ UNCHANGED meantLog
       ELSE logCall' = [logCall EXCEPT ![c] = NoWrite] /\ LeaveLog(c, meantLog[logCall[c].key])
    /\ UNCHANGED <<logged, stats, logCalls, lastLogId>>

\* Faulty variant: whatever row the prayer and the day have by now.
DeleteLog_ByKey(c) ==
    /\ logCall[c].op = "delete"
    /\ logged' = [k \in LogKeys |-> IF k[1] = logCall[c].key[1] THEN NoLog ELSE logged[k]]
    /\ logCall' = [logCall EXCEPT ![c] = NoWrite] /\ LeaveLog(c, "none")
    /\ Wrote
    /\ UNCHANGED <<logCalls, lastLogId>>

\* A row that is gone by now is an error.
DeleteLog(c) ==
    LET key == logCall[c].key
    IN  /\ logCall[c].op = "delete"
        /\ IF logged[key].id = logCall[c].id
           THEN logged' = [logged EXCEPT ![key] = NoLog] /\ Wrote
           ELSE UNCHANGED <<logged, stats>>
        /\ logCall' = [logCall EXCEPT ![c] = NoWrite] /\ LeaveLog(c, "none")
        /\ UNCHANGED <<logCalls, lastLogId>>

-----------------------------------------------------------------------------
WithStatus(set) == {k \in LogKeys : logged[k].status \in set}

\* getPrayerLogs with ?date.
LoggedOn(day) == {k[1] : k \in {j \in LogKeys : logged[j] # NoLog /\ j[2] >= day /\ j[2] < day + 1}}

\* Faulty variant: every row is a prayer.
CountTotal_AllRows ==
    /\ stats.phase \in {"idle", "done"} /\ logCalls < MaxLogCalls /\ logCalls' = logCalls + 1
    /\ stats' = [NoStats EXCEPT !.phase = "onTime",
                                !.total = Cardinality({k \in LogKeys : logged[k] # NoLog})]
    /\ UNCHANGED <<logged, logCall, lastLogId, meantLog>>

CountTotal ==
    /\ stats.phase \in {"idle", "done"} /\ logCalls < MaxLogCalls /\ logCalls' = logCalls + 1
    /\ stats' = [NoStats EXCEPT !.phase = "onTime", !.total = Cardinality(WithStatus(PRAYED_STATUSES))]
    /\ UNCHANGED <<logged, logCall, lastLogId, meantLog>>

CountOnTime ==
    /\ stats.phase = "onTime"
    /\ stats' = [stats EXCEPT !.phase = "streak", !.onTime = Cardinality(WithStatus({"on_time"}))]
    /\ UNCHANGED <<logged, logCall, logCalls, lastLogId, meantLog>>

\* One query if the run ends in the first window of prayerStreak; the queries of
\* a longer one are taken together.  The tallies of qada come last.
ReadStreak ==
    /\ stats.phase = "streak"
    /\ stats' = [stats EXCEPT !.phase = "done",
                    !.streak = PrayerStreak({k[2] : k \in WithStatus(PRAYED_STATUSES)}, LogToday)]
    /\ UNCHANGED <<logged, logCall, logCalls, lastLogId, meantLog>>

LogInit ==
    /\ logged = [k \in LogKeys |-> NoLog] /\ stats = NoStats
    /\ logCall = [c \in LogCalls |-> NoWrite] /\ logCalls = 0 /\ lastLogId = 0
    /\ meantLog = [k \in LogKeys |-> "none"]

LogNext ==
    \/ \E c \in LogCalls :
        \/ \E key \in LogKeys : AskDelete(c, key) \/ \E status \in Statuses : AskLog(c, key, status)
        \/ LogPrayer(c) \/ FindLog(c) \/ DeleteLog(c)
    \/ CountTotal \/ CountOnTime \/ ReadStreak

-----------------------------------------------------------------------------
KnownLog(k) ==
    meantLog[k] # "unknown" /\ \A c \in LogCalls : logCall[c].op = "none" \/ logCall[c].key # k
Meant(set) == {k \in LogKeys : meantLog[k] \in set}

\* The numbers of one /stats agree but for what was written while it read: no
\* more prayers on time than prayers, no longer a streak than prayers; when
\* nothing was, they are those of the log, a day ahead of today or with nothing
\* but a missed prayer being none of the streak (prayers.service.ts:205-247); and
\* a prayer is logged as the user last said, although writes are repeated and
\* rows named by ids that may be gone, unless two of his writes about it
\* overlapped (95-117, 190-203).
PrayersCounted ==
    /\ stats.phase = "done" =>
        /\ stats.onTime <= stats.total + stats.writes
        /\ stats.streak <= stats.total + stats.writes
    /\ stats.phase = "done" /\ stats.writes = 0 /\ (\A k \in LogKeys : KnownLog(k)) =>
        /\ stats.total = Cardinality(Meant(PRAYED_STATUSES))
        /\ stats.onTime = Cardinality(Meant({"on_time"}))
        /\ stats.streak = LiveRun({k[2] : k \in Meant(PRAYED_STATUSES)}, LogToday, MaxChunks * ChunkDays)
    /\ \A k \in LogKeys :
        KnownLog(k) =>
            /\ logged[k].status = meantLog[k]
            /\ k[1] \in LoggedOn(k[2]) <=> meantLog[k] # "none"
=============================================================================
