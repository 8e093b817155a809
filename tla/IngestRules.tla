---------------------------- MODULE IngestRules ----------------------------
(***************************************************************************)
(* The verdict of ActivityService.validate on one raw event.               *)
(*                                                                         *)
(* A raw event is an event record of DayRollups with one more field,       *)
(* `malformed': the codes of the checks on spelling it fails (an id that   *)
(* is no UUID, an unknown faith, a date that is none ...).  The checks on  *)
(* quantities, instants and days are evaluated.                            *)
(***************************************************************************)
EXTENDS Calendar, Sequences

CONSTANTS
    MaxQuantity,            \* QUANTITY_MAX
    OccurredAtMaxFuture,    \* in ticks: 24 hours
    OccurredAtMaxAgeDays,   \* 90
    LocalDaySlackDays       \* 1

ASSUME IngestAssumption ==
    /\ MaxQuantity \in Nat \ {0}
    /\ OccurredAtMaxFuture \in Nat
    /\ OccurredAtMaxAgeDays \in Nat
    /\ LocalDaySlackDays \in Nat

\* The rejection codes in the order the checks run; the last check is the
\* last code, and an event that fails several reports the earliest.
RejectionCodes ==
    << "invalid_client_event_id", "unknown_faith_id", "unknown_activity_type",
       "activity_type_faith_mismatch", "invalid_quantity", "invalid_occurred_at",
       "occurred_at_in_future", "occurred_at_too_old", "invalid_local_day",
       "local_day_mismatch", "invalid_timezone", "source_ref_too_long" >>

Apart(a, b) == IF a >= b THEN a - b ELSE b - a

TooFarAhead(e, now) == e.occurredAt - now > OccurredAtMaxFuture

TooOld(e, now) == now - e.occurredAt > OccurredAtMaxAgeDays * TicksPerDay

\* The day is compared with the UTC date of the event's own instant, never
\* with the server's clock.
DayMismatch(e) == Apart(e.localDay, StartOfUtcDay(e.occurredAt)) > LocalDaySlackDays

\* The three checks that depend on instants and days.
InTime(e, now) ==
    /\ ~ TooFarAhead(e, now)
    /\ ~ TooOld(e, now)
    /\ ~ DayMismatch(e)

FailedChecks(raw, now) ==
    raw.malformed
    \union {c \in {"invalid_quantity"} : raw.quantity \notin 1 .. MaxQuantity}
    \union {c \in {"occurred_at_in_future"} : TooFarAhead(raw, now)}
    \union {c \in {"occurred_at_too_old"} : TooOld(raw, now)}
    \union {c \in {"local_day_mismatch"} : DayMismatch(raw)}

Verdict(raw, now) ==
    IF FailedChecks(raw, now) = {} THEN "accepted"
    ELSE LET failed == {i \in DOMAIN RejectionCodes : RejectionCodes[i] \in FailedChecks(raw, now)}
         IN  RejectionCodes[CHOOSE i \in failed : \A j \in failed : i <= j]
=============================================================================
