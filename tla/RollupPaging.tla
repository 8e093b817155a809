---------------------------- MODULE RollupPaging ----------------------------
(***************************************************************************)
(* The night of the rollup job over all (user, faith) pairs: the workflow   *)
(* activity-rollup.yml asks for one page after another, each a call of      *)
(* runNightlyRollup, which queries the pairs anew and rolls up a slice of   *)
(* them.  What one roll-up does is NightlyJob's matter; here it succeeds or *)
(* fails.  Pairs are numbered in the order of the query.                    *)
(***************************************************************************)
EXTENDS Naturals, FiniteSets

CONSTANTS
    Pairs,          \* 1 .. n
    Limit,          \* pairs per page
    MaxPages,       \* the workflow's ceiling
    Retries         \* of curl, per page

ASSUME PagingAssumption ==
    /\ Pairs \subseteq Nat /\ IsFiniteSet(Pairs)
    /\ Limit \in Nat \ {0} /\ MaxPages \in Nat \ {0} /\ Retries \in Nat

VARIABLES
    active,         \* pairs with an event recent enough
    night,          \* the workflow: its page, what it has counted, and the call under way
    \* ghosts: the pairs there were when the night began, those rolled up in it,
    \* whether a pair has left the list
    cohort, rolled, shrunk

pagingVars == <<active, night, cohort, rolled, shrunk>>

NoNight == [phase |-> "idle", offset |-> 0, page |-> 0, tries |-> 0, failed |-> FALSE,
            list |-> {}, done |-> 0, failure |-> FALSE, more |-> FALSE]

PagingInit ==
    /\ active \in SUBSET Pairs
    /\ night = NoNight
    /\ cohort = {} /\ rolled = {} /\ shrunk = FALSE

\* The k-th pair of a list.
Nth(list, k) == CHOOSE p \in list : Cardinality({q \in list : q <= p}) = k
Consumed == night.offset + night.done
SliceDone == night.done = Limit \/ Consumed >= Cardinality(night.list)

\* An event of a pair that had none recent enough, or midnight UTC, which moves
\* the floor past the last event of some.
Appear(p) ==
    /\ p \notin active
    /\ active' = active \union {p}
    /\ UNCHANGED <<night, cohort, rolled, shrunk>>

MidnightUtc ==
    /\ ~ shrunk
    /\ \E left \in SUBSET active : left # active /\ active' = left
    /\ shrunk' = TRUE
    /\ UNCHANGED <<night, cohort, rolled>>

-----------------------------------------------------------------------------
BeginNight ==
    /\ night.phase = "idle"
    /\ night' = [NoNight EXCEPT !.phase = "send", !.page = 1]
    /\ cohort' = active /\ rolled' = {} /\ shrunk' = FALSE
    /\ UNCHANGED active

ActivePairs ==
    /\ night.phase = "send"
    /\ night' = [night EXCEPT !.phase = "work", !.list = active, !.done = 0, !.failure = FALSE]
    /\ UNCHANGED <<active, cohort, rolled, shrunk>>

\* Faulty variant: the budget is looked at before the pair.
RollUpNext_BudgetFirst ==
    /\ night.phase = "work" /\ ~ SliceDone
    /\ \/ /\ rolled' = rolled \union {Nth(night.list, Consumed + 1)}
          /\ night' = [night EXCEPT !.done = @ + 1]
       \/ /\ rolled' = rolled
          /\ night' = [night EXCEPT !.phase = "reply", !.more = TRUE]
    /\ UNCHANGED <<active, cohort, shrunk>>

\* One pair: rolled up, or failed and counted; the budget is looked at after it.
RollUpNext ==
    /\ night.phase = "work" /\ ~ SliceDone
    /\ \E fails \in BOOLEAN, spent \in BOOLEAN :
        /\ rolled' = IF fails THEN rolled ELSE rolled \union {Nth(night.list, Consumed + 1)}
        /\ night' = [night EXCEPT !.done = @ + 1, !.failure = @ \/ fails,
                        !.phase = IF spent THEN "reply" ELSE "work",
                        !.more = (Consumed + 1 < Cardinality(night.list))]
    /\ UNCHANGED <<active, cohort, shrunk>>

EndOfSlice ==
    /\ night.phase = "work" /\ SliceDone
    /\ night' = [night EXCEPT !.phase = "reply", !.more = (Consumed < Cardinality(night.list))]
    /\ UNCHANGED <<active, cohort, rolled, shrunk>>

\* The call is killed or its answer lost: curl asks for the same page again, or
\* gives up and the job fails.
LosePage ==
    /\ night.phase \in {"send", "work", "reply"}
    /\ night' = IF night.tries < Retries
                THEN [night EXCEPT !.phase = "send", !.tries = @ + 1, !.list = {}, !.done = 0]
                ELSE [night EXCEPT !.phase = "failed"]
    /\ UNCHANGED <<active, cohort, rolled, shrunk>>

\* Faulty variant: the next page begins a whole limit further.
NextPage_ByLimit ==
    /\ night.phase = "reply" /\ night.more /\ night.page < MaxPages
    /\ night' = [night EXCEPT !.phase = "send", !.page = @ + 1, !.tries = 0,
                    !.offset = @ + Limit, !.failed = @ \/ night.failure, !.list = {}, !.done = 0]
    /\ UNCHANGED <<active, cohort, rolled, shrunk>>

NextPage ==
    /\ night.phase = "reply" /\ night.more /\ night.page < MaxPages
    /\ night' = [night EXCEPT !.phase = "send", !.page = @ + 1, !.tries = 0,
                    !.offset = Consumed, !.failed = @ \/ night.failure, !.list = {}, !.done = 0]
    /\ UNCHANGED <<active, cohort, rolled, shrunk>>

\* The last page, or the ceiling, which is only warned of; a failure counted on
\* any page fails the job.
LastPage ==
    /\ night.phase = "reply" /\ (~ night.more \/ night.page = MaxPages)
    /\ night' = [night EXCEPT !.failed = @ \/ night.failure,
                    !.phase = IF night.failed \/ night.failure THEN "failed"
                              ELSE IF night.more THEN "truncated" ELSE "green"]
    /\ UNCHANGED <<active, cohort, rolled, shrunk>>

WorkflowStep ==
    ActivePairs \/ RollUpNext \/ EndOfSlice \/ NextPage \/ LastPage

PagingNext ==
    \/ \E p \in Pairs : Appear(p)
    \/ MidnightUtc \/ BeginNight \/ WorkflowStep \/ LosePage

PagingSpec == PagingInit /\ [][PagingNext]_pagingVars

-----------------------------------------------------------------------------
\* A night that reports success has rolled up every pair that was on the list
\* when it began, although the list is queried anew for each page and pages are
\* retried: pairs that appear push others back, so that one is done twice and
\* none is passed over.  Only midnight UTC, when pairs leave the list, can make
\* a page step over one.  And a night hits the page ceiling only when there are
\* more pairs than pages, however short the budget of each
\* (rollup-cron.service.ts:289).
NightAccounted ==
    /\ night.phase = "green" /\ ~ shrunk => cohort \subseteq rolled
    /\ night.phase = "truncated" /\ ~ shrunk => Cardinality(active) > MaxPages
=============================================================================
