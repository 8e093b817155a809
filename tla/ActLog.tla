------------------------------- MODULE ActLog -------------------------------
(***************************************************************************)
(* What event ingest promises a user: the acts their devices record reach  *)
(* the server's log at most once each, by id, and what is in the log never *)
(* changes.  No queue, no batch, no retry.                                 *)
(***************************************************************************)
EXTENDS Naturals

CONSTANT Acts

VARIABLES
    recorded,   \* the acts the devices have recorded
    log         \* the acts the server has stored

actLogVars == <<recorded, log>>

ActLogInit == recorded = {} /\ log = {}

\* A device records an act; its first upload may already be on its way.
Record(act) ==
    /\ recorded' = recorded \union {act}
    /\ UNCHANGED log

\* The first write of an id wins.
Store(act) ==
    /\ act \in recorded
    /\ \A stored \in log : stored.id # act.id
    /\ log' = log \union {act}
    /\ UNCHANGED recorded

ActLogNext == \E act \in Acts : Record(act) \/ Store(act)

ActLogSpec == ActLogInit /\ [][ActLogNext]_actLogVars
=============================================================================
