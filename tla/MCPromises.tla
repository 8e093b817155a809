------------------------------ MODULE MCPromises ------------------------------
(***************************************************************************)
(* The subscriptions, the deletion of the account and the upload queue,     *)
(* whose promises need that somebody goes on; they share no state, so a     *)
(* behaviour is that of one of them and the others rest.                    *)
(***************************************************************************)
EXTENDS Subscriptions, AccountDeletion, IngestQueue

VARIABLE part

vars == <<part, subVars, deletionVars, queueVars>>

\* What the schema says of the tables with a row per user (schema.prisma).
MCForeignKeys ==
    [t \in Tables |-> CASE t = "subscriptions" -> "restrict"
                        [] t = "user_roles" -> "cascade"
                        [] OTHER -> "none"]

\* Two records of one verse share their id; one row is corrupt.
Raw(id, instant, day, malformed) ==
    [id |-> id, quantity |-> 1, occurredAt |-> instant, localDay |-> day, malformed |-> malformed]
MCActs == {Raw("v", 1, 1, {}), Raw("v", 1, 2, {}), Raw("x", 1, 1, {"invalid_timezone"})}

Init ==
    /\ part \in {"subscriptions", "deletion", "queue"}
    /\ SubInit /\ QueueInit
    /\ DeletionInit /\ (part # "deletion" => rows = [t \in Tables |-> FALSE])

InSubscriptions(Step) ==
    part = "subscriptions" /\ Step /\ UNCHANGED <<part, deletionVars, queueVars>>
InDeletion(Step) == part = "deletion" /\ Step /\ UNCHANGED <<part, subVars, queueVars>>
InQueue(Step) == part = "queue" /\ Step /\ UNCHANGED <<part, subVars, deletionVars>>

Next == InSubscriptions(SubNext) \/ InDeletion(DeletionNext) \/ InQueue(QueueNext)

\* A handler that runs goes on, and Razorpay sends an event again until it is
\* answered 200; a person who wants the account gone asks again; a device with a
\* queue keeps sending it (the parts of QueueFairness).
Fairness ==
    /\ \A c \in Clients : WF_subVars(InSubscriptions(HandlerStep(c)))
    /\ \A h \in Hooks : WF_subVars(InSubscriptions(HandlerStep(h) \/ Arrives(h)))
    /\ WF_deletionVars(InDeletion(DeletionStep))
    /\ \A c \in Calls : WF_queueVars(InQueue(CallStep(c)))
    /\ \A d \in Devices : WF_queueVars(InQueue(\E c \in Calls : Upload(d, c)))

Spec == Init /\ [][Next]_vars /\ Fairness
=============================================================================
