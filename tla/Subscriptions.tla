---------------------------- MODULE Subscriptions ----------------------------
(***************************************************************************)
(* The paid subscriptions of one user: subscriptions.service.ts with its   *)
(* webhook, and Razorpay, the payment service it calls.  A call is an HTTP *)
(* request under way, one action per statement or remote call.  Razorpay's *)
(* events stay in outbox until a handler has answered 200: they arrive at  *)
(* least once and in any order.                                            *)
(***************************************************************************)
EXTENDS Naturals, FiniteSets

CONSTANTS
    Subs,           \* subscription ids Razorpay gives out
    Clients,        \* calls of the user's devices that can be under way at once
    Hooks,          \* deliveries of events that can be under way at once
    Kinds,          \* the operations besides create, verify and the webhook in use
    MaxMishaps       \* bound: calls killed, answers lost, remote calls and charges that fail

ASSUME SubscriptionAssumption == IsFiniteSet(Subs) /\ MaxMishaps \in Nat

Handlers == Clients \union Hooks

VARIABLES
    remote,         \* Razorpay: the status of each subscription
    outbox,         \* Razorpay: events <<type, subscription>> to be delivered
    local,          \* subscriptions: the row's status, "none" without a row
    premium,        \* user_roles: the user has premium_user
    known,          \* the client: subscriptions it was given the id of
    handling, mishaps,
    \* ghosts: no two creates overlapped, nor a create and a payment or its
    \* recording, no remote cancel failed, no charge ever stood pending; a role
    \* was given for a subscription that had ended
    careful, late

subVars == <<remote, outbox, local, premium, known, handling, mishaps, careful, late>>

EventTypes == {"activated", "charged", "pending", "halted", "cancelled", "completed"}

NoSub == "none"
Resting == [op |-> "none", phase |-> "idle", sub |-> NoSub, todo |-> {}]

SubInit ==
    /\ remote = [s \in Subs |-> "none"] /\ outbox = {}
    /\ local = [s \in Subs |-> "none"] /\ premium = FALSE
    /\ known = {} /\ handling = [c \in Handlers |-> Resting] /\ mishaps = 0
    /\ careful = TRUE /\ late = FALSE

Stands(c, op, phase) == handling[c].op = op /\ handling[c].phase = phase
MoveTo(c, phase) == handling' = [handling EXCEPT ![c].phase = phase]
Close(c) == handling' = [handling EXCEPT ![c] = Resting]
Open(c, op, phase, s) ==
    /\ handling[c].phase = "idle"
    /\ handling' = [handling EXCEPT ![c] = [Resting EXCEPT !.op = op, !.phase = phase, !.sub = s]]

Creating == {c \in Handlers : handling[c].op = "create"}
Ended(s) == remote[s] \in {"cancelled", "halted", "completed"}

-----------------------------------------------------------------------------
(* Razorpay, and the person at its checkout                                 *)

\* A call killed, an answer lost, a remote call or a charge that fails.
Fault == mishaps < MaxMishaps /\ mishaps' = mishaps + 1

Pay(s) ==
    /\ s \in known /\ remote[s] = "created"
    /\ remote' = [remote EXCEPT ![s] = "active"]
    /\ outbox' = outbox \union {<<"activated", s>>, <<"charged", s>>}
    /\ careful' = (careful /\ Creating = {})
    /\ UNCHANGED <<local, premium, known, handling, mishaps, late>>

\* A renewal fails, is tried again, and is given up.
ChargeFails(s) ==
    /\ "renewals" \in Kinds /\ remote[s] = "active" /\ Fault
    /\ remote' = [remote EXCEPT ![s] = "pending"]
    /\ outbox' = outbox \union {<<"pending", s>>}
    /\ careful' = FALSE
    /\ UNCHANGED <<local, premium, known, handling, late>>

ChargeSettles(s) ==
    /\ remote[s] = "pending"
    /\ \E status \in {"active", "halted"} :
        /\ remote' = [remote EXCEPT ![s] = status]
        /\ outbox' = outbox \union {<<IF status = "active" THEN "charged" ELSE "halted", s>>}
    /\ UNCHANGED <<local, premium, known, handling, mishaps, careful, late>>

\* The last of total_count charges has been made, years after the first: all that
\* was sent of the subscription before has been answered (bound).
Complete(s) ==
    /\ remote[s] = "active" /\ \A type \in EventTypes : <<type, s>> \notin outbox
    /\ remote' = [remote EXCEPT ![s] = "completed"]
    /\ outbox' = outbox \union {<<"completed", s>>}
    /\ UNCHANGED <<local, premium, known, handling, mishaps, careful, late>>

\* subscriptions.cancel: an error if it has ended already.
Cancellable(s) == ~ Ended(s)
RemoteCancel(s) ==
    /\ Cancellable(s)
    /\ remote' = [remote EXCEPT ![s] = "cancelled"]
    /\ outbox' = outbox \union {<<"cancelled", s>>}

SubDie(c) ==
    /\ handling[c].phase # "idle" /\ Fault
    /\ Close(c)
    /\ UNCHANGED <<remote, outbox, local, premium, known, careful, late>>

-----------------------------------------------------------------------------
(* createSubscription                                                       *)

CreateCheck(c) ==
    /\ \A s \in Subs : local[s] # "active"          \* else 400
    /\ \E s \in Subs : remote[s] = "none"           \* the bound
    /\ Open(c, "create", "stale", NoSub)
    /\ careful' = (careful /\ Creating = {})
    /\ UNCHANGED <<remote, outbox, local, premium, known, mishaps, late>>

\* Faulty variant: no stale rows are looked for.
CreateStale_None(c) ==
    /\ Stands(c, "create", "stale")
    /\ MoveTo(c, "remote")
    /\ UNCHANGED <<remote, outbox, local, premium, known, mishaps, careful, late>>

CreateStale(c) ==
    /\ Stands(c, "create", "stale")
    /\ handling' = [handling EXCEPT ![c].todo = {s \in Subs : local[s] = "created"},
                            ![c].phase = "remote"]
    /\ UNCHANGED <<remote, outbox, local, premium, known, mishaps, careful, late>>

\* One of the loop: the remote cancel, its errors ignored.
CancelStale(c) ==
    /\ Stands(c, "create", "remote")
    /\ \E s \in handling[c].todo :
        /\ \/ RemoteCancel(s) /\ UNCHANGED <<mishaps, careful>>
           \/ Ended(s) /\ UNCHANGED <<remote, outbox, mishaps, careful>>
           \/ Cancellable(s) /\ Fault /\ careful' = FALSE /\ UNCHANGED <<remote, outbox>>
        /\ handling' = [handling EXCEPT ![c].phase = "mark", ![c].sub = s, ![c].todo = @ \ {s}]
    /\ UNCHANGED <<local, premium, known, late>>

MarkStale(c) ==
    /\ Stands(c, "create", "mark")
    /\ local' = [local EXCEPT ![handling[c].sub] = "cancelled"]
    /\ MoveTo(c, "remote")
    /\ UNCHANGED <<remote, outbox, premium, known, mishaps, careful, late>>

\* Faulty variant: the id is answered before the row is written.
CreateRemote_AnswersFirst(c) ==
    /\ Stands(c, "create", "remote") /\ handling[c].todo = {}
    /\ \E s \in {t \in Subs : remote[t] = "none"} :
        /\ remote' = [remote EXCEPT ![s] = "created"]
        /\ known' = known \union {s}
        /\ handling' = [handling EXCEPT ![c].phase = "row", ![c].sub = s]
    /\ UNCHANGED <<outbox, local, premium, mishaps, careful, late>>

CreateRemote(c) ==
    /\ Stands(c, "create", "remote") /\ handling[c].todo = {}
    /\ IF \E t \in Subs : remote[t] = "none"
       THEN LET s == CHOOSE t \in Subs : remote[t] = "none"
            IN  /\ remote' = [remote EXCEPT ![s] = "created"]
                /\ handling' = [handling EXCEPT ![c].phase = "row", ![c].sub = s]
       ELSE Close(c) /\ UNCHANGED remote            \* the bound
    /\ UNCHANGED <<outbox, local, premium, known, mishaps, careful, late>>

\* The row, and the answer, unless that is lost.
CreateRow(c) ==
    /\ Stands(c, "create", "row")
    /\ local' = [local EXCEPT ![handling[c].sub] = "created"]
    /\ \/ known' = known \union {handling[c].sub} /\ UNCHANGED mishaps
       \/ Fault /\ UNCHANGED known
    /\ Close(c)
    /\ UNCHANGED <<remote, outbox, premium, careful, late>>

-----------------------------------------------------------------------------
(* verifyAndActivate and cancelSubscription                                 *)

\* The client of a payment, with Razorpay's signature of it.
Verify(c, s) ==
    /\ s \in known /\ remote[s] \notin {"none", "created"}
    /\ <<"activated", s>> \in outbox                \* bound: once is enough
    /\ Open(c, "verify", "activate", s)
    /\ UNCHANGED <<remote, outbox, local, premium, known, mishaps, careful, late>>

CancelFind(c, s) ==
    /\ "cancel" \in Kinds /\ local[s] = "active"    \* else 404
    /\ Open(c, "cancel", "remote", s)
    /\ UNCHANGED <<remote, outbox, local, premium, known, mishaps, careful, late>>

CancelRemote(c) ==
    /\ Stands(c, "cancel", "remote")
    /\ IF Cancellable(handling[c].sub)
       THEN RemoteCancel(handling[c].sub) /\ MoveTo(c, "end")
       ELSE Close(c) /\ UNCHANGED <<remote, outbox>>
    /\ UNCHANGED <<local, premium, known, mishaps, careful, late>>

-----------------------------------------------------------------------------
(* handleWebhookEvent.  The row is found and then updated by its id: rows   *)
(* are not deleted under it, so the two statements are one step.            *)

Deliver(c, event) ==
    /\ event \in outbox
    /\ Open(c, event[1], CASE event[1] = "activated" -> "activate"
                           [] event[1] \in {"cancelled", "halted"} -> "end"
                           [] event[1] = "completed" -> "ignore"
                           [] OTHER -> "status", event[2])
    /\ UNCHANGED <<remote, outbox, local, premium, known, mishaps, careful, late>>

\* 200: Razorpay does not send the event again.
Acknowledge(c) == outbox' = outbox \ {<<handling[c].op, handling[c].sub>>}

\* An event of a subscription without a row is answered 200 and has no effect.
IgnoreUnknown(c) ==
    /\ handling[c].phase \in {"activate", "status", "end"} /\ local[handling[c].sub] = "none"
    /\ Acknowledge(c) /\ Close(c)
    /\ UNCHANGED <<remote, local, premium, known, mishaps, careful, late>>

\* subscription.completed is no case of the switch: 200, the row stays active and
\* the role stays.
IgnoreCompleted(c) ==
    /\ handling[c].phase = "ignore"
    /\ Acknowledge(c) /\ Close(c)
    /\ UNCHANGED <<remote, local, premium, known, mishaps, careful, late>>

StatusOf(c) ==
    CASE handling[c].op \in {"activated", "verify", "charged"} -> "active"
      [] handling[c].op \in {"cancelled", "cancel"} -> "cancelled"
      [] OTHER -> handling[c].op

\* Faulty variant: an activation that finds its row active is taken for done.
SetStatus_SkipsKnown(c) ==
    /\ handling[c].phase \in {"activate", "status", "end"} /\ local[handling[c].sub] # "none"
    /\ local' = [local EXCEPT ![handling[c].sub] = StatusOf(c)]
    /\ IF handling[c].phase = "status" \/ (handling[c].phase = "activate" /\ local[handling[c].sub] = "active")
       THEN Acknowledge(c) /\ Close(c)
       ELSE MoveTo(c, IF handling[c].phase = "activate" THEN "assign" ELSE "revoke") /\ UNCHANGED outbox
    /\ careful' = (careful /\ (Creating = {} \/ local'[handling[c].sub] # "active"))
    /\ UNCHANGED <<remote, premium, known, mishaps, late>>

SetStatus(c) ==
    /\ handling[c].phase \in {"activate", "status", "end"} /\ local[handling[c].sub] # "none"
    /\ local' = [local EXCEPT ![handling[c].sub] = StatusOf(c)]
    /\ IF handling[c].phase = "status"
       THEN Acknowledge(c) /\ Close(c)
       ELSE MoveTo(c, IF handling[c].phase = "activate" THEN "assign" ELSE "revoke") /\ UNCHANGED outbox
    /\ careful' = (careful /\ (Creating = {} \/ local'[handling[c].sub] # "active"))
    /\ UNCHANGED <<remote, premium, known, mishaps, late>>

\* assignPremiumRole, an upsert; verifyAndActivate also returns new tokens.
AssignPremiumRole(c) ==
    /\ handling[c].phase = "assign"
    /\ premium' = TRUE
    /\ late' = (late \/ Ended(handling[c].sub))
    /\ Acknowledge(c) /\ Close(c)
    /\ UNCHANGED <<remote, local, known, mishaps, careful>>

\* Faulty variant: only the user's own cancel takes the role.
RevokePremiumRole_OwnOnly(c) ==
    /\ handling[c].phase = "revoke"
    /\ premium' = (premium /\ handling[c].op # "cancel")
    /\ Acknowledge(c) /\ Close(c)
    /\ UNCHANGED <<remote, local, known, mishaps, careful, late>>

RevokePremiumRole(c) ==
    /\ handling[c].phase = "revoke"
    /\ premium' = FALSE
    /\ Acknowledge(c) /\ Close(c)
    /\ UNCHANGED <<remote, local, known, mishaps, careful, late>>

-----------------------------------------------------------------------------
HandlerStep(c) ==
    \/ CreateStale(c) \/ CancelStale(c) \/ MarkStale(c) \/ CreateRemote(c) \/ CreateRow(c)
    \/ CancelRemote(c)
    \/ IgnoreUnknown(c) \/ IgnoreCompleted(c) \/ SetStatus(c) \/ AssignPremiumRole(c) \/ RevokePremiumRole(c)

Arrives(h) == \E event \in outbox : Deliver(h, event)

SubNext ==
    \/ \E c \in Handlers : HandlerStep(c) \/ SubDie(c)
    \/ \E h \in Hooks : Arrives(h)
    \/ \E c \in Clients : CreateCheck(c) \/ \E s \in Subs : Verify(c, s) \/ CancelFind(c, s)
    \/ \E s \in Subs : Pay(s) \/ ChargeFails(s) \/ ChargeSettles(s) \/ Complete(s)

SubSpec == SubInit /\ [][SubNext]_subVars

-----------------------------------------------------------------------------
(* Properties                                                               *)

SubTypeOK ==
    /\ remote \in [Subs -> {"none", "created", "active", "pending", "halted", "cancelled",
                            "completed"}]
    /\ outbox \subseteq EventTypes \X Subs
    /\ local \in [Subs -> {"none", "created", "active", "pending", "halted", "cancelled"}]
    /\ premium \in BOOLEAN /\ known \subseteq Subs
    /\ handling \in [Handlers -> [op : EventTypes \union {"none", "create", "verify", "cancel"},
                           phase : {"idle", "stale", "remote", "mark", "row", "activate",
                                    "status", "end", "ignore", "assign", "revoke"},
                           sub : Subs \union {NoSub}, todo : SUBSET Subs]]
    /\ mishaps \in 0 .. MaxMishaps /\ careful \in BOOLEAN /\ late \in BOOLEAN

\* A subscription that can be paid has its row, whatever create died on the way:
\* no payment is ever answered with an event that finds no row and is dropped
\* (createSubscription, lines 49 to 61; handleWebhookEvent ignores unknown ids).
PaidHasRow ==
    \A s \in Subs : remote[s] \in {"active", "pending", "halted", "completed"} => local[s] # "none"

\* A user who does one thing at a time is never charged for two subscriptions,
\* though webhooks lag and creates die: an unpaid one is cancelled at Razorpay
\* before the next is made (createSubscription, line 25).  Two overlapping
\* creates, a payment made or recorded during one, an ignored cancel error or a
\* pending charge can lead to two.
OneChargeIfCareful == careful => Cardinality({s \in Subs : remote[s] = "active"}) <= 1

\* A subscription that stays paid brings the premium role for good, although
\* verify or the handler die between updating the row and assigning the role
\* and events come twice and out of order, as long as no other subscription of
\* the user was cancelled or halted: the handler of that takes the role (line 180).
PaymentBringsRole ==
    \A s \in Subs :
        <>[](remote[s] = "active" /\ \A t \in Subs \ {s} : remote[t] \notin {"cancelled", "halted"})
            => <>[]premium

\* When no subscription is left the role goes for good, whether the user cancelled
\* the last one or Razorpay gave up its charges and whatever died on the way,
\* unless a delayed activation was handled after its subscription had ended
\* (line 143).  A subscription that has run its total_count (razorpay.service.ts:21)
\* is no such end: no handler takes its role.
EndTakesRole ==
    <>[](~ late /\ \A s \in Subs : remote[s] \notin {"active", "pending", "completed"})
        => <>[]~ premium
=============================================================================
