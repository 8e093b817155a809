---------------------------- MODULE PromiseProofs ----------------------------
(***************************************************************************)
(* AccountDeletion: its types, and that a deleted account leaves nothing     *)
(* behind, for any tables, any schema and any number of requests and mishaps. *)
(*                                                                           *)
(* Subscriptions: its types, that what can be paid has its row, and that a   *)
(* careful user is charged for one subscription at most, for any number of   *)
(* subscriptions, calls, deliveries and mishaps.                              *)
(***************************************************************************)
EXTENDS AccountDeletion, Subscriptions, FiniteSetTheorems, TLAPS

-----------------------------------------------------------------------------
(* AccountDeletion                                                          *)


\* The rows of t, if any, are younger than the deleteMany of t.
Cleared(t) == rows[t] => t \in overlapped

\* What each phase of the request has established.  A batch that failed has
\* established nothing, and the next attempt begins with all the tables.
PhaseInv ==
    /\ phase # "idle" => user
    /\ phase = "batch" => \A t \in Listed \ todo : Cleared(t)
    /\ phase = "user" => \A t \in Listed : Cleared(t)

DeletionInv == DeletionTypeOK /\ PhaseInv /\ GoneLeavesNothing

LEMMA DeletionInvInit == DeletionInit => DeletionInv
<1> SUFFICES ASSUME DeletionInit PROVE DeletionInv
  OBVIOUS
<1>1. DeletionTypeOK
  <2>1. writes = 0 /\ failures = 0 /\ MaxWrites \in Nat /\ MaxFailures \in Nat
    BY DeletionAssumption DEF DeletionAssumption, DeletionInit
  <2>2. writes \in 0 .. MaxWrites /\ failures \in 0 .. MaxFailures
    BY <2>1
  <2> QED  BY <2>2, Zenon DEF DeletionInit, DeletionTypeOK
<1>2. PhaseInv /\ GoneLeavesNothing
  BY DEF DeletionInit, PhaseInv, GoneLeavesNothing
<1> QED  BY <1>1, <1>2 DEF DeletionInv

\* A request that passed the guard inserts: into a table whose delete is still
\* to come, or into one that is marked.
LEMMA InsertKeeps ==
  ASSUME NEW t \in Tables, DeletionInv, InsertRow(t)
  PROVE  DeletionInv'
<1> USE DEF DeletionInv
<1>1. DeletionTypeOK'
  BY DEF InsertRow, DeletionTypeOK
<1>2. CASE user \/ fk[t] = "none"
  <2>1. rows' = [rows EXCEPT ![t] = TRUE] /\ UNCHANGED <<user, phase, todo>>
    BY <1>2 DEF InsertRow
  <2>2. \A s \in Tables : s # t => rows'[s] = rows[s]
    BY <2>1 DEF DeletionTypeOK
  <2>3. overlapped \subseteq overlapped'
    BY <1>2 DEF InsertRow
  <2>4. phase # "idle" \/ ~ user => t \in overlapped'
    BY <1>2 DEF InsertRow
  <2>5. ASSUME NEW s \in Tables, Cleared(s), phase # "idle" \/ ~ user PROVE Cleared(s)'
    BY <2>2, <2>3, <2>4, <2>5, Zenon DEF Cleared
  <2>6. PhaseInv'
    BY <2>1, <2>5 DEF PhaseInv, Tables
  <2>7. GoneLeavesNothing'
    BY <2>1, <2>5 DEF GoneLeavesNothing, Cleared, Tables
  <2> QED  BY <1>1, <2>6, <2>7
<1>3. CASE ~ (user \/ fk[t] = "none")
  <2>1. UNCHANGED <<rows, overlapped, user, phase, todo>>
    BY <1>3 DEF InsertRow
  <2> QED  BY <1>1, <2>1 DEF PhaseInv, GoneLeavesNothing, Cleared
<1> QED  BY <1>2, <1>3

LEMMA DeleteRowsKeeps ==
  ASSUME NEW t \in Tables, DeletionInv, DeleteRows(t)
  PROVE  DeletionInv'
<1> USE DEF DeletionInv
<1>1. DeletionTypeOK'
  BY DEF DeleteRows, DeletionTypeOK
<1>2. PhaseInv'
  BY DEF DeleteRows, DeletionTypeOK, PhaseInv, Cleared
<1>3. GoneLeavesNothing'
  BY DEF DeleteRows, DeletionTypeOK, GoneLeavesNothing
<1> QED  BY <1>1, <1>2, <1>3

\* user.delete: only in the phase that knows every listed table to be cleared,
\* and a cascade only removes more.
LEMMA DeleteUserRowKeeps ==
  ASSUME DeletionInv, DeleteUserRow
  PROVE  DeletionInv'
<1> USE DEF DeletionInv
<1>1. CASE \E t \in Tables : rows[t] /\ fk[t] = "restrict"
  BY <1>1 DEF DeleteUserRow, DeletionTypeOK, PhaseInv, GoneLeavesNothing, Cleared
<1>2. CASE ~ \E t \in Tables : rows[t] /\ fk[t] = "restrict"
  <2>1. rows' = [t \in Tables |-> rows[t] /\ fk[t] # "cascade"] /\ user' = FALSE /\ phase' = "idle"
    BY <1>2 DEF DeleteUserRow
  <2>2. DeletionTypeOK'
    BY <2>1 DEF DeleteUserRow, DeletionTypeOK
  <2>3. GoneLeavesNothing'
    BY <2>1 DEF DeleteUserRow, PhaseInv, GoneLeavesNothing, Cleared, Tables
  <2> QED  BY <2>1, <2>2, <2>3 DEF PhaseInv
<1> QED  BY <1>1, <1>2

LEMMA DeletionInvNext == DeletionInv /\ [DeletionNext]_deletionVars => DeletionInv'
<1> SUFFICES ASSUME DeletionInv, [DeletionNext]_deletionVars PROVE DeletionInv'
  OBVIOUS
<1> USE DEF DeletionInv, DeletionTypeOK, PhaseInv, GoneLeavesNothing, Cleared
<1>1. CASE Want                  BY <1>1 DEF Want
<1>2. CASE FindUser              BY <1>2 DEF FindUser
<1>3. CASE BatchEnds             BY <1>3 DEF BatchEnds
<1>4. CASE DeleteUserRow         BY <1>4, DeleteUserRowKeeps
<1>5. CASE DeletionKilled        BY <1>5, DeletionAssumption DEF DeletionAssumption, DeletionKilled
<1>6. ASSUME NEW t \in Tables, BeginInsert(t) PROVE DeletionInv'
  BY <1>6, DeletionAssumption DEF DeletionAssumption, BeginInsert
<1>7. ASSUME NEW t \in Tables, InsertRow(t) PROVE DeletionInv'
  BY <1>7, InsertKeeps
<1>8. ASSUME NEW t \in Tables, DeleteRows(t) PROVE DeletionInv'
  BY <1>8, DeleteRowsKeeps
<1>9. ASSUME NEW t \in Tables, DeleteFails(t) PROVE DeletionInv'
  BY <1>9, DeletionAssumption DEF DeletionAssumption, DeleteFails
<1>10. CASE UNCHANGED deletionVars
  BY <1>10 DEF deletionVars
<1> QED  BY <1>1, <1>2, <1>3, <1>4, <1>5, <1>6, <1>7, <1>8, <1>9, <1>10 DEF DeletionNext, DeletionStep

\* The inductive invariant: types, what each phase of the request in
\* account.service.ts has established, and that nothing is left.
THEOREM DeletionInvariance == DeletionSpec => []DeletionInv
  BY DeletionInvInit, DeletionInvNext, PTL DEF DeletionSpec

\* Once the user is gone, a listed table keeps rows only if another request
\* inserted them after its deleteMany: for every schema, every list, and any
\* number of inserts, failed statements, killed functions and retries.
THEOREM DeletedAccountIsEmpty == DeletionSpec => []GoneLeavesNothing
<1>1. DeletionInv => GoneLeavesNothing  BY DEF DeletionInv
<1> QED  BY <1>1, DeletionInvariance, PTL

-----------------------------------------------------------------------------
(* Subscriptions                                                            *)


EventOps == {"activated", "charged", "pending", "halted", "cancelled", "verify", "cancel"}

\* What the phases of the calls have established.
CallsInv ==
    /\ \A c \in Handlers :
        /\ handling[c].phase \in {"activate", "status", "end", "assign", "revoke"} => handling[c].op \in EventOps
        /\ handling[c].op \in EventOps => handling[c].sub \in Subs
        /\ handling[c].op = "cancel" => handling[c].phase \in {"remote", "end", "revoke"}
        /\ handling[c].phase = "row" =>
            handling[c].sub \in Subs /\ handling[c].todo = {} /\ remote[handling[c].sub] # "none"
    /\ \A s \in known : local[s] # "none" /\ remote[s] # "none"

\* An end that is told of has happened.
EndsInv ==
    /\ \A s \in Subs : <<"cancelled", s>> \in outbox \/ <<"halted", s>> \in outbox => Ended(s)
    /\ \A c \in Handlers :
        /\ handling[c].op \in {"cancelled", "halted"} => Ended(handling[c].sub)
        /\ handling[c].op = "cancel" /\ handling[c].phase \in {"end", "revoke"} => Ended(handling[c].sub)

\* The subscriptions the user is charged for, or could be at the next payment.
Chargeable == {s \in Subs : remote[s] = "active" \/ (remote[s] = "created" /\ s \in known)}

\* While the user is careful there is at most one, its row has not ended, and a
\* create under way has it, unpaid as far as the row tells, on its list.
CarefulInv ==
    careful =>
        /\ \A s, t \in Chargeable : s = t
        /\ \A s \in Chargeable : local[s] \in {"created", "active"}
        /\ \A s \in Subs : remote[s] # "pending" /\ <<"pending", s>> \notin outbox
        /\ \A c \in Handlers : handling[c].op # "pending"
        /\ \A c, d \in Creating : c = d
        /\ \A c \in Creating :
            /\ handling[c].phase = "mark" => Ended(handling[c].sub)
            /\ \A s \in Chargeable :
                local[s] = "created" /\ (handling[c].phase = "stale" \/ s \in handling[c].todo)

SubInv == SubTypeOK /\ CallsInv /\ PaidHasRow /\ EndsInv /\ CarefulInv

Statuses == {"none", "created", "active", "pending", "halted", "cancelled"}
Remotes == {"none", "created", "active", "pending", "halted", "cancelled", "completed"}
CallPhases == {"idle", "stale", "remote", "mark", "row", "activate", "status", "end", "ignore",
               "assign", "revoke"}
CallRow == [op : EventTypes \union {"none", "create", "verify", "cancel"}, phase : CallPhases,
            sub : Subs \union {NoSub}, todo : SUBSET Subs]

LEMMA RestingRow == Resting \in CallRow /\ Resting.op = "none" /\ Resting.phase = "idle"
BY DEF Resting, CallRow, CallPhases, EventTypes

LEMMA CloseEffect ==
  ASSUME handling \in [Handlers -> CallRow], NEW c \in Handlers, Close(c)
  PROVE  /\ handling' \in [Handlers -> CallRow] /\ handling'[c] = Resting
         /\ \A d \in Handlers \ {c} : handling'[d] = handling[d]
BY RestingRow DEF Close

LEMMA MoveToEffect ==
  ASSUME handling \in [Handlers -> CallRow], NEW c \in Handlers, NEW p \in CallPhases, MoveTo(c, p)
  PROVE  /\ handling' \in [Handlers -> CallRow]
         /\ handling'[c].phase = p /\ handling'[c].op = handling[c].op
         /\ handling'[c].sub = handling[c].sub /\ handling'[c].todo = handling[c].todo
         /\ \A d \in Handlers \ {c} : handling'[d] = handling[d]
BY DEF MoveTo, CallRow

LEMMA OpenEffect ==
  ASSUME handling \in [Handlers -> CallRow], NEW c \in Handlers, NEW p \in CallPhases,
         NEW op \in EventTypes \union {"create", "verify", "cancel"}, NEW s \in Subs \union {NoSub},
         Open(c, op, p, s)
  PROVE  /\ handling' \in [Handlers -> CallRow] /\ handling[c].phase = "idle"
         /\ handling'[c].phase = p /\ handling'[c].op = op /\ handling'[c].sub = s /\ handling'[c].todo = {}
         /\ \A d \in Handlers \ {c} : handling'[d] = handling[d]
<1> DEFINE a == Resting
           b1 == [a EXCEPT !.op = op]
           b2 == [b1 EXCEPT !.phase = p]
           new == [b2 EXCEPT !.sub = s]
<1>1. handling' = [handling EXCEPT ![c] = new] /\ handling[c].phase = "idle"
  BY Zenon DEF Open
<1>2. a \in CallRow /\ a.todo = {}
  BY RestingRow DEF Resting
<1> HIDE DEF a
<1>3. b1 \in CallRow /\ b1.op = op /\ b1.todo = a.todo
  BY <1>2 DEF CallRow
<1> HIDE DEF b1
<1>4. b2 \in CallRow /\ b2.op = b1.op /\ b2.phase = p /\ b2.todo = b1.todo
  BY <1>3 DEF CallRow
<1> HIDE DEF b2
<1>5. new \in CallRow /\ new.op = b2.op /\ new.phase = b2.phase /\ new.sub = s /\ new.todo = b2.todo
  BY <1>4 DEF CallRow
<1> HIDE DEF new
<1> QED  BY <1>1, <1>2, <1>3, <1>4, <1>5

\* The two steps that write several fields of their call.
LEMMA CreateStaleEffect ==
  ASSUME handling \in [Handlers -> CallRow], NEW c \in Handlers, CreateStale(c)
  PROVE  /\ handling' \in [Handlers -> CallRow]
         /\ handling'[c].phase = "remote" /\ handling'[c].op = "create" /\ handling'[c].sub = handling[c].sub
         /\ handling'[c].todo = {s \in Subs : local[s] = "created"}
         /\ \A d \in Handlers \ {c} : handling'[d] = handling[d]
<1> DEFINE stale == {s \in Subs : local[s] = "created"}
           a == handling[c]
           b == [a EXCEPT !.todo = stale]
           new == [b EXCEPT !.phase = "remote"]
<1>1. handling' = [handling EXCEPT ![c] = new] /\ a.op = "create"
  BY DEF CreateStale, Stands
<1>2. a \in CallRow /\ stale \in SUBSET Subs
  OBVIOUS
<1> HIDE DEF a, stale
<1>3. b \in CallRow /\ b.op = a.op /\ b.sub = a.sub /\ b.todo = stale
  BY <1>2 DEF CallRow
<1> HIDE DEF b
<1>4. /\ new \in CallRow /\ new.phase = "remote"
      /\ new.op = b.op /\ new.sub = b.sub /\ new.todo = b.todo
  BY <1>3 DEF CallRow, CallPhases
<1> HIDE DEF new
<1>5. handling'[c] = new /\ handling' \in [Handlers -> CallRow] /\ \A d \in Handlers \ {c} : handling'[d] = handling[d]
  BY <1>1, <1>4
<1> QED  BY <1>1, <1>3, <1>4, <1>5 DEF a, stale

LEMMA CancelStaleEffect ==
  ASSUME handling \in [Handlers -> CallRow], NEW c \in Handlers, CancelStale(c)
  PROVE  \E s \in handling[c].todo :
            /\ handling' \in [Handlers -> CallRow]
            /\ handling'[c].phase = "mark" /\ handling'[c].op = "create" /\ handling'[c].sub = s
            /\ handling'[c].todo = handling[c].todo \ {s}
            /\ \A d \in Handlers \ {c} : handling'[d] = handling[d]
            /\ \/ RemoteCancel(s) /\ UNCHANGED <<mishaps, careful>>
               \/ Ended(s) /\ UNCHANGED <<remote, outbox, mishaps, careful>>
               \/ Cancellable(s) /\ Fault /\ careful' = FALSE /\ UNCHANGED <<remote, outbox>>
<1>1. PICK s \in handling[c].todo :
        /\ handling' = [handling EXCEPT ![c].phase = "mark", ![c].sub = s, ![c].todo = @ \ {s}]
        /\ \/ RemoteCancel(s) /\ UNCHANGED <<mishaps, careful>>
           \/ Ended(s) /\ UNCHANGED <<remote, outbox, mishaps, careful>>
           \/ Cancellable(s) /\ Fault /\ careful' = FALSE /\ UNCHANGED <<remote, outbox>>
  BY DEF CancelStale
<1> DEFINE a == handling[c]
           left == a.todo \ {s}
           b1 == [a EXCEPT !.phase = "mark"]
           b2 == [b1 EXCEPT !.sub = s]
           new == [b2 EXCEPT !.todo = left]
<1>2. a \in CallRow /\ a.op = "create" /\ s \in Subs /\ left \in SUBSET Subs
  BY DEF CancelStale, Stands, CallRow
<1>3. handling' = [handling EXCEPT ![c] = new]
  BY <1>1, <1>2 DEF CallRow
<1> HIDE DEF a, left
<1>4. b1 \in CallRow /\ b1.op = a.op /\ b1.phase = "mark"
  BY <1>2 DEF CallRow, CallPhases
<1> HIDE DEF b1
<1>5. b2 \in CallRow /\ b2.op = b1.op /\ b2.phase = b1.phase /\ b2.sub = s
  BY <1>2, <1>4 DEF CallRow
<1> HIDE DEF b2
<1>6. new \in CallRow /\ new.op = b2.op /\ new.phase = b2.phase /\ new.sub = b2.sub /\ new.todo = left
  BY <1>2, <1>5 DEF CallRow
<1> HIDE DEF new
<1>7. handling'[c] = new /\ handling' \in [Handlers -> CallRow] /\ \A d \in Handlers \ {c} : handling'[d] = handling[d]
  BY <1>3, <1>6
<1> QED  BY <1>1, <1>2, <1>4, <1>5, <1>6, <1>7 DEF a, left

LEMMA SubTypes ==
  SubTypeOK <=>
    /\ remote \in [Subs -> Remotes] /\ local \in [Subs -> Statuses] /\ outbox \subseteq EventTypes \X Subs
    /\ premium \in BOOLEAN /\ known \subseteq Subs /\ handling \in [Handlers -> CallRow]
    /\ mishaps \in 0 .. MaxMishaps /\ careful \in BOOLEAN /\ late \in BOOLEAN
BY DEF SubTypeOK, Statuses, Remotes, CallRow, CallPhases

LEMMA SubTypesNext ==
  SubTypeOK' <=>
    /\ remote' \in [Subs -> Remotes] /\ local' \in [Subs -> Statuses] /\ outbox' \subseteq EventTypes \X Subs
    /\ premium' \in BOOLEAN /\ known' \subseteq Subs /\ handling' \in [Handlers -> CallRow]
    /\ mishaps' \in 0 .. MaxMishaps /\ careful' \in BOOLEAN /\ late' \in BOOLEAN
BY DEF SubTypeOK, Statuses, Remotes, CallRow, CallPhases

LEMMA FaultCounts ==
  ASSUME mishaps \in 0 .. MaxMishaps, MaxMishaps \in Nat, Fault
  PROVE  mishaps' \in 0 .. MaxMishaps
BY DEF Fault

-----------------------------------------------------------------------------
(* Handlers that end, and calls that begin on what has happened                *)

\* A call as it was, at rest, or begun on an event or a payment.
CallQuiet(c) ==
    \/ handling'[c] = handling[c]
    \/ handling'[c] = Resting
    \/ /\ handling'[c].op \in EventOps /\ handling'[c].phase # "row" /\ handling'[c].sub \in Subs
       /\ handling'[c].op \in {"cancelled", "halted"} => Ended(handling'[c].sub)
       /\ handling'[c].op = "cancel" => handling'[c].phase = "remote"
       /\ careful => handling'[c].op # "pending"
    \/ handling'[c].op = "completed" /\ handling'[c].phase = "ignore"

QuietStep ==
    /\ SubTypeOK' /\ UNCHANGED <<remote, local, known, careful>> /\ outbox' \subseteq outbox
    /\ \A c \in Handlers : CallQuiet(c)

LEMMA QuietKeeps == SubInv /\ QuietStep => SubInv'
<1> SUFFICES ASSUME SubInv, QuietStep PROVE SubInv'
  OBVIOUS
<1>1. CallsInv'
  BY DEF SubInv, QuietStep, CallQuiet, CallsInv, Resting, EventOps
<1>2. PaidHasRow'
  BY DEF SubInv, QuietStep, PaidHasRow
<1>3. EndsInv'
  BY DEF SubInv, QuietStep, CallQuiet, EndsInv, Ended, Resting
<1>4. CarefulInv'
  <2>1. Chargeable' = Chargeable
    BY DEF QuietStep, Chargeable
  <2>2. \A c \in Creating' : c \in Creating /\ handling'[c] = handling[c]
    BY DEF QuietStep, CallQuiet, Creating, EventOps, Resting
  <2>3. \A c \in Handlers : careful /\ handling[c].op # "pending" => handling'[c].op # "pending"
    BY DEF QuietStep, CallQuiet, Resting
  <2> SUFFICES ASSUME careful PROVE CarefulInv'
    BY DEF CarefulInv, QuietStep
  <2>4. \A c, d \in Creating' : c = d
    BY <2>2 DEF SubInv, CarefulInv
  <2>5. ASSUME NEW c \in Creating'
        PROVE  /\ handling'[c].phase = "mark" => Ended(handling[c].sub)'
               /\ \A s \in Chargeable' :
                    local'[s] = "created" /\ (handling'[c].phase = "stale" \/ s \in handling'[c].todo)
    <3>1. c \in Creating /\ handling'[c] = handling[c]
      BY <2>2
    <3>2. handling[c].phase = "mark" => Ended(handling[c].sub)
      BY <3>1 DEF SubInv, CarefulInv
    <3>3. \A s \in Chargeable : local[s] = "created" /\ (handling[c].phase = "stale" \/ s \in handling[c].todo)
      BY <3>1 DEF SubInv, CarefulInv
    <3> QED  BY <2>1, <3>1, <3>2, <3>3 DEF QuietStep, Ended
  <2>6. /\ \A s, t \in Chargeable' : s = t
        /\ \A s \in Chargeable' : local'[s] \in {"created", "active"}
        /\ \A s \in Subs : remote'[s] # "pending" /\ <<"pending", s>> \notin outbox'
        /\ \A c \in Handlers : handling'[c].op # "pending"
    BY <2>1, <2>3 DEF SubInv, CarefulInv, QuietStep
  <2> QED  BY <2>4, <2>5, <2>6 DEF CarefulInv
<1> QED  BY <1>1, <1>2, <1>3, <1>4 DEF SubInv, QuietStep

LEMMA QuietSteps ==
  ASSUME SubInv, NEW c \in Handlers,
         SubDie(c) \/ IgnoreUnknown(c) \/ IgnoreCompleted(c) \/ AssignPremiumRole(c) \/ RevokePremiumRole(c)
  PROVE  QuietStep
<1>0. /\ remote \in [Subs -> Remotes] /\ local \in [Subs -> Statuses] /\ outbox \subseteq EventTypes \X Subs
      /\ premium \in BOOLEAN /\ known \subseteq Subs /\ handling \in [Handlers -> CallRow]
      /\ mishaps \in 0 .. MaxMishaps /\ careful \in BOOLEAN /\ late \in BOOLEAN /\ MaxMishaps \in Nat
  BY SubTypes, SubscriptionAssumption DEF SubInv, SubscriptionAssumption
<1>1. Close(c) /\ UNCHANGED <<remote, local, known, careful>> /\ outbox' \subseteq outbox
  BY DEF SubDie, IgnoreUnknown, IgnoreCompleted, AssignPremiumRole, RevokePremiumRole, Acknowledge
<1>2. handling' \in [Handlers -> CallRow] /\ \A d \in Handlers : CallQuiet(d)
  BY <1>0, <1>1, CloseEffect DEF CallQuiet
<1>3. premium' \in BOOLEAN /\ late' \in BOOLEAN /\ mishaps' \in 0 .. MaxMishaps
  BY <1>0, FaultCounts DEF SubDie, IgnoreUnknown, IgnoreCompleted, AssignPremiumRole, RevokePremiumRole
<1> QED  BY <1>0, <1>1, <1>2, <1>3, SubTypesNext DEF QuietStep

LEMMA DeliverQuiet ==
  ASSUME SubInv, NEW c \in Handlers, NEW event \in outbox, Deliver(c, event)
  PROVE  QuietStep
<1>0. /\ remote \in [Subs -> Remotes] /\ local \in [Subs -> Statuses] /\ outbox \subseteq EventTypes \X Subs
      /\ premium \in BOOLEAN /\ known \subseteq Subs /\ handling \in [Handlers -> CallRow]
      /\ mishaps \in 0 .. MaxMishaps /\ careful \in BOOLEAN /\ late \in BOOLEAN /\ MaxMishaps \in Nat
  BY SubTypes, SubscriptionAssumption DEF SubInv, SubscriptionAssumption
<1> DEFINE p == CASE event[1] = "activated" -> "activate"
                  [] event[1] \in {"cancelled", "halted"} -> "end"
                  [] event[1] = "completed" -> "ignore"
                  [] OTHER -> "status"
<1>1. /\ event[1] \in EventTypes /\ event[2] \in Subs /\ event = <<event[1], event[2]>>
      /\ p \in CallPhases /\ p # "row" /\ (event[1] = "completed" => p = "ignore") /\ Open(c, event[1], p, event[2])
  BY <1>0 DEF Deliver, CallPhases
<1>2. UNCHANGED <<remote, outbox, local, premium, known, mishaps, careful, late>>
  BY DEF Deliver
<1>3. event[1] \in {"cancelled", "halted"} => Ended(event[2])
  BY <1>1 DEF SubInv, EndsInv
<1>4. careful => event[1] # "pending"
  BY <1>1 DEF SubInv, CarefulInv
<1> HIDE DEF p
<1>5. /\ handling' \in [Handlers -> CallRow]
      /\ handling'[c].phase = p /\ handling'[c].op = event[1] /\ handling'[c].sub = event[2]
      /\ \A d \in Handlers \ {c} : handling'[d] = handling[d]
  BY <1>0, <1>1, OpenEffect
<1>6. \A d \in Handlers : CallQuiet(d)
  BY <1>1, <1>3, <1>4, <1>5 DEF CallQuiet, EventOps, EventTypes
<1> QED  BY <1>0, <1>2, <1>5, <1>6, SubTypesNext DEF QuietStep

LEMMA ClientQuiet ==
  ASSUME SubInv, NEW c \in Handlers, NEW s \in Subs, Verify(c, s) \/ CancelFind(c, s)
  PROVE  QuietStep
<1>0. /\ remote \in [Subs -> Remotes] /\ local \in [Subs -> Statuses] /\ outbox \subseteq EventTypes \X Subs
      /\ premium \in BOOLEAN /\ known \subseteq Subs /\ handling \in [Handlers -> CallRow]
      /\ mishaps \in 0 .. MaxMishaps /\ careful \in BOOLEAN /\ late \in BOOLEAN /\ MaxMishaps \in Nat
  BY SubTypes, SubscriptionAssumption DEF SubInv, SubscriptionAssumption
<1>1. PICK op \in {"verify", "cancel"}, p \in {"activate", "remote"} :
            Open(c, op, p, s) /\ (op = "cancel" => p = "remote")
  BY DEF Verify, CancelFind
<1>2. UNCHANGED <<remote, outbox, local, premium, known, mishaps, careful, late>>
  BY DEF Verify, CancelFind
<1>3. op \in EventTypes \union {"create", "verify", "cancel"} /\ p \in CallPhases
  BY DEF CallPhases
<1>4. /\ handling' \in [Handlers -> CallRow]
      /\ handling'[c].phase = p /\ handling'[c].op = op /\ handling'[c].sub = s
      /\ \A d \in Handlers \ {c} : handling'[d] = handling[d]
  BY <1>0, <1>1, <1>3, OpenEffect
<1>5. \A d \in Handlers : CallQuiet(d)
  BY <1>1, <1>4 DEF CallQuiet, EventOps
<1> QED  BY <1>0, <1>2, <1>4, <1>5, SubTypesNext DEF QuietStep
-----------------------------------------------------------------------------
(* Razorpay's steps                                                         *)

LEMMA SubFacts ==
  ASSUME SubInv
  PROVE  /\ remote \in [Subs -> Remotes] /\ local \in [Subs -> Statuses]
         /\ outbox \subseteq EventTypes \X Subs /\ premium \in BOOLEAN /\ known \subseteq Subs
         /\ handling \in [Handlers -> CallRow] /\ mishaps \in 0 .. MaxMishaps /\ MaxMishaps \in Nat
         /\ careful \in BOOLEAN /\ late \in BOOLEAN
BY SubTypes, SubscriptionAssumption DEF SubInv, SubscriptionAssumption

LEMMA PayKeeps ==
  ASSUME SubInv, NEW s \in Subs, Pay(s)
  PROVE  SubInv'
<1>0. /\ remote \in [Subs -> Remotes] /\ outbox \subseteq EventTypes \X Subs /\ careful \in BOOLEAN
      /\ handling \in [Handlers -> CallRow]
  BY SubFacts
<1>1. /\ s \in known /\ remote[s] = "created"
      /\ remote' = [remote EXCEPT ![s] = "active"]
      /\ outbox' = outbox \union {<<"activated", s>>, <<"charged", s>>}
      /\ careful' = (careful /\ Creating = {})
      /\ UNCHANGED <<local, premium, known, handling, mishaps, late>>
  BY Zenon DEF Pay
<1>2. remote'[s] = "active" /\ \A t \in Subs \ {s} : remote'[t] = remote[t]
  BY <1>0, <1>1
<1>3. SubTypeOK'
  <2>1. remote' \in [Subs -> Remotes] /\ outbox' \subseteq EventTypes \X Subs
    BY <1>0, <1>1 DEF Statuses, Remotes, EventTypes
  <2>2. careful' \in BOOLEAN
    BY <1>1, Zenon
  <2> QED  BY <1>1, <2>1, <2>2, SubFacts, SubTypesNext
<1>4. CallsInv' /\ PaidHasRow'
  BY <1>1, <1>2 DEF SubInv, CallsInv, PaidHasRow
<1>5. EndsInv'
  <2>1. \A t \in Subs : Ended(t) => Ended(t)'
    BY <1>1, <1>2 DEF Ended
  <2>2. \A t \in Subs : (<<"cancelled", t>> \in outbox' => <<"cancelled", t>> \in outbox)
                     /\ (<<"halted", t>> \in outbox' => <<"halted", t>> \in outbox)
    BY <1>1
  <2>3. \A c \in Handlers : handling[c].op \in {"cancelled", "halted", "cancel"} => handling[c].sub \in Subs
    BY DEF SubInv, CallsInv, EventOps
  <2> QED  BY <1>1, <2>1, <2>2, <2>3 DEF SubInv, EndsInv
<1>6. CarefulInv'
  <2> SUFFICES ASSUME careful' PROVE CarefulInv'
    BY DEF CarefulInv
  <2>1. careful /\ Creating = {} /\ Creating' = {}
    BY <1>1 DEF Creating
  <2>2. Chargeable' = Chargeable
    BY <1>1, <1>2 DEF Chargeable
  <2> QED  BY <1>1, <1>2, <2>1, <2>2 DEF SubInv, CarefulInv
<1> QED  BY <1>3, <1>4, <1>5, <1>6 DEF SubInv

LEMMA ChargeFailsKeeps ==
  ASSUME SubInv, NEW s \in Subs, ChargeFails(s)
  PROVE  SubInv'
<1>0. /\ remote \in [Subs -> Remotes] /\ outbox \subseteq EventTypes \X Subs
      /\ mishaps \in 0 .. MaxMishaps /\ MaxMishaps \in Nat
  BY SubFacts
<1>1. /\ remote[s] = "active" /\ remote' = [remote EXCEPT ![s] = "pending"]
      /\ outbox' = outbox \union {<<"pending", s>>} /\ careful' = FALSE
      /\ UNCHANGED <<local, premium, known, handling, late>> /\ Fault
  BY DEF ChargeFails
<1>2. remote'[s] = "pending" /\ \A t \in Subs \ {s} : remote'[t] = remote[t]
  BY <1>0, <1>1
<1>3. SubTypeOK'
  <2>1. remote' \in [Subs -> Remotes] /\ outbox' \subseteq EventTypes \X Subs
    BY <1>0, <1>1 DEF Statuses, Remotes, EventTypes
  <2>2. mishaps' \in 0 .. MaxMishaps
    BY <1>0, <1>1, FaultCounts
  <2> QED  BY <1>1, <2>1, <2>2, SubFacts, SubTypesNext
<1>4. CallsInv' /\ PaidHasRow'
  BY <1>1, <1>2 DEF SubInv, CallsInv, PaidHasRow
<1>5. EndsInv'
  <2>1. \A t \in Subs : Ended(t) => Ended(t)'
    BY <1>1, <1>2 DEF Ended
  <2>2. \A t \in Subs : (<<"cancelled", t>> \in outbox' => <<"cancelled", t>> \in outbox)
                     /\ (<<"halted", t>> \in outbox' => <<"halted", t>> \in outbox)
    BY <1>1
  <2>3. \A c \in Handlers : handling[c].op \in {"cancelled", "halted", "cancel"} => handling[c].sub \in Subs
    BY DEF SubInv, CallsInv, EventOps
  <2> QED  BY <1>1, <2>1, <2>2, <2>3 DEF SubInv, EndsInv
<1> QED  BY <1>1, <1>3, <1>4, <1>5 DEF SubInv, CarefulInv

LEMMA ChargeSettlesKeeps ==
  ASSUME SubInv, NEW s \in Subs, ChargeSettles(s)
  PROVE  SubInv'
<1>0. remote \in [Subs -> Remotes] /\ outbox \subseteq EventTypes \X Subs
  BY SubFacts
<1>1. PICK status \in {"active", "halted"} :
        /\ remote' = [remote EXCEPT ![s] = status]
        /\ outbox' = outbox \union {<<IF status = "active" THEN "charged" ELSE "halted", s>>}
  BY DEF ChargeSettles
<1>2. remote[s] = "pending" /\ UNCHANGED <<local, premium, known, handling, mishaps, careful, late>>
  BY DEF ChargeSettles
<1>3. remote'[s] = status /\ \A t \in Subs \ {s} : remote'[t] = remote[t]
  BY <1>0, <1>1
<1>4. SubTypeOK'
  <2>1. remote' \in [Subs -> Remotes] /\ outbox' \subseteq EventTypes \X Subs
    BY <1>0, <1>1 DEF Statuses, Remotes, EventTypes
  <2> QED  BY <1>2, <2>1, SubFacts, SubTypesNext
<1>5. CallsInv' /\ PaidHasRow'
  <2>1. known \subseteq Subs /\ \A t \in Subs : remote'[t] = "none" => remote[t] = "none"
    BY <1>2, <1>3, SubFacts
  <2>2. \A t \in Subs : remote'[t] \in {"active", "pending", "halted", "completed"}
                     => remote[t] \in {"active", "pending", "halted", "completed"}
    BY <1>2, <1>3
  <2>3. CallsInv'
    BY <1>2, <2>1 DEF SubInv, CallsInv
  <2>4. PaidHasRow'
    BY <1>2, <2>2 DEF SubInv, PaidHasRow
  <2> QED  BY <2>3, <2>4
<1>6. EndsInv'
  <2>1. \A t \in Subs : Ended(t) => Ended(t)'
    BY <1>2, <1>3 DEF Ended
  <2>2. \A t \in Subs : (<<"cancelled", t>> \in outbox' => <<"cancelled", t>> \in outbox)
                     /\ (<<"halted", t>> \in outbox' => <<"halted", t>> \in outbox \/ Ended(t)')
    BY <1>1, <1>3 DEF Ended
  <2>3. \A c \in Handlers : handling[c].op \in {"cancelled", "halted", "cancel"} => handling[c].sub \in Subs
    BY DEF SubInv, CallsInv, EventOps
  <2> QED  BY <1>2, <2>1, <2>2, <2>3 DEF SubInv, EndsInv
<1>7. CarefulInv'
  BY <1>2 DEF SubInv, CarefulInv
<1> QED  BY <1>4, <1>5, <1>6, <1>7 DEF SubInv

-----------------------------------------------------------------------------
(* createSubscription                                                       *)

\* EndsInv after a step that un-ends nothing and tells of no end that is not one.
LEMMA EndsKeeps ==
  ASSUME SubInv, \A t \in Subs : Ended(t) => Ended(t)',
         \A t \in Subs : \A e \in {"cancelled", "halted"} :
            <<e, t>> \in outbox' => <<e, t>> \in outbox \/ Ended(t)',
         \A d \in Handlers :
            \/ handling'[d] = handling[d]
            \/ /\ handling'[d].op \in {"cancelled", "halted"} => Ended(handling[d].sub)'
               /\ handling'[d].op = "cancel" /\ handling'[d].phase \in {"end", "revoke"} => Ended(handling[d].sub)'
  PROVE  EndsInv'
<1>1. \A d \in Handlers : handling[d].op \in {"cancelled", "halted", "cancel"} => handling[d].sub \in Subs
  BY DEF SubInv, CallsInv, EventOps
<1>2. \A t \in Subs : <<"cancelled", t>> \in outbox' \/ <<"halted", t>> \in outbox' => Ended(t)'
  BY DEF SubInv, EndsInv
<1>3. ASSUME NEW d \in Handlers
      PROVE  /\ handling'[d].op \in {"cancelled", "halted"} => Ended(handling[d].sub)'
             /\ handling'[d].op = "cancel" /\ handling'[d].phase \in {"end", "revoke"} => Ended(handling[d].sub)'
  <2>1. CASE handling'[d] = handling[d]
    <3>1. handling[d].sub \in Subs /\ Ended(handling[d].sub) => Ended(handling[d].sub)'
      BY <2>1 DEF Ended
    <3> QED  BY <1>1, <2>1, <3>1 DEF SubInv, EndsInv
  <2> QED  BY <2>1
<1> QED  BY <1>2, <1>3 DEF EndsInv

LEMMA CompleteKeeps ==
  ASSUME SubInv, NEW s \in Subs, Complete(s)
  PROVE  SubInv'
<1>0. remote \in [Subs -> Remotes] /\ outbox \subseteq EventTypes \X Subs
  BY SubFacts
<1>1. /\ remote[s] = "active" /\ remote' = [remote EXCEPT ![s] = "completed"]
      /\ outbox' = outbox \union {<<"completed", s>>}
      /\ UNCHANGED <<local, premium, known, handling, mishaps, careful, late>>
  BY DEF Complete
<1>2. remote'[s] = "completed" /\ \A t \in Subs \ {s} : remote'[t] = remote[t]
  BY <1>0, <1>1
<1>3. SubTypeOK'
  <2>1. remote' \in [Subs -> Remotes] /\ outbox' \subseteq EventTypes \X Subs
    BY <1>0, <1>1 DEF Remotes, EventTypes
  <2> QED  BY <1>1, <2>1, SubFacts, SubTypesNext
<1>4. CallsInv' /\ PaidHasRow'
  BY <1>1, <1>2 DEF SubInv, CallsInv, PaidHasRow
<1>5. EndsInv'
  <2>1. \A t \in Subs : Ended(t) => Ended(t)'
    BY <1>1, <1>2 DEF Ended
  <2>2. \A t \in Subs : \A e \in {"cancelled", "halted"} : <<e, t>> \in outbox' => <<e, t>> \in outbox
    BY <1>1
  <2> QED  BY <1>1, <2>1, <2>2, EndsKeeps
<1>6. CarefulInv'
  <2> SUFFICES ASSUME careful PROVE CarefulInv'
    BY <1>1 DEF CarefulInv
  <2>1. Creating' = Creating
    BY <1>1 DEF Creating
  <2>2. \A t \in Chargeable' : t \in Chargeable
    BY <1>1, <1>2 DEF Chargeable
  <2>3. \A t \in Subs : remote'[t] # "pending" /\ <<"pending", t>> \notin outbox'
    BY <1>1, <1>2 DEF SubInv, CarefulInv
  <2>4. ASSUME NEW c \in Creating, handling[c].phase = "mark" PROVE Ended(handling[c].sub)'
    <3>1. Ended(handling[c].sub)
      BY <2>4 DEF SubInv, CarefulInv
    <3>2. CASE handling[c].sub \in Subs
      BY <1>1, <1>2, <3>1, <3>2 DEF Ended
    <3>3. CASE handling[c].sub \notin Subs
      BY <1>1, <3>1, <3>3 DEF Ended
    <3> QED  BY <3>2, <3>3
  <2> QED  BY <1>1, <2>1, <2>2, <2>3, <2>4 DEF SubInv, CarefulInv
<1> QED  BY <1>3, <1>4, <1>5, <1>6 DEF SubInv

LEMMA CreateCheckKeeps ==
  ASSUME SubInv, NEW c \in Handlers, CreateCheck(c)
  PROVE  SubInv'
<1>1. /\ \A s \in Subs : local[s] # "active"
      /\ Open(c, "create", "stale", NoSub) /\ careful' = (careful /\ Creating = {})
      /\ UNCHANGED <<remote, outbox, local, premium, known, mishaps, late>>
  BY Zenon DEF CreateCheck
<1>2. /\ handling' \in [Handlers -> CallRow]
      /\ handling'[c].phase = "stale" /\ handling'[c].op = "create"
      /\ \A d \in Handlers \ {c} : handling'[d] = handling[d]
  BY <1>1, SubFacts, OpenEffect DEF CallPhases
<1>3. SubTypeOK'
  <2>1. careful' \in BOOLEAN
    BY <1>1, Zenon
  <2> QED  BY <1>1, <1>2, <2>1, SubFacts, SubTypesNext
<1>4. CallsInv' /\ PaidHasRow'
  BY <1>1, <1>2 DEF SubInv, CallsInv, PaidHasRow, EventOps
<1>5. EndsInv'
  BY <1>1, <1>2, EndsKeeps DEF Ended
<1>6. CarefulInv'
  <2> SUFFICES ASSUME careful' PROVE CarefulInv'
    BY DEF CarefulInv
  <2>1. careful /\ Creating = {}
    BY <1>1
  <2>2. \A d \in Creating' : d = c
    BY <1>2, <2>1 DEF Creating
  <2>3. Chargeable' = Chargeable
    BY <1>1 DEF Chargeable
  <2>4. \A s \in Chargeable : local[s] = "created"
    BY <1>1, <2>1 DEF SubInv, CarefulInv, Chargeable
  <2>5. \A d \in Handlers : handling'[d].op # "pending"
    BY <1>2, <2>1 DEF SubInv, CarefulInv
  <2> QED  BY <1>1, <1>2, <2>1, <2>2, <2>3, <2>4, <2>5 DEF SubInv, CarefulInv
<1> QED  BY <1>3, <1>4, <1>5, <1>6 DEF SubInv

LEMMA CreateStaleKeeps ==
  ASSUME SubInv, NEW c \in Handlers, CreateStale(c)
  PROVE  SubInv'
<1>1. /\ handling[c].op = "create" /\ handling[c].phase = "stale"
      /\ UNCHANGED <<remote, outbox, local, premium, known, mishaps, careful, late>>
  BY DEF CreateStale, Stands
<1>2. /\ handling' \in [Handlers -> CallRow]
      /\ handling'[c].phase = "remote" /\ handling'[c].op = "create"
      /\ handling'[c].todo = {s \in Subs : local[s] = "created"}
      /\ \A d \in Handlers \ {c} : handling'[d] = handling[d]
  BY SubFacts, CreateStaleEffect
<1>3. SubTypeOK'
  BY <1>1, <1>2, SubFacts, SubTypesNext
<1>4. CallsInv' /\ PaidHasRow'
  BY <1>1, <1>2 DEF SubInv, CallsInv, PaidHasRow, EventOps
<1>5. EndsInv'
  BY <1>1, <1>2, EndsKeeps DEF Ended
<1>6. CarefulInv'
  <2> SUFFICES ASSUME careful PROVE CarefulInv'
    BY <1>1 DEF CarefulInv
  <2>1. Creating' = Creating /\ c \in Creating
    BY <1>1, <1>2 DEF Creating
  <2>2. \A d \in Creating : d = c
    BY <2>1 DEF SubInv, CarefulInv
  <2>3. Chargeable' = Chargeable
    BY <1>1 DEF Chargeable
  <2>4. \A s \in Chargeable : local[s] = "created" /\ s \in handling'[c].todo
    BY <1>2, <2>1 DEF SubInv, CarefulInv, Chargeable
  <2>5. \A d \in Handlers : handling'[d].op # "pending"
    BY <1>2 DEF SubInv, CarefulInv
  <2> QED  BY <1>1, <1>2, <2>1, <2>2, <2>3, <2>4, <2>5 DEF SubInv, CarefulInv
<1> QED  BY <1>3, <1>4, <1>5, <1>6 DEF SubInv

LEMMA RemoteCancelEffect ==
  ASSUME SubInv, NEW s \in Subs, RemoteCancel(s)
  PROVE  /\ remote' \in [Subs -> Remotes] /\ outbox' \subseteq EventTypes \X Subs
         /\ remote'[s] = "cancelled" /\ \A t \in Subs \ {s} : remote'[t] = remote[t]
         /\ Ended(s)' /\ (\A t \in Subs : Ended(t) => Ended(t)')
         /\ \A t \in Subs : \A e \in {"cancelled", "halted"} :
                <<e, t>> \in outbox' => <<e, t>> \in outbox \/ Ended(t)'
         /\ \A t \in Subs : <<"pending", t>> \in outbox' => <<"pending", t>> \in outbox
<1>1. remote \in [Subs -> Remotes] /\ outbox \subseteq EventTypes \X Subs
  BY SubFacts
<1>2. /\ remote' = [remote EXCEPT ![s] = "cancelled"]
      /\ outbox' = outbox \union {<<"cancelled", s>>}
  BY DEF RemoteCancel
<1>3. remote'[s] = "cancelled" /\ \A t \in Subs \ {s} : remote'[t] = remote[t]
  BY <1>1, <1>2
<1>4. Ended(s)' /\ \A t \in Subs : Ended(t) => Ended(t)'
  BY <1>3 DEF Ended
<1> QED  BY <1>1, <1>2, <1>3, <1>4 DEF Statuses, Remotes, EventTypes

LEMMA CancelStaleKeeps ==
  ASSUME SubInv, NEW c \in Handlers, CancelStale(c)
  PROVE  SubInv'
<1>1. handling[c].op = "create" /\ handling[c].phase = "remote" /\ UNCHANGED <<local, premium, known, late>>
  BY DEF CancelStale, Stands
<1>2. PICK s \in handling[c].todo :
        /\ handling' \in [Handlers -> CallRow]
        /\ handling'[c].phase = "mark" /\ handling'[c].op = "create" /\ handling'[c].sub = s
        /\ handling'[c].todo = handling[c].todo \ {s}
        /\ \A d \in Handlers \ {c} : handling'[d] = handling[d]
        /\ \/ RemoteCancel(s) /\ UNCHANGED <<mishaps, careful>>
           \/ Ended(s) /\ UNCHANGED <<remote, outbox, mishaps, careful>>
           \/ Cancellable(s) /\ Fault /\ careful' = FALSE /\ UNCHANGED <<remote, outbox>>
  BY SubFacts, CancelStaleEffect
<1>3. s \in Subs
  BY <1>2, SubFacts DEF CallRow
<1>4. /\ remote' \in [Subs -> Remotes] /\ outbox' \subseteq EventTypes \X Subs
      /\ (\A t \in Subs \ {s} : remote'[t] = remote[t]) /\ (remote'[s] = remote[s] \/ remote'[s] = "cancelled")
      /\ \A t \in Subs : Ended(t) => Ended(t)'
      /\ \A t \in Subs : \A e \in {"cancelled", "halted"} :
            <<e, t>> \in outbox' => <<e, t>> \in outbox \/ Ended(t)'
      /\ \A t \in Subs : <<"pending", t>> \in outbox' => <<"pending", t>> \in outbox
  <2>1. CASE RemoteCancel(s)
    BY <1>3, <2>1, RemoteCancelEffect
  <2>2. CASE UNCHANGED <<remote, outbox>>
    BY <2>2, SubFacts DEF Ended
  <2> QED  BY <1>2, <2>1, <2>2
<1>5. careful' => careful /\ Ended(s)'
  BY <1>2, <1>3, RemoteCancelEffect DEF Ended
<1>6. SubTypeOK'
  <2>1. mishaps' \in 0 .. MaxMishaps /\ careful' \in BOOLEAN
    BY <1>2, SubFacts, FaultCounts
  <2> QED  BY <1>1, <1>2, <1>4, <2>1, SubFacts, SubTypesNext
<1>7. CallsInv' /\ PaidHasRow'
  <2>1. \A t \in Subs : remote'[t] = "none" => remote[t] = "none"
    BY <1>4
  <2>2. \A t \in Subs : remote'[t] \in {"active", "pending", "halted", "completed"} => remote'[t] = remote[t]
    BY <1>4
  <2>3. PaidHasRow'
    BY <1>1, <2>2 DEF SubInv, PaidHasRow
  <2>4. \A t \in known' : local'[t] # "none" /\ remote'[t] # "none"
    BY <1>1, <2>1, SubFacts DEF SubInv, CallsInv
  <2>5. ASSUME NEW d \in Handlers
        PROVE  /\ handling'[d].phase \in {"activate", "status", "end", "assign", "revoke"} => handling'[d].op \in EventOps
               /\ handling'[d].op \in EventOps => handling'[d].sub \in Subs
               /\ handling'[d].op = "cancel" => handling'[d].phase \in {"remote", "end", "revoke"}
               /\ handling'[d].phase = "row" =>
                    handling'[d].sub \in Subs /\ handling'[d].todo = {} /\ remote'[handling'[d].sub] # "none"
    BY <1>2, <2>1 DEF SubInv, CallsInv, EventOps
  <2> QED  BY <2>3, <2>4, <2>5 DEF CallsInv
<1>8. EndsInv'
  BY <1>2, <1>4, EndsKeeps
<1>9. CarefulInv'
  <2> SUFFICES ASSUME careful' PROVE CarefulInv'
    BY DEF CarefulInv
  <2>1. careful /\ Ended(s)'
    BY <1>5
  <2>2. Creating' = Creating /\ c \in Creating
    BY <1>1, <1>2 DEF Creating
  <2>3. \A d \in Creating : d = c
    BY <2>1, <2>2 DEF SubInv, CarefulInv
  <2>4. \A t \in Chargeable' : t \in Chargeable /\ t # s
    BY <1>1, <1>4, <2>1 DEF Chargeable, Ended
  <2>5. \A t \in Chargeable' : local'[t] = "created" /\ t \in handling'[c].todo
    BY <1>1, <1>2, <2>1, <2>2, <2>4 DEF SubInv, CarefulInv
  <2>6. \A t \in Subs : remote'[t] # "pending" /\ <<"pending", t>> \notin outbox'
    BY <1>4, <2>1 DEF SubInv, CarefulInv
  <2>7. \A d \in Handlers : handling'[d].op # "pending"
    BY <1>2, <2>1 DEF SubInv, CarefulInv
  <2>8. \A t, u \in Chargeable' : t = u
    BY <2>1, <2>4 DEF SubInv, CarefulInv
  <2>9. \A d \in Creating' : Ended(handling[d].sub)'
    BY <1>2, <2>1, <2>2, <2>3 DEF Ended
  <2> QED  BY <2>2, <2>3, <2>5, <2>6, <2>7, <2>8, <2>9 DEF CarefulInv
<1> QED  BY <1>6, <1>7, <1>8, <1>9 DEF SubInv

LEMMA MarkStaleKeeps ==
  ASSUME SubInv, NEW c \in Handlers, MarkStale(c)
  PROVE  SubInv'
<1> DEFINE stale == handling[c].sub
<1>1. /\ handling[c].op = "create" /\ handling[c].phase = "mark" /\ MoveTo(c, "remote")
      /\ local' = [local EXCEPT ![stale] = "cancelled"]
      /\ UNCHANGED <<remote, outbox, premium, known, mishaps, careful, late>>
  BY DEF MarkStale, Stands
<1>2. /\ handling' \in [Handlers -> CallRow]
      /\ handling'[c].phase = "remote" /\ handling'[c].op = "create" /\ handling'[c].todo = handling[c].todo
      /\ \A d \in Handlers \ {c} : handling'[d] = handling[d]
  BY <1>1, SubFacts, MoveToEffect DEF CallPhases
<1>3. /\ local' \in [Subs -> Statuses]
      /\ \A t \in Subs : local'[t] = local[t] \/ (t = stale /\ local'[t] = "cancelled")
  BY <1>1, SubFacts DEF Statuses, Remotes
<1>4. SubTypeOK'
  BY <1>1, <1>2, <1>3, SubFacts, SubTypesNext
<1>5. CallsInv' /\ PaidHasRow'
  <2>1. \A t \in Subs : local'[t] = "none" => local[t] = "none"
    BY <1>3
  <2>2. PaidHasRow'
    BY <1>1, <2>1 DEF SubInv, PaidHasRow
  <2>3. CallsInv'
    BY <1>1, <1>2, <2>1, SubFacts DEF SubInv, CallsInv, EventOps
  <2> QED  BY <2>2, <2>3
<1>6. EndsInv'
  BY <1>1, <1>2, EndsKeeps DEF Ended
<1>7. CarefulInv'
  <2> SUFFICES ASSUME careful PROVE CarefulInv'
    BY <1>1 DEF CarefulInv
  <2>1. Creating' = Creating /\ c \in Creating
    BY <1>1, <1>2 DEF Creating
  <2>2. \A d \in Creating : d = c
    BY <2>1 DEF SubInv, CarefulInv
  <2>3. Chargeable' = Chargeable
    BY <1>1 DEF Chargeable
  <2>4. Ended(stale)
    BY <1>1, <2>1 DEF SubInv, CarefulInv
  <2>5. \A t \in Chargeable : t # stale
    BY <2>4 DEF Chargeable, Ended
  <2>6. \A t \in Chargeable : local[t] = "created" /\ t \in handling[c].todo
    BY <1>1, <2>1 DEF SubInv, CarefulInv
  <2>7. \A t \in Chargeable : local'[t] = "created" /\ t \in handling'[c].todo
    BY <1>2, <1>3, <2>5, <2>6 DEF Chargeable
  <2>8. \A d \in Handlers : handling'[d].op # "pending"
    BY <1>2 DEF SubInv, CarefulInv
  <2>9. \A d \in Creating' : handling'[d].phase # "mark"
    BY <1>2, <2>1, <2>2
  <2> QED  BY <1>1, <2>1, <2>2, <2>3, <2>7, <2>8, <2>9 DEF SubInv, CarefulInv
<1> QED  BY <1>4, <1>5, <1>6, <1>7 DEF SubInv

LEMMA CreateRemoteKeeps ==
  ASSUME SubInv, NEW c \in Handlers, CreateRemote(c)
  PROVE  SubInv'
<1>1. /\ handling[c].op = "create" /\ handling[c].phase = "remote" /\ handling[c].todo = {}
      /\ UNCHANGED <<outbox, local, premium, known, mishaps, careful, late>>
  BY DEF CreateRemote, Stands
<1>2. CASE \E t \in Subs : remote[t] = "none"
  <2> DEFINE s == CHOOSE t \in Subs : remote[t] = "none"
  <2>1. s \in Subs /\ remote[s] = "none"
    BY <1>2
  <2>2. /\ remote' = [remote EXCEPT ![s] = "created"]
        /\ handling' = [handling EXCEPT ![c].phase = "row", ![c].sub = s]
    BY <1>2 DEF CreateRemote
  <2> HIDE DEF s
  <2>3. /\ remote' \in [Subs -> Remotes]
        /\ remote'[s] = "created" /\ \A t \in Subs \ {s} : remote'[t] = remote[t]
    BY <2>1, <2>2, SubFacts DEF Statuses, Remotes
  <2>4. /\ handling' \in [Handlers -> CallRow]
        /\ handling'[c].phase = "row" /\ handling'[c].op = "create" /\ handling'[c].sub = s /\ handling'[c].todo = {}
        /\ \A d \in Handlers \ {c} : handling'[d] = handling[d]
    <3> DEFINE a == handling[c]
               b == [a EXCEPT !.phase = "row"]
               new == [b EXCEPT !.sub = s]
    <3>1. handling' = [handling EXCEPT ![c] = new]
      BY <2>2
    <3>2. a \in CallRow /\ a.op = "create" /\ a.todo = {}
      BY <1>1, SubFacts
    <3> HIDE DEF a
    <3>3. b \in CallRow /\ b.op = "create" /\ b.todo = {} /\ b.phase = "row"
      BY <3>2 DEF CallRow, CallPhases
    <3> HIDE DEF b
    <3>4. new \in CallRow /\ new.op = "create" /\ new.todo = {} /\ new.phase = "row" /\ new.sub = s
      BY <2>1, <3>3 DEF CallRow
    <3> HIDE DEF new
    <3> QED  BY <3>1, <3>4, SubFacts
  <2>5. SubTypeOK'
    BY <1>1, <2>3, <2>4, SubFacts, SubTypesNext
  <2>6. CallsInv' /\ PaidHasRow'
    <3>1. \A t \in Subs : remote'[t] = "none" => remote[t] = "none"
      BY <2>3
    <3>2. PaidHasRow'
      BY <1>1, <2>3 DEF SubInv, PaidHasRow
    <3>3. CallsInv'
      BY <1>1, <2>1, <2>3, <2>4, <3>1, SubFacts DEF SubInv, CallsInv, EventOps
    <3> QED  BY <3>2, <3>3
  <2>7. EndsInv'
    <3>1. \A t \in Subs : Ended(t) => Ended(t)'
      BY <2>1, <2>3 DEF Ended
    <3> QED  BY <1>1, <2>4, <3>1, EndsKeeps
  <2>8. CarefulInv'
    <3> SUFFICES ASSUME careful PROVE CarefulInv'
      BY <1>1 DEF CarefulInv
    <3>1. Creating' = Creating /\ c \in Creating
      BY <1>1, <2>4 DEF Creating
    <3>2. \A d \in Creating : d = c
      BY <3>1 DEF SubInv, CarefulInv
    <3>3. Chargeable = {}
      BY <1>1, <3>1 DEF SubInv, CarefulInv
    <3>4. Chargeable' = {}
      <4>1. s \notin known
        BY <2>1 DEF SubInv, CallsInv
      <4> QED  BY <1>1, <2>3, <3>3, <4>1 DEF Chargeable
    <3>5. \A d \in Handlers : handling'[d].op # "pending"
      BY <2>4 DEF SubInv, CarefulInv
    <3>6. \A t \in Subs : remote'[t] # "pending" /\ <<"pending", t>> \notin outbox'
      BY <1>1, <2>3 DEF SubInv, CarefulInv
    <3>7. \A d \in Creating' : handling'[d].phase # "mark"
      BY <2>4, <3>1, <3>2
    <3> QED  BY <3>1, <3>2, <3>4, <3>5, <3>6, <3>7 DEF CarefulInv
  <2> QED  BY <2>5, <2>6, <2>7, <2>8 DEF SubInv
<1>3. CASE ~ \E t \in Subs : remote[t] = "none"
  <2>1. Close(c) /\ UNCHANGED remote
    BY <1>3 DEF CreateRemote
  <2>2. handling' \in [Handlers -> CallRow] /\ \A d \in Handlers : CallQuiet(d)
    BY <2>1, SubFacts, CloseEffect DEF CallQuiet
  <2>3. QuietStep
    BY <1>1, <2>1, <2>2, SubFacts, SubTypesNext DEF QuietStep
  <2> QED  BY <2>3, QuietKeeps
<1> QED  BY <1>2, <1>3

LEMMA CreateRowKeeps ==
  ASSUME SubInv, NEW c \in Handlers, CreateRow(c)
  PROVE  SubInv'
<1> DEFINE s == handling[c].sub
<1>1. /\ handling[c].op = "create" /\ handling[c].phase = "row" /\ Close(c)
      /\ local' = [local EXCEPT ![s] = "created"]
      /\ (known' = known \union {s} /\ UNCHANGED mishaps) \/ (Fault /\ UNCHANGED known)
      /\ UNCHANGED <<remote, outbox, premium, careful, late>>
  BY DEF CreateRow, Stands
<1>2. s \in Subs /\ handling[c].todo = {} /\ remote[s] # "none"
  BY <1>1 DEF SubInv, CallsInv
<1>3. /\ local' \in [Subs -> Statuses]
      /\ local'[s] = "created" /\ \A t \in Subs \ {s} : local'[t] = local[t]
  BY <1>1, <1>2, SubFacts DEF Statuses, Remotes
<1>4. /\ handling' \in [Handlers -> CallRow] /\ handling'[c] = Resting
      /\ \A d \in Handlers \ {c} : handling'[d] = handling[d]
  BY <1>1, SubFacts, CloseEffect
<1>5. /\ known' \subseteq Subs /\ mishaps' \in 0 .. MaxMishaps
      /\ \A t \in known' : t \in known \/ t = s
  BY <1>1, <1>2, SubFacts, FaultCounts
<1> HIDE DEF s
<1>6. SubTypeOK'
  BY <1>1, <1>3, <1>4, <1>5, SubFacts, SubTypesNext
<1>7. CallsInv' /\ PaidHasRow'
  <2>1. \A t \in Subs : local'[t] = "none" => local[t] = "none"
    BY <1>3
  <2>2. PaidHasRow'
    BY <1>1, <2>1 DEF SubInv, PaidHasRow
  <2>3. \A t \in known' : local'[t] # "none" /\ remote'[t] # "none"
    BY <1>1, <1>2, <1>3, <1>5, <2>1, SubFacts DEF SubInv, CallsInv
  <2>4. CallsInv'
    BY <1>1, <1>4, <2>3 DEF SubInv, CallsInv, EventOps, Resting
  <2> QED  BY <2>2, <2>4
<1>8. EndsInv'
  BY <1>1, <1>4, EndsKeeps DEF Ended, Resting
<1>9. CarefulInv'
  <2> SUFFICES ASSUME careful PROVE CarefulInv'
    BY <1>1 DEF CarefulInv
  <2>1. c \in Creating /\ \A d \in Creating : d = c
    BY <1>1 DEF SubInv, CarefulInv, Creating
  <2>2. Creating' = {}
    BY <1>4, <2>1 DEF Creating, Resting
  <2>3. Chargeable = {}
    BY <1>1, <1>2, <2>1 DEF SubInv, CarefulInv
  <2>4. \A t \in Chargeable' : t = s
    BY <1>1, <1>5, <2>3 DEF Chargeable
  <2>5. \A t \in Chargeable' : local'[t] \in {"created", "active"}
    BY <1>3, <2>4
  <2>6. \A d \in Handlers : handling'[d].op # "pending"
    BY <1>4 DEF SubInv, CarefulInv, Resting
  <2> QED  BY <1>1, <2>2, <2>4, <2>5, <2>6 DEF SubInv, CarefulInv
<1> QED  BY <1>6, <1>7, <1>8, <1>9 DEF SubInv

-----------------------------------------------------------------------------
(* cancelSubscription and the handlers of events                            *)

LEMMA CancelRemoteKeeps ==
  ASSUME SubInv, NEW c \in Handlers, CancelRemote(c)
  PROVE  SubInv'
<1>0. PICK s : s = handling[c].sub
  OBVIOUS
<1>1. /\ handling[c].op = "cancel" /\ handling[c].phase = "remote"
      /\ UNCHANGED <<local, premium, known, mishaps, careful, late>>
  BY DEF CancelRemote, Stands
<1>2. s \in Subs
  BY <1>0, <1>1 DEF SubInv, CallsInv, EventOps
<1>3. CASE Cancellable(s)
  <2>1. RemoteCancel(s) /\ MoveTo(c, "end")
    BY <1>0, <1>3 DEF CancelRemote
  <2>2. /\ handling' \in [Handlers -> CallRow]
        /\ handling'[c].phase = "end" /\ handling'[c].op = "cancel" /\ handling'[c].sub = s
        /\ \A d \in Handlers \ {c} : handling'[d] = handling[d]
    BY <1>0, <1>1, <2>1, SubFacts, MoveToEffect DEF CallPhases
  <2>3. /\ remote' \in [Subs -> Remotes] /\ outbox' \subseteq EventTypes \X Subs
        /\ remote'[s] = "cancelled" /\ (\A t \in Subs \ {s} : remote'[t] = remote[t])
        /\ Ended(s)' /\ (\A t \in Subs : Ended(t) => Ended(t)')
        /\ \A t \in Subs : \A e \in {"cancelled", "halted"} :
                <<e, t>> \in outbox' => <<e, t>> \in outbox \/ Ended(t)'
        /\ \A t \in Subs : <<"pending", t>> \in outbox' => <<"pending", t>> \in outbox
    BY <1>2, <2>1, RemoteCancelEffect
  <2>4. SubTypeOK'
    BY <1>1, <2>2, <2>3, SubFacts, SubTypesNext
  <2>5. CallsInv' /\ PaidHasRow'
    <3>1. \A t \in Subs : remote'[t] = "none" => remote[t] = "none"
      BY <2>3
    <3>2. PaidHasRow'
      BY <1>1, <2>3 DEF SubInv, PaidHasRow
    <3>3. \A t \in known' : local'[t] # "none" /\ remote'[t] # "none"
      BY <1>1, <3>1, SubFacts DEF SubInv, CallsInv
    <3>4. CallsInv'
      BY <1>2, <2>2, <3>1, <3>3 DEF SubInv, CallsInv, EventOps
    <3> QED  BY <3>2, <3>4
  <2>6. EndsInv'
    <3>1. Ended(handling[c].sub)'
      BY <2>2, <2>3 DEF Ended
    <3> QED  BY <2>2, <2>3, <3>1, EndsKeeps
  <2>7. CarefulInv'
    <3> SUFFICES ASSUME careful PROVE CarefulInv'
      BY <1>1 DEF CarefulInv
    <3>1. Creating' = Creating /\ \A d \in Creating : d # c /\ handling'[d] = handling[d]
      BY <1>1, <2>2 DEF Creating
    <3>2. \A t \in Chargeable' : t \in Chargeable
      BY <1>1, <2>3 DEF Chargeable
    <3>3. \A d \in Handlers : handling'[d].op # "pending"
      BY <2>2 DEF SubInv, CarefulInv
    <3>4. \A t \in Subs : remote'[t] # "pending" /\ <<"pending", t>> \notin outbox'
      BY <2>3 DEF SubInv, CarefulInv
    <3>5. ASSUME NEW d \in Creating'
          PROVE  /\ handling'[d].phase = "mark" => Ended(handling[d].sub)'
                 /\ \A t \in Chargeable' :
                        local'[t] = "created" /\ (handling'[d].phase = "stale" \/ t \in handling'[d].todo)
      <4>1. d \in Creating /\ handling'[d] = handling[d]
        BY <3>1
      <4>2. handling[d].phase = "mark" => Ended(handling[d].sub)
        BY <4>1 DEF SubInv, CarefulInv
      <4>3. Ended(handling[d].sub) => Ended(handling[d].sub)'
        <5>1. CASE handling[d].sub \in Subs
          BY <2>3, <4>1, <5>1 DEF Ended
        <5>2. CASE handling[d].sub \notin Subs
          BY <2>1, <4>1, <5>2 DEF Ended, RemoteCancel
        <5> QED  BY <5>1, <5>2
      <4> QED  BY <1>1, <3>2, <4>1, <4>2, <4>3 DEF SubInv, CarefulInv
    <3> QED  BY <1>1, <3>1, <3>2, <3>3, <3>4, <3>5 DEF SubInv, CarefulInv
  <2> QED  BY <2>4, <2>5, <2>6, <2>7 DEF SubInv
<1>4. CASE ~ Cancellable(s)
  <2>1. Close(c) /\ UNCHANGED <<remote, outbox>>
    BY <1>0, <1>4 DEF CancelRemote
  <2>2. handling' \in [Handlers -> CallRow] /\ \A d \in Handlers : CallQuiet(d)
    BY <2>1, SubFacts, CloseEffect DEF CallQuiet
  <2>3. QuietStep
    BY <1>1, <2>1, <2>2, SubFacts, SubTypesNext DEF QuietStep
  <2> QED  BY <2>3, QuietKeeps
<1> QED  BY <1>3, <1>4

LEMMA SetStatusKeeps ==
  ASSUME SubInv, NEW c \in Handlers, SetStatus(c)
  PROVE  SubInv'
<1>0. PICK s : s = handling[c].sub
  OBVIOUS
<1>1. PICK status : status = StatusOf(c)
  OBVIOUS
<1>2. /\ handling[c].phase \in {"activate", "status", "end"}
      /\ local' = [local EXCEPT ![s] = status]
      /\ UNCHANGED <<remote, premium, known, mishaps, late>>
  BY <1>0, <1>1 DEF SetStatus
<1>3. careful' = (careful /\ (Creating = {} \/ local'[s] # "active"))
  BY <1>0, Zenon DEF SetStatus
<1>4. s \in Subs /\ handling[c].op \in EventOps
  BY <1>0, <1>2 DEF SubInv, CallsInv
<1>5. status \in {"active", "pending", "halted", "cancelled"}
  BY <1>1, <1>4 DEF StatusOf, EventOps
<1>6. /\ status = "pending" => handling[c].op = "pending"
      /\ status \in {"halted", "cancelled"} => Ended(s)
  <2>1. handling[c].op = "cancel" => handling[c].phase = "end"
    BY <1>2 DEF SubInv, CallsInv
  <2>2. handling[c].op \in {"cancel", "cancelled", "halted"} => Ended(s)
    BY <1>0, <1>2, <2>1 DEF SubInv, EndsInv
  <2> QED  BY <1>1, <1>4, <2>2 DEF StatusOf, EventOps
<1>7. /\ local' \in [Subs -> Statuses]
      /\ local'[s] = status /\ \A t \in Subs \ {s} : local'[t] = local[t]
  BY <1>2, <1>4, <1>5, SubFacts DEF Statuses, Remotes
<1>8. /\ outbox' \subseteq outbox
      /\ handling' \in [Handlers -> CallRow] /\ \A d \in Handlers \ {c} : handling'[d] = handling[d]
      /\ \/ handling'[c] = Resting
         \/ /\ handling'[c].op = handling[c].op /\ handling'[c].sub = s
            /\ handling'[c].phase \in {"assign", "revoke"}
            /\ handling'[c].phase = "revoke" <=> handling[c].phase = "end"
  <2>1. CASE handling[c].phase = "status"
    <3>1. Acknowledge(c) /\ Close(c)
      BY <2>1 DEF SetStatus
    <3> QED  BY <3>1, SubFacts, CloseEffect DEF Acknowledge
  <2>2. CASE handling[c].phase # "status"
    <3>1. PICK p \in {"assign", "revoke"} :
            MoveTo(c, p) /\ UNCHANGED outbox /\ (p = "revoke" <=> handling[c].phase = "end")
      BY <1>2, <2>2 DEF SetStatus
    <3>2. p \in CallPhases
      BY DEF CallPhases
    <3> QED  BY <1>0, <3>1, <3>2, SubFacts, MoveToEffect
  <2> QED  BY <2>1, <2>2
<1>9. SubTypeOK'
  <2>1. careful' \in BOOLEAN
    BY <1>3, Zenon
  <2>2. outbox' \subseteq EventTypes \X Subs
    BY <1>8, SubFacts
  <2> QED  BY <1>2, <1>7, <1>8, <2>1, <2>2, SubFacts, SubTypesNext
<1>10. CallsInv' /\ PaidHasRow'
  <2>1. \A t \in Subs : local'[t] = "none" => local[t] = "none"
    BY <1>5, <1>7
  <2>2. PaidHasRow'
    BY <1>2, <2>1 DEF SubInv, PaidHasRow
  <2>3. \A t \in known' : local'[t] # "none" /\ remote'[t] # "none"
    BY <1>2, <2>1, SubFacts DEF SubInv, CallsInv
  <2>4. CallsInv'
    BY <1>2, <1>4, <1>8, <2>3 DEF SubInv, CallsInv, Resting, EventOps
  <2> QED  BY <2>2, <2>4
<1>11. EndsInv'
  <2>1. \A t \in Subs : Ended(t) <=> Ended(t)'
    BY <1>2 DEF Ended
  <2>2. \/ handling'[c] = Resting
        \/ /\ handling'[c].op \in {"cancelled", "halted"} => Ended(handling[c].sub)'
           /\ handling'[c].op = "cancel" /\ handling'[c].phase \in {"end", "revoke"} => Ended(handling[c].sub)'
    BY <1>0, <1>2, <1>8 DEF SubInv, EndsInv, Ended
  <2>3. \/ handling'[c] = handling[c]
        \/ /\ handling'[c].op \in {"cancelled", "halted"} => Ended(handling[c].sub)'
           /\ handling'[c].op = "cancel" /\ handling'[c].phase \in {"end", "revoke"} => Ended(handling[c].sub)'
    BY <2>2 DEF Resting
  <2> QED  BY <1>8, <2>1, <2>3, EndsKeeps
<1>12. CarefulInv'
  <2> SUFFICES ASSUME careful' PROVE CarefulInv'
    BY DEF CarefulInv
  <2>1. careful /\ (Creating = {} \/ local'[s] # "active")
    BY <1>3
  <2>2. Creating' = Creating /\ \A d \in Creating : d # c /\ handling'[d] = handling[d]
    BY <1>4, <1>8 DEF Creating, EventOps, Resting
  <2>3. Chargeable' = Chargeable
    BY <1>2 DEF Chargeable
  <2>4. status # "pending"
    BY <1>6, <2>1 DEF SubInv, CarefulInv
  <2>5. s \in Chargeable => status = "active"
    BY <1>5, <1>6, <2>4 DEF Chargeable, Ended
  <2>6. \A t \in Chargeable : local'[t] = local[t] \/ local'[t] = "active"
    BY <1>7, <2>5 DEF Chargeable
  <2>7. \A t \in Chargeable' : local'[t] \in {"created", "active"}
    BY <2>1, <2>3, <2>6 DEF SubInv, CarefulInv
  <2>8. \A d \in Creating : \A t \in Chargeable : local'[t] = local[t]
    BY <1>7, <2>1, <2>5 DEF Chargeable
  <2>9. ASSUME NEW d \in Creating'
        PROVE  /\ handling'[d].phase = "mark" => Ended(handling[d].sub)'
               /\ \A t \in Chargeable' :
                    local'[t] = "created" /\ (handling'[d].phase = "stale" \/ t \in handling'[d].todo)
    <3>1. d \in Creating /\ handling'[d] = handling[d]
      BY <2>2
    <3>2. handling[d].phase = "mark" => Ended(handling[d].sub)
      BY <2>1, <3>1 DEF SubInv, CarefulInv
    <3>3. \A t \in Chargeable : local[t] = "created" /\ (handling[d].phase = "stale" \/ t \in handling[d].todo)
      BY <2>1, <3>1 DEF SubInv, CarefulInv
    <3> QED  BY <1>2, <2>3, <2>8, <3>1, <3>2, <3>3 DEF Ended
  <2>10. \A t \in Subs : remote'[t] # "pending" /\ <<"pending", t>> \notin outbox'
    BY <1>2, <1>8, <2>1 DEF SubInv, CarefulInv
  <2>11. \A d \in Handlers : handling'[d].op # "pending"
    BY <1>8, <2>1 DEF SubInv, CarefulInv, Resting
  <2>12. (\A t, u \in Chargeable' : t = u) /\ \A d, e \in Creating' : d = e
    BY <2>1, <2>2, <2>3 DEF SubInv, CarefulInv
  <2> QED  BY <2>7, <2>9, <2>10, <2>11, <2>12 DEF CarefulInv
<1> QED  BY <1>9, <1>10, <1>11, <1>12 DEF SubInv

-----------------------------------------------------------------------------
(* The theorems                                                             *)

LEMMA SubInvInit == SubInit => SubInv
<1> SUFFICES ASSUME SubInit PROVE SubInv
  OBVIOUS
<1>1. handling \in [Handlers -> CallRow] /\ \A c \in Handlers : handling[c] = Resting
  BY RestingRow DEF SubInit
<1>2. SubTypeOK
  <2>1. /\ remote \in [Subs -> Remotes] /\ local \in [Subs -> Statuses]
        /\ outbox \subseteq EventTypes \X Subs /\ known \subseteq Subs
        /\ premium \in BOOLEAN /\ careful \in BOOLEAN /\ late \in BOOLEAN
    BY DEF SubInit, Statuses, Remotes
  <2>2. mishaps \in 0 .. MaxMishaps
    BY SubscriptionAssumption DEF SubInit, SubscriptionAssumption
  <2> QED  BY <1>1, <2>1, <2>2, SubTypes
<1>3. CallsInv /\ PaidHasRow /\ EndsInv
  BY <1>1 DEF SubInit, CallsInv, PaidHasRow, EndsInv, EventOps, Resting
<1>4. CarefulInv
  <2>1. Creating = {} /\ Chargeable = {}
    BY <1>1 DEF SubInit, Creating, Chargeable, Resting
  <2> QED  BY <1>1, <2>1 DEF SubInit, CarefulInv, Resting
<1> QED  BY <1>2, <1>3, <1>4 DEF SubInv

LEMMA SubInvNext == SubInv /\ [SubNext]_subVars => SubInv'
<1> SUFFICES ASSUME SubInv, [SubNext]_subVars PROVE SubInv'
  OBVIOUS
<1>1. ASSUME NEW c \in Handlers, HandlerStep(c) PROVE SubInv'
  BY <1>1, CreateStaleKeeps, CancelStaleKeeps, MarkStaleKeeps, CreateRemoteKeeps, CreateRowKeeps,
     CancelRemoteKeeps, SetStatusKeeps, QuietSteps, QuietKeeps DEF HandlerStep
<1>2. ASSUME NEW c \in Handlers, SubDie(c) PROVE SubInv'
  BY <1>2, QuietSteps, QuietKeeps
<1>3. ASSUME NEW h \in Hooks, Arrives(h) PROVE SubInv'
  <2>1. h \in Handlers
    BY DEF Handlers
  <2> QED  BY <1>3, <2>1, DeliverQuiet, QuietKeeps DEF Arrives
<1>4. ASSUME NEW c \in Clients, CreateCheck(c) \/ \E s \in Subs : Verify(c, s) \/ CancelFind(c, s)
      PROVE  SubInv'
  <2>1. c \in Handlers
    BY DEF Handlers
  <2> QED  BY <1>4, <2>1, CreateCheckKeeps, ClientQuiet, QuietKeeps
<1>5. ASSUME NEW s \in Subs, Pay(s) \/ ChargeFails(s) \/ ChargeSettles(s) \/ Complete(s) PROVE SubInv'
  BY <1>5, PayKeeps, ChargeFailsKeeps, ChargeSettlesKeeps, CompleteKeeps
<1>6. CASE UNCHANGED subVars
  <2>1. QuietStep
    BY <1>6, SubFacts, SubTypesNext DEF subVars, QuietStep, CallQuiet
  <2> QED  BY <2>1, QuietKeeps
<1> QED  BY <1>1, <1>2, <1>3, <1>4, <1>5, <1>6 DEF SubNext

\* The inductive invariant of the subscriptions, whatever dies and in whatever
\* order events arrive (subscriptions.service.ts).
THEOREM SubscriptionInvariance == SubSpec => []SubInv
<1> QED  BY SubInvInit, SubInvNext, PTL DEF SubSpec

\* A subscription that can be paid has the row its events are looked up by
\* (createSubscription writes the row before it answers the id).
THEOREM PaymentsFindTheirRow == SubSpec => []PaidHasRow
<1>1. SubInv => PaidHasRow
  BY DEF SubInv
<1> QED  BY <1>1, SubscriptionInvariance, PTL

\* A user who does one thing at a time is charged for one subscription at most
\* (createSubscription cancels the unpaid ones before it makes another).
THEOREM CarefulChargedOnce == SubSpec => []OneChargeIfCareful
<1>1. SubInv => OneChargeIfCareful
  <2> DEFINE Active == {s \in Subs : remote[s] = "active"}
  <2> SUFFICES ASSUME SubInv, careful PROVE Cardinality(Active) <= 1
    BY DEF OneChargeIfCareful
  <2>1. \A s, t \in Active : s = t
    BY DEF SubInv, CarefulInv, Chargeable
  <2> HIDE DEF Active
  <2>2. CASE Active = {}
    BY <2>2, FS_EmptySet
  <2>3. CASE \E s : s \in Active
    <3>1. PICK s : s \in Active
      BY <2>3
    <3>2. Active = {s}
      BY <2>1, <3>1
    <3>3. Cardinality({s}) = 1
      BY FS_Singleton, Zenon
    <3> QED  BY <3>2, <3>3
  <2> QED  BY <2>2, <2>3
<1> QED  BY <1>1, SubscriptionInvariance, PTL
=============================================================================
