--------------------------- MODULE AccountDeletion ---------------------------
(***************************************************************************)
(* Deletion of an account: account.service.ts.  One request deletes the     *)
(* rows of every table it lists, in parallel, and then the user, while the  *)
(* user's other requests still insert.  A statement that fails, or a        *)
(* function that is killed, ends the request, and the person tries again.   *)
(*                                                                          *)
(* fk[t] is what the schema says of a row of t when its user goes: it goes  *)
(* too ("cascade"), it keeps the user ("restrict"), or the table does not   *)
(* refer to the user ("none").                                              *)
(***************************************************************************)
EXTENDS Naturals

CONSTANTS
    Listed,         \* the tables of childDeletes
    Unlisted,       \* tables with a userId the deletion does not list: activity
    fk,
    MaxWrites,      \* bound: inserts of the user's other requests
    MaxFailures     \* bound: statements that fail, functions killed

Tables == Listed \union Unlisted

ASSUME DeletionAssumption ==
    /\ Listed \intersect Unlisted = {}
    /\ fk \in [Tables -> {"cascade", "restrict", "none"}]
    /\ \A t \in Unlisted : fk[t] # "restrict"
    /\ MaxWrites \in Nat /\ MaxFailures \in Nat

VARIABLES
    user,           \* users: the row exists
    rows,           \* per table: the user has rows in it
    inserting,      \* tables a request that passed the guard is about to insert into
    writes, failures,
    wanted,         \* the person has asked for the deletion
    phase,          \* the deletion: "idle", "batch", "failing", "user"
    todo,           \* the deletes of the batch still to run
    overlapped      \* ghost: tables inserted into during a deletion, after its own delete

deletionVars == <<user, rows, inserting, writes, failures, wanted, phase, todo, overlapped>>

DeletionInit ==
    /\ user = TRUE
    /\ rows \in [Tables -> BOOLEAN]
    /\ inserting = {} /\ writes = 0 /\ failures = 0
    /\ wanted = FALSE /\ phase = "idle" /\ todo = {} /\ overlapped = {}

\* JwtAuthGuard: the token's user exists.  The handler then goes its way.
BeginInsert(t) ==
    /\ user /\ writes < MaxWrites
    /\ inserting' = inserting \union {t} /\ writes' = writes + 1
    /\ UNCHANGED <<user, rows, failures, wanted, phase, todo, overlapped>>

\* A row that refers to a user who is gone cannot be inserted.
InsertRow(t) ==
    /\ t \in inserting
    /\ inserting' = inserting \ {t}
    /\ IF user \/ fk[t] = "none"
       THEN /\ rows' = [rows EXCEPT ![t] = TRUE]
            /\ overlapped' = IF phase # "idle" \/ ~ user THEN overlapped \union {t} ELSE overlapped
       ELSE UNCHANGED <<rows, overlapped>>
    /\ UNCHANGED <<user, writes, failures, wanted, phase, todo>>

-----------------------------------------------------------------------------
Want ==
    /\ user /\ ~ wanted
    /\ wanted' = TRUE
    /\ UNCHANGED <<user, rows, inserting, writes, failures, phase, todo, overlapped>>

\* Faulty variant: a table is missing from the list.
FindUser_ListTooShort ==
    /\ wanted /\ user /\ phase = "idle"
    /\ phase' = "batch"
    /\ todo' = {t \in Listed : fk[t] # "restrict"}
    /\ UNCHANGED <<user, rows, inserting, writes, failures, wanted, overlapped>>

\* Without the user the guard has answered 401 already, the service 404.
FindUser ==
    /\ wanted /\ user /\ phase = "idle"
    /\ phase' = "batch" /\ todo' = Listed
    /\ UNCHANGED <<user, rows, inserting, writes, failures, wanted, overlapped>>

\* One deleteMany.  Promise.all does not stop the others when one has failed.
DeleteRows(t) ==
    /\ phase \in {"batch", "failing"} /\ t \in todo
    /\ rows' = [rows EXCEPT ![t] = FALSE] /\ todo' = todo \ {t}
    /\ overlapped' = overlapped \ {t}
    /\ UNCHANGED <<user, inserting, writes, failures, wanted, phase>>

DeleteFails(t) ==
    /\ phase \in {"batch", "failing"} /\ t \in todo /\ failures < MaxFailures
    /\ failures' = failures + 1
    /\ todo' = todo \ {t} /\ phase' = "failing"
    /\ UNCHANGED <<user, rows, inserting, writes, wanted, overlapped>>

\* Faulty variant: the user is deleted whatever became of the batch.
BatchEnds_AllSettled ==
    /\ phase \in {"batch", "failing"} /\ todo = {}
    /\ phase' = "user"
    /\ UNCHANGED <<user, rows, inserting, writes, failures, wanted, todo, overlapped>>

BatchEnds ==
    /\ phase \in {"batch", "failing"} /\ todo = {}
    /\ phase' = IF phase = "batch" THEN "user" ELSE "idle"
    /\ UNCHANGED <<user, rows, inserting, writes, failures, wanted, todo, overlapped>>

\* user.delete, which a row of a restricting table refuses.
DeleteUserRow ==
    /\ phase = "user"
    /\ phase' = "idle"
    /\ IF \E t \in Tables : rows[t] /\ fk[t] = "restrict"
       THEN UNCHANGED <<user, rows>>
       ELSE /\ user' = FALSE
            /\ rows' = [t \in Tables |-> rows[t] /\ fk[t] # "cascade"]
    /\ UNCHANGED <<inserting, writes, failures, wanted, todo, overlapped>>

DeletionKilled ==
    /\ phase # "idle" /\ failures < MaxFailures
    /\ failures' = failures + 1
    /\ phase' = "idle" /\ todo' = {}
    /\ UNCHANGED <<user, rows, inserting, writes, wanted, overlapped>>

DeletionStep == FindUser \/ BatchEnds \/ DeleteUserRow \/ \E t \in Tables : DeleteRows(t)

DeletionNext ==
    \/ Want \/ DeletionStep \/ DeletionKilled
    \/ \E t \in Tables : BeginInsert(t) \/ InsertRow(t) \/ DeleteFails(t)

DeletionSpec == DeletionInit /\ [][DeletionNext]_deletionVars

-----------------------------------------------------------------------------
(* Properties                                                               *)

DeletionTypeOK ==
    /\ user \in BOOLEAN /\ rows \in [Tables -> BOOLEAN] /\ inserting \subseteq Tables
    /\ writes \in 0 .. MaxWrites /\ failures \in 0 .. MaxFailures /\ wanted \in BOOLEAN
    /\ phase \in {"idle", "batch", "failing", "user"}
    /\ todo \subseteq Listed /\ overlapped \subseteq Tables

\* "Permanently delete a user account and every row of user-owned data"
\* (account.service.ts:9): once the user is gone, whatever failed and was tried
\* again before, a listed table keeps rows only if another request inserted them
\* after its deleteMany, while the deletion was under way or when it was done.
GoneLeavesNothing ==
    ~ user => \A t \in Listed : rows[t] => t \in overlapped

\* "a partial failure leaves the account intact and the operation safely
\* retryable" (line 26): a person who keeps asking gets the account deleted,
\* although statements fail, functions are killed, and a subscription made in
\* between stops the deletion of the user.
DeletionSucceeds == wanted ~> ~ user
=============================================================================
