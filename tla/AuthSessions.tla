---------------------------- MODULE AuthSessions ----------------------------
(***************************************************************************)
(* The account and the refresh tokens of one user: auth.service.ts and     *)
(* token.service.ts, with what account.service.ts deletes of their tables. *)
(* Every request is a row of statements on the database, one action each,  *)
(* outside any transaction; requests interleave and may die between two.   *)
(*                                                                         *)
(* A refresh rotates: it revokes the token it was given and creates a new  *)
(* one.  root[t] is the first token of the chain t belongs to, the session *)
(* a login began; vouched[t] the version of the password that login proved.*)
(* The device is the client of a session: it keeps the token of the last   *)
(* answer and drops it when told 401.                                      *)
(***************************************************************************)
EXTENDS Naturals

CONSTANTS
    TokenId,        \* the uuids generateRefreshToken draws
    Requests,       \* requests that can be under way at once
    Devices,
    Mixes,          \* the sets of operations clients may be using
    MaxPasswords,   \* bound: versions of the password
    MaxDeaths       \* bound: requests killed, answers lost

NoToken == "none"

ASSUME SessionAssumption ==
    /\ NoToken \notin TokenId
    /\ MaxPasswords \in Nat \ {0} /\ MaxDeaths \in Nat

VARIABLES
    account,        \* users: the row, and its isActive
    password,       \* users: the version of passwordHash
    role,           \* user_roles: of the user, by name
    defaultRole,    \* roles: the row named "user" is there
    row,            \* refresh_tokens: per token id
    root, vouched,
    req, held, deaths,
    offered,        \* the operations of this behaviour's clients
    \* What the properties speak of: the sessions of which two refreshes
    \* overlapped, those told to end, those whose next token was under way at
    \* that moment; the password version of the latest reset to have ended
    \* them; the sessions whose role was taken or never there to give, and the
    \* logins about to begin such a session.
    forked, ended, spared, sealed, bare, unroled

users     == <<account, password, role, defaultRole>>
tokens    == <<row, root, vouched>>
ghosts    == <<forked, ended, spared, sealed, bare, unroled>>
sessionVars == <<users, tokens, req, held, deaths, offered, ghosts>>

Operations == {"register", "login", "refresh", "logout", "logout_all", "reset", "delete"}

NoRequest == [op |-> "none", phase |-> "idle", device |-> NoToken, token |-> NoToken,
              next |-> NoToken, version |-> 0, overlapped |-> FALSE]

SessionInit ==
    /\ account = "none" /\ password = 0 /\ role = {} /\ defaultRole = TRUE
    /\ row = [t \in TokenId |-> "none"]
    /\ root = [t \in TokenId |-> NoToken]
    /\ vouched = [t \in TokenId |-> 0]
    /\ req = [r \in Requests |-> NoRequest]
    /\ held = [d \in Devices |-> NoToken]
    /\ deaths = 0
    /\ offered \in Mixes
    /\ forked = {} /\ ended = {} /\ spared = {} /\ sealed = 0
    /\ bare = {} /\ unroled = {}

Exists == account \in {"active", "inactive"}
Live(t) == row[t] = "live"
Fresh(t) == row[t] = "none"
\* A uuid nobody has; which one it is makes no difference.  When the instance
\* has no more of them, a create fails as any statement may.
FreshId == IF \E t \in TokenId : Fresh(t) THEN {CHOOSE t \in TokenId : Fresh(t)} ELSE {}

At(r, op, phase) == req[r].op = op /\ req[r].phase = phase
GoTo(r, phase) == req' = [req EXCEPT ![r].phase = phase]
Finish(r) == req' = [req EXCEPT ![r] = NoRequest]

\* A 401 makes the device forget the token it sent.
Refuse(r) ==
    /\ Finish(r)
    /\ held' = [held EXCEPT ![req[r].device] = IF @ = req[r].token THEN NoToken ELSE @]

\* The bound of the instance.
CreateFails(r) ==
    /\ req[r].phase = "issue" /\ FreshId = {}
    /\ Finish(r)
    /\ UNCHANGED <<users, tokens, held, deaths, ghosts>>

-----------------------------------------------------------------------------
(* The devices                                                              *)

Begin(r, op, d, t) ==
    /\ op \in offered /\ req[r].phase = "idle"
    /\ req' = [req EXCEPT ![r] = [NoRequest EXCEPT !.op = op, !.device = d, !.token = t,
        !.phase = CASE op = "register" -> "check"
                    [] op \in {"login", "reset"} -> "find"
                    [] op \in {"refresh", "logout"} -> "validate"
                    [] op = "logout_all" -> "revoke_all"
                    [] op = "delete" -> "children"]]

\* Before there is an account only register is of use; login needs no token,
\* and a device that holds one refreshes or logs out with it.  reset starts
\* where verifyOtp has accepted a code (OtpCodes).
Send(r, d) ==
    /\ \/ account = "none" /\ Begin(r, "register", d, NoToken) /\ held' = held
       \/ Exists /\ held[d] = NoToken /\ Begin(r, "login", d, NoToken) /\ held' = held
       \/ held[d] # NoToken /\ Begin(r, "refresh", d, held[d]) /\ held' = held
       \/ /\ held[d] # NoToken /\ Begin(r, "logout", d, held[d])
          /\ held' = [held EXCEPT ![d] = NoToken]
       \/ Exists /\ held[d] # NoToken /\ Begin(r, "logout_all", d, NoToken) /\ held' = held
       \/ Exists /\ password < MaxPasswords /\ Begin(r, "reset", d, NoToken) /\ held' = held
       \/ Exists /\ held[d] # NoToken /\ Begin(r, "delete", d, NoToken) /\ held' = held
    /\ UNCHANGED <<users, tokens, deaths, ghosts>>

Receive(r) ==
    /\ req[r].phase = "answer"
    /\ held' = [held EXCEPT ![req[r].device] = req[r].next]
    /\ Finish(r)
    /\ UNCHANGED <<users, tokens, deaths, ghosts>>

\* The function is killed, or its answer is lost.
Die(r) ==
    /\ req[r].phase # "idle" /\ deaths < MaxDeaths
    /\ Finish(r)
    /\ deaths' = deaths + 1
    /\ UNCHANGED <<users, tokens, held, ghosts>>

\* expiresAt passes.
Expire(t) ==
    /\ "expire" \in offered /\ Live(t)
    /\ row' = [row EXCEPT ![t] = "expired"]
    /\ UNCHANGED <<users, root, vouched, req, held, deaths, ghosts>>

\* An operator deactivates the account in the database.
Deactivate ==
    /\ "deactivate" \in offered /\ account = "active"
    /\ account' = "inactive"
    /\ UNCHANGED <<password, role, defaultRole, tokens, req, held, deaths, ghosts>>

-----------------------------------------------------------------------------
(* The roles: "user", which an administrator may delete and make again (his   *)
(* other edits are in RolesAndTokens), and the one a subscription brings.     *)

\* Some of the user's roles go, and it is noted when none is left.
TakeRoles(gone) ==
    /\ role' = role \ gone
    /\ IF role \subseteq gone
       THEN /\ bare' = bare \union {root[t] : t \in {u \in TokenId : ~ Fresh(u)}}
            /\ unroled' = unroled \union {s \in Requests : At(s, "login", "issue")}
       ELSE UNCHANGED <<bare, unroled>>

\* The memberships go with the row, and whoever has read its id holds a stale one.
DeleteDefaultRole ==
    /\ "roles" \in offered /\ defaultRole
    /\ defaultRole' = FALSE /\ TakeRoles({"user"})
    /\ req' = [s \in Requests |->
                IF req[s].phase = "grant" THEN [req[s] EXCEPT !.phase = "stale"] ELSE req[s]]
    /\ UNCHANGED <<account, password, tokens, held, deaths, forked, ended, spared, sealed>>

CreateDefaultRole ==
    /\ "roles" \in offered /\ ~ defaultRole
    /\ defaultRole' = TRUE
    /\ UNCHANGED <<account, password, role, tokens, req, held, deaths, ghosts>>

\* assignPremiumRole and revokePremiumRole of a webhook (Subscriptions).
GainPremium ==
    /\ "premium" \in offered /\ Exists
    /\ role' = role \union {"premium_user"}
    /\ UNCHANGED <<account, password, defaultRole, tokens, req, held, deaths, ghosts>>

LosePremium ==
    /\ "premium_user" \in role /\ TakeRoles({"premium_user"})
    /\ UNCHANGED <<account, password, defaultRole, tokens, req, held, deaths, forked, ended, spared, sealed>>

-----------------------------------------------------------------------------
(* register: the user, then its role, in separate statements                *)

RegisterCheck(r) ==
    /\ At(r, "register", "check")
    /\ IF account = "none" THEN GoTo(r, "create") ELSE Finish(r)
    /\ UNCHANGED <<users, tokens, held, deaths, ghosts>>

\* The e-mail is unique: the second of two creates fails.
RegisterCreate(r) ==
    /\ At(r, "register", "create")
    /\ IF account = "none"
       THEN account' = "active" /\ password' = 1 /\ GoTo(r, "role")
       ELSE UNCHANGED <<account, password>> /\ Finish(r)
    /\ UNCHANGED <<role, defaultRole, tokens, held, deaths, ghosts>>

\* Without a default role none is given.  The preferences row, which is written
\* last, nothing here reads.
RegisterRole(r) ==
    /\ At(r, "register", "role")
    /\ IF defaultRole THEN GoTo(r, "grant") ELSE Finish(r)
    /\ UNCHANGED <<users, tokens, held, deaths, ghosts>>

\* userRole.create of register and of login: it throws on a pair that exists and
\* on a user that does not,
GrantRole(r) ==
    /\ req[r].phase = "grant"
    /\ IF Exists /\ "user" \notin role
       THEN role' = role \union {"user"} /\ (IF req[r].op = "login" THEN GoTo(r, "issue") ELSE Finish(r))
       ELSE UNCHANGED role /\ Finish(r)
    /\ UNCHANGED <<account, password, defaultRole, tokens, held, deaths, ghosts>>

\* and on a role that has gone since it was found.
GrantThrows(r) ==
    /\ req[r].phase = "stale"
    /\ Finish(r)
    /\ UNCHANGED <<users, tokens, held, deaths, ghosts>>

-----------------------------------------------------------------------------
(* login                                                                    *)

LoginFind(r) ==
    /\ At(r, "login", "find")
    /\ IF account = "active"
       THEN /\ req' = [req EXCEPT ![r].phase = "touch", ![r].version = password]
            /\ held' = held
       ELSE Refuse(r)
    /\ UNCHANGED <<users, tokens, deaths, ghosts>>

\* lastLoginAt: the update throws if the user is gone.
LoginTouch(r) ==
    /\ At(r, "login", "touch")
    /\ IF Exists THEN GoTo(r, "roles") ELSE Finish(r)
    /\ UNCHANGED <<users, tokens, held, deaths, ghosts>>

\* Faulty variant: login takes the roles it finds.
LoginRoles_NoDefault(r) ==
    /\ At(r, "login", "roles")
    /\ GoTo(r, "issue")
    /\ unroled' = unroled \ {r}
    /\ UNCHANGED <<users, tokens, held, deaths, forked, ended, spared, sealed, bare>>

LoginRoles(r) ==
    /\ At(r, "login", "roles")
    /\ GoTo(r, IF role # {} THEN "issue" ELSE "assign")
    /\ unroled' = unroled \ {r}
    /\ UNCHANGED <<users, tokens, held, deaths, forked, ended, spared, sealed, bare>>

\* Without a default role the login goes on, to tokens that name no role.
LoginAssign(r) ==
    /\ At(r, "login", "assign")
    /\ IF defaultRole
       THEN GoTo(r, "grant") /\ UNCHANGED unroled
       ELSE GoTo(r, "issue") /\ unroled' = unroled \union {r}
    /\ UNCHANGED <<users, tokens, held, deaths, forked, ended, spared, sealed, bare>>

\* generateRefreshToken after a login: the row has no foreign key.
LoginIssue(r) ==
    /\ At(r, "login", "issue")
    /\ \E t \in FreshId :
        /\ row' = [row EXCEPT ![t] = "live"]
        /\ root' = [root EXCEPT ![t] = t]
        /\ vouched' = [vouched EXCEPT ![t] = req[r].version]
        /\ req' = [req EXCEPT ![r].phase = "answer", ![r].next = t]
        /\ spared' = IF req[r].overlapped THEN spared \union {t} ELSE spared
        /\ bare' = IF r \in unroled THEN bare \union {t} ELSE bare
    /\ UNCHANGED <<users, held, deaths, forked, ended, sealed, unroled>>

-----------------------------------------------------------------------------
(* refresh: validate, find the user, revoke the old token, create the new   *)

Rotating(r) == req[r].op = "refresh" /\ req[r].phase \in {"user", "drop", "revoke", "issue"}
SessionOf(r) == root[req[r].token]

\* Faulty variant: the row's isRevoked is not looked at.
RefreshValidate_Revoked(r) ==
    /\ At(r, "refresh", "validate")
    /\ IF row[req[r].token] \in {"live", "revoked"}
       THEN /\ GoTo(r, "user")
            /\ forked' = IF \E other \in Requests \ {r} :
                                Rotating(other) /\ SessionOf(other) = SessionOf(r)
                         THEN forked \union {SessionOf(r)} ELSE forked
            /\ held' = held
       ELSE Refuse(r) /\ UNCHANGED forked
    /\ UNCHANGED <<users, tokens, deaths, ended, spared, sealed, bare, unroled>>

RefreshValidate(r) ==
    /\ At(r, "refresh", "validate")
    /\ IF Live(req[r].token)
       THEN /\ GoTo(r, "user")
            /\ forked' = IF \E other \in Requests \ {r} :
                                Rotating(other) /\ SessionOf(other) = SessionOf(r)
                         THEN forked \union {SessionOf(r)} ELSE forked
            /\ held' = held
       ELSE Refuse(r) /\ UNCHANGED forked
    /\ UNCHANGED <<users, tokens, deaths, ended, spared, sealed, bare, unroled>>

RefreshUser(r) ==
    /\ At(r, "refresh", "user")
    /\ GoTo(r, IF account = "active" THEN "revoke" ELSE "drop")
    /\ UNCHANGED <<users, tokens, held, deaths, ghosts>>

RowRemains(t) == row[t] \in {"live", "expired", "revoked"}

\* revokeRefreshToken: an update, which throws when the row is gone.
RevokeRow(t) == row' = [row EXCEPT ![t] = "revoked"]

\* No such user, or not an active one: the token is revoked and the answer is 401.
RefreshDrop(r) ==
    /\ At(r, "refresh", "drop")
    /\ IF RowRemains(req[r].token)
       THEN RevokeRow(req[r].token) /\ Refuse(r)
       ELSE UNCHANGED <<row, held>> /\ Finish(r)
    /\ UNCHANGED <<users, root, vouched, deaths, ghosts>>

\* Faulty variant: the old token is left as it is.
RefreshRevoke_Forgotten(r) ==
    /\ At(r, "refresh", "revoke")
    /\ GoTo(r, "issue")
    /\ UNCHANGED <<users, tokens, held, deaths, ghosts>>

RefreshRevoke(r) ==
    /\ At(r, "refresh", "revoke")
    /\ IF RowRemains(req[r].token)
       THEN RevokeRow(req[r].token) /\ GoTo(r, "issue")
       ELSE UNCHANGED row /\ Finish(r)
    /\ UNCHANGED <<users, root, vouched, held, deaths, ghosts>>

RefreshIssue(r) ==
    /\ At(r, "refresh", "issue")
    /\ \E t \in FreshId :
        /\ row' = [row EXCEPT ![t] = "live"]
        /\ root' = [root EXCEPT ![t] = SessionOf(r)]
        /\ vouched' = [vouched EXCEPT ![t] = vouched[req[r].token]]
        /\ req' = [req EXCEPT ![r].phase = "used", ![r].next = t]
        /\ spared' = IF req[r].overlapped THEN spared \union {SessionOf(r)} ELSE spared
    /\ UNCHANGED <<users, held, deaths, forked, ended, sealed, bare, unroled>>

\* updateLastUsed of the old token throws, after all, when its row is gone.
RefreshUsed(r) ==
    /\ At(r, "refresh", "used")
    /\ IF RowRemains(req[r].token) THEN GoTo(r, "answer") ELSE Finish(r)
    /\ UNCHANGED <<users, tokens, held, deaths, ghosts>>

-----------------------------------------------------------------------------
(* logout: of one token, its errors swallowed, or of all of them            *)

LogoutValidate(r) ==
    /\ At(r, "logout", "validate")
    /\ IF Live(req[r].token) THEN GoTo(r, "revoke") ELSE Finish(r)
    /\ UNCHANGED <<users, tokens, held, deaths, ghosts>>

LogoutRevoke(r) ==
    /\ At(r, "logout", "revoke")
    /\ IF RowRemains(req[r].token) THEN RevokeRow(req[r].token) ELSE UNCHANGED row
    /\ Finish(r)
    /\ UNCHANGED <<users, root, vouched, held, deaths, ghosts>>

\* revokeAllUserTokens; requests under way are marked, r itself leaves.
RevokeEvery(r) ==
    /\ row' = [t \in TokenId |-> IF row[t] \in {"live", "expired"} THEN "revoked" ELSE row[t]]
    /\ ended' = ended \union {root[t] : t \in {u \in TokenId : ~ Fresh(u)}}
    /\ req' = [s \in Requests |->
                IF s = r THEN NoRequest
                ELSE [req[s] EXCEPT !.overlapped = (req[s].phase # "idle")]]

LogoutAll(r) ==
    /\ At(r, "logout_all", "revoke_all")
    /\ RevokeEvery(r)
    /\ UNCHANGED <<users, root, vouched, held, deaths, forked, spared, sealed, bare, unroled>>

-----------------------------------------------------------------------------
(* resetPassword, from the verified code on                                 *)

ResetFind(r) ==
    /\ At(r, "reset", "find")
    /\ IF Exists THEN GoTo(r, "password") ELSE Finish(r)
    /\ UNCHANGED <<users, tokens, held, deaths, ghosts>>

ResetPassword(r) ==
    /\ At(r, "reset", "password")
    /\ IF Exists /\ password < MaxPasswords
       THEN /\ password' = password + 1
            /\ req' = [req EXCEPT ![r].phase = "revoke_all", ![r].version = password + 1]
       ELSE UNCHANGED password /\ Finish(r)
    /\ UNCHANGED <<account, role, defaultRole, tokens, held, deaths, ghosts>>

\* Faulty variant: the reset leaves the sessions alone.
ResetRevokeAll_Forgotten(r) ==
    /\ At(r, "reset", "revoke_all")
    /\ sealed' = IF req[r].version > sealed THEN req[r].version ELSE sealed
    /\ Finish(r)
    /\ UNCHANGED <<users, tokens, held, deaths, forked, ended, spared, bare, unroled>>

ResetRevokeAll(r) ==
    /\ At(r, "reset", "revoke_all")
    /\ RevokeEvery(r)
    /\ sealed' = IF req[r].version > sealed THEN req[r].version ELSE sealed
    /\ UNCHANGED <<users, root, vouched, held, deaths, forked, spared, bare, unroled>>

-----------------------------------------------------------------------------
(* deleteAccount: the tokens and the roles in either order, the user last   *)

DeleteChildren(r) ==
    /\ At(r, "delete", "children")
    /\ \/ /\ row' = [t \in TokenId |-> IF RowRemains(t) THEN "deleted" ELSE row[t]]
          /\ UNCHANGED <<role, bare, unroled>> /\ GoTo(r, "roles")
       \/ TakeRoles(role) /\ UNCHANGED row /\ GoTo(r, "tokens")
    /\ UNCHANGED <<account, password, defaultRole, root, vouched, held, deaths, forked, ended, spared, sealed>>

DeleteOther(r) ==
    /\ req[r].op = "delete"
    /\ \/ /\ req[r].phase = "roles"
          /\ TakeRoles(role) /\ UNCHANGED row
       \/ /\ req[r].phase = "tokens"
          /\ row' = [t \in TokenId |-> IF RowRemains(t) THEN "deleted" ELSE row[t]]
          /\ UNCHANGED <<role, bare, unroled>>
    /\ GoTo(r, "user")
    /\ UNCHANGED <<account, password, defaultRole, root, vouched, held, deaths, forked, ended, spared, sealed>>

\* user.delete, which takes the roles that came back with it.
DeleteUser(r) ==
    /\ At(r, "delete", "user")
    /\ account' = (IF Exists THEN "gone" ELSE account)
    /\ role' = (IF Exists THEN {} ELSE role)
    /\ Finish(r)
    /\ UNCHANGED <<password, defaultRole, tokens, held, deaths, ghosts>>

-----------------------------------------------------------------------------
SessionStep(r) ==
    \/ Receive(r)
    \/ RegisterCheck(r) \/ RegisterCreate(r) \/ RegisterRole(r)
    \/ GrantRole(r) \/ GrantThrows(r)
    \/ LoginFind(r) \/ LoginTouch(r) \/ LoginRoles(r) \/ LoginAssign(r) \/ LoginIssue(r)
    \/ RefreshValidate(r) \/ RefreshUser(r) \/ RefreshDrop(r) \/ RefreshRevoke(r)
    \/ RefreshIssue(r) \/ RefreshUsed(r) \/ CreateFails(r)
    \/ LogoutValidate(r) \/ LogoutRevoke(r) \/ LogoutAll(r)
    \/ ResetFind(r) \/ ResetPassword(r) \/ ResetRevokeAll(r)
    \/ DeleteChildren(r) \/ DeleteOther(r) \/ DeleteUser(r)

SessionNext ==
    /\ \/ \E r \in Requests : SessionStep(r) \/ Die(r) \/ \E d \in Devices : Send(r, d)
       \/ \E t \in TokenId : Expire(t)
       \/ Deactivate \/ DeleteDefaultRole \/ CreateDefaultRole \/ GainPremium \/ LosePremium
    /\ UNCHANGED offered

SessionSpec == SessionInit /\ [][SessionNext]_sessionVars

-----------------------------------------------------------------------------
(* Properties                                                               *)

\* Types, and where a request may stand.
SessionTypeOK ==
    /\ account \in {"none", "active", "inactive", "gone"}
    /\ password \in 0 .. MaxPasswords
    /\ role \subseteq {"user", "premium_user"} /\ defaultRole \in BOOLEAN
    /\ row \in [TokenId -> {"none", "live", "expired", "revoked", "deleted"}]
    /\ root \in [TokenId -> TokenId \union {NoToken}]
    /\ vouched \in [TokenId -> 0 .. MaxPasswords]
    /\ req \in [Requests -> [op : Operations \union {"none"},
                             phase : {"idle", "check", "create", "role", "find", "touch", "roles",
                                      "assign", "issue", "validate", "user", "drop", "revoke",
                                      "used", "answer", "revoke_all", "password", "children",
                                      "tokens", "grant", "stale"},
                             device : Devices \union {NoToken},
                             token : TokenId \union {NoToken},
                             next : TokenId \union {NoToken},
                             version : 0 .. MaxPasswords,
                             overlapped : BOOLEAN]]
    /\ held \in [Devices -> TokenId \union {NoToken}]
    /\ deaths \in 0 .. MaxDeaths
    /\ forked \subseteq TokenId \union {NoToken}
    /\ ended \subseteq TokenId \union {NoToken}
    /\ spared \subseteq TokenId \union {NoToken}
    /\ sealed \in 0 .. MaxPasswords
    /\ bare \subseteq TokenId \union {NoToken}
    /\ unroled \subseteq Requests

\* A session has at most one live token, whatever rotations die between revoking
\* the old token and creating the new one and whatever answers are lost, unless
\* two refreshes of it overlapped (rotateRefreshToken, token.service.ts:170).
OneHeirUnlessForked ==
    \A t, u \in TokenId :
        Live(t) /\ Live(u) /\ root[t] = root[u] /\ root[t] \notin forked => t = u

\* "a changed password should force re-login everywhere" (auth.service.ts:454):
\* a token that is live after a reset or a logout of all sessions belongs to a
\* session begun after it, with the password it set, or to one that a login or a
\* refresh under way at that very statement carried over.
SessionsEndWhenTold ==
    \A t \in TokenId : Live(t) =>
        \/ root[t] \in spared
        \/ root[t] \notin ended /\ vouched[t] >= sealed

\* Behind every session is a role, although register may have died before giving
\* one and two logins may race to repair that, unless since it began the last role
\* was taken, by a deletion of the account or of the role itself
\* (roles.service.ts:127) or the end of a subscription, or its login found no role
\* named user to give (auth.service.ts:188).  Once that role is there again, the
\* next login gives it.
SignedInHasRole ==
    \A t \in TokenId : Live(t) /\ Exists /\ root[t] \notin bare => role # {}
=============================================================================
