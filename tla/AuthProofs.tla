------------------------------ MODULE AuthProofs ------------------------------
(***************************************************************************)
(* AuthSessions, for any number of requests, devices, tokens and deaths:     *)
(* its types; that a session has one live token at most unless two           *)
(* refreshes of it overlapped; that a reset or a logout of all ends every    *)
(* session but those a token was under way for; that behind a session is a   *)
(* role unless it was taken or was not there to give.  HeirInv, ToldInv and  *)
(* RoleInv are the inductive invariants, the others resting on the first.    *)
(*                                                                           *)
(* OtpCodes: its types and its limits, for any number of calls, attempts and *)
(* codes and for an unbounded clock.  A limit that is checked before a later *)
(* write is kept by counting, with what is written, the calls that have      *)
(* passed the check and not written yet: there are at most Cardinality(Calls)*)
(* of them.                                                                  *)
(***************************************************************************)
EXTENDS AuthSessions, OtpCodes, FiniteSetTheorems, WellFoundedInduction, TLAPS

-----------------------------------------------------------------------------
(* AuthSessions                                                            *)

Phases == {"idle", "check", "create", "role", "find", "touch", "roles", "assign", "issue",
           "validate", "user", "drop", "revoke", "used", "answer", "revoke_all", "password",
           "children", "tokens", "grant", "stale"}
Tokens == TokenId \union {NoToken}
RequestRow == [op : Operations \union {"none"}, phase : Phases, device : Devices \union {NoToken},
               token : Tokens, next : Tokens, version : 0 .. MaxPasswords, overlapped : BOOLEAN]

UsersOK  == /\ account \in {"none", "active", "inactive", "gone"}
            /\ password \in 0 .. MaxPasswords /\ role \subseteq {"user", "premium_user"}
            /\ defaultRole \in BOOLEAN
TokensOK == /\ row \in [TokenId -> {"none", "live", "expired", "revoked", "deleted"}]
            /\ root \in [TokenId -> Tokens] /\ vouched \in [TokenId -> 0 .. MaxPasswords]
GhostsOK == /\ forked \subseteq Tokens /\ ended \subseteq Tokens /\ spared \subseteq Tokens
            /\ sealed \in 0 .. MaxPasswords /\ bare \subseteq Tokens /\ unroled \subseteq Requests
RestOK   == held \in [Devices -> Tokens] /\ deaths \in 0 .. MaxDeaths

LEMMA TypeParts ==
  SessionTypeOK <=> UsersOK /\ TokensOK /\ GhostsOK /\ RestOK /\ req \in [Requests -> RequestRow]
BY DEF SessionTypeOK, UsersOK, TokensOK, GhostsOK, RestOK, RequestRow, Phases, Tokens

LEMMA TypePartsNext ==
  SessionTypeOK' <=>
    UsersOK' /\ TokensOK' /\ GhostsOK' /\ RestOK' /\ req' \in [Requests -> RequestRow]
BY DEF SessionTypeOK, UsersOK, TokensOK, GhostsOK, RestOK, RequestRow, Phases, Tokens

LEMMA NoRequestRow == NoRequest \in RequestRow
BY SessionAssumption DEF SessionAssumption, NoRequest, RequestRow, Phases, Tokens

\* When the last role goes, the sessions and the logins that stood on it are noted.
LEMMA TakeRolesEffect ==
  ASSUME UsersOK, TokensOK, GhostsOK, NEW gone, TakeRoles(gone)
  PROVE  /\ role' \subseteq {"user", "premium_user"}
         /\ bare' \subseteq Tokens /\ unroled' \subseteq Requests
         /\ role' = {} =>
              /\ \A t \in TokenId : ~ Fresh(t) => root[t] \in bare'
              /\ \A s \in Requests : At(s, "login", "issue") => s \in unroled'
<1>1. role' \subseteq {"user", "premium_user"}
  BY DEF TakeRoles, UsersOK
<1>2. CASE role \subseteq gone
  <2>1. /\ bare' = bare \union {root[t] : t \in {u \in TokenId : ~ Fresh(u)}}
        /\ unroled' = unroled \union {s \in Requests : At(s, "login", "issue")}
    BY <1>2 DEF TakeRoles
  <2>2. \A t \in TokenId : root[t] \in Tokens
    BY DEF TokensOK
  <2> QED  BY <1>1, <2>1, <2>2 DEF GhostsOK
<1>3. CASE ~ (role \subseteq gone)
  <2>1. UNCHANGED <<bare, unroled>> /\ role' # {}
    BY <1>3 DEF TakeRoles
  <2> QED  BY <1>1, <2>1 DEF GhostsOK
<1> QED  BY <1>2, <1>3

\* What the two ways on do to the requests.
LEMMA FinishEffect ==
  ASSUME req \in [Requests -> RequestRow], NEW r \in Requests, Finish(r)
  PROVE  /\ req' \in [Requests -> RequestRow] /\ req'[r] = NoRequest
         /\ \A s \in Requests \ {r} : req'[s] = req[s]
BY NoRequestRow DEF Finish

LEMMA GoToEffect ==
  ASSUME req \in [Requests -> RequestRow], NEW r \in Requests, NEW p \in Phases, GoTo(r, p)
  PROVE  /\ req' \in [Requests -> RequestRow]
         /\ req'[r].phase = p /\ req'[r].op = req[r].op
         /\ req'[r].token = req[r].token /\ req'[r].next = req[r].next
         /\ \A s \in Requests \ {r} : req'[s] = req[s]
BY DEF GoTo, RequestRow

LEMMA RefuseEffect ==
  ASSUME RestOK, req \in [Requests -> RequestRow], NEW r \in Requests, Refuse(r)
  PROVE  /\ Finish(r) /\ held' \in [Devices -> Tokens]
         /\ \A d \in Devices : held'[d] \in {held[d], NoToken}
BY DEF Refuse, RestOK, Tokens

LEMMA RevokeRowEffect ==
  ASSUME TokensOK, NEW t, RevokeRow(t)
  PROVE  /\ row' \in [TokenId -> {"none", "live", "expired", "revoked", "deleted"}]
         /\ \A u \in TokenId : row'[u] = IF u = t THEN "revoked" ELSE row[u]
BY DEF RevokeRow, TokensOK

LEMMA FreshIdIsFresh ==
  ASSUME NEW t \in FreshId
  PROVE  t \in TokenId /\ Fresh(t)
BY DEF FreshId

LEMMA RevokeEveryEffect ==
  ASSUME TokensOK, GhostsOK, req \in [Requests -> RequestRow], NEW r \in Requests, RevokeEvery(r)
  PROVE  /\ row' \in [TokenId -> {"none", "live", "expired", "revoked", "deleted"}]
         /\ \A t \in TokenId : row'[t] # "live" /\ (row'[t] = "none" <=> row[t] = "none")
         /\ ended' \subseteq Tokens
         /\ req' \in [Requests -> RequestRow] /\ req'[r] = NoRequest
         /\ \A s \in Requests \ {r} :
                /\ req'[s].op = req[s].op /\ req'[s].phase = req[s].phase
                /\ req'[s].token = req[s].token /\ req'[s].next = req[s].next
<1>1. /\ row' \in [TokenId -> {"none", "live", "expired", "revoked", "deleted"}]
      /\ \A t \in TokenId : row'[t] # "live" /\ (row'[t] = "none" <=> row[t] = "none")
  BY DEF RevokeEvery, TokensOK
<1>2. ended' \subseteq Tokens
  BY DEF RevokeEvery, TokensOK, GhostsOK
<1>3. req'[r] = NoRequest
  BY DEF RevokeEvery
<1>4. \A s \in Requests \ {r} : req'[s] = [req[s] EXCEPT !.overlapped = (req[s].phase # "idle")]
  BY DEF RevokeEvery
<1>5. ASSUME NEW s \in Requests \ {r}
      PROVE  /\ req'[s] \in RequestRow
             /\ req'[s].op = req[s].op /\ req'[s].phase = req[s].phase
             /\ req'[s].token = req[s].token /\ req'[s].next = req[s].next
  <2> DEFINE b == (req[s].phase # "idle")
  <2>1. b \in BOOLEAN /\ req[s] \in RequestRow /\ req'[s] = [req[s] EXCEPT !.overlapped = b]
    BY <1>4, <1>5
  <2> HIDE DEF b
  <2> QED  BY <2>1 DEF RequestRow
<1>6. req' \in [Requests -> RequestRow]
  <2>1. \A s \in Requests : req'[s] \in RequestRow
    BY <1>3, <1>5, NoRequestRow
  <2>2. req' = [s \in Requests |-> req'[s]]
    BY DEF RevokeEvery
  <2> QED  BY <2>1, <2>2
<1> QED  BY <1>1, <1>2, <1>3, <1>5, <1>6

\* Where a request goes when it begins.
LEMMA BeginEffect ==
  ASSUME req \in [Requests -> RequestRow], NEW r \in Requests, NEW d \in Devices,
         NEW op \in Operations, NEW t \in Tokens, Begin(r, op, d, t)
  PROVE  /\ req' \in [Requests -> RequestRow]
         /\ req'[r].op = op /\ req'[r].token = t /\ req'[r].next = NoToken
         /\ req'[r].version = 0
         /\ req'[r].phase \notin {"user", "drop", "revoke", "issue", "touch", "roles", "assign",
                                 "grant", "stale"}
         /\ \A s \in Requests \ {r} : req'[s] = req[s]
<1> DEFINE first == CASE op = "register" -> "check"
                      [] op \in {"login", "reset"} -> "find"
                      [] op \in {"refresh", "logout"} -> "validate"
                      [] op = "logout_all" -> "revoke_all"
                      [] op = "delete" -> "children"
<1>1. first \in Phases /\ first \notin {"user", "drop", "revoke", "issue", "touch", "roles", "assign",
                                         "grant", "stale"}
  BY DEF Operations, Phases
<1> HIDE DEF first
<1> DEFINE new == [NoRequest EXCEPT !.op = op, !.device = d, !.token = t, !.phase = first]
<1>2. req' = [req EXCEPT ![r] = new]
  BY DEF Begin, first
<1>3. /\ new \in RequestRow /\ new.op = op /\ new.token = t /\ new.next = NoToken
      /\ new.phase = first /\ new.version = 0
  BY <1>1, NoRequestRow DEF RequestRow, NoRequest
<1> HIDE DEF new
<1> QED  BY <1>1, <1>2, <1>3

\* A step of a request changes the types of nothing.
LEMMA ReqFields ==
  ASSUME req \in [Requests -> RequestRow], NEW r \in Requests
  PROVE  /\ req[r] \in RequestRow /\ req[r].token \in Tokens /\ req[r].next \in Tokens
         /\ req[r].phase \in Phases /\ req[r].version \in 0 .. MaxPasswords
         /\ req[r].device \in Devices \union {NoToken}
BY DEF RequestRow

\* The record a login or a reset goes on with: a phase and a password's version.
LEMMA GoToWithVersion ==
  ASSUME req \in [Requests -> RequestRow], NEW r \in Requests, NEW p \in Phases,
         NEW v \in 0 .. MaxPasswords,
         req' = [req EXCEPT ![r].phase = p, ![r].version = v]
  PROVE  /\ req' \in [Requests -> RequestRow]
         /\ req'[r].phase = p /\ req'[r].op = req[r].op
         /\ req'[r].token = req[r].token /\ req'[r].next = req[r].next
         /\ \A s \in Requests \ {r} : req'[s] = req[s]
<1> DEFINE a == req[r]
           b == [a EXCEPT !.phase = p]
           c == [b EXCEPT !.version = v]
<1>1. req' = [req EXCEPT ![r] = c]
  OBVIOUS
<1>2. a \in RequestRow
  OBVIOUS
<1> HIDE DEF a
<1>3. b \in RequestRow /\ b.phase = p /\ b.op = a.op /\ b.token = a.token /\ b.next = a.next
  BY <1>2 DEF RequestRow
<1> HIDE DEF b
<1>4. c \in RequestRow /\ c.phase = b.phase /\ c.op = b.op /\ c.token = b.token /\ c.next = b.next
  BY <1>3 DEF RequestRow
<1> HIDE DEF c
<1> QED  BY <1>1, <1>3, <1>4 DEF a

\* The record of a request that has created a token.
LEMMA GoToWithNext ==
  ASSUME req \in [Requests -> RequestRow], NEW r \in Requests, NEW p \in Phases, NEW t \in Tokens,
         req' = [req EXCEPT ![r].phase = p, ![r].next = t]
  PROVE  /\ req' \in [Requests -> RequestRow]
         /\ req'[r].phase = p /\ req'[r].op = req[r].op
         /\ req'[r].token = req[r].token /\ req'[r].next = t
         /\ \A s \in Requests \ {r} : req'[s] = req[s]
<1> DEFINE a == req[r]
           b == [a EXCEPT !.phase = p]
           c == [b EXCEPT !.next = t]
<1>1. req' = [req EXCEPT ![r] = c]
  OBVIOUS
<1>2. a \in RequestRow
  OBVIOUS
<1> HIDE DEF a
<1>3. b \in RequestRow /\ b.phase = p /\ b.op = a.op /\ b.token = a.token
  BY <1>2 DEF RequestRow
<1> HIDE DEF b
<1>4. c \in RequestRow /\ c.phase = b.phase /\ c.op = b.op /\ c.token = b.token /\ c.next = t
  BY <1>3 DEF RequestRow
<1> HIDE DEF c
<1> QED  BY <1>1, <1>3, <1>4 DEF a

-----------------------------------------------------------------------------
(* The steps that neither begin a rotation nor create a token               *)

\* A request ends, or goes on with the tokens it names; it does not begin to
\* rotate, and only a revocation takes it to the creation of the next token.
Onward(s) ==
    \/ req'[s] = NoRequest
    \/ /\ req'[s].op = req[s].op /\ req'[s].token = req[s].token /\ req'[s].next = req[s].next
       /\ Rotating(s)' => Rotating(s) /\ (req'[s].phase = "issue" => req[s].phase = "issue")

PlainStep ==
    /\ SessionTypeOK'
    /\ \A t \in TokenId : (row'[t] = "live" => row[t] = "live") /\ (row'[t] = "none" <=> row[t] = "none")
    /\ root' = root /\ forked' = forked
    /\ \A s \in Requests : Onward(s)
    /\ \A d \in Devices : held'[d] \in {held[d], NoToken}

LEMMA FinishOnward ==
  ASSUME req \in [Requests -> RequestRow], NEW r \in Requests, Finish(r)
  PROVE  req' \in [Requests -> RequestRow] /\ \A s \in Requests : Onward(s)
BY FinishEffect DEF Onward, Rotating

LEMMA GoToOnward ==
  ASSUME req \in [Requests -> RequestRow], NEW r \in Requests, NEW p \in Phases, GoTo(r, p),
         \/ req[r].op # "refresh"
         \/ p \notin {"user", "drop", "revoke", "issue"}
         \/ Rotating(r) /\ p # "issue"
  PROVE  req' \in [Requests -> RequestRow] /\ \A s \in Requests : Onward(s)
BY GoToEffect DEF Onward, Rotating

LEMMA PlainSteps ==
  ASSUME SessionTypeOK, NEW r \in Requests,
         \/ Die(r) \/ RegisterCheck(r) \/ RegisterCreate(r) \/ RegisterRole(r)
         \/ GrantRole(r) \/ GrantThrows(r)
         \/ LoginFind(r) \/ LoginTouch(r) \/ LoginRoles(r) \/ LoginAssign(r)
         \/ RefreshUser(r) \/ RefreshDrop(r) \/ RefreshUsed(r) \/ CreateFails(r)
         \/ LogoutValidate(r) \/ LogoutRevoke(r) \/ ResetFind(r) \/ ResetPassword(r)
         \/ DeleteChildren(r) \/ DeleteOther(r) \/ DeleteUser(r)
  PROVE  PlainStep
<1>0. /\ UsersOK /\ TokensOK /\ GhostsOK /\ RestOK /\ req \in [Requests -> RequestRow]
      /\ req[r] \in RequestRow /\ req[r].token \in Tokens /\ req[r].device \in Devices \union {NoToken}
      /\ MaxPasswords \in Nat \ {0} /\ MaxDeaths \in Nat /\ NoToken \notin TokenId
  BY TypeParts, ReqFields, SessionAssumption DEF SessionAssumption
<1> DEFINE Goal == UsersOK' /\ TokensOK' /\ GhostsOK' /\ RestOK' /\ req' \in [Requests -> RequestRow]
           Rows == \A t \in TokenId : (row'[t] = "live" => row[t] = "live")
                                    /\ (row'[t] = "none" <=> row[t] = "none")
           Reqs == req' \in [Requests -> RequestRow] /\ \A s \in Requests : Onward(s)
<1>1. ASSUME Die(r) PROVE PlainStep
  <2>1. Reqs
    BY <1>1, <1>0, FinishOnward, GoToOnward, GoToWithVersion, RefuseEffect
    DEF Die, Phases, Rotating, Onward
  <2>2. UsersOK' /\ TokensOK' /\ GhostsOK' /\ RestOK' /\ Rows
    BY <1>1, <1>0, RefuseEffect, RevokeRowEffect
    DEF Die, users, tokens, ghosts, UsersOK, TokensOK, GhostsOK, RestOK, Exists, Live, RowRemains
  <2>3. root' = root /\ forked' = forked /\ \A d \in Devices : held'[d] \in {held[d], NoToken}
    BY <1>1, <1>0, RefuseEffect DEF Die, users, tokens, ghosts
  <2> QED  BY <2>1, <2>2, <2>3, TypePartsNext DEF PlainStep
<1>2. ASSUME RegisterCheck(r) PROVE PlainStep
  <2>1. Reqs
    BY <1>2, <1>0, FinishOnward, GoToOnward, GoToWithVersion, RefuseEffect
    DEF RegisterCheck, At, Phases, Rotating, Onward
  <2>2. UsersOK' /\ TokensOK' /\ GhostsOK' /\ RestOK' /\ Rows
    BY <1>2, <1>0, RefuseEffect, RevokeRowEffect
    DEF RegisterCheck, At, users, tokens, ghosts, UsersOK, TokensOK, GhostsOK, RestOK, Exists, Live, RowRemains
  <2>3. root' = root /\ forked' = forked /\ \A d \in Devices : held'[d] \in {held[d], NoToken}
    BY <1>2, <1>0, RefuseEffect DEF RegisterCheck, At, users, tokens, ghosts
  <2> QED  BY <2>1, <2>2, <2>3, TypePartsNext DEF PlainStep
<1>3. ASSUME RegisterCreate(r) PROVE PlainStep
  <2>1. Reqs
    BY <1>3, <1>0, FinishOnward, GoToOnward, GoToWithVersion, RefuseEffect
    DEF RegisterCreate, At, Phases, Rotating, Onward
  <2>2. UsersOK' /\ TokensOK' /\ GhostsOK' /\ RestOK' /\ Rows
    BY <1>3, <1>0, RefuseEffect, RevokeRowEffect
    DEF RegisterCreate, At, users, tokens, ghosts, UsersOK, TokensOK, GhostsOK, RestOK, Exists, Live, RowRemains
  <2>3. root' = root /\ forked' = forked /\ \A d \in Devices : held'[d] \in {held[d], NoToken}
    BY <1>3, <1>0, RefuseEffect DEF RegisterCreate, At, users, tokens, ghosts
  <2> QED  BY <2>1, <2>2, <2>3, TypePartsNext DEF PlainStep
<1>4. ASSUME RegisterRole(r) PROVE PlainStep
  <2>1. Reqs
    BY <1>4, <1>0, FinishOnward, GoToOnward, GoToWithVersion, RefuseEffect
    DEF RegisterRole, At, Phases, Rotating, Onward
  <2>2. UsersOK' /\ TokensOK' /\ GhostsOK' /\ RestOK' /\ Rows
    BY <1>4, <1>0, RefuseEffect, RevokeRowEffect
    DEF RegisterRole, At, users, tokens, ghosts, UsersOK, TokensOK, GhostsOK, RestOK, Exists, Live, RowRemains
  <2>3. root' = root /\ forked' = forked /\ \A d \in Devices : held'[d] \in {held[d], NoToken}
    BY <1>4, <1>0, RefuseEffect DEF RegisterRole, At, users, tokens, ghosts
  <2> QED  BY <2>1, <2>2, <2>3, TypePartsNext DEF PlainStep
<1>5. ASSUME LoginFind(r) PROVE PlainStep
  <2>1. Reqs
    <3>1. CASE account = "active"
      <4>1. req' = [req EXCEPT ![r].phase = "touch", ![r].version = password]
        BY <1>5, <3>1 DEF LoginFind
      <4>2. password \in 0 .. MaxPasswords /\ "touch" \in Phases /\ req[r].op = "login"
        BY <1>5, <1>0 DEF LoginFind, At, UsersOK, Phases
      <4> QED  BY <4>1, <4>2, <1>0, GoToWithVersion DEF Onward, Rotating
    <3>2. CASE account # "active"
      BY <1>5, <3>2, <1>0, FinishOnward, RefuseEffect DEF LoginFind
    <3> QED  BY <3>1, <3>2
  <2>2. UsersOK' /\ TokensOK' /\ GhostsOK' /\ RestOK' /\ Rows
    BY <1>5, <1>0, RefuseEffect, RevokeRowEffect
    DEF LoginFind, At, users, tokens, ghosts, UsersOK, TokensOK, GhostsOK, RestOK, Exists, Live, RowRemains
  <2>3. root' = root /\ forked' = forked /\ \A d \in Devices : held'[d] \in {held[d], NoToken}
    BY <1>5, <1>0, RefuseEffect DEF LoginFind, At, users, tokens, ghosts
  <2> QED  BY <2>1, <2>2, <2>3, TypePartsNext DEF PlainStep
<1>6. ASSUME LoginTouch(r) PROVE PlainStep
  <2>1. Reqs
    BY <1>6, <1>0, FinishOnward, GoToOnward, GoToWithVersion, RefuseEffect
    DEF LoginTouch, At, Phases, Rotating, Onward
  <2>2. UsersOK' /\ TokensOK' /\ GhostsOK' /\ RestOK' /\ Rows
    BY <1>6, <1>0, RefuseEffect, RevokeRowEffect
    DEF LoginTouch, At, users, tokens, ghosts, UsersOK, TokensOK, GhostsOK, RestOK, Exists, Live, RowRemains
  <2>3. root' = root /\ forked' = forked /\ \A d \in Devices : held'[d] \in {held[d], NoToken}
    BY <1>6, <1>0, RefuseEffect DEF LoginTouch, At, users, tokens, ghosts
  <2> QED  BY <2>1, <2>2, <2>3, TypePartsNext DEF PlainStep
<1>7. ASSUME LoginRoles(r) PROVE PlainStep
  <2>1. Reqs
    BY <1>7, <1>0, FinishOnward, GoToOnward, GoToWithVersion, RefuseEffect
    DEF LoginRoles, At, Phases, Rotating, Onward
  <2>2. UsersOK' /\ TokensOK' /\ GhostsOK' /\ RestOK' /\ Rows
    BY <1>7, <1>0, RefuseEffect, RevokeRowEffect
    DEF LoginRoles, At, users, tokens, ghosts, UsersOK, TokensOK, GhostsOK, RestOK, Exists, Live, RowRemains
  <2>3. root' = root /\ forked' = forked /\ \A d \in Devices : held'[d] \in {held[d], NoToken}
    BY <1>7, <1>0, RefuseEffect DEF LoginRoles, At, users, tokens, ghosts
  <2> QED  BY <2>1, <2>2, <2>3, TypePartsNext DEF PlainStep
<1>8. ASSUME LoginAssign(r) PROVE PlainStep
  <2>1. Reqs
    BY <1>8, <1>0, FinishOnward, GoToOnward, GoToWithVersion, RefuseEffect
    DEF LoginAssign, At, Phases, Rotating, Onward
  <2>2. UsersOK' /\ TokensOK' /\ GhostsOK' /\ RestOK' /\ Rows
    BY <1>8, <1>0, RefuseEffect, RevokeRowEffect
    DEF LoginAssign, At, users, tokens, ghosts, UsersOK, TokensOK, GhostsOK, RestOK, Exists, Live, RowRemains
  <2>3. root' = root /\ forked' = forked /\ \A d \in Devices : held'[d] \in {held[d], NoToken}
    BY <1>8, <1>0, RefuseEffect DEF LoginAssign, At, users, tokens, ghosts
  <2> QED  BY <2>1, <2>2, <2>3, TypePartsNext DEF PlainStep
<1>9. ASSUME RefreshUser(r) PROVE PlainStep
  <2>1. Reqs
    BY <1>9, <1>0, FinishOnward, GoToOnward, GoToWithVersion, RefuseEffect
    DEF RefreshUser, At, Phases, Rotating, Onward
  <2>2. UsersOK' /\ TokensOK' /\ GhostsOK' /\ RestOK' /\ Rows
    BY <1>9, <1>0, RefuseEffect, RevokeRowEffect
    DEF RefreshUser, At, users, tokens, ghosts, UsersOK, TokensOK, GhostsOK, RestOK, Exists, Live, RowRemains
  <2>3. root' = root /\ forked' = forked /\ \A d \in Devices : held'[d] \in {held[d], NoToken}
    BY <1>9, <1>0, RefuseEffect DEF RefreshUser, At, users, tokens, ghosts
  <2> QED  BY <2>1, <2>2, <2>3, TypePartsNext DEF PlainStep
<1>10. ASSUME RefreshDrop(r) PROVE PlainStep
  <2>1. Reqs
    BY <1>10, <1>0, FinishOnward, GoToOnward, GoToWithVersion, RefuseEffect
    DEF RefreshDrop, At, Phases, Rotating, Onward
  <2>2. UsersOK' /\ TokensOK' /\ GhostsOK' /\ RestOK' /\ Rows
    BY <1>10, <1>0, RefuseEffect, RevokeRowEffect
    DEF RefreshDrop, At, users, tokens, ghosts, UsersOK, TokensOK, GhostsOK, RestOK, Exists, Live, RowRemains
  <2>3. root' = root /\ forked' = forked /\ \A d \in Devices : held'[d] \in {held[d], NoToken}
    BY <1>10, <1>0, RefuseEffect DEF RefreshDrop, At, users, tokens, ghosts
  <2> QED  BY <2>1, <2>2, <2>3, TypePartsNext DEF PlainStep
<1>11. ASSUME RefreshUsed(r) PROVE PlainStep
  <2>1. Reqs
    BY <1>11, <1>0, FinishOnward, GoToOnward, GoToWithVersion, RefuseEffect
    DEF RefreshUsed, At, Phases, Rotating, Onward
  <2>2. UsersOK' /\ TokensOK' /\ GhostsOK' /\ RestOK' /\ Rows
    BY <1>11, <1>0, RefuseEffect, RevokeRowEffect
    DEF RefreshUsed, At, users, tokens, ghosts, UsersOK, TokensOK, GhostsOK, RestOK, Exists, Live, RowRemains
  <2>3. root' = root /\ forked' = forked /\ \A d \in Devices : held'[d] \in {held[d], NoToken}
    BY <1>11, <1>0, RefuseEffect DEF RefreshUsed, At, users, tokens, ghosts
  <2> QED  BY <2>1, <2>2, <2>3, TypePartsNext DEF PlainStep
<1>12. ASSUME CreateFails(r) PROVE PlainStep
  <2>1. Reqs
    BY <1>12, <1>0, FinishOnward, GoToOnward, GoToWithVersion, RefuseEffect
    DEF CreateFails, Phases, Rotating, Onward
  <2>2. UsersOK' /\ TokensOK' /\ GhostsOK' /\ RestOK' /\ Rows
    BY <1>12, <1>0, RefuseEffect, RevokeRowEffect
    DEF CreateFails, users, tokens, ghosts, UsersOK, TokensOK, GhostsOK, RestOK, Exists, Live, RowRemains
  <2>3. root' = root /\ forked' = forked /\ \A d \in Devices : held'[d] \in {held[d], NoToken}
    BY <1>12, <1>0, RefuseEffect DEF CreateFails, users, tokens, ghosts
  <2> QED  BY <2>1, <2>2, <2>3, TypePartsNext DEF PlainStep
<1>13. ASSUME LogoutValidate(r) PROVE PlainStep
  <2>1. Reqs
    BY <1>13, <1>0, FinishOnward, GoToOnward, GoToWithVersion, RefuseEffect
    DEF LogoutValidate, At, Phases, Rotating, Onward
  <2>2. UsersOK' /\ TokensOK' /\ GhostsOK' /\ RestOK' /\ Rows
    BY <1>13, <1>0, RefuseEffect, RevokeRowEffect
    DEF LogoutValidate, At, users, tokens, ghosts, UsersOK, TokensOK, GhostsOK, RestOK, Exists, Live, RowRemains
  <2>3. root' = root /\ forked' = forked /\ \A d \in Devices : held'[d] \in {held[d], NoToken}
    BY <1>13, <1>0, RefuseEffect DEF LogoutValidate, At, users, tokens, ghosts
  <2> QED  BY <2>1, <2>2, <2>3, TypePartsNext DEF PlainStep
<1>14. ASSUME LogoutRevoke(r) PROVE PlainStep
  <2>1. Reqs
    BY <1>14, <1>0, FinishOnward, GoToOnward, GoToWithVersion, RefuseEffect
    DEF LogoutRevoke, At, Phases, Rotating, Onward
  <2>2. UsersOK' /\ TokensOK' /\ GhostsOK' /\ RestOK' /\ Rows
    BY <1>14, <1>0, RefuseEffect, RevokeRowEffect
    DEF LogoutRevoke, At, users, tokens, ghosts, UsersOK, TokensOK, GhostsOK, RestOK, Exists, Live, RowRemains
  <2>3. root' = root /\ forked' = forked /\ \A d \in Devices : held'[d] \in {held[d], NoToken}
    BY <1>14, <1>0, RefuseEffect DEF LogoutRevoke, At, users, tokens, ghosts
  <2> QED  BY <2>1, <2>2, <2>3, TypePartsNext DEF PlainStep
<1>15. ASSUME ResetFind(r) PROVE PlainStep
  <2>1. Reqs
    BY <1>15, <1>0, FinishOnward, GoToOnward, GoToWithVersion, RefuseEffect
    DEF ResetFind, At, Phases, Rotating, Onward
  <2>2. UsersOK' /\ TokensOK' /\ GhostsOK' /\ RestOK' /\ Rows
    BY <1>15, <1>0, RefuseEffect, RevokeRowEffect
    DEF ResetFind, At, users, tokens, ghosts, UsersOK, TokensOK, GhostsOK, RestOK, Exists, Live, RowRemains
  <2>3. root' = root /\ forked' = forked /\ \A d \in Devices : held'[d] \in {held[d], NoToken}
    BY <1>15, <1>0, RefuseEffect DEF ResetFind, At, users, tokens, ghosts
  <2> QED  BY <2>1, <2>2, <2>3, TypePartsNext DEF PlainStep
<1>16. ASSUME ResetPassword(r) PROVE PlainStep
  <2>1. Reqs
    <3>1. CASE Exists /\ password < MaxPasswords
      <4>1. req' = [req EXCEPT ![r].phase = "revoke_all", ![r].version = password + 1]
        BY <1>16, <3>1 DEF ResetPassword
      <4>2. password + 1 \in 0 .. MaxPasswords /\ "revoke_all" \in Phases /\ req[r].op = "reset"
        BY <1>16, <3>1, <1>0 DEF ResetPassword, At, UsersOK, Phases
      <4> QED  BY <4>1, <4>2, <1>0, GoToWithVersion DEF Onward, Rotating
    <3>2. CASE ~ (Exists /\ password < MaxPasswords)
      BY <1>16, <3>2, <1>0, FinishOnward DEF ResetPassword
    <3> QED  BY <3>1, <3>2
  <2>2. UsersOK' /\ TokensOK' /\ GhostsOK' /\ RestOK' /\ Rows
    BY <1>16, <1>0, RefuseEffect, RevokeRowEffect
    DEF ResetPassword, At, users, tokens, ghosts, UsersOK, TokensOK, GhostsOK, RestOK, Exists, Live, RowRemains
  <2>3. root' = root /\ forked' = forked /\ \A d \in Devices : held'[d] \in {held[d], NoToken}
    BY <1>16, <1>0, RefuseEffect DEF ResetPassword, At, users, tokens, ghosts
  <2> QED  BY <2>1, <2>2, <2>3, TypePartsNext DEF PlainStep
<1>17. ASSUME DeleteChildren(r) PROVE PlainStep
  <2>1. Reqs
    BY <1>17, <1>0, FinishOnward, GoToOnward, GoToWithVersion, RefuseEffect
    DEF DeleteChildren, At, Phases, Rotating, Onward
  <2>2. UsersOK' /\ TokensOK' /\ RestOK' /\ Rows
    BY <1>17, <1>0, TakeRolesEffect
    DEF DeleteChildren, users, tokens, ghosts, UsersOK, TokensOK, RestOK, RowRemains
  <2>a. GhostsOK'
    BY <1>17, <1>0, TakeRolesEffect DEF DeleteChildren, GhostsOK
  <2>3. root' = root /\ forked' = forked /\ \A d \in Devices : held'[d] \in {held[d], NoToken}
    BY <1>17, <1>0, RefuseEffect DEF DeleteChildren, At, users, tokens, ghosts
  <2> QED  BY <2>1, <2>2, <2>a, <2>3, TypePartsNext DEF PlainStep
<1>18. ASSUME DeleteOther(r) PROVE PlainStep
  <2>1. Reqs
    BY <1>18, <1>0, FinishOnward, GoToOnward, GoToWithVersion, RefuseEffect
    DEF DeleteOther, Phases, Rotating, Onward
  <2>2. UsersOK' /\ TokensOK' /\ RestOK' /\ Rows
    BY <1>18, <1>0, TakeRolesEffect
    DEF DeleteOther, users, tokens, ghosts, UsersOK, TokensOK, RestOK, RowRemains
  <2>a. GhostsOK'
    BY <1>18, <1>0, TakeRolesEffect DEF DeleteOther, GhostsOK
  <2>3. root' = root /\ forked' = forked /\ \A d \in Devices : held'[d] \in {held[d], NoToken}
    BY <1>18, <1>0, RefuseEffect DEF DeleteOther, users, tokens, ghosts
  <2> QED  BY <2>1, <2>2, <2>a, <2>3, TypePartsNext DEF PlainStep
<1>19. ASSUME DeleteUser(r) PROVE PlainStep
  <2>1. Reqs
    BY <1>19, <1>0, FinishOnward, GoToOnward, GoToWithVersion, RefuseEffect
    DEF DeleteUser, At, Phases, Rotating, Onward
  <2>2. UsersOK' /\ TokensOK' /\ GhostsOK' /\ RestOK' /\ Rows
    BY <1>19, <1>0, RefuseEffect, RevokeRowEffect
    DEF DeleteUser, At, users, tokens, ghosts, UsersOK, TokensOK, GhostsOK, RestOK, Exists, Live, RowRemains
  <2>3. root' = root /\ forked' = forked /\ \A d \in Devices : held'[d] \in {held[d], NoToken}
    BY <1>19, <1>0, RefuseEffect DEF DeleteUser, At, users, tokens, ghosts
  <2> QED  BY <2>1, <2>2, <2>3, TypePartsNext DEF PlainStep
<1>20. ASSUME GrantRole(r) PROVE PlainStep
  <2>1. Reqs
    BY <1>20, <1>0, FinishOnward, GoToOnward
    DEF GrantRole, Phases
  <2>2. UsersOK' /\ TokensOK' /\ GhostsOK' /\ RestOK' /\ Rows
    BY <1>20, <1>0 DEF GrantRole, users, tokens, ghosts, UsersOK, TokensOK, GhostsOK, RestOK
  <2>3. root' = root /\ forked' = forked /\ \A d \in Devices : held'[d] \in {held[d], NoToken}
    BY <1>20, <1>0 DEF GrantRole, users, tokens, ghosts
  <2> QED  BY <2>1, <2>2, <2>3, TypePartsNext DEF PlainStep
<1>21. ASSUME GrantThrows(r) PROVE PlainStep
  <2>1. Reqs
    BY <1>21, <1>0, FinishOnward, GoToOnward
    DEF GrantThrows, Phases
  <2>2. UsersOK' /\ TokensOK' /\ GhostsOK' /\ RestOK' /\ Rows
    BY <1>21, <1>0 DEF GrantThrows, users, tokens, ghosts, UsersOK, TokensOK, GhostsOK, RestOK
  <2>3. root' = root /\ forked' = forked /\ \A d \in Devices : held'[d] \in {held[d], NoToken}
    BY <1>21, <1>0 DEF GrantThrows, users, tokens, ghosts
  <2> QED  BY <2>1, <2>2, <2>3, TypePartsNext DEF PlainStep
<1> QED
  BY <1>1, <1>2, <1>3, <1>4, <1>5, <1>6, <1>7, <1>8, <1>9, <1>10, <1>11, <1>12, <1>13, <1>14, <1>15, <1>16, <1>17, <1>18, <1>19,
     <1>20, <1>21

\* Only the phase of a request changes that has read the id of the role deleted.
LEMMA StaleEffect ==
  ASSUME req \in [Requests -> RequestRow], DeleteDefaultRole
  PROVE  /\ req' \in [Requests -> RequestRow]
         /\ \A s \in Requests :
                /\ req'[s].op = req[s].op /\ req'[s].token = req[s].token
                /\ req'[s].next = req[s].next /\ req'[s].version = req[s].version
                /\ req'[s].overlapped = req[s].overlapped
                /\ req'[s].phase = req[s].phase \/ (req[s].phase = "grant" /\ req'[s].phase = "stale")
<1>1. req' = [s \in Requests |->
                IF req[s].phase = "grant" THEN [req[s] EXCEPT !.phase = "stale"] ELSE req[s]]
  BY DEF DeleteDefaultRole
<1>2. "stale" \in Phases
  BY DEF Phases
<1> QED  BY <1>1, <1>2 DEF RequestRow

LEMMA OtherPlainSteps ==
  ASSUME SessionTypeOK,
         \/ \E r \in Requests : LogoutAll(r) \/ ResetRevokeAll(r)
         \/ \E t \in TokenId : Expire(t)
         \/ Deactivate \/ DeleteDefaultRole \/ CreateDefaultRole
         \/ GainPremium \/ LosePremium \/ UNCHANGED sessionVars
  PROVE  PlainStep
<1>0. /\ UsersOK /\ TokensOK /\ GhostsOK /\ RestOK /\ req \in [Requests -> RequestRow]
  BY TypeParts
<1> DEFINE Rows == \A t \in TokenId : (row'[t] = "live" => row[t] = "live")
                                    /\ (row'[t] = "none" <=> row[t] = "none")
           Reqs == req' \in [Requests -> RequestRow] /\ \A s \in Requests : Onward(s)
<1>1. ASSUME NEW r \in Requests, LogoutAll(r) \/ ResetRevokeAll(r) PROVE PlainStep
  <2>1. RevokeEvery(r)
    BY <1>1 DEF LogoutAll, ResetRevokeAll
  <2>2. Reqs
    BY <2>1, <1>0, RevokeEveryEffect DEF Onward, Rotating
  <2>3. Rows /\ row' \in [TokenId -> {"none", "live", "expired", "revoked", "deleted"}]
        /\ ended' \subseteq Tokens
    BY <2>1, <1>0, RevokeEveryEffect
  <2>4. /\ UNCHANGED <<account, password, role, defaultRole, root, vouched, held, deaths, forked, spared, bare, unroled>>
        /\ sealed' \in {sealed, req[r].version}
    BY <1>1 DEF LogoutAll, ResetRevokeAll, users
  <2>5. sealed' \in 0 .. MaxPasswords
    BY <2>4, <1>0, ReqFields DEF GhostsOK
  <2> QED
    BY <2>2, <2>3, <2>4, <2>5, <1>0, TypePartsNext
    DEF PlainStep, UsersOK, TokensOK, GhostsOK, RestOK
<1>2. ASSUME NEW t \in TokenId, Expire(t) PROVE PlainStep
  <2>1. UNCHANGED <<account, password, role, defaultRole, root, vouched, req, held, deaths, ghosts>>
    BY <1>2 DEF Expire, users
  <2>2. Rows /\ row' \in [TokenId -> {"none", "live", "expired", "revoked", "deleted"}]
    BY <1>2, <1>0 DEF Expire, Live, TokensOK
  <2> QED
    BY <2>1, <2>2, <1>0, TypePartsNext
    DEF PlainStep, Onward, Rotating, ghosts, UsersOK, TokensOK, GhostsOK, RestOK
<1>3. CASE Deactivate
  <2>1. UNCHANGED <<password, role, defaultRole, tokens, req, held, deaths, ghosts>> /\ account' = "inactive"
    BY <1>3 DEF Deactivate
  <2> QED
    BY <2>1, <1>0, TypePartsNext
    DEF PlainStep, Onward, Rotating, ghosts, tokens, UsersOK, TokensOK, GhostsOK, RestOK
<1>4. CASE UNCHANGED sessionVars
  BY <1>4, <1>0, TypePartsNext
  DEF sessionVars, users, ghosts, tokens, PlainStep, Onward, Rotating, UsersOK, TokensOK, GhostsOK, RestOK
<1>5. CASE DeleteDefaultRole
  <2>1. req' \in [Requests -> RequestRow] /\ \A s \in Requests : Onward(s)
    BY <1>0, <1>5, StaleEffect DEF Onward, Rotating
  <2>2. UsersOK' /\ GhostsOK'
    BY <1>0, <1>5, TakeRolesEffect DEF DeleteDefaultRole, UsersOK, GhostsOK
  <2>3. UNCHANGED <<row, root, vouched, held, deaths, forked>>
    BY <1>5 DEF DeleteDefaultRole, tokens
  <2> QED
    BY <2>1, <2>2, <2>3, <1>0, TypePartsNext DEF PlainStep, TokensOK, RestOK
<1>6. CASE CreateDefaultRole
  <2>1. UNCHANGED <<account, password, role, tokens, req, held, deaths, ghosts>> /\ defaultRole' = TRUE
    BY <1>6 DEF CreateDefaultRole
  <2> QED
    BY <2>1, <1>0, TypePartsNext
    DEF PlainStep, Onward, Rotating, ghosts, tokens, UsersOK, TokensOK, GhostsOK, RestOK
<1>7. CASE GainPremium
  <2>1. /\ UNCHANGED <<account, password, defaultRole, tokens, req, held, deaths, ghosts>>
        /\ role' = role \union {"premium_user"}
    BY <1>7 DEF GainPremium
  <2> QED
    BY <2>1, <1>0, TypePartsNext
    DEF PlainStep, Onward, Rotating, ghosts, tokens, UsersOK, TokensOK, GhostsOK, RestOK
<1>8. CASE LosePremium
  <2>1. UNCHANGED <<account, password, defaultRole, row, root, vouched, req, held, deaths,
                    forked, ended, spared, sealed>>
    BY <1>8 DEF LosePremium, tokens
  <2>2. UsersOK' /\ GhostsOK'
    BY <1>0, <1>8, <2>1, TakeRolesEffect DEF LosePremium, UsersOK, GhostsOK
  <2> QED
    BY <2>1, <2>2, <1>0, TypePartsNext DEF PlainStep, Onward, Rotating, TokensOK, RestOK
<1> QED  BY <1>1, <1>2, <1>3, <1>4, <1>5, <1>6, <1>7, <1>8

-----------------------------------------------------------------------------
(* The invariant                                                            *)

\* Every token that was created has a root that was.
RootsExist == \A t \in TokenId : ~ Fresh(t) => root[t] \in TokenId /\ ~ Fresh(root[t])

\* Nobody names a token that was not created.
NamesExist ==
    /\ \A r \in Requests :
        /\ req[r].op \in {"refresh", "logout"} => req[r].token \in TokenId
        /\ req[r].token \in TokenId => ~ Fresh(req[r].token)
        /\ req[r].next \in TokenId => ~ Fresh(req[r].next)
    /\ \A d \in Devices : held[d] \in TokenId => ~ Fresh(held[d])

\* Two requests that rotate one session have forked it.
TwoAreForked ==
    \A r, s \in Requests :
        r # s /\ Rotating(r) /\ Rotating(s) /\ SessionOf(r) = SessionOf(s) => SessionOf(r) \in forked

\* The session of a rotation has no live token but the one it rotates, and none
\* between its revocation and the creation of the next.
RotatedIsSole ==
    \A r \in Requests :
        Rotating(r) /\ SessionOf(r) \notin forked =>
            \A t \in TokenId : Live(t) /\ root[t] = SessionOf(r) =>
                t = req[r].token /\ req[r].phase # "issue"

HeirInv ==
    SessionTypeOK /\ RootsExist /\ NamesExist /\ TwoAreForked /\ RotatedIsSole /\ OneHeirUnlessForked

LEMMA HeirInvInit == SessionInit => HeirInv
<1> SUFFICES ASSUME SessionInit PROVE HeirInv
  OBVIOUS
<1>1. SessionTypeOK
  <2>1. req \in [Requests -> RequestRow]
    BY NoRequestRow DEF SessionInit
  <2>2. 0 \in 0 .. MaxPasswords /\ 0 \in 0 .. MaxDeaths
    BY SessionAssumption DEF SessionAssumption
  <2>3. UsersOK /\ TokensOK /\ GhostsOK /\ RestOK
    BY <2>2 DEF SessionInit, UsersOK, TokensOK, GhostsOK, RestOK, Tokens
  <2> QED  BY <2>1, <2>3, TypeParts
<1>2. \A r \in Requests : req[r] = NoRequest
  BY DEF SessionInit
<1>3. \A t \in TokenId : row[t] = "none"
  BY DEF SessionInit
<1>4. \A d \in Devices : held[d] = NoToken
  BY DEF SessionInit
<1>5. NamesExist
  BY <1>2, <1>4, SessionAssumption DEF NamesExist, NoRequest, SessionAssumption
<1>6. TwoAreForked /\ RotatedIsSole
  BY <1>2 DEF TwoAreForked, RotatedIsSole, Rotating, NoRequest
<1>7. RootsExist /\ OneHeirUnlessForked
  BY <1>3 DEF RootsExist, Fresh, OneHeirUnlessForked, Live
<1> QED  BY <1>1, <1>5, <1>6, <1>7 DEF HeirInv

LEMMA PlainKeeps == HeirInv /\ PlainStep => HeirInv'
<1> SUFFICES ASSUME HeirInv, PlainStep PROVE HeirInv'
  OBVIOUS
<1>0. NoToken \notin TokenId
  BY SessionAssumption DEF SessionAssumption
<1>1. RootsExist'
  BY DEF HeirInv, PlainStep, RootsExist, Fresh
<1>2. NamesExist'
  BY <1>0 DEF HeirInv, PlainStep, NamesExist, Fresh, Onward, NoRequest
<1>3. \A r \in Requests : Rotating(r)' =>
        /\ Rotating(r) /\ req'[r].token = req[r].token /\ SessionOf(r)' = SessionOf(r)
        /\ req'[r].phase = "issue" => req[r].phase = "issue"
  BY DEF PlainStep, Onward, Rotating, SessionOf, NoRequest
<1>4. TwoAreForked'
  BY <1>3 DEF HeirInv, PlainStep, TwoAreForked
<1>5. RotatedIsSole'
  BY <1>3 DEF HeirInv, PlainStep, RotatedIsSole, Live
<1>6. OneHeirUnlessForked'
  BY DEF HeirInv, PlainStep, OneHeirUnlessForked, Live
<1> QED  BY <1>1, <1>2, <1>4, <1>5, <1>6 DEF HeirInv, PlainStep

-----------------------------------------------------------------------------
(* The steps that begin a request, receive an answer, rotate                *)

LEMMA SendKeeps ==
  ASSUME HeirInv, NEW r \in Requests, NEW d \in Devices, Send(r, d)
  PROVE  HeirInv'
<1>0. /\ UsersOK /\ TokensOK /\ GhostsOK /\ RestOK /\ req \in [Requests -> RequestRow]
      /\ NoToken \notin TokenId /\ req[r] \in RequestRow
      /\ req[r].token \in Tokens /\ req[r].next \in Tokens
  BY TypeParts, ReqFields, SessionAssumption DEF HeirInv, SessionAssumption
<1>1. PICK op \in Operations, t \in {NoToken, held[d]} :
            Begin(r, op, d, t) /\ (op \in {"refresh", "logout"} => t # NoToken)
  BY DEF Send, Operations
<1>2. t \in Tokens /\ (t \in TokenId => ~ Fresh(t))
  BY <1>0, <1>1 DEF HeirInv, NamesExist, RestOK, Tokens
<1>3. /\ req' \in [Requests -> RequestRow] /\ ~ Rotating(r)'
      /\ req'[r].op = op /\ req'[r].token = t /\ req'[r].next = NoToken
      /\ \A s \in Requests \ {r} : req'[s] = req[s]
  BY <1>0, <1>1, <1>2, BeginEffect DEF Rotating
<1>4. held' \in [Devices -> Tokens] /\ \A c \in Devices : held'[c] \in {held[c], NoToken}
  BY <1>0 DEF Send, RestOK, Tokens
<1>5. UNCHANGED <<account, password, role, defaultRole, row, root, vouched, deaths, forked, ended, spared, sealed, bare, unroled>>
  BY DEF Send, users, tokens, ghosts
<1>6. SessionTypeOK'
  BY <1>0, <1>3, <1>4, <1>5, TypePartsNext DEF UsersOK, TokensOK, GhostsOK, RestOK
<1>7. NamesExist'
  BY <1>0, <1>1, <1>2, <1>3, <1>4, <1>5 DEF HeirInv, NamesExist, Fresh, Tokens
<1>8. \A s \in Requests : Rotating(s)' => Rotating(s) /\ req'[s] = req[s] /\ SessionOf(s)' = SessionOf(s)
  BY <1>3, <1>5 DEF Rotating, SessionOf
<1>9. TwoAreForked' /\ RotatedIsSole'
  BY <1>5, <1>8 DEF HeirInv, TwoAreForked, RotatedIsSole, Live
<1>10. RootsExist' /\ OneHeirUnlessForked'
  BY <1>5 DEF HeirInv, RootsExist, Fresh, OneHeirUnlessForked, Live
<1> QED  BY <1>6, <1>7, <1>9, <1>10 DEF HeirInv

LEMMA ReceiveKeeps ==
  ASSUME HeirInv, NEW r \in Requests, Receive(r)
  PROVE  HeirInv'
<1>0. /\ UsersOK /\ TokensOK /\ GhostsOK /\ RestOK /\ req \in [Requests -> RequestRow]
      /\ NoToken \notin TokenId /\ req[r] \in RequestRow
      /\ req[r].token \in Tokens /\ req[r].next \in Tokens
  BY TypeParts, ReqFields, SessionAssumption DEF HeirInv, SessionAssumption
<1>1. req' \in [Requests -> RequestRow] /\ \A s \in Requests : Onward(s)
  BY <1>0, FinishOnward DEF Receive
<1>2. held' \in [Devices -> Tokens] /\ \A d \in Devices : held'[d] \in {held[d], req[r].next}
  BY <1>0 DEF Receive, RestOK
<1>3. UNCHANGED <<account, password, role, defaultRole, row, root, vouched, deaths, forked, ended, spared, sealed, bare, unroled>>
  BY DEF Receive, users, tokens, ghosts
<1>4. SessionTypeOK'
  BY <1>0, <1>1, <1>2, <1>3, TypePartsNext DEF UsersOK, TokensOK, GhostsOK, RestOK
<1>5. NamesExist'
  BY <1>0, <1>1, <1>2, <1>3 DEF HeirInv, NamesExist, Fresh, Onward, NoRequest
<1>6. \A s \in Requests : Rotating(s)' =>
        /\ Rotating(s) /\ req'[s].token = req[s].token /\ SessionOf(s)' = SessionOf(s)
        /\ req'[s].phase = "issue" => req[s].phase = "issue"
  BY <1>1, <1>3 DEF Onward, Rotating, SessionOf, NoRequest
<1>7. TwoAreForked' /\ RotatedIsSole'
  BY <1>3, <1>6 DEF HeirInv, TwoAreForked, RotatedIsSole, Live
<1>8. RootsExist' /\ OneHeirUnlessForked'
  BY <1>3 DEF HeirInv, RootsExist, Fresh, OneHeirUnlessForked, Live
<1> QED  BY <1>4, <1>5, <1>7, <1>8 DEF HeirInv

LEMMA AnswerEffect ==
  ASSUME req \in [Requests -> RequestRow], NEW r \in Requests, NEW t \in Tokens,
         req' = [req EXCEPT ![r].phase = "answer", ![r].next = t]
  PROVE  /\ req' \in [Requests -> RequestRow] /\ req'[r].phase = "answer" /\ req'[r].next = t
         /\ req'[r].op = req[r].op /\ req'[r].token = req[r].token
         /\ \A s \in Requests \ {r} : req'[s] = req[s]
<1> DEFINE a == req[r]
           b == [a EXCEPT !.phase = "answer"]
           c == [b EXCEPT !.next = t]
<1>1. req' = [req EXCEPT ![r] = c]
  OBVIOUS
<1>2. a \in RequestRow /\ "answer" \in Phases
  BY DEF Phases
<1> HIDE DEF a
<1>3. b \in RequestRow /\ b.phase = "answer" /\ b.op = a.op /\ b.token = a.token
  BY <1>2 DEF RequestRow
<1> HIDE DEF b
<1>4. c \in RequestRow /\ c.phase = b.phase /\ c.op = b.op /\ c.token = b.token /\ c.next = t
  BY <1>3 DEF RequestRow
<1> HIDE DEF c
<1> QED  BY <1>1, <1>3, <1>4 DEF a

\* The token of a login is the root of a session of its own.
LEMMA LoginIssueKeeps ==
  ASSUME HeirInv, NEW r \in Requests, LoginIssue(r)
  PROVE  HeirInv'
<1>0. /\ UsersOK /\ TokensOK /\ GhostsOK /\ RestOK /\ req \in [Requests -> RequestRow]
      /\ NoToken \notin TokenId /\ req[r] \in RequestRow
      /\ req[r].token \in Tokens /\ req[r].next \in Tokens
  BY TypeParts, ReqFields, SessionAssumption DEF HeirInv, SessionAssumption
<1>1. PICK t \in FreshId :
        /\ row' = [row EXCEPT ![t] = "live"] /\ root' = [root EXCEPT ![t] = t]
        /\ vouched' = [vouched EXCEPT ![t] = req[r].version]
        /\ req' = [req EXCEPT ![r].phase = "answer", ![r].next = t]
        /\ spared' = IF req[r].overlapped THEN spared \union {t} ELSE spared
        /\ bare' = IF r \in unroled THEN bare \union {t} ELSE bare
  BY DEF LoginIssue
<1>2. t \in TokenId /\ Fresh(t) /\ t \in Tokens /\ "answer" \in Phases /\ req[r].op = "login"
  BY FreshIdIsFresh DEF Tokens, Phases, LoginIssue, At
<1>3. /\ row' \in [TokenId -> {"none", "live", "expired", "revoked", "deleted"}]
      /\ root' \in [TokenId -> Tokens] /\ root'[t] = t /\ row'[t] = "live"
      /\ \A u \in TokenId \ {t} : row'[u] = row[u] /\ root'[u] = root[u]
  BY <1>0, <1>1, <1>2 DEF TokensOK
<1>4. vouched' \in [TokenId -> 0 .. MaxPasswords] /\ spared' \subseteq Tokens /\ bare' \subseteq Tokens
  BY <1>0, <1>1, <1>2, ReqFields DEF TokensOK, GhostsOK
<1>5. /\ req' \in [Requests -> RequestRow] /\ ~ Rotating(r)' /\ req'[r].next = t
      /\ req'[r].op = req[r].op /\ req'[r].token = req[r].token
      /\ \A s \in Requests \ {r} : req'[s] = req[s]
  <2>1. /\ req' \in [Requests -> RequestRow] /\ req'[r].phase = "answer" /\ req'[r].next = t
        /\ req'[r].op = req[r].op /\ req'[r].token = req[r].token
        /\ \A s \in Requests \ {r} : req'[s] = req[s]
    BY <1>0, <1>1, <1>2, AnswerEffect
  <2> QED  BY <1>2, <2>1 DEF Rotating
<1>6. UNCHANGED <<account, password, role, defaultRole, held, deaths, forked, ended, sealed, unroled>>
  BY DEF LoginIssue, users
<1>7. SessionTypeOK'
  BY <1>0, <1>3, <1>4, <1>5, <1>6, TypePartsNext DEF UsersOK, TokensOK, GhostsOK, RestOK
<1>8. NamesExist'
  BY <1>0, <1>3, <1>5, <1>6 DEF HeirInv, NamesExist, Fresh
<1>9. RootsExist'
  BY <1>2, <1>3 DEF HeirInv, RootsExist, Fresh
<1>10. \A s \in Requests : Rotating(s)' =>
        /\ Rotating(s) /\ req'[s] = req[s] /\ SessionOf(s)' = SessionOf(s) /\ SessionOf(s) # t
  <2>1. ASSUME NEW s \in Requests, Rotating(s)'
        PROVE  Rotating(s) /\ req'[s] = req[s] /\ req[s].token \in TokenId \ {t}
    BY <1>2, <1>5, <2>1 DEF Rotating, HeirInv, NamesExist
  <2>2. \A u \in TokenId \ {t} : ~ Fresh(u) => root[u] # t
    BY <1>2 DEF HeirInv, RootsExist
  <2> QED  BY <1>3, <2>1, <2>2 DEF SessionOf, HeirInv, NamesExist
<1>11. TwoAreForked'
  BY <1>6, <1>10 DEF HeirInv, TwoAreForked
<1>12. RotatedIsSole'
  BY <1>3, <1>6, <1>10 DEF HeirInv, RotatedIsSole, Live
<1>13. OneHeirUnlessForked'
  <2>1. \A u \in TokenId \ {t} : Live(u) => root[u] # t
    BY <1>2 DEF HeirInv, RootsExist, Live, Fresh
  <2> QED  BY <1>3, <1>6, <2>1 DEF HeirInv, OneHeirUnlessForked, Live
<1> QED  BY <1>7, <1>8, <1>9, <1>11, <1>12, <1>13 DEF HeirInv

\* A refresh joins the rotations of its session: alone, or forking it.
LEMMA RefreshValidateKeeps ==
  ASSUME HeirInv, NEW r \in Requests, RefreshValidate(r)
  PROVE  HeirInv'
<1>0. /\ UsersOK /\ TokensOK /\ GhostsOK /\ RestOK /\ req \in [Requests -> RequestRow]
      /\ NoToken \notin TokenId /\ req[r] \in RequestRow
      /\ req[r].token \in Tokens /\ req[r].next \in Tokens
  BY TypeParts, ReqFields, SessionAssumption DEF HeirInv, SessionAssumption
<1>1. CASE ~ Live(req[r].token)
  <2>1. Refuse(r) /\ forked' = forked
    BY <1>1 DEF RefreshValidate
  <2>2. UNCHANGED <<account, password, role, defaultRole, row, root, vouched, deaths, ended, spared, sealed, bare, unroled>>
    BY DEF RefreshValidate, users, tokens
  <2>3. req' \in [Requests -> RequestRow] /\ \A s \in Requests : Onward(s)
    BY <1>0, <2>1, RefuseEffect, FinishOnward
  <2>4. held' \in [Devices -> Tokens] /\ \A d \in Devices : held'[d] \in {held[d], NoToken}
    BY <1>0, <2>1, RefuseEffect
  <2>5. PlainStep
    BY <1>0, <2>1, <2>2, <2>3, <2>4, TypePartsNext
    DEF PlainStep, UsersOK, TokensOK, GhostsOK, RestOK
  <2> QED  BY <2>5, PlainKeeps
<1>2. CASE Live(req[r].token)
  <2>1. /\ GoTo(r, "user") /\ held' = held /\ req[r].op = "refresh" /\ req[r].phase = "validate"
        /\ forked' = IF \E other \in Requests \ {r} : Rotating(other) /\ SessionOf(other) = SessionOf(r)
                     THEN forked \union {SessionOf(r)} ELSE forked
    BY <1>2 DEF RefreshValidate, At
  <2>2. UNCHANGED <<account, password, role, defaultRole, row, root, vouched, deaths, ended, spared, sealed, bare, unroled>>
    BY DEF RefreshValidate, users, tokens
  <2>3. /\ req' \in [Requests -> RequestRow] /\ req'[r].phase = "user"
        /\ req'[r].op = req[r].op /\ req'[r].token = req[r].token /\ req'[r].next = req[r].next
        /\ \A s \in Requests \ {r} : req'[s] = req[s]
    BY <1>0, <2>1, GoToEffect DEF Phases
  <2>4. req[r].token \in TokenId /\ SessionOf(r) \in Tokens
    BY <1>0, <2>1 DEF HeirInv, NamesExist, SessionOf, TokensOK
  <2>5. forked' \subseteq Tokens
    BY <1>0, <2>1, <2>4 DEF GhostsOK
  <2>6. SessionTypeOK'
    BY <1>0, <2>1, <2>2, <2>3, <2>5, TypePartsNext DEF UsersOK, TokensOK, GhostsOK, RestOK
  <2>7. NamesExist'
    BY <2>1, <2>2, <2>3 DEF HeirInv, NamesExist, Fresh
  <2>8. /\ ~ Rotating(r) /\ forked \subseteq forked'
        /\ \A s \in Requests : SessionOf(s)' = SessionOf(s)
        /\ \A s \in Requests \ {r} : Rotating(s)' <=> Rotating(s)
    BY <2>1, <2>2, <2>3 DEF Rotating, SessionOf
  <2>9. ASSUME NEW s \in Requests \ {r}, Rotating(s), SessionOf(s) = SessionOf(r)
        PROVE  SessionOf(r) \in forked'
    BY <2>1, <2>9
  <2>10. TwoAreForked'
    BY <2>8, <2>9 DEF HeirInv, TwoAreForked
  <2>11. RotatedIsSole'
    <3>1. ASSUME SessionOf(r) \notin forked, NEW t \in TokenId, Live(t), root[t] = SessionOf(r)
          PROVE  t = req[r].token
      BY <1>2, <2>4, <3>1 DEF HeirInv, OneHeirUnlessForked, SessionOf
    <3> QED  BY <2>2, <2>3, <2>8, <3>1 DEF HeirInv, RotatedIsSole, Live
  <2>12. RootsExist' /\ OneHeirUnlessForked'
    BY <2>2, <2>8 DEF HeirInv, RootsExist, Fresh, OneHeirUnlessForked, Live
  <2> QED  BY <2>6, <2>7, <2>10, <2>11, <2>12 DEF HeirInv
<1> QED  BY <1>1, <1>2

\* The revocation leaves the session without a live token.
LEMMA RefreshRevokeKeeps ==
  ASSUME HeirInv, NEW r \in Requests, RefreshRevoke(r)
  PROVE  HeirInv'
<1>0. /\ UsersOK /\ TokensOK /\ GhostsOK /\ RestOK /\ req \in [Requests -> RequestRow]
      /\ NoToken \notin TokenId /\ req[r] \in RequestRow
      /\ req[r].token \in Tokens /\ req[r].next \in Tokens
  BY TypeParts, ReqFields, SessionAssumption DEF HeirInv, SessionAssumption
<1>1. CASE ~ RowRemains(req[r].token)
  <2>1. Finish(r) /\ row' = row
    BY <1>1 DEF RefreshRevoke
  <2>2. UNCHANGED <<account, password, role, defaultRole, root, vouched, held, deaths, forked, ended, spared, sealed, bare, unroled>>
    BY DEF RefreshRevoke, users, ghosts
  <2>3. req' \in [Requests -> RequestRow] /\ \A s \in Requests : Onward(s)
    BY <1>0, <2>1, FinishOnward
  <2>4. PlainStep
    BY <1>0, <2>1, <2>2, <2>3, TypePartsNext DEF PlainStep, UsersOK, TokensOK, GhostsOK, RestOK
  <2> QED  BY <2>4, PlainKeeps
<1>2. CASE RowRemains(req[r].token)
  <2>1. RevokeRow(req[r].token) /\ GoTo(r, "issue") /\ Rotating(r)
    BY <1>2 DEF RefreshRevoke, At, Rotating
  <2>2. UNCHANGED <<account, password, role, defaultRole, root, vouched, held, deaths, forked, ended, spared, sealed, bare, unroled>>
    BY DEF RefreshRevoke, users, ghosts
  <2>3. /\ req' \in [Requests -> RequestRow] /\ req'[r].phase = "issue"
        /\ req'[r].op = req[r].op /\ req'[r].token = req[r].token /\ req'[r].next = req[r].next
        /\ \A s \in Requests \ {r} : req'[s] = req[s]
    BY <1>0, <2>1, GoToEffect DEF Phases
  <2>4. /\ row' \in [TokenId -> {"none", "live", "expired", "revoked", "deleted"}]
        /\ \A u \in TokenId : row'[u] = IF u = req[r].token THEN "revoked" ELSE row[u]
    BY <1>0, <2>1, RevokeRowEffect
  <2>5. \A u \in TokenId : /\ row'[u] = "none" <=> row[u] = "none"
                           /\ row'[u] = "live" => row[u] = "live" /\ u # req[r].token
    BY <1>2, <2>4 DEF RowRemains
  <2>6. SessionTypeOK'
    BY <1>0, <2>2, <2>3, <2>4, TypePartsNext DEF UsersOK, TokensOK, GhostsOK, RestOK
  <2>7. NamesExist'
    <3>1. \A u \in TokenId : Fresh(u)' <=> Fresh(u)
      BY <2>5 DEF Fresh
    <3>2. \A s \in Requests : /\ req'[s].op = req[s].op /\ req'[s].token = req[s].token
                              /\ req'[s].next = req[s].next
      BY <2>3
    <3> QED  BY <2>2, <3>1, <3>2, Zenon DEF HeirInv, NamesExist
  <2>8. \A s \in Requests : /\ Rotating(s)' => Rotating(s)
                            /\ req'[s].token = req[s].token /\ SessionOf(s)' = SessionOf(s)
    BY <2>1, <2>2, <2>3 DEF Rotating, SessionOf
  <2>9. TwoAreForked'
    BY <2>2, <2>8 DEF HeirInv, TwoAreForked
  <2>10. RootsExist' /\ OneHeirUnlessForked'
    <3>1. \A u \in TokenId : (Fresh(u)' <=> Fresh(u)) /\ (Live(u)' => Live(u))
      BY <2>5 DEF Fresh, Live
    <3> QED  BY <2>2, <3>1 DEF HeirInv, RootsExist, OneHeirUnlessForked
  <2>11. RotatedIsSole'
    <3>1. ASSUME NEW s \in Requests, Rotating(s), SessionOf(s) \notin forked,
                 NEW t \in TokenId, Live(t)', root[t] = SessionOf(s)
          PROVE  s # r /\ t = req[s].token /\ req[s].phase # "issue"
      <4>1. Live(t) /\ t # req[r].token
        BY <2>5, <3>1 DEF Live
      <4>2. t = req[s].token /\ req[s].phase # "issue"
        BY <3>1, <4>1 DEF HeirInv, RotatedIsSole
      <4> QED  BY <4>1, <4>2
    <3> QED  BY <2>2, <2>3, <2>8, <3>1 DEF RotatedIsSole
  <2> QED  BY <2>6, <2>7, <2>9, <2>10, <2>11 DEF HeirInv
<1> QED  BY <1>1, <1>2

\* The next token is the only live one of its session.
LEMMA RefreshIssueKeeps ==
  ASSUME HeirInv, NEW r \in Requests, RefreshIssue(r)
  PROVE  HeirInv'
<1>0. /\ UsersOK /\ TokensOK /\ GhostsOK /\ RestOK /\ req \in [Requests -> RequestRow]
      /\ NoToken \notin TokenId /\ req[r] \in RequestRow
      /\ req[r].token \in Tokens /\ req[r].next \in Tokens
  BY TypeParts, ReqFields, SessionAssumption DEF HeirInv, SessionAssumption
<1>1. PICK t \in FreshId :
        /\ row' = [row EXCEPT ![t] = "live"] /\ root' = [root EXCEPT ![t] = SessionOf(r)]
        /\ vouched' = [vouched EXCEPT ![t] = vouched[req[r].token]]
        /\ req' = [req EXCEPT ![r].phase = "used", ![r].next = t]
        /\ spared' = IF req[r].overlapped THEN spared \union {SessionOf(r)} ELSE spared
  BY DEF RefreshIssue
<1>2. /\ t \in TokenId /\ Fresh(t) /\ t \in Tokens /\ "used" \in Phases
      /\ req[r].op = "refresh" /\ req[r].phase = "issue" /\ Rotating(r)
  BY FreshIdIsFresh DEF Tokens, Phases, RefreshIssue, At, Rotating
<1>3. /\ req[r].token \in TokenId /\ ~ Fresh(req[r].token)
      /\ SessionOf(r) \in TokenId /\ ~ Fresh(SessionOf(r)) /\ SessionOf(r) \in Tokens
  BY <1>2 DEF HeirInv, NamesExist, RootsExist, SessionOf, Tokens
<1>4. /\ row' \in [TokenId -> {"none", "live", "expired", "revoked", "deleted"}]
      /\ root' \in [TokenId -> Tokens] /\ root'[t] = SessionOf(r) /\ row'[t] = "live"
      /\ \A u \in TokenId \ {t} : row'[u] = row[u] /\ root'[u] = root[u]
  BY <1>0, <1>1, <1>2, <1>3 DEF TokensOK
<1>5. vouched' \in [TokenId -> 0 .. MaxPasswords] /\ spared' \subseteq Tokens
  BY <1>0, <1>1, <1>3 DEF TokensOK, GhostsOK
<1>6. /\ req' \in [Requests -> RequestRow] /\ ~ Rotating(r)' /\ req'[r].next = t
      /\ req'[r].op = req[r].op /\ req'[r].token = req[r].token
      /\ \A s \in Requests \ {r} : req'[s] = req[s]
  BY <1>0, <1>1, <1>2, GoToWithNext DEF Rotating
<1>7. UNCHANGED <<account, password, role, defaultRole, held, deaths, forked, ended, sealed, bare, unroled>>
  BY DEF RefreshIssue, users
<1>8. SessionTypeOK'
  BY <1>0, <1>4, <1>5, <1>6, <1>7, TypePartsNext DEF UsersOK, TokensOK, GhostsOK, RestOK
<1>9. NamesExist' /\ RootsExist'
  BY <1>0, <1>2, <1>3, <1>4, <1>6, <1>7 DEF HeirInv, NamesExist, RootsExist, Fresh
<1>10. \A s \in Requests : Rotating(s)' =>
        s # r /\ Rotating(s) /\ req'[s] = req[s] /\ SessionOf(s)' = SessionOf(s)
  <2>1. ASSUME NEW s \in Requests, Rotating(s)'
        PROVE  s # r /\ Rotating(s) /\ req'[s] = req[s] /\ req[s].token \in TokenId \ {t}
    BY <1>2, <1>6, <2>1 DEF Rotating, HeirInv, NamesExist
  <2> QED  BY <1>4, <2>1 DEF SessionOf
<1>11. \A s \in Requests : Rotating(s)' /\ SessionOf(s) = SessionOf(r) => SessionOf(s) \in forked
  BY <1>2, <1>10 DEF HeirInv, TwoAreForked
<1>12. TwoAreForked'
  BY <1>7, <1>10 DEF HeirInv, TwoAreForked
<1>13. RotatedIsSole'
  BY <1>4, <1>7, <1>10, <1>11 DEF HeirInv, RotatedIsSole, Live
<1>14. OneHeirUnlessForked'
  <2>1. ASSUME SessionOf(r) \notin forked, NEW u \in TokenId, root[u] = SessionOf(r) PROVE ~ Live(u)
    BY <1>2, <2>1 DEF HeirInv, RotatedIsSole
  <2> QED  BY <1>4, <1>7, <2>1 DEF HeirInv, OneHeirUnlessForked, Live
<1> QED  BY <1>8, <1>9, <1>12, <1>13, <1>14 DEF HeirInv

-----------------------------------------------------------------------------
LEMMA HeirInvNext == HeirInv /\ [SessionNext]_sessionVars => HeirInv'
<1> SUFFICES ASSUME HeirInv, [SessionNext]_sessionVars PROVE HeirInv'
  OBVIOUS
<1>0. SessionTypeOK
  BY DEF HeirInv
<1>1. ASSUME NEW r \in Requests, SessionStep(r) \/ Die(r) PROVE HeirInv'
  BY <1>0, <1>1, PlainSteps, OtherPlainSteps, PlainKeeps, ReceiveKeeps, LoginIssueKeeps,
     RefreshValidateKeeps, RefreshRevokeKeeps, RefreshIssueKeeps
  DEF SessionStep
<1>2. ASSUME NEW r \in Requests, NEW d \in Devices, Send(r, d) PROVE HeirInv'
  BY <1>2, SendKeeps
<1>3. ASSUME NEW t \in TokenId, Expire(t) PROVE HeirInv'
  BY <1>0, <1>3, OtherPlainSteps, PlainKeeps
<1>4. CASE Deactivate \/ DeleteDefaultRole \/ CreateDefaultRole
         \/ GainPremium \/ LosePremium \/ UNCHANGED sessionVars
  BY <1>0, <1>4, OtherPlainSteps, PlainKeeps
<1> QED  BY <1>1, <1>2, <1>3, <1>4 DEF SessionNext

\* The inductive invariant of auth.service.ts and token.service.ts: types, what
\* exists, and what a rotation knows of its session.
THEOREM SessionInvariance == SessionSpec => []HeirInv
BY HeirInvInit, HeirInvNext, PTL DEF SessionSpec

\* No number of requests that interleave, die and lose their answers gives a
\* session two live tokens, unless two refreshes of it overlapped.
THEOREM SessionsHaveOneHeir == SessionSpec => []OneHeirUnlessForked
<1>1. HeirInv => OneHeirUnlessForked  BY DEF HeirInv
<1> QED  BY <1>1, SessionInvariance, PTL

-----------------------------------------------------------------------------
(* What an end of all sessions leaves behind: SessionsEndWhenTold            *)

\* A login past the check of the password.
Late(r) == req[r].op = "login" /\ req[r].phase \in {"touch", "roles", "assign", "grant", "issue"}

\* What SessionsEndWhenTold says of a live token, here of any.
Told(t) == root[t] \in spared \/ (root[t] \notin ended /\ vouched[t] >= sealed)

\* A login or a rotation that no end of the sessions overlapped will create a
\* token the ends allow.
Sound(r) ==
    /\ req[r].version <= password
    /\ Late(r) /\ ~ req[r].overlapped => req[r].version >= sealed
    /\ Rotating(r) /\ ~ req[r].overlapped => Told(req[r].token)

\* The reset that sealed the sessions had the version of a password; only
\* sessions that began were told to end.
EndsInv ==
    /\ sealed <= password /\ (account = "none" => password = 0)
    /\ \A t \in ended : t \in TokenId /\ ~ Fresh(t)
    /\ \A r \in Requests : Sound(r)

ToldInv == HeirInv /\ EndsInv /\ SessionsEndWhenTold

\* A request ends, begins, or goes on with what it knows, without passing the
\* check of a password or of a token.
Carried(s) ==
    \/ req'[s].version = 0 /\ ~ Rotating(s)' /\ ~ Late(s)'
    \/ /\ req'[s].op = req[s].op /\ req'[s].token = req[s].token
       /\ req'[s].version = req[s].version /\ req'[s].overlapped = req[s].overlapped
       /\ (Rotating(s)' => Rotating(s)) /\ (Late(s)' => Late(s))

QuietStep ==
    /\ \A t \in TokenId : (row'[t] = "live" => row[t] = "live") /\ (row'[t] = "none" <=> row[t] = "none")
    /\ UNCHANGED <<root, vouched, ended, spared, sealed>>
    /\ password' >= password /\ (account' = "none" => account = "none" /\ password' = password)
    /\ \A s \in Requests : Carried(s) \/ Sound(s)'

LEMMA ToldInvInit == SessionInit => ToldInv
<1> SUFFICES ASSUME SessionInit PROVE ToldInv
  OBVIOUS
<1>1. \A r \in Requests : req[r] = NoRequest
  BY DEF SessionInit
<1>2. \A r \in Requests : Sound(r)
  BY <1>1 DEF Sound, Late, Rotating, NoRequest, SessionInit
<1>3. EndsInv /\ SessionsEndWhenTold
  BY <1>2 DEF EndsInv, SessionsEndWhenTold, Live, SessionInit
<1> QED  BY <1>3, HeirInvInit DEF ToldInv

\* Numbers the arithmetic below needs.
LEMMA Versions ==
  ASSUME SessionTypeOK
  PROVE  /\ password \in Nat /\ sealed \in Nat
         /\ \A t \in TokenId : vouched[t] \in Nat
         /\ \A r \in Requests : req[r].version \in Nat
<1>1. UsersOK /\ TokensOK /\ GhostsOK /\ req \in [Requests -> RequestRow] /\ MaxPasswords \in Nat
  BY TypeParts, SessionAssumption DEF SessionAssumption
<1>2. \A v \in 0 .. MaxPasswords : v \in Nat
  BY <1>1
<1> QED  BY <1>1, <1>2, ReqFields DEF UsersOK, TokensOK, GhostsOK

LEMMA QuietKeeps == ToldInv /\ HeirInv' /\ QuietStep => ToldInv'
<1> SUFFICES ASSUME ToldInv, HeirInv', QuietStep PROVE ToldInv'
  OBVIOUS
<1>0. /\ password \in Nat /\ sealed \in Nat /\ password' \in Nat
      /\ \A r \in Requests : req[r].version \in Nat
  <2>1. SessionTypeOK /\ SessionTypeOK'
    BY DEF ToldInv, HeirInv
  <2>2. password' \in Nat
    BY <2>1, TypePartsNext, SessionAssumption DEF UsersOK, SessionAssumption
  <2> QED  BY <2>1, <2>2, Versions
<1>1. \A t : Told(t)' <=> Told(t)
  BY DEF QuietStep, Told
<1>2. sealed' <= password' /\ (account' = "none" => password' = 0)
  BY <1>0 DEF ToldInv, EndsInv, QuietStep
<1>3. \A t \in ended' : t \in TokenId /\ ~ Fresh(t)'
  BY DEF ToldInv, EndsInv, QuietStep, Fresh
<1>4. ASSUME NEW s \in Requests PROVE Sound(s)'
  <2>1. CASE req'[s].version = 0 /\ ~ Rotating(s)' /\ ~ Late(s)'
    BY <2>1, <1>0 DEF Sound
  <2>2. CASE /\ req'[s].op = req[s].op /\ req'[s].token = req[s].token
             /\ req'[s].version = req[s].version /\ req'[s].overlapped = req[s].overlapped
             /\ (Rotating(s)' => Rotating(s)) /\ (Late(s)' => Late(s))
    <3>1. Sound(s) /\ sealed' = sealed /\ password' >= password /\ req[s].version \in Nat
      BY <1>0 DEF ToldInv, EndsInv, QuietStep
    <3> QED  BY <2>2, <3>1, <1>0, <1>1 DEF Sound
  <2>3. CASE Sound(s)'
    BY <2>3
  <2> QED  BY <2>1, <2>2, <2>3 DEF QuietStep, Carried
<1>5. SessionsEndWhenTold'
  BY <1>1 DEF ToldInv, SessionsEndWhenTold, Told, QuietStep, Live
<1> QED  BY <1>2, <1>3, <1>4, <1>5 DEF ToldInv, EndsInv

LEMMA FinishCarries ==
  ASSUME req \in [Requests -> RequestRow], NEW r \in Requests, Finish(r)
  PROVE  \A s \in Requests : Carried(s)
BY FinishEffect DEF Carried, Rotating, Late, NoRequest

LEMMA GoToCarries ==
  ASSUME req \in [Requests -> RequestRow], NEW r \in Requests, NEW p \in Phases, GoTo(r, p),
         req[r].op = "refresh" /\ p \in {"user", "drop", "revoke", "issue"} => Rotating(r),
         req[r].op = "login" /\ p \in {"touch", "roles", "assign", "grant", "issue"} => Late(r)
  PROVE  \A s \in Requests : Carried(s)
<1>1. req'[r].version = req[r].version /\ req'[r].overlapped = req[r].overlapped
  BY DEF GoTo, RequestRow
<1> QED  BY <1>1, GoToEffect DEF Carried, Rotating, Late

LEMMA QuietSteps ==
  ASSUME SessionTypeOK, NEW r \in Requests,
         \/ Receive(r) \/ Die(r) \/ RegisterCheck(r) \/ RegisterRole(r)
         \/ GrantRole(r) \/ GrantThrows(r)
         \/ LoginTouch(r) \/ LoginRoles(r) \/ LoginAssign(r) \/ RefreshUser(r)
         \/ RefreshDrop(r) \/ RefreshRevoke(r) \/ RefreshUsed(r) \/ CreateFails(r)
         \/ LogoutValidate(r) \/ LogoutRevoke(r) \/ ResetFind(r) \/ DeleteChildren(r)
         \/ DeleteOther(r) \/ DeleteUser(r)
  PROVE  QuietStep
<1>0. /\ UsersOK /\ TokensOK /\ RestOK /\ req \in [Requests -> RequestRow]
      /\ password \in Nat
  BY TypeParts, Versions
<1> DEFINE Rows == /\ \A t \in TokenId : (row'[t] = "live" => row[t] = "live")
                                         /\ (row'[t] = "none" <=> row[t] = "none")
                   /\ UNCHANGED <<root, vouched, ended, spared, sealed, password>>
                   /\ account' = "none" => account = "none"
<1>1. ASSUME Receive(r) PROVE QuietStep
  <2>1. \A s \in Requests : Carried(s)
    BY <1>1, <1>0, FinishCarries, GoToCarries, RefuseEffect DEF Receive, At, Phases, Rotating, Late
  <2>2. Rows
    BY <1>1, <1>0, RevokeRowEffect DEF Receive, At, users, tokens, ghosts, TokensOK, Exists, RowRemains
  <2> QED  BY <2>1, <2>2, <1>0 DEF QuietStep
<1>2. ASSUME Die(r) PROVE QuietStep
  <2>1. \A s \in Requests : Carried(s)
    BY <1>2, <1>0, FinishCarries, GoToCarries, RefuseEffect DEF Die, At, Phases, Rotating, Late
  <2>2. Rows
    BY <1>2, <1>0, RevokeRowEffect DEF Die, At, users, tokens, ghosts, TokensOK, Exists, RowRemains
  <2> QED  BY <2>1, <2>2, <1>0 DEF QuietStep
<1>3. ASSUME RegisterCheck(r) PROVE QuietStep
  <2>1. \A s \in Requests : Carried(s)
    BY <1>3, <1>0, FinishCarries, GoToCarries, RefuseEffect DEF RegisterCheck, At, Phases, Rotating, Late
  <2>2. Rows
    BY <1>3, <1>0, RevokeRowEffect DEF RegisterCheck, At, users, tokens, ghosts, TokensOK, Exists, RowRemains
  <2> QED  BY <2>1, <2>2, <1>0 DEF QuietStep
<1>4. ASSUME RegisterRole(r) PROVE QuietStep
  <2>1. \A s \in Requests : Carried(s)
    BY <1>4, <1>0, FinishCarries, GoToCarries, RefuseEffect DEF RegisterRole, At, Phases, Rotating, Late
  <2>2. Rows
    BY <1>4, <1>0, RevokeRowEffect DEF RegisterRole, At, users, tokens, ghosts, TokensOK, Exists, RowRemains
  <2> QED  BY <2>1, <2>2, <1>0 DEF QuietStep
<1>5. ASSUME LoginTouch(r) PROVE QuietStep
  <2>1. \A s \in Requests : Carried(s)
    BY <1>5, <1>0, FinishCarries, GoToCarries, RefuseEffect DEF LoginTouch, At, Phases, Rotating, Late
  <2>2. Rows
    BY <1>5, <1>0, RevokeRowEffect DEF LoginTouch, At, users, tokens, ghosts, TokensOK, Exists, RowRemains
  <2> QED  BY <2>1, <2>2, <1>0 DEF QuietStep
<1>6. ASSUME LoginRoles(r) PROVE QuietStep
  <2>1. \A s \in Requests : Carried(s)
    BY <1>6, <1>0, FinishCarries, GoToCarries, RefuseEffect DEF LoginRoles, At, Phases, Rotating, Late
  <2>2. Rows
    BY <1>6, <1>0, RevokeRowEffect DEF LoginRoles, At, users, tokens, ghosts, TokensOK, Exists, RowRemains
  <2> QED  BY <2>1, <2>2, <1>0 DEF QuietStep
<1>7. ASSUME LoginAssign(r) PROVE QuietStep
  <2>1. \A s \in Requests : Carried(s)
    BY <1>7, <1>0, FinishCarries, GoToCarries, RefuseEffect DEF LoginAssign, At, Phases, Rotating, Late
  <2>2. Rows
    BY <1>7, <1>0, RevokeRowEffect DEF LoginAssign, At, users, tokens, ghosts, TokensOK, Exists, RowRemains
  <2> QED  BY <2>1, <2>2, <1>0 DEF QuietStep
<1>8. ASSUME RefreshUser(r) PROVE QuietStep
  <2>1. \A s \in Requests : Carried(s)
    BY <1>8, <1>0, FinishCarries, GoToCarries, RefuseEffect DEF RefreshUser, At, Phases, Rotating, Late
  <2>2. Rows
    BY <1>8, <1>0, RevokeRowEffect DEF RefreshUser, At, users, tokens, ghosts, TokensOK, Exists, RowRemains
  <2> QED  BY <2>1, <2>2, <1>0 DEF QuietStep
<1>9. ASSUME RefreshDrop(r) PROVE QuietStep
  <2>1. \A s \in Requests : Carried(s)
    BY <1>9, <1>0, FinishCarries, GoToCarries, RefuseEffect DEF RefreshDrop, At, Phases, Rotating, Late
  <2>2. Rows
    BY <1>9, <1>0, RevokeRowEffect DEF RefreshDrop, At, users, tokens, ghosts, TokensOK, Exists, RowRemains
  <2> QED  BY <2>1, <2>2, <1>0 DEF QuietStep
<1>10. ASSUME RefreshRevoke(r) PROVE QuietStep
  <2>1. \A s \in Requests : Carried(s)
    BY <1>10, <1>0, FinishCarries, GoToCarries, RefuseEffect DEF RefreshRevoke, At, Phases, Rotating, Late
  <2>2. Rows
    BY <1>10, <1>0, RevokeRowEffect DEF RefreshRevoke, At, users, tokens, ghosts, TokensOK, Exists, RowRemains
  <2> QED  BY <2>1, <2>2, <1>0 DEF QuietStep
<1>11. ASSUME RefreshUsed(r) PROVE QuietStep
  <2>1. \A s \in Requests : Carried(s)
    BY <1>11, <1>0, FinishCarries, GoToCarries, RefuseEffect DEF RefreshUsed, At, Phases, Rotating, Late
  <2>2. Rows
    BY <1>11, <1>0, RevokeRowEffect DEF RefreshUsed, At, users, tokens, ghosts, TokensOK, Exists, RowRemains
  <2> QED  BY <2>1, <2>2, <1>0 DEF QuietStep
<1>12. ASSUME CreateFails(r) PROVE QuietStep
  <2>1. \A s \in Requests : Carried(s)
    BY <1>12, <1>0, FinishCarries, GoToCarries, RefuseEffect DEF CreateFails, At, Phases, Rotating, Late
  <2>2. Rows
    BY <1>12, <1>0, RevokeRowEffect DEF CreateFails, At, users, tokens, ghosts, TokensOK, Exists, RowRemains
  <2> QED  BY <2>1, <2>2, <1>0 DEF QuietStep
<1>13. ASSUME LogoutValidate(r) PROVE QuietStep
  <2>1. \A s \in Requests : Carried(s)
    BY <1>13, <1>0, FinishCarries, GoToCarries, RefuseEffect DEF LogoutValidate, At, Phases, Rotating, Late
  <2>2. Rows
    BY <1>13, <1>0, RevokeRowEffect DEF LogoutValidate, At, users, tokens, ghosts, TokensOK, Exists, RowRemains
  <2> QED  BY <2>1, <2>2, <1>0 DEF QuietStep
<1>14. ASSUME LogoutRevoke(r) PROVE QuietStep
  <2>1. \A s \in Requests : Carried(s)
    BY <1>14, <1>0, FinishCarries, GoToCarries, RefuseEffect DEF LogoutRevoke, At, Phases, Rotating, Late
  <2>2. Rows
    BY <1>14, <1>0, RevokeRowEffect DEF LogoutRevoke, At, users, tokens, ghosts, TokensOK, Exists, RowRemains
  <2> QED  BY <2>1, <2>2, <1>0 DEF QuietStep
<1>15. ASSUME ResetFind(r) PROVE QuietStep
  <2>1. \A s \in Requests : Carried(s)
    BY <1>15, <1>0, FinishCarries, GoToCarries, RefuseEffect DEF ResetFind, At, Phases, Rotating, Late
  <2>2. Rows
    BY <1>15, <1>0, RevokeRowEffect DEF ResetFind, At, users, tokens, ghosts, TokensOK, Exists, RowRemains
  <2> QED  BY <2>1, <2>2, <1>0 DEF QuietStep
<1>16. ASSUME DeleteChildren(r) PROVE QuietStep
  <2>1. \A s \in Requests : Carried(s)
    BY <1>16, <1>0, FinishCarries, GoToCarries, RefuseEffect DEF DeleteChildren, At, Phases, Rotating, Late
  <2>2. Rows
    BY <1>16, <1>0, RevokeRowEffect DEF DeleteChildren, At, TakeRoles, users, tokens, ghosts, TokensOK, Exists, RowRemains
  <2> QED  BY <2>1, <2>2, <1>0 DEF QuietStep
<1>17. ASSUME DeleteOther(r) PROVE QuietStep
  <2>1. \A s \in Requests : Carried(s)
    BY <1>17, <1>0, FinishCarries, GoToCarries, RefuseEffect DEF DeleteOther, At, Phases, Rotating, Late
  <2>2. Rows
    BY <1>17, <1>0, RevokeRowEffect DEF DeleteOther, At, TakeRoles, users, tokens, ghosts, TokensOK, Exists, RowRemains
  <2> QED  BY <2>1, <2>2, <1>0 DEF QuietStep
<1>18. ASSUME DeleteUser(r) PROVE QuietStep
  <2>1. \A s \in Requests : Carried(s)
    BY <1>18, <1>0, FinishCarries, GoToCarries, RefuseEffect DEF DeleteUser, At, Phases, Rotating, Late
  <2>2. Rows
    BY <1>18, <1>0, RevokeRowEffect DEF DeleteUser, At, users, tokens, ghosts, TokensOK, Exists, RowRemains
  <2> QED  BY <2>1, <2>2, <1>0 DEF QuietStep
<1>19. ASSUME GrantRole(r) PROVE QuietStep
  <2>1. \A s \in Requests : Carried(s)
    BY <1>19, <1>0, FinishCarries, GoToCarries DEF GrantRole, Phases, Late
  <2>2. Rows
    BY <1>19, <1>0 DEF GrantRole, users, tokens, ghosts
  <2> QED  BY <2>1, <2>2, <1>0 DEF QuietStep
<1>20. ASSUME GrantThrows(r) PROVE QuietStep
  <2>1. \A s \in Requests : Carried(s)
    BY <1>20, <1>0, FinishCarries, GoToCarries DEF GrantThrows, Phases, Late
  <2>2. Rows
    BY <1>20, <1>0 DEF GrantThrows, users, tokens, ghosts
  <2> QED  BY <2>1, <2>2, <1>0 DEF QuietStep
<1> QED  BY <1>1, <1>2, <1>3, <1>4, <1>5, <1>6, <1>7, <1>8, <1>9, <1>10, <1>11, <1>12, <1>13, <1>14, <1>15, <1>16, <1>17, <1>18,
         <1>19, <1>20

\* The other steps that leave the sessions as they are: a request begins, a
\* password is read or set, a token found live.
LEMMA OtherQuietSteps ==
  ASSUME ToldInv,
         \/ \E r \in Requests : \/ LoginFind(r) \/ RefreshValidate(r)
                               \/ RegisterCreate(r) \/ ResetPassword(r)
                               \/ \E d \in Devices : Send(r, d)
         \/ (\E t \in TokenId : Expire(t))
         \/ Deactivate \/ DeleteDefaultRole \/ CreateDefaultRole
         \/ GainPremium \/ LosePremium \/ UNCHANGED sessionVars
  PROVE  QuietStep
<1>0. /\ UsersOK /\ TokensOK /\ GhostsOK /\ RestOK /\ req \in [Requests -> RequestRow]
      /\ password \in Nat /\ sealed \in Nat /\ sealed <= password
      /\ \A r \in Requests : req[r].version \in Nat /\ Sound(r)
  BY TypeParts, Versions DEF ToldInv, HeirInv, EndsInv
<1> DEFINE Rows == /\ \A t \in TokenId : (row'[t] = "live" => row[t] = "live")
                                         /\ (row'[t] = "none" <=> row[t] = "none")
                   /\ UNCHANGED <<root, vouched, ended, spared, sealed>>
<1>1. ASSUME NEW r \in Requests, LoginFind(r) PROVE QuietStep
  <2>0. req \in [Requests -> RequestRow]
    BY <1>0
  <2>1. Rows /\ UNCHANGED <<account, password>>
    BY <1>1 DEF LoginFind, users, tokens, ghosts
  <2>2. CASE account # "active"
    BY <1>0, <1>1, <2>1, <2>2, RefuseEffect, FinishCarries DEF LoginFind, QuietStep
  <2>3. CASE account = "active"
    <3>1. req' = [req EXCEPT ![r].phase = "touch", ![r].version = password] /\ req[r].op = "login"
      BY <1>1, <2>3 DEF LoginFind, At
    <3>2. /\ req'[r].version = password /\ req'[r].op = req[r].op
          /\ \A s \in Requests \ {r} : req'[s] = req[s]
      BY <2>0, <3>1 DEF RequestRow
    <3>3. Sound(r)'
      BY <1>0, <2>1, <3>1, <3>2 DEF Sound, Rotating
    <3>4. \A s \in Requests \ {r} : Carried(s)
      BY <3>2 DEF Carried, Rotating, Late
    <3> QED  BY <1>0, <2>1, <3>3, <3>4 DEF QuietStep
  <2> QED  BY <2>2, <2>3
<1>2. ASSUME NEW r \in Requests, RefreshValidate(r) PROVE QuietStep
  <2>1. Rows /\ UNCHANGED <<account, password>> /\ req[r].op = "refresh"
    BY <1>2 DEF RefreshValidate, At, users, tokens
  <2>2. CASE ~ Live(req[r].token)
    BY <1>0, <1>2, <2>1, <2>2, RefuseEffect, FinishCarries DEF RefreshValidate, QuietStep
  <2>3. CASE Live(req[r].token)
    <3>1. GoTo(r, "user")
      BY <1>2, <2>3 DEF RefreshValidate
    <3>2. /\ req'[r].op = req[r].op /\ req'[r].token = req[r].token
          /\ req'[r].version = req[r].version
          /\ \A s \in Requests \ {r} : req'[s] = req[s]
      BY <1>0, <3>1, GoToEffect DEF GoTo, RequestRow, Phases
    <3>3. Told(req[r].token)
      BY <2>1, <2>3 DEF ToldInv, SessionsEndWhenTold, Told, HeirInv, NamesExist
    <3>4. Sound(r)'
      BY <1>0, <2>1, <3>2, <3>3 DEF Sound, Late, Told
    <3>5. \A s \in Requests \ {r} : Carried(s)
      BY <3>2 DEF Carried, Rotating, Late
    <3> QED  BY <1>0, <2>1, <3>4, <3>5 DEF QuietStep
  <2> QED  BY <2>2, <2>3
<1>3. ASSUME NEW r \in Requests, RegisterCreate(r) PROVE QuietStep
  <2>1. Rows /\ req[r].op = "register"
    BY <1>3 DEF RegisterCreate, At, tokens, ghosts
  <2>2. \A s \in Requests : Carried(s)
    BY <1>0, <1>3, <2>1, FinishCarries, GoToCarries DEF RegisterCreate, Phases
  <2>3. password' >= password /\ (account' = "none" => account = "none" /\ password' = password)
    BY <1>0, <1>3 DEF RegisterCreate, ToldInv, EndsInv
  <2> QED  BY <2>1, <2>2, <2>3 DEF QuietStep
<1>4. ASSUME NEW r \in Requests, ResetPassword(r) PROVE QuietStep
  <2>0. req \in [Requests -> RequestRow]
    BY <1>0
  <2>1. Rows /\ account' = account /\ req[r].op = "reset"
    BY <1>4 DEF ResetPassword, At, tokens, ghosts
  <2>2. CASE ~ (Exists /\ password < MaxPasswords)
    BY <1>0, <1>4, <2>1, <2>2, FinishCarries DEF ResetPassword, QuietStep
  <2>3. CASE Exists /\ password < MaxPasswords
    <3>1. /\ password' = password + 1 /\ account # "none"
          /\ req' = [req EXCEPT ![r].phase = "revoke_all", ![r].version = password + 1]
      BY <1>4, <2>3 DEF ResetPassword, Exists
    <3>2. /\ req'[r].version = password + 1 /\ req'[r].op = req[r].op
          /\ \A s \in Requests \ {r} : req'[s] = req[s]
      BY <2>0, <3>1 DEF RequestRow
    <3>3. Sound(r)'
      BY <1>0, <2>1, <3>1, <3>2 DEF Sound, Late, Rotating
    <3>4. \A s \in Requests \ {r} : Carried(s)
      BY <3>2 DEF Carried, Rotating, Late
    <3> QED  BY <1>0, <2>1, <3>1, <3>3, <3>4 DEF QuietStep
  <2> QED  BY <2>2, <2>3
<1>5. ASSUME NEW r \in Requests, NEW d \in Devices, Send(r, d) PROVE QuietStep
  <2>1. Rows /\ UNCHANGED <<account, password>>
    BY <1>5 DEF Send, users, tokens, ghosts
  <2>2. PICK op \in Operations, t \in {NoToken, held[d]} : Begin(r, op, d, t)
    BY <1>5 DEF Send, Operations
  <2>3. t \in Tokens
    BY <1>0 DEF RestOK, Tokens
  <2>4. req'[r].version = 0 /\ ~ Rotating(r)' /\ ~ Late(r)' /\ \A s \in Requests \ {r} : req'[s] = req[s]
    BY <1>0, <2>2, <2>3, BeginEffect DEF Rotating, Late
  <2>5. \A s \in Requests : Carried(s)
    BY <2>4 DEF Carried, Rotating, Late
  <2> QED  BY <1>0, <2>1, <2>5 DEF QuietStep
<1>6. ASSUME NEW t \in TokenId, Expire(t) PROVE QuietStep
  <2>1. Rows /\ UNCHANGED <<account, password, req>>
    BY <1>0, <1>6 DEF Expire, Live, users, ghosts, TokensOK
  <2> QED  BY <1>0, <2>1 DEF QuietStep, Carried, Rotating, Late
<1>7. ASSUME Deactivate \/ CreateDefaultRole \/ GainPremium \/ LosePremium \/ UNCHANGED sessionVars
      PROVE  QuietStep
  <2>1. Rows /\ UNCHANGED <<password, req>> /\ (account' = "none" => account = "none")
    BY <1>7
    DEF Deactivate, CreateDefaultRole, GainPremium, LosePremium, sessionVars, users, tokens, ghosts
  <2> QED  BY <1>0, <2>1 DEF QuietStep, Carried, Rotating, Late
<1>8. ASSUME DeleteDefaultRole PROVE QuietStep
  <2>1. Rows /\ UNCHANGED <<account, password>>
    BY <1>8 DEF DeleteDefaultRole, tokens
  <2>2. \A s \in Requests : Carried(s)
    BY <1>0, <1>8, StaleEffect DEF Carried, Rotating, Late
  <2> QED  BY <1>0, <2>1, <2>2 DEF QuietStep
<1> QED  BY <1>1, <1>2, <1>3, <1>4, <1>5, <1>6, <1>7, <1>8

\* The token of a login that was not overlapped has a password no end came after.
LEMMA LoginIssueTold ==
  ASSUME ToldInv, NEW r \in Requests, LoginIssue(r)
  PROVE  EndsInv' /\ SessionsEndWhenTold'
<1>0. /\ TokensOK /\ req \in [Requests -> RequestRow] /\ Sound(r) /\ req[r] \in RequestRow
      /\ \A s \in Requests : req[s].version \in Nat
  BY TypeParts, Versions DEF ToldInv, HeirInv, EndsInv
<1>1. PICK t \in FreshId :
        /\ row' = [row EXCEPT ![t] = "live"] /\ root' = [root EXCEPT ![t] = t]
        /\ vouched' = [vouched EXCEPT ![t] = req[r].version]
        /\ req' = [req EXCEPT ![r].phase = "answer", ![r].next = t]
        /\ spared' = IF req[r].overlapped THEN spared \union {t} ELSE spared
  BY DEF LoginIssue
<1>2. /\ t \in TokenId /\ Fresh(t) /\ t \in Tokens /\ Late(r) /\ req[r].op = "login"
      /\ UNCHANGED <<account, password, ended, sealed>>
  BY FreshIdIsFresh DEF Tokens, LoginIssue, At, Late, users
<1>3. /\ row'[t] = "live" /\ root'[t] = t /\ vouched'[t] = req[r].version
      /\ \A u \in TokenId \ {t} : row'[u] = row[u] /\ root'[u] = root[u] /\ vouched'[u] = vouched[u]
  BY <1>0, <1>1, <1>2 DEF TokensOK
<1>4. /\ req'[r].op = "login" /\ req'[r].version = req[r].version /\ req'[r].phase = "answer"
      /\ \A s \in Requests \ {r} : req'[s] = req[s]
  BY <1>0, <1>1, <1>2 DEF RequestRow
<1>5. Told(t)'
  BY <1>0, <1>1, <1>2, <1>3 DEF Told, Sound, ToldInv, EndsInv
<1>6. \A u \in TokenId \ {t} : Told(u) => Told(u)'
  BY <1>1, <1>2, <1>3 DEF Told
<1>7. \A s \in Requests : Rotating(s)' => s # r /\ req[s].token \in TokenId \ {t}
  BY <1>2, <1>4 DEF Rotating, ToldInv, HeirInv, NamesExist
<1>8. ASSUME NEW s \in Requests PROVE Sound(s)'
  <2>1. CASE s = r
    BY <2>1, <1>0, <1>2, <1>4 DEF Sound, Late, Rotating
  <2>2. CASE s # r
    BY <2>2, <1>2, <1>4, <1>6, <1>7 DEF Sound, Late, Rotating, ToldInv, EndsInv
  <2> QED  BY <2>1, <2>2
<1>9. \A u \in ended' : u \in TokenId /\ ~ Fresh(u)'
  BY <1>2, <1>3 DEF ToldInv, EndsInv, Fresh
<1>10. SessionsEndWhenTold'
  BY <1>3, <1>5, <1>6 DEF ToldInv, SessionsEndWhenTold, Told, Live
<1> QED  BY <1>2, <1>8, <1>9, <1>10 DEF ToldInv, EndsInv

\* The next token is allowed if the one it replaces was, or the rotation overlapped.
LEMMA RefreshIssueTold ==
  ASSUME ToldInv, NEW r \in Requests, RefreshIssue(r)
  PROVE  EndsInv' /\ SessionsEndWhenTold'
<1>0. /\ TokensOK /\ req \in [Requests -> RequestRow] /\ Sound(r) /\ req[r] \in RequestRow
      /\ \A s \in Requests : req[s].version \in Nat
  BY TypeParts, Versions DEF ToldInv, HeirInv, EndsInv
<1>1. PICK t \in FreshId :
        /\ row' = [row EXCEPT ![t] = "live"] /\ root' = [root EXCEPT ![t] = SessionOf(r)]
        /\ vouched' = [vouched EXCEPT ![t] = vouched[req[r].token]]
        /\ req' = [req EXCEPT ![r].phase = "used", ![r].next = t]
        /\ spared' = IF req[r].overlapped THEN spared \union {SessionOf(r)} ELSE spared
  BY DEF RefreshIssue
<1>2. /\ t \in TokenId /\ Fresh(t) /\ Rotating(r) /\ req[r].op = "refresh"
      /\ UNCHANGED <<account, password, ended, sealed>>
  BY FreshIdIsFresh DEF RefreshIssue, At, Rotating, users
<1>3. /\ row'[t] = "live" /\ root'[t] = SessionOf(r) /\ vouched'[t] = vouched[req[r].token]
      /\ \A u \in TokenId \ {t} : row'[u] = row[u] /\ root'[u] = root[u] /\ vouched'[u] = vouched[u]
  BY <1>0, <1>1, <1>2 DEF TokensOK
<1>4. /\ req'[r].op = "refresh" /\ req'[r].version = req[r].version /\ req'[r].phase = "used"
      /\ \A s \in Requests \ {r} : req'[s] = req[s]
  BY <1>0, <1>1, <1>2 DEF RequestRow
<1>5. Told(t)'
  BY <1>0, <1>1, <1>2, <1>3 DEF Told, Sound, SessionOf
<1>6. \A u \in TokenId \ {t} : Told(u) => Told(u)'
  BY <1>1, <1>2, <1>3 DEF Told
<1>7. \A s \in Requests : Rotating(s)' => s # r /\ req[s].token \in TokenId \ {t}
  BY <1>2, <1>4 DEF Rotating, ToldInv, HeirInv, NamesExist
<1>8. ASSUME NEW s \in Requests PROVE Sound(s)'
  <2>1. CASE s = r
    BY <2>1, <1>0, <1>2, <1>4 DEF Sound, Late, Rotating
  <2>2. CASE s # r
    BY <2>2, <1>2, <1>4, <1>6, <1>7 DEF Sound, Late, Rotating, ToldInv, EndsInv
  <2> QED  BY <2>1, <2>2
<1>9. \A u \in ended' : u \in TokenId /\ ~ Fresh(u)'
  BY <1>2, <1>3 DEF ToldInv, EndsInv, Fresh
<1>10. SessionsEndWhenTold'
  BY <1>3, <1>5, <1>6 DEF ToldInv, SessionsEndWhenTold, Told, Live
<1> QED  BY <1>2, <1>8, <1>9, <1>10 DEF ToldInv, EndsInv

\* An end of all sessions leaves no live token, and marks whatever is under way.
LEMMA RevokeEveryTold ==
  ASSUME ToldInv, NEW r \in Requests, RevokeEvery(r), UNCHANGED <<root, vouched, account, password>>,
         sealed' <= password
  PROVE  EndsInv' /\ SessionsEndWhenTold'
<1>0. /\ TokensOK /\ GhostsOK /\ req \in [Requests -> RequestRow]
      /\ \A s \in Requests : req[s].version \in Nat /\ Sound(s)
  BY TypeParts, Versions DEF ToldInv, HeirInv, EndsInv
<1>1. \A t \in TokenId : row'[t] # "live" /\ (row'[t] = "none" <=> row[t] = "none")
  BY <1>0, RevokeEveryEffect
<1>2. \A t \in ended' : t \in TokenId /\ ~ Fresh(t)'
  BY <1>1 DEF RevokeEvery, ToldInv, EndsInv, HeirInv, RootsExist, Fresh
<1>3. req'[r] = NoRequest
  BY DEF RevokeEvery
<1>4. ASSUME NEW s \in Requests \ {r}
      PROVE  /\ req'[s].op = req[s].op /\ req'[s].phase = req[s].phase
             /\ req'[s].version = req[s].version
             /\ req'[s].overlapped = (req[s].phase # "idle")
  <2> DEFINE b == (req[s].phase # "idle")
  <2>1. b \in BOOLEAN /\ req[s] \in RequestRow /\ req'[s] = [req[s] EXCEPT !.overlapped = b]
    BY <1>0 DEF RevokeEvery
  <2> HIDE DEF b
  <2>2. /\ req'[s].op = req[s].op /\ req'[s].phase = req[s].phase
        /\ req'[s].version = req[s].version /\ req'[s].overlapped = b
    BY <2>1 DEF RequestRow
  <2> QED  BY <2>2 DEF b
<1>5. ASSUME NEW s \in Requests PROVE Sound(s)'
  <2>1. CASE s = r
    BY <2>1, <1>0, <1>3, Versions DEF Sound, NoRequest, Late, Rotating, ToldInv, HeirInv
  <2>2. CASE s # r
    BY <2>2, <1>0, <1>4 DEF Sound, Late, Rotating
  <2> QED  BY <2>1, <2>2
<1>6. SessionsEndWhenTold'
  BY <1>1 DEF SessionsEndWhenTold, Live
<1> QED  BY <1>2, <1>5, <1>6 DEF ToldInv, EndsInv

LEMMA ToldInvNext == ToldInv /\ HeirInv' /\ [SessionNext]_sessionVars => ToldInv'
<1> SUFFICES ASSUME ToldInv, HeirInv', [SessionNext]_sessionVars PROVE ToldInv'
  OBVIOUS
<1>0. SessionTypeOK /\ sealed <= password /\ \A r \in Requests : Sound(r)
  BY DEF ToldInv, HeirInv, EndsInv
<1>1. ASSUME NEW r \in Requests, LogoutAll(r) \/ ResetRevokeAll(r) PROVE ToldInv'
  <2>1. RevokeEvery(r) /\ UNCHANGED <<root, vouched, account, password>>
    BY <1>1 DEF LogoutAll, ResetRevokeAll, users
  <2>2. sealed' <= password
    BY <1>0, <1>1 DEF LogoutAll, ResetRevokeAll, Sound
  <2> QED  BY <2>1, <2>2, RevokeEveryTold DEF ToldInv
<1>2. ASSUME NEW r \in Requests, SessionStep(r) \/ Die(r) PROVE ToldInv'
  BY <1>0, <1>1, <1>2, QuietSteps, OtherQuietSteps, QuietKeeps, LoginIssueTold, RefreshIssueTold
  DEF SessionStep, ToldInv
<1>3. ASSUME NEW r \in Requests, NEW d \in Devices, Send(r, d) PROVE ToldInv'
  BY <1>3, OtherQuietSteps, QuietKeeps
<1>4. ASSUME NEW t \in TokenId, Expire(t) PROVE ToldInv'
  BY <1>4, OtherQuietSteps, QuietKeeps
<1>5. CASE Deactivate \/ DeleteDefaultRole \/ CreateDefaultRole
         \/ GainPremium \/ LosePremium \/ UNCHANGED sessionVars
  BY <1>5, OtherQuietSteps, QuietKeeps
<1> QED  BY <1>2, <1>3, <1>4, <1>5 DEF SessionNext

\* A reset of the password and a logout of all sessions end every session, for any
\* number of requests under way: a token that is live afterwards belongs to a
\* session begun since, with the password the reset set, or to one whose next
\* token was under way at that very statement (auth.service.ts:454).
THEOREM SessionsEndTogether == SessionSpec => []SessionsEndWhenTold
<1>1. ToldInv => SessionsEndWhenTold
  BY DEF ToldInv
<1>2. SessionInit => ToldInv
  BY ToldInvInit
<1>3. ToldInv /\ HeirInv' /\ [SessionNext]_sessionVars => ToldInv'
  BY ToldInvNext
<1> QED  BY <1>1, <1>2, <1>3, SessionInvariance, PTL DEF SessionSpec

-----------------------------------------------------------------------------
(* Behind every session is a role: SignedInHasRole                           *)

\* The sessions begun are bare, and so will be those that logins are about to
\* begin.
AllBare == \A t \in TokenId : ~ Fresh(t) => root[t] \in bare
AllUnroled == \A s \in Requests : At(s, "login", "issue") => s \in unroled

\* Before there is a user nobody logs in; while one has no role, no session
\* stands on a role.
RoleInv ==
    /\ account = "none" => (\A t \in TokenId : Fresh(t)) /\ (\A r \in Requests : req[r].op # "login")
    /\ Exists /\ role = {} => AllBare /\ AllUnroled

\* No token is created; a role goes with a record of the sessions that stood on
\* it, and a login reaches the creation of its token with a role or on record.
RolesKept ==
    /\ \A t \in TokenId : Fresh(t) => Fresh(t)'
    /\ account' = "none" => account = "none"
    /\ Exists' => Exists
    /\ root' = root
    /\ Exists' /\ role' = {} =>
          (role = {} /\ bare' = bare) \/ \A t \in TokenId : ~ Fresh(t) => root[t] \in bare'
    /\ \A s \in Requests :
        /\ req'[s].op = "login" => req[s].op = "login" \/ account' # "none"
        /\ Exists' /\ At(s, "login", "issue")' =>
              s \in unroled' \/ role' # {} \/ (role = {} /\ At(s, "login", "issue") /\ s \notin unroled)

LEMMA RolesKeptKeeps == RoleInv /\ RolesKept => RoleInv'
<1> SUFFICES ASSUME RoleInv, RolesKept PROVE RoleInv'
  OBVIOUS
<1>1. ASSUME account' = "none"
      PROVE  (\A t \in TokenId : Fresh(t)') /\ (\A r \in Requests : req'[r].op # "login")
  BY <1>1 DEF RoleInv, RolesKept
<1>2. ASSUME Exists', role' = {} PROVE AllBare'
  <2>1. \A t \in TokenId : ~ Fresh(t) => root[t] \in bare'
    BY <1>2 DEF RoleInv, RolesKept, AllBare
  <2> QED  BY <2>1 DEF RolesKept, AllBare
<1>3. ASSUME Exists', role' = {} PROVE AllUnroled'
  BY <1>3 DEF RoleInv, RolesKept, AllUnroled
<1> QED  BY <1>1, <1>2, <1>3 DEF RoleInv

\* Where the requests stand after a request ends or goes to another phase.
LEMMA FinishPlace ==
  ASSUME req \in [Requests -> RequestRow], NEW r \in Requests, Finish(r)
  PROVE  \A s \in Requests :
            /\ req'[s].op = "login" => req[s].op = "login"
            /\ At(s, "login", "issue")' => At(s, "login", "issue")
BY FinishEffect DEF At, NoRequest

LEMMA GoToPlace ==
  ASSUME req \in [Requests -> RequestRow], NEW r \in Requests, NEW p \in Phases, GoTo(r, p)
  PROVE  \A s \in Requests :
            /\ req'[s].op = "login" => req[s].op = "login"
            /\ At(s, "login", "issue")' =>
                  At(s, "login", "issue") \/ (s = r /\ p = "issue" /\ req[r].op = "login")
BY GoToEffect DEF At

LEMMA RolesKeptSteps ==
  ASSUME SessionTypeOK, NEW r \in Requests,
         \/ Receive(r) \/ Die(r) \/ RegisterCheck(r) \/ RegisterRole(r)
         \/ GrantRole(r) \/ GrantThrows(r)
         \/ LoginFind(r) \/ LoginTouch(r) \/ LoginRoles(r) \/ LoginAssign(r)
         \/ RefreshValidate(r) \/ RefreshUser(r) \/ RefreshDrop(r) \/ RefreshRevoke(r)
         \/ RefreshUsed(r) \/ CreateFails(r) \/ LogoutValidate(r) \/ LogoutRevoke(r)
         \/ ResetFind(r) \/ ResetPassword(r) \/ DeleteChildren(r) \/ DeleteOther(r)
         \/ DeleteUser(r)
  PROVE  RolesKept
<1>0. UsersOK /\ TokensOK /\ GhostsOK /\ RestOK /\ req \in [Requests -> RequestRow]
  BY TypeParts
<1> DEFINE Users == /\ \A t \in TokenId : Fresh(t) => Fresh(t)'
                    /\ account' = "none" => account = "none"
                    /\ Exists' => Exists
                    /\ root' = root
                    /\ Exists' /\ role' = {} =>
                          \/ role = {} /\ bare' = bare
                          \/ \A t \in TokenId : ~ Fresh(t) => root[t] \in bare'
           Places == \A s \in Requests :
                        /\ req'[s].op = "login" => req[s].op = "login"
                        /\ Exists' /\ At(s, "login", "issue")' =>
                              \/ s \in unroled' \/ role' # {}
                              \/ role = {} /\ At(s, "login", "issue") /\ s \notin unroled
<1>1. ASSUME Receive(r) PROVE RolesKept
  <2>1. Places
    BY <1>1, <1>0, FinishPlace, GoToPlace, RefuseEffect DEF Receive, Phases, users, ghosts
  <2>2. Users
    BY <1>1, <1>0, RevokeRowEffect
    DEF Receive, At, users, tokens, ghosts, UsersOK, TokensOK, Exists, Fresh, RowRemains
  <2> QED  BY <2>1, <2>2 DEF RolesKept
<1>2. ASSUME Die(r) PROVE RolesKept
  <2>1. Places
    BY <1>2, <1>0, FinishPlace, GoToPlace, RefuseEffect DEF Die, Phases, users, ghosts
  <2>2. Users
    BY <1>2, <1>0, RevokeRowEffect
    DEF Die, At, users, tokens, ghosts, UsersOK, TokensOK, Exists, Fresh, RowRemains
  <2> QED  BY <2>1, <2>2 DEF RolesKept
<1>3. ASSUME RegisterCheck(r) PROVE RolesKept
  <2>1. Places
    BY <1>3, <1>0, FinishPlace, GoToPlace, RefuseEffect DEF RegisterCheck, Phases, users, ghosts
  <2>2. Users
    BY <1>3, <1>0, RevokeRowEffect
    DEF RegisterCheck, At, users, tokens, ghosts, UsersOK, TokensOK, Exists, Fresh, RowRemains
  <2> QED  BY <2>1, <2>2 DEF RolesKept
<1>4. ASSUME RegisterRole(r) PROVE RolesKept
  <2>1. Places
    BY <1>4, <1>0, FinishPlace, GoToPlace, RefuseEffect DEF RegisterRole, Phases, users, ghosts
  <2>2. Users
    BY <1>4, <1>0, RevokeRowEffect
    DEF RegisterRole, At, users, tokens, ghosts, UsersOK, TokensOK, Exists, Fresh, RowRemains
  <2> QED  BY <2>1, <2>2 DEF RolesKept
<1>5. ASSUME LoginFind(r) PROVE RolesKept
  <2>1. Places
    <3>1. CASE account # "active"
      BY <1>5, <3>1, <1>0, FinishPlace, RefuseEffect DEF LoginFind, users, ghosts
    <3>2. CASE account = "active"
      <4>1. req' = [req EXCEPT ![r].phase = "touch", ![r].version = password]
        BY <1>5, <3>2 DEF LoginFind
      <4>2. /\ req'[r].op = req[r].op /\ req'[r].phase = "touch"
            /\ \A s \in Requests \ {r} : req'[s] = req[s]
        BY <1>0, <4>1 DEF RequestRow
      <4> QED  BY <4>2, <1>5 DEF At, LoginFind, users, ghosts
    <3> QED  BY <3>1, <3>2
  <2>2. Users
    BY <1>5 DEF LoginFind, users, tokens, ghosts, Exists, Fresh
  <2> QED  BY <2>1, <2>2 DEF RolesKept
<1>6. ASSUME LoginTouch(r) PROVE RolesKept
  <2>1. Places
    BY <1>6, <1>0, FinishPlace, GoToPlace, RefuseEffect DEF LoginTouch, Phases, users, ghosts
  <2>2. Users
    BY <1>6, <1>0, RevokeRowEffect
    DEF LoginTouch, At, users, tokens, ghosts, UsersOK, TokensOK, Exists, Fresh, RowRemains
  <2> QED  BY <2>1, <2>2 DEF RolesKept
<1>7. ASSUME LoginRoles(r) PROVE RolesKept
  <2>1. Places
    <3>1. CASE role # {}
      BY <1>7, <3>1, <1>0, GoToPlace DEF LoginRoles, Phases, users
    <3>2. CASE role = {}
      <4>1. GoTo(r, "assign") /\ unroled' = unroled \ {r} /\ role' = role
        BY <1>7, <3>2 DEF LoginRoles, users
      <4>2. \A s \in Requests : /\ req'[s].op = "login" => req[s].op = "login"
                                /\ At(s, "login", "issue")' => At(s, "login", "issue")
        BY <1>0, <4>1, GoToPlace DEF Phases
      <4>3. ~ At(r, "login", "issue")
        BY <1>7 DEF LoginRoles, At
      <4> QED  BY <3>2, <4>1, <4>2, <4>3
    <3> QED  BY <3>1, <3>2
  <2>2. Users
    BY <1>7 DEF LoginRoles, users, tokens, Exists, Fresh
  <2> QED  BY <2>1, <2>2 DEF RolesKept
<1>8. ASSUME LoginAssign(r) PROVE RolesKept
  <2>1. Places
    <3>1. CASE defaultRole
      BY <1>8, <3>1, <1>0, GoToPlace DEF LoginAssign, Phases, users
    <3>2. CASE ~ defaultRole
      BY <1>8, <3>2, <1>0, GoToPlace DEF LoginAssign, Phases, users
    <3> QED  BY <3>1, <3>2
  <2>2. Users
    BY <1>8 DEF LoginAssign, users, tokens, Exists, Fresh
  <2> QED  BY <2>1, <2>2 DEF RolesKept
<1>9. ASSUME RefreshValidate(r) PROVE RolesKept
  <2>1. Places
    BY <1>9, <1>0, FinishPlace, GoToPlace, RefuseEffect DEF RefreshValidate, Phases, users, ghosts
  <2>2. Users
    BY <1>9, <1>0, RevokeRowEffect
    DEF RefreshValidate, At, users, tokens, ghosts, UsersOK, TokensOK, Exists, Fresh, RowRemains
  <2> QED  BY <2>1, <2>2 DEF RolesKept
<1>10. ASSUME RefreshUser(r) PROVE RolesKept
  <2>1. Places
    BY <1>10, <1>0, FinishPlace, GoToPlace, RefuseEffect DEF RefreshUser, Phases, users, ghosts
  <2>2. Users
    BY <1>10, <1>0, RevokeRowEffect
    DEF RefreshUser, At, users, tokens, ghosts, UsersOK, TokensOK, Exists, Fresh, RowRemains
  <2> QED  BY <2>1, <2>2 DEF RolesKept
<1>11. ASSUME RefreshDrop(r) PROVE RolesKept
  <2>1. Places
    BY <1>11, <1>0, FinishPlace, GoToPlace, RefuseEffect DEF RefreshDrop, Phases, users, ghosts
  <2>2. Users
    BY <1>11, <1>0, RevokeRowEffect
    DEF RefreshDrop, At, users, tokens, ghosts, UsersOK, TokensOK, Exists, Fresh, RowRemains
  <2> QED  BY <2>1, <2>2 DEF RolesKept
<1>12. ASSUME RefreshRevoke(r) PROVE RolesKept
  <2>1. Places
    <3>1. req[r].op = "refresh"
      BY <1>12 DEF RefreshRevoke, At
    <3> QED  BY <1>12, <3>1, <1>0, FinishPlace, GoToPlace DEF RefreshRevoke, Phases, users, ghosts
  <2>2. Users
    BY <1>12, <1>0, RevokeRowEffect
    DEF RefreshRevoke, At, users, tokens, ghosts, UsersOK, TokensOK, Exists, Fresh, RowRemains
  <2> QED  BY <2>1, <2>2 DEF RolesKept
<1>13. ASSUME RefreshUsed(r) PROVE RolesKept
  <2>1. Places
    BY <1>13, <1>0, FinishPlace, GoToPlace, RefuseEffect DEF RefreshUsed, Phases, users, ghosts
  <2>2. Users
    BY <1>13, <1>0, RevokeRowEffect
    DEF RefreshUsed, At, users, tokens, ghosts, UsersOK, TokensOK, Exists, Fresh, RowRemains
  <2> QED  BY <2>1, <2>2 DEF RolesKept
<1>14. ASSUME CreateFails(r) PROVE RolesKept
  <2>1. Places
    BY <1>14, <1>0, FinishPlace, GoToPlace, RefuseEffect DEF CreateFails, Phases, users, ghosts
  <2>2. Users
    BY <1>14, <1>0, RevokeRowEffect
    DEF CreateFails, At, users, tokens, ghosts, UsersOK, TokensOK, Exists, Fresh, RowRemains
  <2> QED  BY <2>1, <2>2 DEF RolesKept
<1>15. ASSUME LogoutValidate(r) PROVE RolesKept
  <2>1. Places
    BY <1>15, <1>0, FinishPlace, GoToPlace, RefuseEffect DEF LogoutValidate, Phases, users, ghosts
  <2>2. Users
    BY <1>15, <1>0, RevokeRowEffect
    DEF LogoutValidate, At, users, tokens, ghosts, UsersOK, TokensOK, Exists, Fresh, RowRemains
  <2> QED  BY <2>1, <2>2 DEF RolesKept
<1>16. ASSUME LogoutRevoke(r) PROVE RolesKept
  <2>1. Places
    BY <1>16, <1>0, FinishPlace, GoToPlace, RefuseEffect DEF LogoutRevoke, Phases, users, ghosts
  <2>2. Users
    BY <1>16, <1>0, RevokeRowEffect
    DEF LogoutRevoke, At, users, tokens, ghosts, UsersOK, TokensOK, Exists, Fresh, RowRemains
  <2> QED  BY <2>1, <2>2 DEF RolesKept
<1>17. ASSUME ResetFind(r) PROVE RolesKept
  <2>1. Places
    BY <1>17, <1>0, FinishPlace, GoToPlace, RefuseEffect DEF ResetFind, Phases, users, ghosts
  <2>2. Users
    BY <1>17, <1>0, RevokeRowEffect
    DEF ResetFind, At, users, tokens, ghosts, UsersOK, TokensOK, Exists, Fresh, RowRemains
  <2> QED  BY <2>1, <2>2 DEF RolesKept
<1>18. ASSUME ResetPassword(r) PROVE RolesKept
  <2>1. Places
    <3>1. CASE ~ (Exists /\ password < MaxPasswords)
      BY <1>18, <3>1, <1>0, FinishPlace, RefuseEffect DEF ResetPassword, ghosts
    <3>2. CASE Exists /\ password < MaxPasswords
      <4>1. req' = [req EXCEPT ![r].phase = "revoke_all", ![r].version = password + 1]
        BY <1>18, <3>2 DEF ResetPassword
      <4>2. /\ req'[r].op = req[r].op /\ req'[r].phase = "revoke_all"
            /\ \A s \in Requests \ {r} : req'[s] = req[s]
        BY <1>0, <4>1 DEF RequestRow
      <4> QED  BY <4>2, <1>18 DEF At, ResetPassword, ghosts
    <3> QED  BY <3>1, <3>2
  <2>2. Users
    BY <1>18 DEF ResetPassword, users, tokens, ghosts, Exists, Fresh
  <2> QED  BY <2>1, <2>2 DEF RolesKept
<1>19. ASSUME DeleteChildren(r) PROVE RolesKept
  <2>1. Places
    BY <1>19, <1>0, FinishPlace, GoToPlace, TakeRolesEffect DEF DeleteChildren, Phases
  <2>2. Users
    BY <1>19, <1>0, TakeRolesEffect DEF DeleteChildren, users, tokens, TokensOK, Exists, Fresh, RowRemains
  <2> QED  BY <2>1, <2>2 DEF RolesKept
<1>20. ASSUME DeleteOther(r) PROVE RolesKept
  <2>1. Places
    BY <1>20, <1>0, FinishPlace, GoToPlace, TakeRolesEffect DEF DeleteOther, Phases
  <2>2. Users
    BY <1>20, <1>0, TakeRolesEffect DEF DeleteOther, users, tokens, TokensOK, Exists, Fresh, RowRemains
  <2> QED  BY <2>1, <2>2 DEF RolesKept
<1>21. ASSUME DeleteUser(r) PROVE RolesKept
  <2>1. Places
    BY <1>21, <1>0, FinishPlace DEF DeleteUser, Exists, ghosts
  <2>2. Users
    BY <1>21, <1>0, RevokeRowEffect
    DEF DeleteUser, At, users, tokens, ghosts, UsersOK, TokensOK, Exists, Fresh, RowRemains
  <2> QED  BY <2>1, <2>2 DEF RolesKept
<1>22. ASSUME GrantRole(r) PROVE RolesKept
  <2>1. Places
    BY <1>22, <1>0, FinishPlace, GoToPlace DEF GrantRole, Phases, users, ghosts
  <2>2. Users
    BY <1>22, <1>0 DEF GrantRole, users, tokens, ghosts, UsersOK, Exists, Fresh
  <2> QED  BY <2>1, <2>2 DEF RolesKept
<1>23. ASSUME GrantThrows(r) PROVE RolesKept
  <2>1. Places
    BY <1>23, <1>0, FinishPlace, GoToPlace DEF GrantThrows, Phases, users, ghosts
  <2>2. Users
    BY <1>23, <1>0 DEF GrantThrows, users, tokens, ghosts, UsersOK, Exists, Fresh
  <2> QED  BY <2>1, <2>2 DEF RolesKept
<1> QED  BY <1>1, <1>2, <1>3, <1>4, <1>5, <1>6, <1>7, <1>8, <1>9, <1>10, <1>11, <1>12, <1>13, <1>14, <1>15, <1>16, <1>17, <1>18, <1>19, <1>20, <1>21,
         <1>22, <1>23

\* An end of all sessions, a request that begins, the steps of nobody.
LEMMA OtherRolesKept ==
  ASSUME SessionTypeOK,
         \/ \E r \in Requests : \/ LogoutAll(r) \/ ResetRevokeAll(r)
                               \/ \E d \in Devices : Send(r, d)
         \/ (\E t \in TokenId : Expire(t))
         \/ Deactivate \/ DeleteDefaultRole \/ CreateDefaultRole
         \/ GainPremium \/ LosePremium \/ UNCHANGED sessionVars
  PROVE  RolesKept
<1>0. UsersOK /\ TokensOK /\ GhostsOK /\ RestOK /\ req \in [Requests -> RequestRow]
  BY TypeParts
<1>1. ASSUME NEW r \in Requests, LogoutAll(r) \/ ResetRevokeAll(r) PROVE RolesKept
  <2>1. RevokeEvery(r) /\ UNCHANGED <<account, role, root, bare, unroled>>
    BY <1>1 DEF LogoutAll, ResetRevokeAll, users
  <2>2. \A t \in TokenId : Fresh(t)' <=> Fresh(t)
    BY <1>0, <2>1, RevokeEveryEffect DEF Fresh
  <2>3. \A s \in Requests : /\ req'[s].op = "login" => req[s].op = "login"
                            /\ At(s, "login", "issue")' => At(s, "login", "issue")
    BY <1>0, <2>1, RevokeEveryEffect DEF At, NoRequest
  <2> QED  BY <2>1, <2>2, <2>3 DEF RolesKept, Exists
<1>2. ASSUME NEW r \in Requests, NEW d \in Devices, Send(r, d) PROVE RolesKept
  <2>1. UNCHANGED <<account, role, row, root, bare, unroled>>
    BY <1>2 DEF Send, users, tokens, ghosts
  <2>2. PICK op \in Operations, t \in {NoToken, held[d]} :
            Begin(r, op, d, t) /\ (op = "login" => account # "none")
    BY <1>2 DEF Send, Operations, Exists
  <2>3. t \in Tokens
    BY <1>0 DEF RestOK, Tokens
  <2>4. /\ req'[r].op = op /\ req'[r].phase # "issue"
        /\ \A s \in Requests \ {r} : req'[s] = req[s]
    BY <1>0, <2>2, <2>3, BeginEffect
  <2> QED  BY <2>1, <2>2, <2>4 DEF RolesKept, Exists, Fresh, At
<1>3. ASSUME NEW t \in TokenId, Expire(t) PROVE RolesKept
  BY <1>0, <1>3 DEF Expire, Live, users, ghosts, TokensOK, RolesKept, Fresh, Exists, At
<1>4. ASSUME Deactivate \/ CreateDefaultRole \/ UNCHANGED sessionVars PROVE RolesKept
  BY <1>4 DEF Deactivate, CreateDefaultRole, sessionVars, users, tokens, ghosts, RolesKept, Fresh,
              Exists, At
<1>5. ASSUME DeleteDefaultRole PROVE RolesKept
  <2>1. /\ UNCHANGED <<account, row, root>>
        /\ role' = {} =>
              /\ \A t \in TokenId : ~ Fresh(t) => root[t] \in bare'
              /\ \A s \in Requests : At(s, "login", "issue") => s \in unroled'
    BY <1>0, <1>5, TakeRolesEffect DEF DeleteDefaultRole, tokens
  <2>2. \A s \in Requests : /\ req'[s].op = "login" => req[s].op = "login"
                            /\ At(s, "login", "issue")' => At(s, "login", "issue")
    BY <1>0, <1>5, StaleEffect DEF At
  <2> QED  BY <2>1, <2>2 DEF RolesKept, Exists, Fresh
<1>6. ASSUME GainPremium PROVE RolesKept
  BY <1>6 DEF GainPremium, tokens, ghosts, RolesKept, Fresh, Exists, At
<1>7. ASSUME LosePremium PROVE RolesKept
  <2>1. /\ UNCHANGED <<account, row, root, req>>
        /\ role' = {} =>
              /\ \A t \in TokenId : ~ Fresh(t) => root[t] \in bare'
              /\ \A s \in Requests : At(s, "login", "issue") => s \in unroled'
    BY <1>0, <1>7, TakeRolesEffect DEF LosePremium, tokens
  <2> QED  BY <2>1 DEF RolesKept, Exists, Fresh, At
<1> QED  BY <1>1, <1>2, <1>3, <1>4, <1>5, <1>6, <1>7

\* register creates a user nobody can have signed in as.
LEMMA RegisterCreateRole ==
  ASSUME SessionTypeOK, RoleInv, NEW r \in Requests, RegisterCreate(r)
  PROVE  RoleInv'
<1>1. req \in [Requests -> RequestRow] /\ req[r].op = "register"
  BY TypeParts DEF RegisterCreate, At
<1>2. CASE account # "none"
  <2>1. UNCHANGED <<account, role, row, root, bare, unroled>> /\ Finish(r)
    BY <1>2 DEF RegisterCreate, tokens, ghosts
  <2>2. RolesKept
    BY <1>1, <2>1, FinishPlace DEF RolesKept, Fresh, Exists
  <2> QED  BY <2>2, RolesKeptKeeps
<1>3. CASE account = "none"
  <2>1. /\ account' = "active" /\ UNCHANGED row
        /\ \A s \in Requests : req'[s].op # "login"
    BY <1>1, <1>3, GoToPlace DEF RegisterCreate, RoleInv, tokens, Phases
  <2>2. \A t \in TokenId : Fresh(t)'
    BY <1>3, <2>1 DEF RoleInv, Fresh
  <2> QED  BY <2>1, <2>2 DEF RoleInv, AllBare, AllUnroled, At
<1> QED  BY <1>2, <1>3

\* A token is created for a user who has a role, or in a session that is bare.
LEMMA LoginIssueRole ==
  ASSUME HeirInv, RoleInv, NEW r \in Requests, LoginIssue(r)
  PROVE  RoleInv'
<1>0. req \in [Requests -> RequestRow] /\ TokensOK
  BY TypeParts DEF HeirInv
<1>1. PICK t \in FreshId :
        /\ row' = [row EXCEPT ![t] = "live"] /\ root' = [root EXCEPT ![t] = t]
        /\ req' = [req EXCEPT ![r].phase = "answer", ![r].next = t]
        /\ bare' = IF r \in unroled THEN bare \union {t} ELSE bare
  BY DEF LoginIssue
<1>2. t \in TokenId /\ t \in Tokens /\ At(r, "login", "issue")
  BY FreshIdIsFresh DEF Tokens, LoginIssue
<1>3. UNCHANGED <<account, role, unroled>> /\ account # "none"
  BY <1>2 DEF LoginIssue, users, RoleInv, At
<1>4. ASSUME Exists, role = {} PROVE AllBare' /\ AllUnroled'
  <2>1. AllBare /\ AllUnroled /\ r \in unroled
    BY <1>2, <1>4 DEF RoleInv, AllUnroled
  <2>2. AllBare'
    BY <1>0, <1>1, <1>2, <2>1 DEF AllBare, Fresh, TokensOK
  <2>3. \A s \in Requests : At(s, "login", "issue")' => At(s, "login", "issue")
    BY <1>0, <1>1, <1>2, AnswerEffect DEF At
  <2> QED  BY <2>1, <2>2, <2>3, <1>3 DEF AllUnroled
<1> QED  BY <1>3, <1>4 DEF RoleInv, Exists

LEMMA RefreshIssueRole ==
  ASSUME HeirInv, RoleInv, NEW r \in Requests, RefreshIssue(r)
  PROVE  RoleInv'
<1>0. req \in [Requests -> RequestRow] /\ TokensOK
  BY TypeParts DEF HeirInv
<1>1. PICK t \in FreshId :
        /\ row' = [row EXCEPT ![t] = "live"] /\ root' = [root EXCEPT ![t] = SessionOf(r)]
        /\ req' = [req EXCEPT ![r].phase = "used", ![r].next = t]
  BY DEF RefreshIssue
<1>2. /\ t \in TokenId /\ t \in Tokens
      /\ req[r].op = "refresh" /\ req[r].token \in TokenId /\ ~ Fresh(req[r].token)
  BY FreshIdIsFresh DEF Tokens, RefreshIssue, At, HeirInv, NamesExist
<1>3. UNCHANGED <<account, role, bare, unroled>> /\ account # "none"
  BY <1>2 DEF RefreshIssue, users, RoleInv
<1>4. ASSUME Exists, role = {} PROVE AllBare' /\ AllUnroled'
  <2>1. AllBare /\ AllUnroled
    BY <1>4 DEF RoleInv
  <2>2. AllBare'
    BY <1>0, <1>1, <1>2, <1>3, <2>1 DEF AllBare, Fresh, TokensOK, SessionOf
  <2>3. \A s \in Requests : At(s, "login", "issue")' => At(s, "login", "issue")
    <3>1. "used" \in Phases
      BY DEF Phases
    <3>2. /\ req'[r].phase = "used" /\ req'[r].op = req[r].op
          /\ \A s \in Requests \ {r} : req'[s] = req[s]
      BY <1>0, <1>1, <1>2, <3>1, GoToWithNext
    <3> QED  BY <3>2 DEF At
  <2> QED  BY <2>1, <2>2, <2>3, <1>3 DEF AllUnroled
<1> QED  BY <1>3, <1>4 DEF RoleInv, Exists

LEMMA RoleInvNext == HeirInv /\ RoleInv /\ [SessionNext]_sessionVars => RoleInv'
<1> SUFFICES ASSUME HeirInv, RoleInv, [SessionNext]_sessionVars PROVE RoleInv'
  OBVIOUS
<1>0. SessionTypeOK
  BY DEF HeirInv
<1>1. ASSUME NEW r \in Requests, SessionStep(r) \/ Die(r) PROVE RoleInv'
  BY <1>0, <1>1, RolesKeptSteps, OtherRolesKept, RolesKeptKeeps, RegisterCreateRole,
     LoginIssueRole, RefreshIssueRole
  DEF SessionStep
<1>2. ASSUME NEW r \in Requests, NEW d \in Devices, Send(r, d) PROVE RoleInv'
  BY <1>0, <1>2, OtherRolesKept, RolesKeptKeeps
<1>3. ASSUME NEW t \in TokenId, Expire(t) PROVE RoleInv'
  BY <1>0, <1>3, OtherRolesKept, RolesKeptKeeps
<1>4. CASE Deactivate \/ DeleteDefaultRole \/ CreateDefaultRole
         \/ GainPremium \/ LosePremium \/ UNCHANGED sessionVars
  BY <1>0, <1>4, OtherRolesKept, RolesKeptKeeps
<1> QED  BY <1>1, <1>2, <1>3, <1>4 DEF SessionNext

\* Behind a session is a role, however many registrations and logins die half way
\* or race to repair one another and whenever the role named user goes and comes
\* back: it is missing only where the last one was taken since the session began, by a
\* deletion of the account or of the role or by the end of a subscription, or was
\* not there for the login to give (auth.service.ts, register and login;
\* roles.service.ts, deleteRole; subscriptions.service.ts, revokePremiumRole).
THEOREM SignedInKeepsRole == SessionSpec => []SignedInHasRole
<1>1. SessionInit => RoleInv
  BY DEF SessionInit, RoleInv, Fresh, Exists, NoRequest
<1>2. RoleInv => SignedInHasRole
  BY DEF RoleInv, AllBare, SignedInHasRole, Live, Fresh
<1> QED  BY <1>1, <1>2, RoleInvNext, SessionInvariance, PTL DEF SessionSpec

-----------------------------------------------------------------------------
(* OtpCodes                                                                *)

\* The calls about to write: a row; a wrong guess at code i.
Pending == {c \in Calls : call[c].phase \in {"invalidate", "create"}}
Missing(i) == {c \in Calls : call[c].phase = "miss" /\ call[c].code = i}

CreatedInPast == \A i \in DOMAIN codes : codes[i].created <= clock

\* At most one code is good, and none while a row is about to be created.
OneGood ==
    ~ clashed =>
        /\ \A i, j \in ActiveCodes : i = j
        /\ (\E c \in Calls : call[c].phase = "create") => ActiveCodes = {}

GuessesCounted ==
    \A i \in DOMAIN codes :
        /\ codes[i].wrong = codes[i].attempts
        /\ codes[i].attempts + Cardinality(Missing(i)) < MaxAttempts + Cardinality(Calls)

RequestsCounted ==
    Cardinality(InWindow) + Cardinality(Pending) < RateLimit + Cardinality(Calls)

OtpInv == OtpTypeOK /\ CreatedInPast /\ OneGood /\ GuessesCounted /\ RequestsCounted

-----------------------------------------------------------------------------
(* Cardinalities                                                            *)

LEMMA CallsCount ==
  /\ IsFiniteSet(Calls) /\ Cardinality(Calls) \in Nat
  /\ \A S \in SUBSET Calls :
        IsFiniteSet(S) /\ Cardinality(S) \in Nat /\ Cardinality(S) <= Cardinality(Calls)
<1>1. IsFiniteSet(Calls)
  BY OtpAssumption DEF OtpAssumption
<1> QED  BY <1>1, FS_CardinalityType, FS_Subset

LEMMA IndicesCount ==
  ASSUME NEW s, NEW T, s \in Seq(T), NEW S \in SUBSET DOMAIN s
  PROVE  IsFiniteSet(S) /\ Cardinality(S) \in Nat
<1>1. DOMAIN s = 1 .. Len(s) /\ Len(s) \in Nat
  OBVIOUS
<1>2. IsFiniteSet(1 .. Len(s))
  BY <1>1, FS_Interval
<1> QED  BY <1>1, <1>2, FS_Subset, FS_CardinalityType

LEMMA FewerCount ==
  ASSUME NEW S, IsFiniteSet(S), NEW T \in SUBSET S
  PROVE  Cardinality(T) \in Nat /\ Cardinality(S) \in Nat /\ Cardinality(T) <= Cardinality(S)
BY FS_Subset, FS_CardinalityType

LEMMA OneFewerCount ==
  ASSUME NEW S, IsFiniteSet(S), NEW x \in S, NEW T \in SUBSET (S \ {x})
  PROVE  Cardinality(T) \in Nat /\ Cardinality(S) \in Nat /\ Cardinality(T) + 1 <= Cardinality(S)
<1>1. IsFiniteSet(S \ {x}) /\ Cardinality(S \ {x}) = Cardinality(S) - 1
  BY FS_RemoveElement
<1>2. Cardinality(T) \in Nat /\ Cardinality(T) <= Cardinality(S \ {x})
  BY <1>1, FewerCount
<1> QED  BY <1>1, <1>2, FS_CardinalityType

LEMMA OneMoreCount ==
  ASSUME NEW S, IsFiniteSet(S), NEW x, NEW T \in SUBSET (S \union {x})
  PROVE  Cardinality(T) \in Nat /\ Cardinality(S) \in Nat /\ Cardinality(T) <= Cardinality(S) + 1
<1>1. IsFiniteSet(S \union {x}) /\ Cardinality(S \union {x}) <= Cardinality(S) + 1
      /\ Cardinality(S) \in Nat
  BY FS_AddElement, FS_CardinalityType
<1>2. Cardinality(T) \in Nat /\ Cardinality(T) <= Cardinality(S \union {x})
      /\ Cardinality(S \union {x}) \in Nat
  BY <1>1, FewerCount
<1> QED  BY <1>1, <1>2

-----------------------------------------------------------------------------
(* What the steps keep                                                      *)

LEMMA OtpInvInit == OtpInit => OtpInv
<1> SUFFICES ASSUME OtpInit PROVE OtpInv
  OBVIOUS
<1>1. codes = <<>> /\ DOMAIN codes = {} /\ clock = 0 /\ 0 \in 0 .. MaxClock
  BY OtpAssumption DEF OtpAssumption, OtpInit
<1>2. OtpTypeOK
  <2>1. call \in [Calls -> [phase : {"idle", "invalidate", "create", "exhausted", "accept", "miss"},
                           code : Nat]]
        /\ \A c \in Calls : call[c].phase = "idle"
    BY DEF OtpInit, NoCall, NoCode
  <2>2. codes \in Seq([created : 0 .. MaxClock, used : BOOLEAN, attempts : Nat, wrong : Nat])
    BY <1>1
  <2>3. clashed \in BOOLEAN
    BY DEF OtpInit
  <2> QED  BY <1>1, <2>1, <2>2, <2>3 DEF OtpTypeOK
<1>3. InWindow = {} /\ Pending = {} /\ ActiveCodes = {}
  BY <1>1 DEF OtpInit, InWindow, Pending, ActiveCodes, NoCall
<1>4. RequestsCounted
  BY <1>3, FS_EmptySet, CallsCount, OtpAssumption DEF RequestsCounted, OtpAssumption
<1> QED
  BY <1>1, <1>2, <1>3, <1>4 DEF OtpInv, CreatedInPast, OneGood, GuessesCounted

CodeRow == [created : 0 .. MaxClock, used : BOOLEAN, attempts : Nat, wrong : Nat]
CallRow == [phase : {"idle", "invalidate", "create", "exhausted", "accept", "miss"}, code : Nat]
HasCode(c) == call[c].phase \in {"exhausted", "accept", "miss"}

\* Of finitely many numbers one is the largest, and CHOOSE finds it.
LEMMA NewestIsOne ==
  ASSUME NEW n \in Nat, NEW S \in SUBSET (1 .. n), S # {}
  PROVE  Newest(S) \in S
<1> DEFINE less == {ss \in Nat \X Nat : ss[1] < ss[2]}
           gap(i) == n - i
           gaps == {gap(i) : i \in S}
<1>1. IsWellFoundedOn(less, Nat)
  BY NatLessThanWellFounded DEF OpToRel
<1>2. gaps \subseteq Nat /\ gaps # {}
  <2>1. \A i \in S : gap(i) \in Nat
    OBVIOUS
  <2> HIDE DEF gap
  <2> QED  BY <2>1
<1>3. PICK x \in gaps : \A y \in gaps : ~ <<y, x>> \in less
  BY <1>1, <1>2, WFMin
<1>4. PICK i \in S : x = gap(i)
  OBVIOUS
<1>5. \A j \in S : j <= i
  <2> SUFFICES ASSUME NEW j \in S PROVE j <= i
    OBVIOUS
  <2>1. gap(j) \in gaps /\ gap(j) \in Nat /\ x \in Nat
    BY <1>2
  <2>2. ~ gap(j) < x
    BY <1>3, <2>1
  <2> QED  BY <2>2, <1>4
<1> QED  BY <1>5 DEF Newest

\* A call's code keeps its row: rows are only appended.
LEMMA CallsKeepTheirCode ==
  ASSUME OtpTypeOK, NEW c \in Calls, NEW k \in CallRow,
         DOMAIN codes \subseteq DOMAIN codes',
         k.phase \in {"exhausted", "accept", "miss"} => k.code \in DOMAIN codes,
         call' = [call EXCEPT ![c] = k]
  PROVE  /\ call' \in [Calls -> CallRow]
         /\ \A d \in Calls : HasCode(d)' => call'[d].code \in DOMAIN codes'
BY DEF OtpTypeOK, CallRow, HasCode

\* Replacing rows by rows makes rows.
LEMMA RowsReplaced ==
  ASSUME NEW s \in Seq(CodeRow), NEW new \in [DOMAIN s -> CodeRow]
  PROVE  new \in Seq(CodeRow) /\ DOMAIN new = DOMAIN s
<1>1. DOMAIN s = 1 .. Len(s) /\ Len(s) \in Nat
  OBVIOUS
<1> QED  BY <1>1

\* What a step does to the row of one code.
LEMMA RowWith ==
  ASSUME NEW r \in CodeRow, NEW a \in Nat, NEW w \in Nat
  PROVE  [[r EXCEPT !.attempts = a] EXCEPT !.wrong = w]
            = [created |-> r.created, used |-> r.used, attempts |-> a, wrong |-> w]
<1> DEFINE mid == [created |-> r.created, used |-> r.used, attempts |-> a, wrong |-> r.wrong]
<1>1. [r EXCEPT !.attempts = a] = mid
  BY DEF CodeRow
<1>2. mid \in CodeRow /\ mid.created = r.created /\ mid.used = r.used /\ mid.attempts = a
  BY DEF CodeRow
<1> HIDE DEF mid
<1>3. [mid EXCEPT !.wrong = w]
        = [created |-> mid.created, used |-> mid.used, attempts |-> mid.attempts, wrong |-> w]
  BY <1>2 DEF CodeRow
<1> QED  BY <1>1, <1>2, <1>3

MissedRow(r) == [created |-> r.created, used |-> r.used, attempts |-> r.attempts + 1,
                 wrong |-> r.wrong + 1]

LEMMA MissIs ==
  ASSUME OtpTypeOK, NEW c \in Calls, Miss(c)
  PROVE  /\ call[c].code \in DOMAIN codes /\ codes[call[c].code] \in CodeRow
         /\ codes' = [codes EXCEPT ![call[c].code] = MissedRow(codes[call[c].code])]
<1> DEFINE k == call[c].code
<1>1. codes \in Seq(CodeRow) /\ k \in DOMAIN codes
  BY DEF Miss, OtpTypeOK, CodeRow
<1>2. codes[k] \in CodeRow
  BY <1>1
<1>3. codes[k].attempts + 1 \in Nat /\ codes[k].wrong + 1 \in Nat
  BY <1>2 DEF CodeRow
<1>4. codes' = [codes EXCEPT ![k] = [[codes[k] EXCEPT !.attempts = codes[k].attempts + 1]
                                        EXCEPT !.wrong = codes[k].wrong + 1]]
  BY <1>1, <1>2 DEF Miss, CodeRow
<1>5. [[codes[k] EXCEPT !.attempts = codes[k].attempts + 1] EXCEPT !.wrong = codes[k].wrong + 1]
        = MissedRow(codes[k])
  <2> DEFINE r == codes[k]
             x == r.attempts + 1
             y == r.wrong + 1
  <2>1. r \in CodeRow /\ x \in Nat /\ y \in Nat
    BY <1>2, <1>3
  <2> HIDE DEF r, x, y
  <2>2. [[r EXCEPT !.attempts = x] EXCEPT !.wrong = y]
          = [created |-> r.created, used |-> r.used, attempts |-> x, wrong |-> y]
    BY <2>1, RowWith
  <2> QED  BY <2>2, Zenon DEF r, x, y, MissedRow
<1> QED  BY <1>1, <1>2, <1>4, <1>5, Zenon

LEMMA OtpTypesKept == OtpTypeOK /\ [OtpNext]_otpVars => OtpTypeOK'
<1> SUFFICES ASSUME OtpTypeOK, [OtpNext]_otpVars PROVE OtpTypeOK'
  OBVIOUS
<1>0. /\ clock \in 0 .. MaxClock /\ codes \in Seq(CodeRow) /\ call \in [Calls -> CallRow]
      /\ \A c \in Calls : HasCode(c) => call[c].code \in DOMAIN codes
      /\ clashed \in BOOLEAN
      /\ MaxClock \in Nat /\ NoCall \in CallRow /\ NoCall.phase = "idle"
  BY OtpAssumption DEF OtpAssumption, OtpTypeOK, CodeRow, CallRow, HasCode, NoCall, NoCode
<1>1. ASSUME NEW c \in Calls, CheckRateLimit(c) PROVE OtpTypeOK'
  BY <1>1, <1>0 DEF CheckRateLimit, OtpGoTo, OtpTypeOK
<1>2. ASSUME NEW c \in Calls, Invalidate(c) PROVE OtpTypeOK'
  <2>1. codes' \in Seq(CodeRow) /\ DOMAIN codes' = DOMAIN codes
    <3>1. \A i \in DOMAIN codes : codes[i] \in CodeRow
      BY <1>0
    <3>2. codes' \in [DOMAIN codes -> CodeRow]
      BY <1>2, <3>1 DEF Invalidate, CodeRow
    <3> QED  BY <1>0, <3>2, RowsReplaced
  <2> QED  BY <1>2, <1>0, <2>1 DEF Invalidate, OtpGoTo, OtpTypeOK, CodeRow, CallRow, HasCode
<1>3. ASSUME NEW c \in Calls, CreateCode(c) PROVE OtpTypeOK'
  <2>1. [created |-> clock, used |-> FALSE, attempts |-> 0, wrong |-> 0] \in CodeRow
    BY <1>0 DEF CodeRow
  <2>2. codes' \in Seq(CodeRow) /\ DOMAIN codes \subseteq DOMAIN codes'
    BY <1>3, <1>0, <2>1 DEF CreateCode
  <2>3. call' = [call EXCEPT ![c] = NoCall] /\ clock' = clock /\ clashed' \in BOOLEAN
    BY <1>3, <1>0 DEF CreateCode, Return
  <2> QED  BY <1>0, <2>2, <2>3, CallsKeepTheirCode DEF OtpTypeOK, CodeRow, CallRow, HasCode
<1>4. ASSUME NEW c \in Calls, FindCode(c) PROVE OtpTypeOK'
  <2>1. Newest(ActiveCodes) \in DOMAIN codes
    <3>1. DOMAIN codes = 1 .. Len(codes) /\ Len(codes) \in Nat
      BY <1>0
    <3>2. ActiveCodes \in SUBSET (1 .. Len(codes)) /\ ActiveCodes # {}
      BY <1>4, <3>1 DEF FindCode, ActiveCodes
    <3> QED  BY <3>1, <3>2, NewestIsOne
  <2> QED  BY <1>4, <1>0, <2>1 DEF FindCode, OtpTypeOK
<1>5. ASSUME NEW c \in Calls, UseUp(c) PROVE OtpTypeOK'
  <2>1. codes' \in Seq(CodeRow) /\ DOMAIN codes' = DOMAIN codes
    <3>1. \A i \in DOMAIN codes : codes[i] \in CodeRow
      BY <1>0
    <3>2. codes' \in [DOMAIN codes -> CodeRow]
      BY <1>5, <3>1 DEF UseUp, CodeRow
    <3> QED  BY <1>0, <3>2, RowsReplaced
  <2>2. call' = [call EXCEPT ![c] = NoCall] /\ UNCHANGED <<clock, clashed>>
    BY <1>5 DEF UseUp, Return
  <2> QED  BY <1>0, <2>1, <2>2, CallsKeepTheirCode DEF OtpTypeOK, CodeRow, CallRow, HasCode
<1>6. ASSUME NEW c \in Calls, Miss(c) PROVE OtpTypeOK'
  <2>1. codes' \in Seq(CodeRow) /\ DOMAIN codes' = DOMAIN codes
    <3>1. \A i \in DOMAIN codes : codes[i] \in CodeRow
      BY <1>0
    <3>2. codes' \in [DOMAIN codes -> CodeRow]
      <4>1. /\ call[c].code \in DOMAIN codes
            /\ codes' = [codes EXCEPT ![call[c].code] = MissedRow(codes[call[c].code])]
        BY <1>6, MissIs
      <4>2. MissedRow(codes[call[c].code]) \in CodeRow
        BY <4>1, <3>1 DEF MissedRow, CodeRow
      <4> QED  BY <1>0, <3>1, <4>1, <4>2
    <3> QED  BY <1>0, <3>2, RowsReplaced
  <2>2. call' = [call EXCEPT ![c] = NoCall] /\ UNCHANGED <<clock, clashed>>
    BY <1>6 DEF Miss, Return
  <2> QED  BY <1>0, <2>1, <2>2, CallsKeepTheirCode DEF OtpTypeOK, CodeRow, CallRow, HasCode
<1>7. ASSUME NEW c \in Calls, OtpDie(c) PROVE OtpTypeOK'
  BY <1>7, <1>0, CallsKeepTheirCode DEF OtpDie, Return, OtpTypeOK, CodeRow, CallRow, HasCode
<1>8. CASE OtpTick
  BY <1>8, <1>0 DEF OtpTick, OtpTypeOK
<1>9. CASE UNCHANGED otpVars
  BY <1>9 DEF otpVars, OtpTypeOK
<1> QED  BY <1>1, <1>2, <1>3, <1>4, <1>5, <1>6, <1>7, <1>8, <1>9 DEF OtpNext, OtpStep

\* Steps that leave the times of the rows alone leave the window alone.
LEMMA SameWindow ==
  ASSUME DOMAIN codes' = DOMAIN codes, clock' = clock,
         \A i \in DOMAIN codes : codes'[i].created = codes[i].created
  PROVE  InWindow' = InWindow
BY DEF InWindow

\* A call joins those about to write a row only when the window has room.
LEMMA RequestsKept == OtpInv /\ [OtpNext]_otpVars => RequestsCounted'
<1> SUFFICES ASSUME OtpInv, [OtpNext]_otpVars PROVE RequestsCounted'
  OBVIOUS
<1>0. /\ codes \in Seq(CodeRow) /\ call \in [Calls -> CallRow] /\ clock \in Nat
      /\ \A i \in DOMAIN codes : codes[i] \in CodeRow
      /\ RateLimit \in Nat /\ RateWindow \in Nat
  <2>1. codes \in Seq(CodeRow) /\ call \in [Calls -> CallRow] /\ clock \in Nat
    BY OtpAssumption DEF OtpInv, OtpTypeOK, OtpAssumption, CodeRow, CallRow
  <2> QED  BY <2>1, OtpAssumption DEF OtpAssumption
<1>a. IsFiniteSet(InWindow) /\ Cardinality(InWindow) \in Nat
  BY <1>0, IndicesCount DEF InWindow
<1>b. IsFiniteSet(Pending) /\ Cardinality(Pending) \in Nat /\ Cardinality(Calls) \in Nat
  BY CallsCount DEF Pending
<1>c. Cardinality(InWindow) + Cardinality(Pending) < RateLimit + Cardinality(Calls)
  BY DEF OtpInv, RequestsCounted
<1>d. ASSUME InWindow' \subseteq InWindow, Pending' \subseteq Pending PROVE RequestsCounted'
  <2>1. /\ Cardinality(InWindow') \in Nat /\ Cardinality(InWindow') <= Cardinality(InWindow)
        /\ Cardinality(Pending') \in Nat /\ Cardinality(Pending') <= Cardinality(Pending)
    BY <1>a, <1>b, <1>d, FewerCount
  <2> QED  BY <1>0, <1>a, <1>b, <1>c, <2>1 DEF RequestsCounted
<1>1. ASSUME NEW c \in Calls, CheckRateLimit(c) PROVE RequestsCounted'
  <2>1. InWindow' = InWindow /\ Cardinality(InWindow) < RateLimit
    BY <1>1 DEF CheckRateLimit, InWindow
  <2>2. Cardinality(Pending') \in Nat /\ Cardinality(Pending') <= Cardinality(Calls)
    BY CallsCount DEF Pending
  <2> QED  BY <1>0, <1>a, <1>b, <2>1, <2>2 DEF RequestsCounted
<1>2. ASSUME NEW c \in Calls, Invalidate(c) PROVE RequestsCounted'
  <2>1. InWindow' = InWindow
    BY <1>2, <1>0, SameWindow DEF Invalidate, CodeRow
  <2>2. Pending' = Pending
    BY <1>2, <1>0 DEF Invalidate, OtpGoTo, Pending, CallRow
  <2> QED  BY <2>1, <2>2, <1>d
<1>3. ASSUME NEW c \in Calls, CreateCode(c) PROVE RequestsCounted'
  <2>1. InWindow' \subseteq InWindow \union {Len(codes) + 1}
    BY <1>3, <1>0 DEF CreateCode, InWindow, CodeRow
  <2>2. c \in Pending /\ Pending' \subseteq Pending \ {c}
    BY <1>3, <1>0 DEF CreateCode, Return, Pending, NoCall
  <2>3. Cardinality(InWindow') \in Nat /\ Cardinality(InWindow') <= Cardinality(InWindow) + 1
    BY <1>a, <2>1, OneMoreCount
  <2>4. Cardinality(Pending') \in Nat /\ Cardinality(Pending') + 1 <= Cardinality(Pending)
    BY <1>b, <2>2, OneFewerCount
  <2> QED  BY <1>0, <1>a, <1>b, <1>c, <2>3, <2>4 DEF RequestsCounted
<1>4. ASSUME NEW c \in Calls, FindCode(c) PROVE RequestsCounted'
  <2>1. InWindow' = InWindow
    BY <1>4 DEF FindCode, InWindow
  <2>2. Pending' \subseteq Pending
    BY <1>4, <1>0 DEF FindCode, Pending
  <2> QED  BY <2>1, <2>2, <1>d
<1>5. ASSUME NEW c \in Calls, UseUp(c) PROVE RequestsCounted'
  <2>1. InWindow' = InWindow
    BY <1>5, <1>0, SameWindow DEF UseUp, CodeRow
  <2>2. Pending' \subseteq Pending
    BY <1>5, <1>0 DEF UseUp, Return, Pending, NoCall
  <2> QED  BY <2>1, <2>2, <1>d
<1>6. ASSUME NEW c \in Calls, Miss(c) PROVE RequestsCounted'
  <2>1. InWindow' = InWindow
    BY <1>6, <1>0, SameWindow, MissIs DEF Miss, MissedRow, OtpInv
  <2>2. Pending' \subseteq Pending
    BY <1>6, <1>0 DEF Miss, Return, Pending, NoCall
  <2> QED  BY <2>1, <2>2, <1>d
<1>7. ASSUME NEW c \in Calls, OtpDie(c) PROVE RequestsCounted'
  <2>1. InWindow' = InWindow
    BY <1>7 DEF OtpDie, InWindow
  <2>2. Pending' \subseteq Pending
    BY <1>7, <1>0 DEF OtpDie, Return, Pending, NoCall
  <2> QED  BY <2>1, <2>2, <1>d
<1>8. CASE OtpTick
  <2>1. InWindow' \subseteq InWindow
    BY <1>8, <1>0 DEF OtpTick, InWindow, CodeRow
  <2>2. Pending' = Pending
    BY <1>8 DEF OtpTick, Pending
  <2> QED  BY <2>1, <2>2, <1>d
<1>9. CASE UNCHANGED otpVars
  <2>1. InWindow' = InWindow /\ Pending' = Pending
    BY <1>9 DEF otpVars, InWindow, Pending
  <2> QED  BY <2>1, <1>d
<1> QED  BY <1>1, <1>2, <1>3, <1>4, <1>5, <1>6, <1>7, <1>8, <1>9 DEF OtpNext, OtpStep

\* A guess joins those to be counted only when the code has attempts left.
LEMMA GuessesKept == OtpInv /\ [OtpNext]_otpVars => GuessesCounted'
<1> SUFFICES ASSUME OtpInv, [OtpNext]_otpVars PROVE GuessesCounted'
  OBVIOUS
<1>0. /\ codes \in Seq(CodeRow) /\ call \in [Calls -> CallRow] /\ MaxAttempts \in Nat \ {0}
      /\ \A i \in DOMAIN codes : codes[i] \in CodeRow
      /\ \A c \in Calls : HasCode(c) => call[c].code \in DOMAIN codes
  <2>1. codes \in Seq(CodeRow) /\ call \in [Calls -> CallRow]
        /\ \A c \in Calls : HasCode(c) => call[c].code \in DOMAIN codes
    BY DEF OtpInv, OtpTypeOK, CodeRow, CallRow, HasCode
  <2> QED  BY <2>1, OtpAssumption DEF OtpAssumption
<1>a. \A i : /\ IsFiniteSet(Missing(i)) /\ Cardinality(Missing(i)) \in Nat
             /\ Cardinality(Missing(i)') \in Nat /\ Cardinality(Missing(i)') <= Cardinality(Calls)
  <2>1. \A i : Missing(i) \subseteq Calls /\ Missing(i)' \subseteq Calls
    BY DEF Missing
  <2> QED  BY <2>1, CallsCount
<1>b. Cardinality(Calls) \in Nat
  BY CallsCount
<1>c. \A i \in DOMAIN codes :
        /\ codes[i].attempts \in Nat /\ codes[i].wrong = codes[i].attempts
        /\ codes[i].attempts + Cardinality(Missing(i)) < MaxAttempts + Cardinality(Calls)
  BY <1>0 DEF OtpInv, GuessesCounted, CodeRow
<1> DEFINE Counted(i) ==
              /\ codes'[i].wrong = codes'[i].attempts
              /\ codes'[i].attempts + Cardinality(Missing(i)') < MaxAttempts + Cardinality(Calls)
<1>d. ASSUME NEW i \in DOMAIN codes, codes'[i].attempts = codes[i].attempts,
             codes'[i].wrong = codes[i].wrong, Missing(i)' \subseteq Missing(i)
      PROVE  Counted(i)
  <2>1. Cardinality(Missing(i)') <= Cardinality(Missing(i))
    BY <1>a, <1>d, FewerCount
  <2> QED  BY <1>0, <1>a, <1>b, <1>c, <1>d, <2>1
<1>e. ASSUME \A i \in DOMAIN codes' : Counted(i) PROVE GuessesCounted'
  BY <1>e DEF GuessesCounted
<1> HIDE DEF Counted
<1>f. ASSUME DOMAIN codes' = DOMAIN codes, \A i : Missing(i)' \subseteq Missing(i),
             \A i \in DOMAIN codes : /\ codes'[i].attempts = codes[i].attempts
                                     /\ codes'[i].wrong = codes[i].wrong
      PROVE  GuessesCounted'
  BY <1>d, <1>e, <1>f
<1>1. ASSUME NEW c \in Calls, CheckRateLimit(c) PROVE GuessesCounted'
  <2>1. \A i : Missing(i)' \subseteq Missing(i)
    BY <1>1, <1>0 DEF CheckRateLimit, OtpGoTo, Missing, CallRow
  <2>2. UNCHANGED codes
    BY <1>1 DEF CheckRateLimit
  <2> QED  BY <2>1, <2>2, <1>f
<1>2. ASSUME NEW c \in Calls, Invalidate(c) PROVE GuessesCounted'
  <2>1. \A i : Missing(i)' \subseteq Missing(i)
    BY <1>2, <1>0 DEF Invalidate, OtpGoTo, Missing, CallRow
  <2>2. DOMAIN codes' = DOMAIN codes
        /\ \A i \in DOMAIN codes : codes'[i].attempts = codes[i].attempts
                                  /\ codes'[i].wrong = codes[i].wrong
    BY <1>2, <1>0 DEF Invalidate, CodeRow
  <2> QED  BY <2>1, <2>2, <1>f
<1>3. ASSUME NEW c \in Calls, CreateCode(c) PROVE GuessesCounted'
  <2>0. PICK n : n = Len(codes) + 1
    OBVIOUS
  <2>1. /\ DOMAIN codes' = DOMAIN codes \union {n} /\ n \notin DOMAIN codes
        /\ codes'[n].attempts = 0 /\ codes'[n].wrong = 0
        /\ \A i \in DOMAIN codes : codes'[i] = codes[i]
    BY <1>3, <1>0, <2>0 DEF CreateCode
  <2>2. \A i : Missing(i)' \subseteq Missing(i)
    BY <1>3, <1>0 DEF CreateCode, Return, NoCall, Missing
  <2>3. Missing(n) = {}
    BY <1>0, <2>1 DEF Missing, HasCode
  <2>4. Cardinality(Missing(n)') = 0
    <3>1. Missing(n)' = {}
      BY <2>2, <2>3
    <3> QED  BY <3>1, FS_EmptySet
  <2>5. Counted(n)
    BY <1>0, <1>b, <2>1, <2>4 DEF Counted
  <2> QED  BY <2>1, <2>2, <2>5, <1>d, <1>e
<1>4. ASSUME NEW c \in Calls, FindCode(c) PROVE GuessesCounted'
  <2>1. PICK k, phase :
            /\ call' = [call EXCEPT ![c] = [code |-> k, phase |-> phase]]
            /\ phase = "miss" => ~ codes[k].attempts >= MaxAttempts
    <3>1. PICK answer \in {"accept", "miss"} :
            call' = [call EXCEPT ![c] = [code |-> Newest(ActiveCodes),
                phase |-> IF codes[Newest(ActiveCodes)].attempts >= MaxAttempts
                          THEN "exhausted" ELSE answer]]
      BY <1>4 DEF FindCode
    <3> DEFINE k0 == Newest(ActiveCodes)
               ph == IF codes[k0].attempts >= MaxAttempts THEN "exhausted" ELSE answer
    <3>2. call' = [call EXCEPT ![c] = [code |-> k0, phase |-> ph]]
      BY <3>1
    <3>3. ph = "miss" => ~ codes[k0].attempts >= MaxAttempts
      OBVIOUS
    <3> HIDE DEF k0, ph
    <3> QED  BY <3>2, <3>3
  <2>2. codes' = codes
    BY <1>4 DEF FindCode
  <2> SUFFICES ASSUME NEW i \in DOMAIN codes PROVE Counted(i)
    BY <2>2, <1>e
  <2>3. CASE phase = "miss" /\ i = k
    BY <2>1, <2>2, <2>3, <1>0, <1>a, <1>b, <1>c DEF Counted
  <2>4. CASE ~ (phase = "miss" /\ i = k)
    <3>1. Missing(i)' \subseteq Missing(i)
      BY <2>1, <2>4, <1>0 DEF Missing
    <3> QED  BY <3>1, <2>2, <1>d
  <2> QED  BY <2>3, <2>4
<1>5. ASSUME NEW c \in Calls, UseUp(c) PROVE GuessesCounted'
  <2>1. \A i : Missing(i)' \subseteq Missing(i)
    BY <1>5, <1>0 DEF UseUp, Return, NoCall, Missing
  <2>2. DOMAIN codes' = DOMAIN codes
        /\ \A i \in DOMAIN codes : codes'[i].attempts = codes[i].attempts
                                  /\ codes'[i].wrong = codes[i].wrong
    BY <1>5, <1>0 DEF UseUp, CodeRow
  <2> QED  BY <2>1, <2>2, <1>f
<1>6. ASSUME NEW c \in Calls, Miss(c) PROVE GuessesCounted'
  <2>0. PICK k : k = call[c].code
    OBVIOUS
  <2>1. /\ k \in DOMAIN codes
        /\ codes' = [codes EXCEPT ![k] = MissedRow(codes[k])]
    BY <1>6, <2>0, MissIs DEF OtpInv
  <2>2. /\ DOMAIN codes' = DOMAIN codes
        /\ codes'[k].attempts = codes[k].attempts + 1 /\ codes'[k].wrong = codes[k].wrong + 1
        /\ \A i \in DOMAIN codes : i # k => codes'[i] = codes[i]
    BY <2>1, <1>0 DEF MissedRow
  <2>3. c \in Missing(k) /\ Missing(k)' \subseteq Missing(k) \ {c}
    <3>1. call[c].phase = "miss" /\ call' = [call EXCEPT ![c] = NoCall]
      BY <1>6 DEF Miss, Return
    <3> QED  BY <3>1, <1>0, <2>0 DEF NoCall, Missing
  <2>4. \A i : Missing(i)' \subseteq Missing(i)
    BY <1>6, <1>0 DEF Miss, Return, NoCall, Missing
  <2>5. Cardinality(Missing(k)') + 1 <= Cardinality(Missing(k))
    BY <1>a, <2>3, OneFewerCount
  <2>6. Counted(k)
    BY <1>0, <1>a, <1>b, <1>c, <2>1, <2>2, <2>5 DEF Counted
  <2> QED  BY <2>2, <2>4, <2>6, <1>d, <1>e
<1>7. ASSUME NEW c \in Calls, OtpDie(c) PROVE GuessesCounted'
  <2>1. \A i : Missing(i)' \subseteq Missing(i)
    BY <1>7, <1>0 DEF OtpDie, Return, NoCall, Missing
  <2>2. UNCHANGED codes
    BY <1>7 DEF OtpDie
  <2> QED  BY <2>1, <2>2, <1>f
<1>8. CASE OtpTick \/ UNCHANGED otpVars
  <2>1. UNCHANGED <<codes, call>>
    BY <1>8 DEF OtpTick, otpVars
  <2>2. \A i : Missing(i)' \subseteq Missing(i)
    BY <2>1 DEF Missing
  <2> QED  BY <2>1, <2>2, <1>f
<1> QED  BY <1>1, <1>2, <1>3, <1>4, <1>5, <1>6, <1>7, <1>8 DEF OtpNext, OtpStep

\* Invalidation leaves no good code, and a row is created after it; only two
\* requests that both stand between the two can leave two good codes.
LEMMA OneGoodKept == OtpInv /\ [OtpNext]_otpVars => OneGood' /\ CreatedInPast'
<1> SUFFICES ASSUME OtpInv, [OtpNext]_otpVars PROVE OneGood' /\ CreatedInPast'
  OBVIOUS
<1>0. /\ codes \in Seq(CodeRow) /\ call \in [Calls -> CallRow] /\ clock \in Nat
      /\ \A i \in DOMAIN codes : codes[i] \in CodeRow /\ codes[i].created <= clock
      /\ clashed \in BOOLEAN
  <2>1. codes \in Seq(CodeRow) /\ call \in [Calls -> CallRow] /\ clock \in Nat
        /\ clashed \in BOOLEAN
    BY OtpAssumption DEF OtpInv, OtpTypeOK, OtpAssumption, CodeRow, CallRow
  <2> QED  BY <2>1 DEF OtpInv, CreatedInPast
<1> DEFINE Creating == {c \in Calls : call[c].phase = "create"}
<1>a. ASSUME ActiveCodes' \subseteq ActiveCodes, Creating' \subseteq Creating, clashed' = clashed
      PROVE  OneGood'
  BY <1>a DEF OtpInv, OneGood
<1>1. ASSUME NEW c \in Calls, CheckRateLimit(c) PROVE OneGood' /\ CreatedInPast'
  <2>1. UNCHANGED <<codes, clock, clashed>>
    BY <1>1 DEF CheckRateLimit
  <2>2. Creating' \subseteq Creating
    BY <1>1, <1>0 DEF CheckRateLimit, OtpGoTo, CallRow
  <2> QED  BY <2>1, <2>2, <1>0, <1>a DEF ActiveCodes, CreatedInPast
<1>2. ASSUME NEW c \in Calls, Invalidate(c) PROVE OneGood' /\ CreatedInPast'
  <2>1. ActiveCodes' = {}
    BY <1>2, <1>0 DEF Invalidate, ActiveCodes, CodeRow
  <2>2. CreatedInPast'
    BY <1>2, <1>0 DEF Invalidate, CreatedInPast, CodeRow
  <2> QED  BY <2>1, <2>2 DEF OneGood
<1>3. ASSUME NEW c \in Calls, CreateCode(c) PROVE OneGood' /\ CreatedInPast'
  <2> DEFINE n == Len(codes) + 1
  <2>1. /\ DOMAIN codes' = DOMAIN codes \union {n} /\ codes'[n].created = clock
        /\ \A i \in DOMAIN codes : codes'[i] = codes[i]
        /\ clock' = clock
    BY <1>3, <1>0 DEF CreateCode
  <2>2. ActiveCodes' \subseteq ActiveCodes \union {n}
    BY <2>1 DEF ActiveCodes
  <2>3. CreatedInPast'
    BY <2>1, <1>0 DEF CreatedInPast
  <2>4. ASSUME ~ clashed' PROVE ActiveCodes = {} /\ Creating' = {}
    <3>1. ~ clashed /\ c \in Creating /\ \A other \in Calls \ {c} : other \notin Creating
      BY <1>3, <2>4 DEF CreateCode
    <3>2. ActiveCodes = {}
      BY <3>1 DEF OtpInv, OneGood
    <3>3. Creating' = {}
      BY <1>3, <3>1, <1>0 DEF CreateCode, Return, NoCall
    <3> QED  BY <3>2, <3>3
  <2> QED  BY <2>2, <2>3, <2>4 DEF OneGood
<1>4. ASSUME NEW c \in Calls, FindCode(c) PROVE OneGood' /\ CreatedInPast'
  <2>1. UNCHANGED <<codes, clock, clashed>>
    BY <1>4 DEF FindCode
  <2>2. Creating' \subseteq Creating
    BY <1>4, <1>0 DEF FindCode
  <2> QED  BY <2>1, <2>2, <1>0, <1>a DEF ActiveCodes, CreatedInPast
<1>5. ASSUME NEW c \in Calls, UseUp(c) PROVE OneGood' /\ CreatedInPast'
  <2>1. UNCHANGED <<clock, clashed>> /\ Creating' \subseteq Creating
    BY <1>5, <1>0 DEF UseUp, Return, NoCall
  <2>2. ActiveCodes' \subseteq ActiveCodes /\ CreatedInPast'
    BY <1>5, <1>0 DEF UseUp, ActiveCodes, CreatedInPast, CodeRow
  <2> QED  BY <2>1, <2>2, <1>a
<1>6. ASSUME NEW c \in Calls, Miss(c) PROVE OneGood' /\ CreatedInPast'
  <2>1. UNCHANGED <<clock, clashed>> /\ Creating' \subseteq Creating
    BY <1>6, <1>0 DEF Miss, Return, NoCall
  <2>2. /\ call[c].code \in DOMAIN codes
        /\ codes' = [codes EXCEPT ![call[c].code] = MissedRow(codes[call[c].code])]
    BY <1>6, MissIs DEF OtpInv
  <2>3. ActiveCodes' \subseteq ActiveCodes /\ CreatedInPast'
    BY <2>1, <2>2, <1>0 DEF MissedRow, ActiveCodes, CreatedInPast
  <2> QED  BY <2>1, <2>3, <1>a
<1>7. ASSUME NEW c \in Calls, OtpDie(c) PROVE OneGood' /\ CreatedInPast'
  <2>1. UNCHANGED <<codes, clock, clashed>>
    BY <1>7 DEF OtpDie
  <2>2. Creating' \subseteq Creating
    BY <1>7, <1>0 DEF OtpDie, Return, NoCall
  <2> QED  BY <2>1, <2>2, <1>0, <1>a DEF ActiveCodes, CreatedInPast
<1>8. CASE OtpTick
  <2>1. ActiveCodes' = {} /\ CreatedInPast'
    BY <1>8, <1>0 DEF OtpTick, ActiveCodes, CreatedInPast, CodeRow
  <2> QED  BY <2>1 DEF OneGood
<1>9. CASE UNCHANGED otpVars
  BY <1>9, <1>0, <1>a DEF otpVars, ActiveCodes, CreatedInPast
<1> QED  BY <1>1, <1>2, <1>3, <1>4, <1>5, <1>6, <1>7, <1>8, <1>9 DEF OtpNext, OtpStep

-----------------------------------------------------------------------------
\* The inductive invariant of otp.service.ts: types, one good code, and what is
\* written counted together with what has passed its check.
THEOREM OtpInvariance == OtpSpec => []OtpInv
<1>1. OtpInv /\ [OtpNext]_otpVars => OtpInv'
  BY OtpTypesKept, RequestsKept, GuessesKept, OneGoodKept DEF OtpInv
<1> QED  BY <1>1, OtpInvInit, PTL DEF OtpSpec

LEMMA OtpInvLimits == OtpInv => CodesLimited
<1> SUFFICES ASSUME OtpInv PROVE CodesLimited
  OBVIOUS
<1>0. /\ codes \in Seq(CodeRow) /\ MaxAttempts \in Nat /\ RateLimit \in Nat
      /\ \A i \in DOMAIN codes : codes[i] \in CodeRow
  <2>1. codes \in Seq(CodeRow)
    BY DEF OtpInv, OtpTypeOK, CodeRow
  <2> QED  BY <2>1, OtpAssumption DEF OtpAssumption
<1>1. ASSUME ~ clashed PROVE Cardinality(ActiveCodes) <= 1
  <2>1. CASE ActiveCodes = {}
    BY <2>1, FS_EmptySet
  <2>2. CASE ActiveCodes # {}
    <3>1. PICK i \in ActiveCodes : TRUE
      BY <2>2
    <3>2. ActiveCodes = {i}
      BY <1>1, <3>1 DEF OtpInv, OneGood
    <3> QED  BY <3>2, FS_Singleton
  <2> QED  BY <2>1, <2>2
<1>2. ASSUME NEW i \in DOMAIN codes PROVE codes[i].wrong < MaxAttempts + Cardinality(Calls)
  <2>1. /\ codes[i].wrong = codes[i].attempts /\ codes[i].attempts \in Nat
        /\ codes[i].attempts + Cardinality(Missing(i)) < MaxAttempts + Cardinality(Calls)
    BY <1>0 DEF OtpInv, GuessesCounted, CodeRow
  <2>2. Cardinality(Missing(i)) \in Nat /\ Cardinality(Calls) \in Nat
    BY CallsCount DEF Missing
  <2> QED  BY <1>0, <2>1, <2>2
<1>3. Cardinality(InWindow) < RateLimit + Cardinality(Calls)
  <2>1. Cardinality(InWindow) \in Nat
    BY <1>0, IndicesCount DEF InWindow
  <2>2. Cardinality(Pending) \in Nat /\ Cardinality(Calls) \in Nat
    BY CallsCount DEF Pending
  <2> QED  BY <1>0, <2>1, <2>2 DEF OtpInv, RequestsCounted
<1> QED  BY <1>1, <1>2, <1>3 DEF CodesLimited

\* However many calls overlap and die: one good code unless two requests stood
\* between invalidating and creating, at most MaxAttempts plus calls minus one
\* wrong guesses per code, at most RateLimit plus calls minus one codes per window.
THEOREM CodesStayLimited == OtpSpec => []CodesLimited
BY OtpInvariance, OtpInvLimits, PTL
=============================================================================
