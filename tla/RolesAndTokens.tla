---------------------------- MODULE RolesAndTokens ----------------------------
(***************************************************************************)
(* The roles, their permissions, and the access tokens that carry both:      *)
(* roles.service.ts, permissions.service.ts, roles.guard.ts, and what login   *)
(* and refresh of auth.service.ts read for the claims of one person.  A token *)
(* is believed until it expires; the tables it was made from change under it, *)
(* by requests of an administrator, who is let in by a token himself.         *)
(***************************************************************************)
EXTENDS Naturals, FiniteSets

CONSTANTS
    RoleIds, RoleNames,     \* "admin" and "user" among the names
    RightIds, RightNames,   \* permissions, "*" among the names
    Assigners,              \* assignPermissions requests in flight
    TokenLife,              \* ticks; a request lasts less than two
    MaxRoleEdits            \* bound: changes of roles, permissions, memberships

ASSUME AccessAssumption ==
    /\ {"admin", "user"} \subseteq RoleNames /\ {"*", "read"} \subseteq RightNames
    /\ (\E r, s \in RoleIds : r # s) /\ (\E p, q \in RightIds : p # q)
    /\ TokenLife \in Nat \ {0} /\ MaxRoleEdits \in Nat

VARIABLES
    roleName,       \* roles: id -> name, "none" before and "gone" after its time
    rightName,      \* permissions: the same
    grants,         \* role_permissions: <<role, permission>>
    member,         \* user_roles of the person
    access,         \* his access token: its claims, the ticks left
    mint,           \* the login or refresh that makes the next one
    assigner,       \* request -> what assignPermissions does
    \* ghosts: ticks since he last held a role of a name, since a role of a name
    \* last granted a permission of a name; what the latest undisturbed
    \* assignment to a role asked for
    heldAge, grantAge, assigned, roleEdits

accessVars == <<roleName, rightName, grants, member, access, mint, assigner,
                heldAge, grantAge, assigned, roleEdits>>

NoAccess == [left |-> 0, roles |-> {}, rights |-> {}, given |-> {}, due |-> {}, calm |-> FALSE]
NoMint == [phase |-> "idle", late |-> FALSE, roles |-> {}, todo |-> {}, rights |-> {},
           role |-> "none", given |-> {}, due |-> {}, calm |-> TRUE]
NoAssign == [phase |-> "idle", role |-> "none", set |-> {}, apart |-> TRUE]
Forgotten == [known |-> FALSE, set |-> {}]

Existing(name) == {i \in DOMAIN name : name[i] \notin {"none", "gone"}}
Names(ids, name) == {name[i] : i \in ids}
Holds(name) == name \in Names(member, roleName)
RightsOf(role) == {g[2] : g \in {h \in grants : h[1] = role}}
RightsKnown == {p \in RightIds : rightName[p] # "none"}
Opens(name, right) == \E g \in grants : roleName[g[1]] = name /\ rightName[g[2]] = right

-----------------------------------------------------------------------------
(* The claims: getPermissionsByRole, getAllPermissionsByRoles, generate-       *)
(* AccessToken, and the guard that reads them.                                *)

\* A role that is not there has none; a wildcard stands for all.
PermissionsByRole(name) ==
    LET open == {right \in RightNames : Opens(name, right)}
    IN  IF "*" \in open THEN {"*"} ELSE open

HasPermission(rights, right) == "*" \in rights \/ right \in rights
RolesGuard(required) == access.left > 0 /\ required \intersect access.roles # {}

StartMint(names) ==
    [NoMint EXCEPT !.phase = "permissions", !.roles = names, !.todo = names,
                   !.due = UNION {PermissionsByRole(n) : n \in names}]

\* Faulty variant: a refresh takes over the claims of the token it replaces.
ReadRoles_Copied ==
    /\ mint.phase = "idle"
    /\ \/ mint' = IF access.roles # {} THEN [StartMint(access.roles) EXCEPT !.given = access.given]
                  ELSE StartMint(Names(member, roleName))
       \/ member = {} /\ mint' = [NoMint EXCEPT !.phase = "default"]
    /\ UNCHANGED <<roleName, rightName, grants, member, access, assigner, assigned, roleEdits>>

\* A login without a role looks for the default one; a refresh does without.
ReadRoles ==
    /\ mint.phase = "idle"
    /\ \/ mint' = StartMint(Names(member, roleName))
       \/ member = {} /\ mint' = [NoMint EXCEPT !.phase = "default"]
    /\ UNCHANGED <<roleName, rightName, grants, member, access, assigner, assigned, roleEdits>>

FindDefault ==
    /\ mint.phase = "default"
    /\ \/ \E r \in RoleIds : roleName[r] = "user" /\ mint' = [mint EXCEPT !.phase = "join", !.role = r]
       \/ (\A r \in RoleIds : roleName[r] # "user") /\ mint' = StartMint({})
    /\ UNCHANGED <<roleName, rightName, grants, member, access, assigner, assigned, roleEdits>>

\* A role that has been deleted, or that he got meanwhile, makes the insert fail.
JoinDefault ==
    /\ mint.phase = "join"
    /\ IF mint.role \in Existing(roleName) \ member
       THEN /\ member' = member \union {mint.role}
            /\ mint' = [StartMint({"user"}) EXCEPT !.late = mint.late, !.given = {"user"}]
       ELSE mint' = NoMint /\ UNCHANGED member
    /\ UNCHANGED <<roleName, rightName, grants, access, assigner, assigned, roleEdits>>

\* Faulty variant: the permissions of the last role only.
ReadPermissions_Last ==
    /\ mint.phase = "permissions"
    /\ \E name \in mint.todo :
        mint' = [mint EXCEPT !.todo = @ \ {name}, !.rights = PermissionsByRole(name)]
    /\ UNCHANGED <<roleName, rightName, grants, member, access, assigner, assigned, roleEdits>>

\* One query for each role.
ReadPermissions ==
    /\ mint.phase = "permissions"
    /\ \E name \in mint.todo :
        mint' = [mint EXCEPT !.todo = @ \ {name}, !.rights = @ \union PermissionsByRole(name)]
    /\ UNCHANGED <<roleName, rightName, grants, member, access, assigner, assigned, roleEdits>>

\* The answer may be lost; he then goes on with the token he has.
Sign ==
    /\ mint.phase = "permissions" /\ mint.todo = {}
    /\ mint' = NoMint
    /\ \/ access' = [left |-> TokenLife, roles |-> mint.roles, rights |-> mint.rights,
                     given |-> mint.given, due |-> mint.due, calm |-> mint.calm]
       \/ UNCHANGED access
    /\ UNCHANGED <<roleName, rightName, grants, member, assigner, assigned, roleEdits>>

-----------------------------------------------------------------------------
(* The administrator's requests.                                             *)

\* A change between the reads of a login makes its claims a mixture.
ChangeRoles ==
    /\ roleEdits < MaxRoleEdits /\ roleEdits' = roleEdits + 1
    /\ mint' = [mint EXCEPT !.calm = FALSE]
AdminChanges == RolesGuard({"admin"}) /\ ChangeRoles

\* A name is unique.
CreateRole(role, name) ==
    /\ AdminChanges /\ roleName[role] = "none" /\ name \notin Names(RoleIds, roleName)
    /\ roleName' = [roleName EXCEPT ![role] = name]
    /\ UNCHANGED <<rightName, grants, member, access, assigner, assigned>>

UpdateRole(role, name) ==
    /\ AdminChanges /\ role \in Existing(roleName) /\ name \notin Names(RoleIds, roleName)
    /\ roleName' = [roleName EXCEPT ![role] = name]
    /\ UNCHANGED <<rightName, grants, member, access, assigner, assigned>>

\* The grants and memberships go with the row.
DeleteRole(role) ==
    /\ AdminChanges /\ role \in Existing(roleName)
    /\ roleName' = [roleName EXCEPT ![role] = "gone"]
    /\ grants' = {g \in grants : g[1] # role}
    /\ member' = member \ {role}
    /\ assigned' = [assigned EXCEPT ![role] = [known |-> TRUE, set |-> {}]]
    /\ UNCHANGED <<rightName, access, assigner>>

CreatePermission(right, name) ==
    /\ AdminChanges /\ rightName[right] = "none" /\ name \notin Names(RightIds, rightName)
    /\ rightName' = [rightName EXCEPT ![right] = name]
    /\ UNCHANGED <<roleName, grants, member, access, assigner, assigned>>

UpdatePermission(right, name) ==
    /\ AdminChanges /\ right \in Existing(rightName) /\ name \notin Names(RightIds, rightName)
    /\ rightName' = [rightName EXCEPT ![right] = name]
    /\ UNCHANGED <<roleName, grants, member, access, assigner, assigned>>

DeletePermission(right) ==
    /\ AdminChanges /\ right \in Existing(rightName)
    /\ rightName' = [rightName EXCEPT ![right] = "gone"]
    /\ grants' = {g \in grants : g[2] # right}
    /\ assigned' = [r \in RoleIds |-> [assigned[r] EXCEPT !.set = @ \ {right}]]
    /\ UNCHANGED <<roleName, member, access, assigner>>

Overlapping(a, role) ==
    \E b \in Assigners \ {a} : assigner[b].phase = "add" /\ assigner[b].role = role

StartAssign(a, role, set) ==
    assigner' = [assigner EXCEPT ![a] = [NoAssign EXCEPT !.phase = "add", !.role = role, !.set = set]]

\* Faulty variant: the old permissions stay.
RemoveGrants_Kept(a) ==
    /\ AdminChanges /\ assigner[a].phase = "idle"
    /\ \E role \in Existing(roleName), set \in SUBSET RightsKnown :
        /\ StartAssign(a, role, set)
        /\ assigned' = [assigned EXCEPT ![role] = Forgotten]
    /\ UNCHANGED <<roleName, rightName, grants, member, access>>

\* assignPermissions: the old ones go first,
RemoveGrants(a) ==
    /\ AdminChanges /\ assigner[a].phase = "idle"
    /\ \E role \in Existing(roleName), set \in SUBSET RightsKnown :
        /\ grants' = {g \in grants : g[1] # role}
        /\ StartAssign(a, role, set)
        /\ assigned' = [assigned EXCEPT ![role] = Forgotten]
    /\ UNCHANGED <<roleName, rightName, member, access>>

\* then the new ones come; all of them, or none if one refers to nothing.
AddGrants(a) ==
    LET role == assigner[a].role  set == assigner[a].set
        whole == role \in Existing(roleName) /\ set \subseteq Existing(rightName)
    IN  /\ assigner[a].phase = "add"
        /\ grants' = IF whole THEN grants \union ({role} \X set) ELSE grants
        /\ assigned' = [assigned EXCEPT ![role] =
                IF Overlapping(a, role) \/ ~ assigner[a].apart THEN Forgotten
                ELSE IF whole THEN [known |-> TRUE, set |-> set] ELSE @]
        /\ assigner' = [b \in Assigners |->
                IF b = a THEN NoAssign
                ELSE [assigner[b] EXCEPT !.apart = @ /\ assigner[b].role # role]]
        /\ mint' = [mint EXCEPT !.calm = FALSE]
        /\ UNCHANGED <<roleName, rightName, member, access, roleEdits>>

\* Webhooks and seeds give him roles and take them.
ChangeMembership ==
    /\ ChangeRoles
    /\ \E role \in Existing(roleName) :
        member' = IF role \in member THEN member \ {role} ELSE member \union {role}
    /\ UNCHANGED <<roleName, rightName, grants, access, assigner, assigned>>

RequestDies ==
    /\ \/ mint.phase # "idle" /\ mint' = NoMint /\ UNCHANGED assigner
       \/ \E a \in Assigners : assigner[a].phase = "add"
            /\ assigner' = [assigner EXCEPT ![a] = NoAssign] /\ UNCHANGED mint
    /\ UNCHANGED <<roleName, rightName, grants, member, access, assigned, roleEdits>>

-----------------------------------------------------------------------------
AccessTick ==
    /\ mint.phase # "idle" => ~ mint.late
    /\ mint' = IF mint.phase = "idle" THEN mint ELSE [mint EXCEPT !.late = TRUE]
    /\ access' = IF access.left <= 1 THEN NoAccess ELSE [access EXCEPT !.left = @ - 1]
    /\ UNCHANGED <<roleName, rightName, grants, member, assigner, assigned, roleEdits>>

Older(age, tick) == IF age > TokenLife THEN age ELSE age + tick
Aged(tick) ==
    /\ heldAge' = [n \in RoleNames |-> IF Holds(n) THEN tick ELSE Older(heldAge[n], tick)]
    /\ grantAge' = [o \in RoleNames \X RightNames |->
            IF Opens(o[1], o[2]) THEN tick ELSE Older(grantAge[o], tick)]

\* What seed.ts has made: two roles, and the permissions of each.
AccessInit ==
    LET admin == CHOOSE r \in RoleIds : TRUE
        user  == CHOOSE r \in RoleIds \ {admin} : TRUE
        all   == CHOOSE p \in RightIds : TRUE
        some  == CHOOSE p \in RightIds \ {all} : TRUE
    IN  /\ roleName = [r \in RoleIds |->
                CASE r = admin -> "admin" [] r = user -> "user" [] OTHER -> "none"]
        /\ rightName = [p \in RightIds |->
                CASE p = all -> "*" [] p = some -> "read" [] OTHER -> "none"]
        /\ grants = {<<admin, all>>, <<admin, some>>, <<user, some>>}
        /\ member \in {{}, {user}, {admin, user}}
        /\ assigned = [r \in RoleIds |-> [known |-> TRUE, set |-> RightsOf(r)]]
    /\ access = NoAccess /\ mint = NoMint /\ roleEdits = 0
    /\ assigner = [a \in Assigners |-> NoAssign]
    /\ heldAge = [n \in RoleNames |-> TokenLife + 1]
    /\ grantAge = [o \in RoleNames \X RightNames |-> TokenLife + 1]

AccessRequest ==
    \/ ReadRoles \/ FindDefault \/ JoinDefault \/ ReadPermissions \/ Sign
    \/ \E role \in RoleIds, n \in RoleNames : CreateRole(role, n) \/ UpdateRole(role, n)
    \/ \E right \in RightIds, n \in RightNames : CreatePermission(right, n) \/ UpdatePermission(right, n)
    \/ \E role \in RoleIds : DeleteRole(role)
    \/ \E right \in RightIds : DeletePermission(right)
    \/ \E a \in Assigners : RemoveGrants(a) \/ AddGrants(a)
    \/ ChangeMembership \/ RequestDies

AccessNext == (AccessRequest /\ Aged(0)) \/ (AccessTick /\ Aged(1))

-----------------------------------------------------------------------------
\* A token opens no role that the person has not held within a token's life, and
\* names no permission that none of its roles has granted within it, however
\* roles are renamed, deleted, given and taken while it is made (roles.guard.ts:26,
\* auth.service.ts:352-371); one made while nothing changed opens all that its
\* roles granted (roles.service.ts:20-61); and a role has the permissions of one
\* assignment, unless two overlapped or one died after its first statement
\* (roles.service.ts:136-154).
AccessFollowsRoles ==
    /\ access.left > 0 =>
        /\ \A n \in access.roles \ access.given : Holds(n) \/ heldAge[n] <= TokenLife
        /\ \A p \in access.rights : \E n \in access.roles : Opens(n, p) \/ grantAge[<<n, p>>] <= TokenLife
        /\ access.calm =>
            \A p \in RightNames : HasPermission(access.rights, p) <=> HasPermission(access.due, p)
    /\ \A r \in RoleIds : assigned[r].known => RightsOf(r) = assigned[r].set
=============================================================================
