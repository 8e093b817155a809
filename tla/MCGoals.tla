------------------------------ MODULE MCGoals ------------------------------
(***************************************************************************)
(* The two places where requests of one user overlap over several           *)
(* statements, checked in one run: GoalSetting with one activity type's      *)
(* goals and zones half a day either side of UTC, and AuthSessions.  A       *)
(* behaviour is that of one part; the other rests in an initial state.       *)
(***************************************************************************)
EXTENDS GoalSetting, AuthSessions, TLC

VARIABLE part

MCZones == {-1, 0, 1}
MCGoalChoices == {[activityType |-> "verses", target |-> t] : t \in {1, 2}}
MCPutters == Permutations(Putters)

\* What every client does, and what else ends sessions or takes roles.
BaseOperations == {"register", "login", "refresh"}
MCMixes ==
    {BaseOperations \union more : more \in
        {{"logout"}, {"logout_all"}, {"reset"}, {"delete"}, {"expire"}, {"deactivate"},
         {"roles", "premium"}}}

OverlapInit ==
    /\ part \in {"goals", "sessions"}
    /\ GoalInit /\ SessionInit
    /\ part # "sessions" => offered = BaseOperations \union {"expire"}

OverlapNext ==
    \/ part = "goals" /\ GoalNext /\ UNCHANGED <<part, sessionVars>>
    \/ part = "sessions" /\ SessionNext /\ UNCHANGED <<part, goalVars>>

OverlapSpec == OverlapInit /\ [][OverlapNext]_<<part, goalVars, sessionVars>>
=============================================================================
