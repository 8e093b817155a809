------------------------------ MODULE MCHealing ------------------------------
(***************************************************************************)
(* What leaves the rows of one user stale: the app opened on two devices,    *)
(* any of whose requests may die; a rebuild of the operator beside the app;  *)
(* PUT /goal, whose persist may never happen, beside the app across a        *)
(* midnight; late uploads of two days.  A behaviour has one of these causes. *)
(***************************************************************************)
EXTENDS MCEngine

CONSTANTS App, Operator     \* two readers

VARIABLE cause

vars == <<cause, engineVars>>

Rests(r) == req'[r] = NoRequest

\* GET /today has a floor; the rebuild of every day is a refresh without one.
OpensApp(r) == Rests(r) \/ (req'[r].kind = "refresh" /\ req'[r].floor # NoFloor)
Rebuilds(r) == req'[r].kind # "refresh" \/ req'[r].floor = NoFloor

NoPuts == \A p \in Putters : put'[p] = NoPut

\* No PUT follows one that committed, so nothing but a read mends its row.
NoRetry == goals # InitialGoals => \A p \in Putters : put[p] = NoPut => put'[p] = NoPut

ActToday == events' \subseteq OneAct
OneDay == ActToday /\ now' = TicksPerDay

\* The steps of a behaviour with the cause.
Allowed ==
    \/ /\ cause = "devices"
       /\ OneDay /\ NoPuts
       /\ OpensApp(App) /\ OpensApp(Operator)
    \/ /\ cause = "rebuild"
       /\ OneDay /\ NoPuts /\ failures' = 0
       /\ OpensApp(App) /\ Rebuilds(Operator)
    \/ /\ cause = "goal"
       /\ ActToday /\ NoRetry
       /\ OpensApp(App) /\ Rests(Operator)
    \/ /\ cause = "uploads"
       /\ NoPuts
       /\ OpensApp(App) /\ Rests(Operator)

Init == EngineInit /\ cause \in {"devices", "rebuild", "goal", "uploads"}

Next == EngineNext /\ Allowed /\ UNCHANGED cause

\* Nobody but the first reader is obliged to anything.
Spec == Init /\ [][Next]_vars /\ EngineFairness(App)
=============================================================================
