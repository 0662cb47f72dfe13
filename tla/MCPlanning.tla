------------------------------ MODULE MCPlanning ------------------------------
(***************************************************************************)
(* The two parts that turn positions of trains into an order: the          *)
(* candidate builder and the rolling planner.  They share no state, so a   *)
(* behaviour of this run exercises one of them and leaves the other alone. *)
(***************************************************************************)
EXTENDS MCCandidateBuilder, AffectedLinePlanner

VARIABLE part

planningVars == <<part, builderVars, plannerVars>>

\* The inputs of the planner do not matter while it is left alone.
AnyInputs == now = 1 /\ eta = [t \in PlannedTrain |-> 1] /\ line = [t \in PlannedTrain |-> "A"]

PlanningInit ==
    /\ part \in {"builder", "planner"}
    /\ BuilderInit
    /\ part = "builder" => AnyInputs
    /\ PlanInit

PlanningNext ==
    \/ part = "builder" /\ BuilderNext /\ UNCHANGED <<part, plannerVars>>
    \/ part = "planner" /\ PlanNext /\ UNCHANGED <<part, builderVars>>

PlanningSpec == PlanningInit /\ [][PlanningNext]_planningVars
=============================================================================
