----------------------------- MODULE ModelStages ------------------------------
(***************************************************************************)
(* What the model registry promises of the versions it governs, with its   *)
(* file, locks and callers left out: a version moves along the lifecycle   *)
(* graph, an identity has at most one version in production, and replacing *)
(* it is one step.  ModelRegistry implements it as long as one process     *)
(* writes the file.                                                        *)
(***************************************************************************)
EXTENDS ModelLifecycle

VARIABLE stage

Init == stage = [m \in Models |-> "created"]

Move(m, target) ==
  /\ <<stage[m], target>> \in LIFECYCLE_TRANSITIONS
  /\ target = "production" => InProduction(stage, m) = {}
  /\ stage' = [stage EXCEPT ![m] = target]

\* The incumbent steps back to champion as m takes its place.
Replace(m, incumbent) ==
  /\ stage[m] = "champion"
  /\ InProduction(stage, m) = {incumbent}
  /\ stage' = [stage EXCEPT ![incumbent] = "champion", ![m] = "production"]

Next ==
  \E m \in Models :
    \/ \E target \in LifecycleStage : Move(m, target)
    \/ \E incumbent \in Models : Replace(m, incumbent)

Spec == Init /\ [][Next]_stage
===============================================================================
