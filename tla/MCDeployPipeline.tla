-------------------------- MODULE MCDeployPipeline --------------------------
(* Small instances of DeployPipeline: deployments 1 and 2 belong to        *)
(* application a, 3 to application b.                                      *)
EXTENDS DeployPipeline, TLC

CONSTANTS a, b

MCApps == {a, b}
MCAppOf == [d \in Deps |-> IF d <= 2 THEN a ELSE b]

(* Workers are interchangeable; used where no liveness is checked.         *)
Symmetry == Permutations(Workers)

(* A shutdown or a lost remote command, not both in one behaviour.         *)
OneFault == budget.stops + budget.ssh >= MaxStops + MaxSshLosses - 1
=============================================================================
