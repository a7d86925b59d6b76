---------------------------- MODULE MCWorkloads ----------------------------
(* Small instances of Workloads: one workload of each kind.                *)
EXTENDS Workloads

(* Two workers are busy with an application only before anything has       *)
(* failed or crashed.                                                      *)
Bounded ==
  kind = "application" /\ (\A w \in Workers : work[w].pc # "idle") =>
    budget.crashes = MaxCrashes /\ budget.faults = MaxFaults
=============================================================================
