-------------------------- MODULE MCAppContainers --------------------------
(* A small instance of AppContainers: production runs 1 to 3, then runs of *)
(* the pull request 1.                                                     *)
EXTENDS AppContainers

MCPullRequest == [r \in Runs |-> IF r <= 3 THEN 0 ELSE 1]

(* Runs that overlap are production's; there is no job before they have    *)
(* been over, nor after they have crossed.                                 *)
Bounded ==
  crossed # {} \/ Cardinality(InFlight) > 1 =>
    jobs = MaxJobs /\ \A r \in InFlight : PullRequest[r] = 0
=============================================================================
