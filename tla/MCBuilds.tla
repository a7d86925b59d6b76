------------------------------ MODULE MCBuilds ------------------------------
(* A small instance of Builds: two deployments of production, the first of *)
(* which may be attempted twice.                                           *)
EXTENDS Builds

MCApps ==
  {[pack |-> "dockerfile", named |-> TRUE, source |-> "github"],
   [pack |-> "railpack", named |-> FALSE, source |-> "public"],
   [pack |-> "dockercompose", named |-> TRUE, source |-> "public"],
   [pack |-> "dockerimage", named |-> TRUE, source |-> "public"]}
MCPullOf == [d \in Deployments |-> 0]
MCDeploymentOf == [r \in Runs |-> IF r = 3 THEN 2 ELSE 1]

(* The second attempt follows the first, for an application with a public  *)
(* source that is built where it runs, beside pushes and deaths only.      *)
Bounded ==
  ~At(2, "queued") =>
    /\ ~At(1, "queued") /\ usable = {}
    /\ app.source = "public" /\ app.pack \in {"railpack", "dockercompose"}
    /\ budget.prunes = MaxPrunes /\ budget.tokens = MaxTokenLosses /\ budget.edits = MaxEdits
=============================================================================
