--------------------------- MODULE DeployPipeline ---------------------------
(***************************************************************************)
(* One server's deployments, from the API request to a terminal state: the *)
(* `deployments` table (contract C2), the handlers that insert a row and   *)
(* then a job, the job store of JobStore, the engine that each worker runs *)
(* for a "deploy" job (run_deployment), admission (next_queuable), cancel, *)
(* shutdown and the death of the process.  One action is one SQL statement *)
(* or one remote command: everything else may run in between.              *)
(*                                                                         *)
(* A deployment is named by its id, so that d < e means that d was created *)
(* first.  It may get two jobs: <<d, "api">>, inserted by the request that *)
(* created it, and <<d, "adm">>, inserted by queue_next.                   *)
(***************************************************************************)
EXTENDS Naturals, FiniteSets

CONSTANTS
  Deps,              \* ids of the deployments
  Apps, AppOf,       \* AppOf[d]: the application of deployment d
  Workers, NoWorker, NoJob,
  ConcurrentBuilds,  \* server_settings.concurrent_builds
  MaxAttempts,
  MaxRestarts, MaxStops, MaxDbErrors, MaxSshLosses   \* bounds on failures

ASSUME PipelineAssumption ==
  /\ Deps \subseteq Nat
  /\ AppOf \in [Deps -> Apps]
  /\ ConcurrentBuilds \in Nat
  /\ MaxAttempts \in Nat \ {0}
  /\ MaxRestarts \in Nat /\ MaxStops \in Nat /\ MaxDbErrors \in Nat /\ MaxSshLosses \in Nat
  /\ NoWorker \notin Workers
  /\ NoJob \notin Deps \X {"api", "adm"}

VARIABLES
  status,     \* deployments.status, "none" before the row exists
  request,    \* the handler that creates d: "none" | "created" | "sent" | "lost"
  jobStatus, tries, holder,   \* the job store
  pc,         \* where the engine of each worker is
  job,        \* the job each worker has in hand
  outcome,    \* how run_steps ended: "ok" | "cancelled" | "failed"
  admitted,   \* what next_queuable gave the worker, {} or {d}
  helper,     \* deployments whose build helper container is up
  stray,      \* per deployment: "sent" when a docker run nobody waits for may still
              \* start its helper, "late" when it has, "kept" when a removal
              \* failed, else "no"
  shutdown,
  budget

storeVars == <<jobStatus, tries, holder>>
engineVars == <<pc, job, outcome, admitted>>
containerVars == <<helper, stray>>
vars == <<status, request, jobStatus, tries, holder, pc, job, outcome, admitted,
          helper, stray, shutdown, budget>>

JobIds == Deps \X {"api", "adm"}

Store == INSTANCE JobStore WITH Jobs <- JobIds, status <- jobStatus

-----------------------------------------------------------------------------
DeploymentStatus == {"queued", "in_progress", "finished", "failed", "cancelled"}

Terminal == {"finished", "failed", "cancelled"}     \* is_terminal
Active == {"queued", "in_progress"}

(* Mutants: any end may overwrite another; a queued row may not be cancelled. *)
CanAlwaysEnd(from, next) ==
  \/ from = "queued" /\ next \in {"in_progress", "cancelled"}
  \/ from \in Terminal \cup {"in_progress"} /\ next \in Terminal

(* can_transition_to, the only legality check of contract C2               *)
CanTransition(from, next) ==
  \/ from = "queued" /\ next \in {"in_progress", "cancelled"}
  \/ from = "in_progress" /\ next \in Terminal

(* DeploymentRepo::transition: the UPDATE moves the row or reports false.  *)
Transition(d, next) ==
  status' = IF CanTransition(status[d], next)
              THEN [status EXCEPT ![d] = next] ELSE status

DepOf(w) == job[w][1]
InHand(w) == job[w] # NoJob

EnginePC == {"claim", "reread", "up", "sent", "steps", "cleanup", "finish", "drain",
             "enqueue", "ok", "err"}

TypeOK ==
  /\ status \in [Deps -> DeploymentStatus \cup {"none"}]
  /\ request \in [Deps -> {"none", "created", "sent", "lost"}]
  /\ jobStatus \in [JobIds -> {"absent", "queued", "held", "done", "dropped"}]
  /\ tries \in [JobIds -> 0..MaxAttempts]
  /\ holder \in [JobIds -> Workers \cup {NoWorker}]
  /\ pc \in [Workers -> EnginePC \cup {"idle", "exited"}]
  /\ job \in [Workers -> JobIds \cup {NoJob}]
  /\ outcome \in [Workers -> {"ok", "cancelled", "failed"}]
  /\ admitted \in [Workers -> SUBSET Deps]
  /\ helper \in SUBSET Deps
  /\ stray \in [Deps -> {"no", "sent", "late", "kept"}]
  /\ shutdown \in BOOLEAN
  /\ budget \in [restarts: 0..MaxRestarts, stops: 0..MaxStops,
                 db: 0..MaxDbErrors, ssh: 0..MaxSshLosses]

Init ==
  /\ status = [d \in Deps |-> "none"]
  /\ request = [d \in Deps |-> "none"]
  /\ Store!StoreInit
  /\ pc = [w \in Workers |-> "idle"]
  /\ job = [w \in Workers |-> NoJob]
  /\ outcome = [w \in Workers |-> "ok"]
  /\ admitted = [w \in Workers |-> {}]
  /\ helper = {}
  /\ stray = [d \in Deps |-> "no"]
  /\ shutdown = FALSE
  /\ budget = [restarts |-> MaxRestarts, stops |-> MaxStops,
               db |-> MaxDbErrors, ssh |-> MaxSshLosses]

Goto(w, next) == pc' = [pc EXCEPT ![w] = next]

(* A database error, while the bound allows one.                           *)
DbError ==
  /\ budget.db > 0
  /\ budget' = [budget EXCEPT !.db = @ - 1]

(* The answer of a remote command is not seen, while the bound allows one. *)
SshLoss ==
  /\ budget.ssh > 0
  /\ budget' = [budget EXCEPT !.ssh = @ - 1]

-----------------------------------------------------------------------------
(* The request handlers: create_queued, then enqueue, in two statements.   *)
Create(d) ==
  /\ status[d] = "none"
  /\ \A e \in Deps : e < d => status[e] # "none"
  /\ status' = [status EXCEPT ![d] = "queued"]
  /\ request' = [request EXCEPT ![d] = "created"]
  /\ UNCHANGED <<storeVars, engineVars, containerVars, shutdown, budget>>

SendJob(d) ==
  /\ request[d] = "created"
  /\ Store!Submit(<<d, "api">>)
  /\ request' = [request EXCEPT ![d] = "sent"]
  /\ UNCHANGED <<status, engineVars, containerVars, shutdown, budget>>

(* enqueue fails: the handler answers 500 and the row stays behind.        *)
SendFails(d) ==
  /\ request[d] = "created"
  /\ DbError
  /\ request' = [request EXCEPT ![d] = "lost"]
  /\ UNCHANGED <<status, storeVars, engineVars, containerVars, shutdown>>

(* cancel: one deployment at its user's request; cancel_active_for_pr: all *)
(* the active ones of a pull request of one application.                   *)
Cancel(targets) ==
  /\ targets # {}
  /\ \A d \in targets : CanTransition(status[d], "cancelled")
  /\ \A d, e \in targets : AppOf[d] = AppOf[e]
  /\ status' = [d \in Deps |-> IF d \in targets THEN "cancelled" ELSE status[d]]
  /\ UNCHANGED <<request, storeVars, engineVars, containerVars, shutdown, budget>>

-----------------------------------------------------------------------------
(* run_deployment, for the job in the hands of worker w                    *)

(* A worker claims a job.  A claim already on its way when the token is    *)
(* cancelled still lands, hence no look at `shutdown`.                     *)
Take(w, j) ==
  /\ pc[w] = "idle"
  /\ Store!Take(w, j)
  /\ job' = [job EXCEPT ![w] = j]
  /\ Goto(w, "claim")
  /\ UNCHANGED <<status, request, outcome, admitted, containerVars, shutdown, budget>>

(* Mutant: the token aborts a worker's handler.                            *)
ExitAtOnce(w) ==
  /\ pc[w] # "exited" /\ shutdown
  /\ Goto(w, "exited")
  /\ UNCHANGED <<status, request, storeVars, job, outcome, admitted, containerVars,
                 shutdown, budget>>

Exit(w) ==
  /\ pc[w] = "idle" /\ shutdown
  /\ Goto(w, "exited")
  /\ UNCHANGED <<status, request, storeVars, job, outcome, admitted, containerVars,
                 shutdown, budget>>

(* prepare() only reads; claim() moves the row if it is still queued.      *)
Claim(w) ==
  /\ pc[w] = "claim"
  /\ Transition(DepOf(w), "in_progress")
  /\ Goto(w, IF status[DepOf(w)] = "queued" THEN "up" ELSE "reread")
  /\ UNCHANGED <<request, storeVars, job, outcome, admitted, containerVars, shutdown, budget>>

(* Mutant: a claim that failed is good enough when the row is not over.    *)
RereadSkips(w) ==
  /\ pc[w] = "reread"
  /\ Goto(w, "ok")
  /\ UNCHANGED <<status, request, storeVars, job, outcome, admitted, containerVars,
                 shutdown, budget>>

(* The second half of claim(): a row that is in progress is accepted.      *)
Reread(w) ==
  /\ pc[w] = "reread"
  /\ Goto(w, IF status[DepOf(w)] = "in_progress" THEN "up" ELSE "ok")
  /\ UNCHANGED <<status, request, storeVars, job, outcome, admitted, containerVars,
                 shutdown, budget>>

CancelSeen(w) == shutdown \/ status[DepOf(w)] = "cancelled"      \* check_cancel

(* helper_up: check_cancel, then `docker run --name <deployment uuid>`.     *)
Dispatch(w) ==
  /\ pc[w] = "up"
  /\ IF CancelSeen(w)
       THEN outcome' = [outcome EXCEPT ![w] = "cancelled"] /\ Goto(w, "cleanup")
       ELSE UNCHANGED outcome /\ Goto(w, "sent")
  /\ UNCHANGED <<status, request, storeVars, job, admitted, containerVars, shutdown, budget>>

(* The command succeeds: docker refuses a name that is taken.              *)
HelperUp(w) ==
  /\ pc[w] = "sent"
  /\ DepOf(w) \notin helper
  /\ helper' = helper \cup {DepOf(w)}
  /\ Goto(w, "steps")
  /\ UNCHANGED <<status, request, storeVars, job, outcome, admitted, stray, shutdown, budget>>

(* The command is refused or fails, or the engine no longer waits for it,  *)
(* because it timed out or a poll saw a cancellation: docker may yet run   *)
(* it then.                                                                *)
HelperFails(w) ==
  /\ pc[w] = "sent"
  /\ \E how \in {"cancelled", "failed"} :
       /\ how = "cancelled" => CancelSeen(w)
       /\ outcome' = [outcome EXCEPT ![w] = how]
  /\ \/ UNCHANGED <<stray, budget>>
     \/ SshLoss /\ stray' = [stray EXCEPT ![DepOf(w)] = "sent"]
  /\ Goto(w, "cleanup")
  /\ UNCHANGED <<status, request, storeVars, job, admitted, helper, shutdown>>

(* docker runs a command nobody waits for any more.                        *)
LateHelper(d) ==
  /\ stray[d] = "sent"
  /\ stray' = [stray EXCEPT ![d] = "late"]
  /\ helper' = helper \cup {d}
  /\ UNCHANGED <<status, request, storeVars, engineVars, shutdown, budget>>

(* A preview_cleanup job that has cancelled d removes its helper, too:     *)
(* kill_helper, at any time after the cancellation.                        *)
KillHelper(d) ==
  /\ status[d] = "cancelled"
  /\ d \in helper
  /\ helper' = helper \ {d}
  /\ UNCHANGED <<status, request, storeVars, engineVars, stray, shutdown, budget>>

(* The rest of run_steps ends well, fails, or sees a cancellation.         *)
StepsEnd(w) ==
  /\ pc[w] = "steps"
  /\ \E how \in {"ok", "cancelled", "failed"} :
       /\ how = "cancelled" => CancelSeen(w)
       /\ outcome' = [outcome EXCEPT ![w] = how]
  /\ Goto(w, "cleanup")
  /\ UNCHANGED <<status, request, storeVars, job, admitted, containerVars, shutdown, budget>>

(* Mutant: a cancelled run leaves its helper behind.                       *)
CleanupUnlessCancelled(w) ==
  /\ pc[w] = "cleanup"
  /\ helper' = IF outcome[w] = "cancelled" THEN helper ELSE helper \ {DepOf(w)}
  /\ Goto(w, "finish")
  /\ UNCHANGED <<status, request, storeVars, job, outcome, admitted, stray, shutdown, budget>>

(* cleanup: `docker rm -f <deployment uuid>`, whoever started it, its      *)
(* errors ignored.                                                         *)
Cleanup(w) ==
  /\ pc[w] = "cleanup"
  /\ \/ helper' = helper \ {DepOf(w)} /\ UNCHANGED <<stray, budget>>
     \/ /\ SshLoss
        /\ stray' = [stray EXCEPT ![DepOf(w)] = "kept"]
        /\ UNCHANGED helper
  /\ Goto(w, "finish")
  /\ UNCHANGED <<status, request, storeVars, job, outcome, admitted, shutdown>>

EndOf(how) == IF how = "ok" THEN "finished" ELSE how

(* The terminal transition; whether the row moved is not looked at.        *)
Finish(w) ==
  /\ pc[w] = "finish"
  /\ Transition(DepOf(w), EndOf(outcome[w]))
  /\ outcome' = [outcome EXCEPT ![w] = "ok"]
  /\ Goto(w, "drain")
  /\ UNCHANGED <<request, storeVars, job, admitted, containerVars, shutdown, budget>>

(* A database error in claim() or in the terminal transition is what       *)
(* run_deployment returns as Err.                                          *)
InfraError(w) ==
  /\ pc[w] \in {"claim", "reread", "finish"}
  /\ DbError
  /\ Goto(w, "err")
  /\ UNCHANGED <<status, request, storeVars, job, outcome, admitted, containerVars, shutdown>>

-----------------------------------------------------------------------------
(* admission::queue_next                                                   *)
InProgress == {d \in Deps : status[d] = "in_progress"}

(* Mutant: the WHERE clause takes every active row.                        *)
AdmissibleActive(d) == status[d] \in Active

(* The subquery of next_queuable: no other deployment of the application   *)
(* in progress, a build slot left on the server.                           *)
Admissible(d) ==
  /\ status[d] = "queued"
  /\ \A e \in InProgress : AppOf[e] # AppOf[d]
  /\ Cardinality(InProgress) < ConcurrentBuilds

(* next_queuable moves the oldest admissible row, if there is one.         *)
Drain(w) ==
  /\ pc[w] = "drain"
  /\ \/ \E d \in Deps :
          /\ Admissible(d) /\ \A e \in Deps : Admissible(e) => d <= e
          /\ status' = [status EXCEPT ![d] = "in_progress"]
          /\ admitted' = [admitted EXCEPT ![w] = {d}]
          /\ Goto(w, "enqueue")
     \/ /\ \A d \in Deps : ~Admissible(d)
        /\ Goto(w, "ok")
        /\ UNCHANGED <<status, admitted>>
  /\ UNCHANGED <<request, storeVars, job, outcome, containerVars, shutdown, budget>>

(* queue_next inserts the job of the row it has admitted.                  *)
EnqueueAdmitted(w) ==
  /\ pc[w] = "enqueue"
  /\ \E d \in admitted[w] : Store!Submit(<<d, "adm">>)
  /\ admitted' = [admitted EXCEPT ![w] = {}]
  /\ Goto(w, "ok")
  /\ UNCHANGED <<status, request, job, outcome, containerVars, shutdown, budget>>

(* An error of queue_next is dropped: run_deployment still returns Ok.     *)
DrainError(w) ==
  /\ pc[w] \in {"drain", "enqueue"}
  /\ DbError
  /\ admitted' = [admitted EXCEPT ![w] = {}]
  /\ Goto(w, "ok")
  /\ UNCHANGED <<status, request, storeVars, job, outcome, containerVars, shutdown>>

-----------------------------------------------------------------------------
(* The worker reports: its row is deleted, or counted against, or left to  *)
(* be claimed again because the statement failed.                          *)
PutDown(w) ==
  /\ job' = [job EXCEPT ![w] = NoJob]
  /\ outcome' = [outcome EXCEPT ![w] = "ok"]
  /\ Goto(w, IF shutdown THEN "exited" ELSE "idle")

(* Mutant: a failed job is deleted like one that succeeded.                *)
ReportAlwaysDone(w) ==
  /\ pc[w] \in {"ok", "err"}
  /\ Store!Finish(w, job[w])
  /\ PutDown(w)
  /\ UNCHANGED <<status, request, admitted, containerVars, shutdown, budget>>

Report(w) ==
  /\ \/ pc[w] = "ok" /\ Store!Finish(w, job[w])
     \/ pc[w] = "err" /\ Store!Miss(w, job[w])
  /\ PutDown(w)
  /\ UNCHANGED <<status, request, admitted, containerVars, shutdown, budget>>

ReportLost(w) ==
  /\ pc[w] \in {"ok", "err"}
  /\ DbError
  /\ Store!LetGo({job[w]})
  /\ PutDown(w)
  /\ UNCHANGED <<status, request, admitted, containerVars, shutdown>>

-----------------------------------------------------------------------------
Shutdown ==
  /\ ~shutdown
  /\ budget.stops > 0           \* bound
  /\ shutdown' = TRUE
  /\ budget' = [budget EXCEPT !.stops = @ - 1]
  /\ UNCHANGED <<status, request, storeVars, engineVars, containerVars>>

(* The process dies, wherever its handlers are, and another one starts.    *)
(* The tables and the containers survive.                                  *)
Restart ==
  LET held == {j \in JobIds : jobStatus[j] = "held"} IN
  /\ budget.restarts > 0
  /\ budget' = [budget EXCEPT !.restarts = @ - 1]
  /\ IF held = {} THEN UNCHANGED storeVars ELSE Store!LetGo(held)
  /\ request' = [d \in Deps |-> IF request[d] = "created" THEN "lost" ELSE request[d]]
  /\ pc' = [w \in Workers |-> "idle"]
  /\ job' = [w \in Workers |-> NoJob]
  /\ outcome' = [w \in Workers |-> "ok"]
  /\ admitted' = [w \in Workers |-> {}]
  /\ stray' = [d \in Deps |->
       IF \E w \in Workers : pc[w] = "sent" /\ DepOf(w) = d THEN "sent" ELSE stray[d]]
  /\ shutdown' = FALSE
  /\ UNCHANGED <<status, helper>>

Handler(d) == SendJob(d) \/ SendFails(d)

Engine(w) ==
  \/ Claim(w) \/ Reread(w) \/ Dispatch(w) \/ HelperUp(w) \/ HelperFails(w)
  \/ StepsEnd(w) \/ Cleanup(w) \/ Finish(w) \/ InfraError(w)
  \/ Drain(w) \/ EnqueueAdmitted(w) \/ DrainError(w) \/ Report(w) \/ ReportLost(w)

TakeSome(w) == \E j \in JobIds : Take(w, j)

Next ==
  \/ \E d \in Deps : Create(d) \/ Handler(d) \/ LateHelper(d) \/ KillHelper(d)
  \/ \E targets \in SUBSET Deps : Cancel(targets)
  \/ \E w \in Workers : TakeSome(w) \/ Exit(w) \/ Engine(w)
  \/ Shutdown \/ Restart

Spec == Init /\ [][Next]_vars

(* Request handlers and engines are polled until they end: every command   *)
(* and statement they await has a timeout.  Workers poll the queue.        *)
Fairness ==
  /\ \A d \in Deps : WF_vars(Handler(d))
  /\ \A w \in Workers : WF_vars(Engine(w)) /\ WF_vars(TakeSome(w)) /\ WF_vars(Exit(w))

FairSpec == Spec /\ Fairness

-----------------------------------------------------------------------------
(* Contract C2, over every path that writes a status: requests, engines    *)
(* that run the same deployment twice, admission, cancel, and restarts.    *)
LegalTransitions ==
  [][\A d \in Deps : status'[d] # status[d] =>
       \/ status[d] = "none" /\ status'[d] = "queued"
       \/ status[d] = "queued" /\ status'[d] \in {"in_progress", "cancelled"}
       \/ status[d] = "in_progress" /\ status'[d] \in Terminal]_vars

(* A deploy job that is deleted leaves a deployment that is over: a handler *)
(* never reports success on one that is still queued or in progress ("Run  *)
(* one deployment to a terminal state").                                   *)
DoneMeansOver ==
  \A j \in JobIds : jobStatus[j] = "done" => status[j[1]] \in Terminal

Live(j) == jobStatus[j] \in {"queued", "held"}

(* A deployment that is not over still has a job that will run it, unless  *)
(* its request died between its two statements, or a job of it was         *)
(* dropped.  What admission does and fails to do never matters here.       *)
NoneForgotten ==
  \A d \in Deps : status[d] \in Active =>
    \/ request[d] \in {"created", "lost"}
    \/ \E k \in {"api", "adm"} : Live(<<d, k>>) \/ jobStatus[<<d, k>>] = "dropped"

(* queue_next never inserts a second job for a deployment.                 *)
AdmittedOnce ==
  \A v, w \in Workers : \A d \in admitted[w] :
    /\ jobStatus[<<d, "adm">>] = "absent"
    /\ status[d] # "queued"
    /\ d \in admitted[v] => v = w

Owned(d) == \E w \in Workers : pc[w] \in {"steps", "cleanup"} /\ DepOf(w) = d

(* While the process lives, a helper container outlives the run that needs *)
(* it only if docker started it after its engine had stopped waiting or    *)
(* its removal failed, however many engines share its name.                *)
HelperOwned ==
  budget.restarts = MaxRestarts => \A d \in helper : Owned(d) \/ stray[d] \in {"late", "kept"}

(* A shutdown is a drain: once every worker has left, no job is held, and, *)
(* unless the process has died or the database failed before, a deployment *)
(* in progress has a job waiting for the next process.                     *)
StopIsClean ==
  (\A w \in Workers : pc[w] = "exited") =>
    /\ \A j \in JobIds : jobStatus[j] # "held"
    /\ budget.db = MaxDbErrors /\ budget.restarts = MaxRestarts =>
         \A d \in Deps : status[d] = "in_progress" =>
           \E k \in {"api", "adm"} : jobStatus[<<d, k>>] = "queued"

(* Every deployment whose request got through ends, past cancels, double   *)
(* runs, restarts and lost results, unless its jobs were dropped.          *)
EveryDeploymentEnds ==
  \A d \in Deps : (request[d] = "sent") ~>
    (status[d] \in Terminal \/ jobStatus[<<d, "api">>] = "dropped" \/ shutdown)

=============================================================================
