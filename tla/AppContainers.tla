--------------------------- MODULE AppContainers ---------------------------
(***************************************************************************)
(* The containers of one application on one server, and everything that    *)
(* starts and removes them: the last steps of a deployment (write_config   *)
(* and rolling_update), of production and of pull-request previews, the    *)
(* stop and restart jobs, and the preview_cleanup job                      *)
(* (crates/rustify-deploy: engine.rs, rolling.rs, app_lifecycle.rs,        *)
(* preview_cleanup.rs).  They share one directory on the server, hence one *)
(* docker-compose.yml and one compose project.  One action is one remote   *)
(* command (of a stop, restart or cleanup job: one docker command).        *)
(*                                                                         *)
(* A run is one execution of those steps; run r deploys pull request       *)
(* PullRequest[r], 0 for production.                                       *)
(***************************************************************************)
EXTENDS Naturals, FiniteSets

CONSTANTS
  Runs, PullRequest,
  Recreating,    \* runs for which a rolling update is disqualified
  Unchecked,     \* runs for which the health check is disabled
  MaxInFlight,   \* runs at a time: admission promises 1, claim() does not ask it
  MaxJobs,       \* bound on the stop, restart and cleanup jobs
  NoRun

ASSUME ContainersAssumption ==
  /\ PullRequest \in [Runs -> Nat]
  /\ Recreating \subseteq Runs /\ Unchecked \subseteq Runs
  /\ MaxInFlight \in Nat /\ MaxJobs \in Nat
  /\ NoRun \notin Runs

VARIABLES
  state,      \* of each container that may exist
  maker,      \* the run whose configuration it was created from
  file,       \* the run that wrote docker-compose.yml
  pc,         \* where each run is
  listed,     \* the names its stop_other_containers has read
  cancelled,  \* runs whose cancellation was requested
  gated,      \* runs that have seen their container healthy (history)
  crossed,    \* production runs whose container another run has listed while
              \* they were under way or theirs was the file (history)
  spared,     \* runs whose `docker rm -f` of an old container failed (history)
  late,       \* the command a cancelled run has abandoned and docker may still run
  life, lifeListed, lifePr,   \* the job that stops, restarts or cleans up
  taken,      \* containers that a stop or restart job has removed (history)
  jobs        \* such jobs still allowed

runVars == <<pc, listed, cancelled, gated, crossed, spared, late>>
lifeVars == <<life, lifeListed, lifePr, taken, jobs>>
dockerVars == <<state, maker>>
containerVars ==
  <<state, maker, file, pc, listed, cancelled, gated, crossed, spared, late,
    life, lifeListed, lifePr, taken, jobs>>

-----------------------------------------------------------------------------
(* container_name: fresh for every production run, fixed for a preview.    *)
NameOf(r) == IF PullRequest[r] = 0 THEN <<0, r>> ELSE <<PullRequest[r], NoRun>>

Names == {NameOf(r) : r \in Runs}

Present(n) == state[n] # "absent"
NamesOf(pr) == {n \in Names : n[1] = pr /\ Present(n)}     \* the label filters

InFlight == {r \in Runs : pc[r] \notin {"idle", "ok", "failed", "cancelled"}}

ContainersTypeOK ==
  /\ state \in [Names -> {"absent", "starting", "healthy", "sick"}]
  /\ maker \in [Names -> Runs \cup {NoRun}]
  /\ file \in Runs \cup {NoRun}
  /\ pc \in [Runs -> {"idle", "write", "list", "remove", "up", "wait", "logs", "drop",
                      "ok", "failed", "cancelled"}]
  /\ listed \in [Runs -> SUBSET Names]
  /\ taken \in SUBSET Names
  /\ cancelled \in SUBSET Runs /\ gated \in SUBSET Runs
  /\ crossed \in SUBSET Runs /\ spared \in SUBSET Runs
  /\ late \in [Runs -> {"none", "up", "remove", "drop"}]
  /\ life \in {"idle", "stop", "stopping", "restart", "restarting", "up", "clean", "cleaning"}
  /\ lifeListed \in SUBSET Names
  /\ lifePr \in {PullRequest[r] : r \in Runs} \cup {0}
  /\ jobs \in 0..MaxJobs

ContainersInit ==
  /\ state = [n \in Names |-> "absent"]
  /\ maker = [n \in Names |-> NoRun]
  /\ file = NoRun
  /\ pc = [r \in Runs |-> "idle"]
  /\ listed = [r \in Runs |-> {}]
  /\ cancelled = {} /\ gated = {} /\ crossed = {} /\ spared = {}
  /\ late = [r \in Runs |-> "none"]
  /\ life = "idle" /\ lifeListed = {} /\ lifePr = 0
  /\ taken = {} /\ jobs = MaxJobs

Proceed(r, next) == pc' = [pc EXCEPT ![r] = next]

(* docker stop and docker rm -f of each name.                              *)
RemoveAll(names) ==
  /\ state' = [n \in Names |-> IF n \in names THEN "absent" ELSE state[n]]
  /\ maker' = [n \in Names |-> IF n \in names THEN NoRun ELSE maker[n]]

(* The names that run r has listed, one after the other; docker's errors   *)
(* are ignored (`|| true`), and the script may end early.                  *)
RemoveListed(r) ==
  \E failed \in SUBSET listed[r] :
    /\ RemoveAll(listed[r] \ failed)
    /\ spared' = IF failed = {} THEN spared ELSE spared \cup {r}

(* docker compose up -d: the container that docker-compose.yml names is    *)
(* created, or created again if its configuration (which holds the         *)
(* deployment's id) is not the one it was created from.  --remove-orphans  *)
(* removes every other container of the project.                           *)
ComposeUp(orphans) ==
  IF file = NoRun THEN UNCHANGED dockerVars
  ELSE LET n == NameOf(file)
           kept == {m \in Names : m # n /\ ~orphans}
       IN /\ state' = [m \in Names |->
               IF m = n THEN IF maker[n] = file THEN state[n] ELSE "starting"
               ELSE IF m \in kept THEN state[m] ELSE "absent"]
          /\ maker' = [m \in Names |->
               IF m = n THEN file ELSE IF m \in kept THEN maker[m] ELSE NoRun]

-----------------------------------------------------------------------------
(* The image of run r is there: on to step 7.                              *)
Begin(r) ==
  /\ pc[r] = "idle"
  /\ Cardinality(InFlight) < MaxInFlight
  /\ Proceed(r, "write")
  /\ UNCHANGED <<dockerVars, file, listed, cancelled, gated, crossed, spared, late, lifeVars>>

(* A request to cancel reaches the row of the run, or the process stops.   *)
(* (A run that is cancelled while it is queued never begins.)              *)
Cancel(r) ==
  /\ r \in InFlight \ cancelled
  /\ cancelled' = cancelled \cup {r}
  /\ UNCHANGED <<dockerVars, file, pc, listed, gated, crossed, spared, late, lifeVars>>

(* exec_step gives up, before its command or while it runs: docker may yet *)
(* run the command.  After a failed health check query_container_logs and  *)
(* remove_container give up too, so the new container stays.               *)
Abandon(r) ==
  /\ r \in cancelled /\ r \in InFlight
  /\ Proceed(r, IF pc[r] \in {"logs", "drop"} THEN "failed" ELSE "cancelled")
  /\ \/ listed' = [listed EXCEPT ![r] = {}] /\ UNCHANGED late
     \/ /\ pc[r] \in {"up", "remove", "drop"}
        /\ late' = [late EXCEPT ![r] = pc[r]]
        /\ UNCHANGED listed
  /\ UNCHANGED <<dockerVars, file, cancelled, gated, crossed, spared, lifeVars>>

(* A command fails, before or after it has had its effect, and the run     *)
(* with it.                                                                *)
Fails(r) ==
  /\ pc[r] \in {"write", "list", "remove", "up"}
  /\ \/ UNCHANGED <<dockerVars, file, spared>>
     \/ pc[r] = "write" /\ file' = r /\ UNCHANGED <<dockerVars, spared>>
     \/ pc[r] = "up" /\ ComposeUp(r \in Recreating) /\ UNCHANGED <<file, spared>>
     \/ pc[r] = "remove" /\ RemoveListed(r) /\ UNCHANGED file
  /\ Proceed(r, "failed")
  /\ listed' = [listed EXCEPT ![r] = {}]
  /\ UNCHANGED <<cancelled, gated, crossed, late, lifeVars>>

(* write_config; a disqualified run stops the old containers first.        *)
WriteConfig(r) ==
  /\ pc[r] = "write"
  /\ file' = r
  /\ Proceed(r, IF r \in Recreating THEN "list" ELSE "up")
  /\ UNCHANGED <<dockerVars, listed, cancelled, gated, crossed, spared, late, lifeVars>>

(* Mutant: orphans are removed on the rolling path too.                    *)
StartWithOrphans(r) ==
  /\ pc[r] = "up"
  /\ ComposeUp(TRUE)
  /\ Proceed(r, IF r \in Recreating THEN "ok" ELSE "wait")
  /\ UNCHANGED <<file, listed, cancelled, gated, crossed, spared, late, lifeVars>>

(* compose_up, alone or as the last step of a recreation.                  *)
Start(r) ==
  /\ pc[r] = "up"
  /\ ComposeUp(r \in Recreating)
  /\ Proceed(r, IF r \in Recreating THEN "ok" ELSE "wait")
  /\ UNCHANGED <<file, listed, cancelled, gated, crossed, spared, late, lifeVars>>

(* health_check: `docker inspect` of the run's own container, until it is  *)
(* healthy or unhealthy, the attempts are used up or the command fails.    *)
HealthCheck(r) ==
  /\ pc[r] = "wait"
  /\ \/ r \in Unchecked /\ Proceed(r, "list") /\ UNCHANGED gated
     \/ /\ r \notin Unchecked /\ state[NameOf(r)] = "healthy"
        /\ gated' = gated \cup {r}
        /\ Proceed(r, "list")
     \/ r \notin Unchecked /\ Proceed(r, "logs") /\ UNCHANGED gated
  /\ UNCHANGED <<dockerVars, file, listed, cancelled, crossed, spared, late, lifeVars>>

(* What run r has listed may belong to a production run that is not over.  *)
Cross(r) ==
  crossed' = crossed \cup
    {q \in Runs \ {r} : /\ PullRequest[q] = 0 /\ NameOf(q) \in listed'[r]
                        /\ q \in InFlight \/ file = q}

(* Mutants: no filter on the pull request; only what is healthy is listed. *)
ListAll(r) ==
  /\ pc[r] = "list"
  /\ listed' = [listed EXCEPT ![r] = {n \in Names : Present(n)} \ {NameOf(r)}]
  /\ Proceed(r, "remove")
  /\ Cross(r)
  /\ UNCHANGED <<dockerVars, file, cancelled, gated, spared, late, lifeVars>>

ListHealthy(r) ==
  /\ pc[r] = "list"
  /\ listed' = [listed EXCEPT ![r] =
       {n \in NamesOf(PullRequest[r]) : state[n] = "healthy"} \ {NameOf(r)}]
  /\ Proceed(r, "remove")
  /\ Cross(r)
  /\ UNCHANGED <<dockerVars, file, cancelled, gated, spared, late, lifeVars>>

(* stop_other_containers, first command: the names that carry the labels   *)
(* of the application and of the pull request, except the new one's.       *)
ListOthers(r) ==
  LET others == NamesOf(PullRequest[r]) \ (IF r \in Recreating THEN {} ELSE {NameOf(r)})
      next == IF r \in Recreating THEN "up" ELSE "ok"
  IN
  /\ pc[r] = "list"
  /\ listed' = [listed EXCEPT ![r] = others]
  /\ Proceed(r, IF others = {} THEN next ELSE "remove")
  /\ Cross(r)
  /\ UNCHANGED <<dockerVars, file, cancelled, gated, spared, late, lifeVars>>

(* Second command: those names, whatever runs under them by now.           *)
RemoveOthers(r) ==
  /\ pc[r] = "remove"
  /\ RemoveListed(r)
  /\ listed' = [listed EXCEPT ![r] = {}]
  /\ Proceed(r, IF r \in Recreating THEN "up" ELSE "ok")
  /\ UNCHANGED <<file, cancelled, gated, crossed, late, lifeVars>>

(* After a failed health check: query_container_logs, remove_container.    *)
Logs(r) ==
  /\ pc[r] = "logs"
  /\ Proceed(r, "drop")
  /\ UNCHANGED <<dockerVars, file, listed, cancelled, gated, crossed, spared, late, lifeVars>>

DropNew(r) ==
  /\ pc[r] = "drop"
  /\ \/ RemoveAll({NameOf(r)})
     \/ UNCHANGED dockerVars        \* its errors are ignored
  /\ Proceed(r, "failed")
  /\ UNCHANGED <<file, listed, cancelled, gated, crossed, spared, late, lifeVars>>

(* docker runs a command that nobody waits for any more.                   *)
Land(r) ==
  /\ \/ late[r] = "up" /\ ComposeUp(r \in Recreating) /\ UNCHANGED spared
     \/ late[r] = "remove" /\ RemoveListed(r)
     \/ late[r] = "drop" /\ RemoveAll({NameOf(r)}) /\ UNCHANGED spared
  /\ late' = [late EXCEPT ![r] = "none"]
  /\ listed' = [listed EXCEPT ![r] = {}]
  /\ UNCHANGED <<file, pc, cancelled, gated, crossed, lifeVars>>

(* A new container becomes healthy, or does not.                           *)
Warm(n) ==
  /\ state[n] = "starting"
  /\ \E s \in {"healthy", "sick"} : state' = [state EXCEPT ![n] = s]
  /\ UNCHANGED <<maker, file, runVars, lifeVars>>

-----------------------------------------------------------------------------
(* The stop, restart and preview_cleanup jobs, one at a time               *)

LifeStarts(what, pr) ==
  /\ life = "idle"
  /\ jobs > 0                   \* bound
  /\ jobs' = jobs - 1
  /\ life' = what /\ lifePr' = pr
  /\ UNCHANGED <<lifeListed, taken>>

(* stop_application and restart_application, one command: `docker ps` ...  *)
StopOrRestart ==
  /\ \E what \in {"stop", "restart"} : LifeStarts(what, 0)
  /\ UNCHANGED <<dockerVars, file, runVars>>

(* cleanup_preview cancels what is active of its pull request ...          *)
CleanupStarts ==
  /\ \E pr \in {PullRequest[r] : r \in Runs} \ {0} :
       /\ LifeStarts("clean", pr)
       /\ cancelled' = cancelled \cup {r \in InFlight : PullRequest[r] = pr}
  /\ UNCHANGED <<dockerVars, file, pc, listed, gated, crossed, spared, late>>

(* `docker ps --filter name=<uuid>-pr-<n>` takes every name that contains  *)
(* this one: pr is a prefix of the other preview's number.                 *)
NameFilter(pr) ==
  {n \in Names : Present(n) /\ n[1] # 0 /\ \E k \in 0..9 : n[1] \div 10^k = pr}

(* A `docker ps` that fails finds nothing.                                 *)
LifeLists ==
  /\ life \in {"stop", "restart", "clean"}
  /\ lifeListed' \in {{}, IF life = "clean" THEN NameFilter(lifePr) ELSE NamesOf(0)}
  /\ life' = CASE life = "stop" -> "stopping" [] life = "restart" -> "restarting"
               [] life = "clean" -> "cleaning"
  /\ UNCHANGED <<dockerVars, file, runVars, lifePr, taken, jobs>>

(* ... then the containers found are removed one by one, errors ignored.   *)
LifeRemoves(n) ==
  /\ n \in lifeListed
  /\ \/ RemoveAll({n}) /\ taken' = IF life = "cleaning" THEN taken ELSE taken \cup {n}
     \/ UNCHANGED <<dockerVars, taken>>
  /\ lifeListed' = lifeListed \ {n}
  /\ UNCHANGED <<file, runVars, life, lifePr, jobs>>

LifeMovesOn ==
  /\ life \in {"stopping", "restarting", "cleaning"}
  /\ lifeListed = {}
  /\ life' = IF life = "restarting" THEN "up" ELSE "idle"
  /\ UNCHANGED <<dockerVars, file, runVars, lifeListed, lifePr, taken, jobs>>

(* restart_application brings up the file there is.                        *)
LifeUp ==
  /\ life = "up"
  /\ ComposeUp(FALSE)
  /\ life' = "idle"
  /\ UNCHANGED <<file, runVars, lifeListed, lifePr, taken, jobs>>

(* A command of the job fails; it may be retried as another job.           *)
LifeFails ==
  /\ life # "idle"
  /\ life' = "idle"
  /\ lifeListed' = {}
  /\ UNCHANGED <<dockerVars, file, runVars, lifePr, taken, jobs>>

Run(r) ==
  \/ Begin(r) \/ Cancel(r) \/ Abandon(r) \/ Fails(r) \/ WriteConfig(r) \/ Start(r)
  \/ HealthCheck(r) \/ ListOthers(r) \/ RemoveOthers(r) \/ Logs(r) \/ DropNew(r) \/ Land(r)

ContainersNext ==
  \/ \E r \in Runs : Run(r)
  \/ \E n \in Names : Warm(n) \/ LifeRemoves(n)
  \/ StopOrRestart \/ CleanupStarts \/ LifeLists \/ LifeMovesOn \/ LifeUp \/ LifeFails

ContainersSpec == ContainersInit /\ [][ContainersNext]_containerVars

-----------------------------------------------------------------------------
(* A production container that has passed its health gate serves.          *)
Serving == \E n \in Names : n[1] = 0 /\ state[n] = "healthy" /\ maker[n] \in gated

(* Once production is served it goes on being served, through deployments  *)
(* that succeed, fail their health check, are cancelled or lose a command, *)
(* one after the other or several at once, and through previews            *)
(* ("Zero-downtime rolling update with a health gate").  Only a stop or a  *)
(* restart job interrupts it, by removing what serves or the container of  *)
(* the run that is about to remove the others; and a run that removes the  *)
(* others when another one has listed its own container, as claim() keeps  *)
(* no two apart.  A removal that a cancelled run has abandoned may land    *)
(* much later, when what it was to leave alone has been replaced: it then  *)
(* takes the last container only if a run whose own was stopped failed to  *)
(* remove that one, or if runs have crossed.  For rolling, checked         *)
(* deployments.                                                            *)
ZeroDowntime ==
  [][Serving /\ ~Serving' =>
       \/ life \in {"stopping", "restarting"} /\ lifeListed' # lifeListed
       \/ \E r \in Runs : (NameOf(r) \in taken \/ r \in crossed) /\ listed'[r] # listed[r]
       \/ late' # late /\ (crossed # {} \/ \E r \in spared : NameOf(r) \in taken)]_containerVars

(* A production deployment that succeeds leaves no other production        *)
(* container, not even those of runs that failed or were cancelled, or that*)
(* were under way beside it, unless docker failed to remove one when told  *)
(* to, or another run has put its own docker-compose.yml in the place of   *)
(* the one the deployment wrote.                                           *)
NothingStale ==
  [][\A r \in Runs :
       PullRequest[r] = 0 /\ pc[r] # "ok" /\ pc'[r] = "ok" /\ r \notin spared' /\ file = r =>
         NamesOf(0)' \subseteq {NameOf(r)}]_containerVars

(* What stop_other_containers says ("a preview deploy never tears down the *)
(* production containers (pr=0) and vice-versa"), of every step of a run.  *)
PreviewsApart ==
  [][\A r \in Runs : pc'[r] # pc[r] \/ late'[r] # late[r] =>
       \A n \in Names : n[1] # PullRequest[r] /\ Present(n) => Present(n)']_containerVars

=============================================================================
