# Rustify in TLA+

Rustify is a self-hosted platform that builds applications and runs them in
containers on servers it reaches over SSH.  It is one process: an HTTP server, a
few workers that take jobs from a PostgreSQL table, and periodic tasks.  Nearly
everything that can go wrong in it goes wrong *between* two SQL statements or
two remote commands, because another worker, a cancel, a lease that expires, a
webhook or the death of the process gets in between.  These modules model those
statements and commands one by one.

## The system

Paths are relative to `src/crates/`.

| Component | Keeps | Operations | What makes it correct |
|---|---|---|---|
| Job queue, `rustify-jobs/src/queue.rs` | table `jobs` (`run_at`, `attempts`, `locked_at`, `locked_by`) | `enqueue`; per worker `claim`, heartbeat, `DELETE` or `UPDATE` of the result | one runner per job, failures counted exactly, nothing lost, drops are final, shutdown drains |
| Deployment engine, `rustify-deploy/src/engine.rs`, `admission.rs`, `rustify-db/src/repos/deployments.rs` | `deployments.status`, a helper container per deployment | `run_deployment`, `queue_next`, `cancel` | statuses move along contract C2; every deployment ends; no helper is left behind |
| Containers of an application, `rolling.rs`, `app_lifecycle.rs`, `preview_cleanup.rs` | the containers, `docker-compose.yml` | steps 7 and 8 of a deployment, jobs `stop_application`, `restart_application`, `preview_cleanup` | production is served throughout, nothing stale remains, previews and production leave each other alone |
| Team membership, `rustify-db/src/repos/teams.rs`, `rustify-server/src/routes/teams.rs` | tables `teams`, `team_user` | `set_role`, `remove_member`, `accept_invitation`, `delete` | a team has an owner; no update is lost |
| Request handlers, `rustify-server/src/routes/` | nothing | insert a row, then a job | a row without a job is found again |
| Build steps, `engine.rs` steps 3 to 8, `git.rs`, `github.rs`, `envfile.rs`, `build_server.rs` | images on each server and in the registry, `deployments.commit_sha` | ls-remote, skip check, clone, build, push, pull, `up` | the commit recorded, the image run and the files in it are of one commit |
| Previews, `routes/webhooks.rs`, `routes/previews.rs`, `pr_comment.rs`, `preview_cleanup.rs` | table `application_previews`, a comment at the git host | webhook deliveries, preview deployments, cleanup | what runs can be managed, one comment, the queue is not flooded |
| Services, databases, application status, `service.rs`, `database.rs`, `app_lifecycle.rs`, `status_sync.rs` | a status column per row, generated secrets | start, stop, restart jobs, a sweep every 30 s | the status is what docker runs, secrets persist once |
| Backups, `rustify-deploy/src/backup.rs`, `rustify-db/src/repos/backups.rs`, `rustify-core/src/retention.rs` | table `scheduled_database_backup_executions`, dump files on the server, objects in a bucket | dispatcher, trigger, `run_backup`, `apply_retention` | once per minute; a row promises only what is there; retention never deletes the last backup |
| Scheduler, scheduled tasks, `rustify-jobs/src/scheduler.rs`, `scheduled_task.rs` | execution rows | every minute: list, check, create an execution, enqueue; the handler; the daily prune | once per minute, an execution ends, its outcome is real |
| Servers, `server_setup.rs`, `proxy.rs`, `cloudflared.rs`, `rustify-ssh/` | the server's row, its proxy and tunnel agent, an SSH master per server | validate, start, stop, restart, tunnel on and off; `ensure` of the master | the row follows the machine, the direct address survives, commands reach the machine they are meant for |
| Cloud providers, `rustify-server/src/aws.rs`, `hetzner.rs` | machines, networks, groups at the provider; rows with a cached power state | provision, form a swarm, power sweeps | an answer is the whole truth, recorded roles are real, the cache converges |
| Events, notifications, WebSocket | broadcast channels | send, forward | best effort |
| Compose files, proxy configuration, auth, terminal, web UI | - | text, sessions, a PTY (whose SSH master is shared with the servers' jobs) | - |

How they interact: a request inserts a `deployments` row and then a job, in two
statements.  A worker claims the job and runs the engine; the engine moves the
row, starts a helper container, builds, switches the application's containers,
moves the row to its end and asks admission for the next deployment of the
server, whose job it inserts in a further statement.  Cancels write the row
directly, and the engine reads it before and during every remote command.

`PROJECT.json` lists every component, modelled or not, and under `hazards` what
in this code is hard to test, at its line, with the property that watches it.

## The modules

| Module | Models | EXTENDS / INSTANCE |
|---|---|---|
| `JobStore` | abstract: what the queue promises | |
| `JobQueue` | `queue.rs`, one action per statement or worker step | `Store == INSTANCE JobStore` (refinement) |
| `DeployPipeline` | requests, engine, admission, cancel, shutdown, restart | `Store == INSTANCE JobStore` (composition: its jobs live in the store) |
| `AppContainers` | the containers of one application | |
| `Backups` | dispatcher, trigger, `run_backup` and retention of one schedule | `Store == INSTANCE JobStore` (composition) |
| `Builds` | steps 3 to 8 of the engine for one application, as often as a deployment is attempted, beside pushes, prunes, tokens and build servers | |
| `Previews` | webhooks, deployments and cleanup of one pull request, its row and its comment | `Store`, as above |
| `Workloads` | the lifecycle jobs of one service, database or application with a preview, and the status sweep | `Store`, as above |
| `ScheduledTasks` | dispatcher, trigger, handler and prune of a server's tasks | `Store`, as above |
| `Servers` | the jobs on one server and the SSH master they share with each other and with a terminal | `Store`, as above |
| `CloudServers` | provisioning requests, the swarm, the power sweeps | |
| `TeamOwnership` | the transactions on one team | |
| `DeployPipelineProofs`, `ScheduledTasksProofs`, `PreviewsProofs`, `ServersProofs`, `CloudServersProofs` | theorems | the module they are about, `TLAPS` |
| `QueueBuildsProofs`, `BackupsTeamsProofs`, `WorkloadsContainersProofs` | theorems about two modules that share no name: `JobQueue` and `Builds`, `Backups` and `TeamOwnership`, `Workloads` and `AppContainers` | both, `TLAPS` |
| `MC*` | small instances | the module they instantiate |

The modules overlap where components meet, each with the detail its questions
need: a deployment is a few statements in `DeployPipeline`, its commands on
images in `Builds`, its commands on containers in `AppContainers`, its row and
comment in `Previews`, its last write of a status in `Workloads`.  What another
component does to the same state is in each of them as an action that may happen
at any time, never as an assumption that it does not.

### JobQueue

`row`, `attempts`, `lockedBy`, `lockAge`, `wait` are the columns of each job;
time is relative (`lockAge` is `now - locked_at`, `wait` is `run_at - now`) and
discrete.  `pc`, `job`, `snap` are a worker's place in `run_loop`/`execute`, its
`ClaimedJob` and the `attempts` it read; `hb` is the time since it last wrote
its lease.  `Claim` takes the longest-due ready row, as `ORDER BY run_at ... FOR
UPDATE SKIP LOCKED` does.  `RecordFailure` writes from the snapshot and looks at
no lease, as the code does.  `Restart` is the death of the process: only the
table survives, and workers come back with the same ids (`<pid>-w<n>`, and in a
container the pid repeats).

How late a heartbeat or a result may land is the constant `Latency`; the queue
is correct when `Timely` holds: `HeartbeatPeriod + Latency <= StaleTimeout`,
that is, every renewal and every result reaches the table before its lease
expires.  A heartbeat statement that fails is one that lands a period later.

### DeployPipeline

`status` is the column, `request` the place of the handler between its two
statements, `jobStatus`/`tries`/`holder` the job store.  A deployment has up to
two jobs, `<<d, "api">>` of its request and `<<d, "adm">>` of admission, and
both may be run, at once or one after the other.  `pc` walks through
`run_deployment`: `Claim`, `Reread`, `Dispatch`, `HelperUp` or `HelperFails`,
`StepsEnd`, `Cleanup`, `Finish`, `Drain`, `EnqueueAdmitted`, `Report`.  The
steps between the helper's start and its removal are one action that ends well,
fails, or sees a cancellation.  `InfraError`, `DrainError`, `SendFails` and
`ReportLost` are database errors at each place where the code takes a different
path.  `stray` says whether a `docker run` that nobody waits for can still start
a helper, has done so, or a removal has failed.

### AppContainers

A run is steps 7 and 8 of one deployment.  Its commands are `WriteConfig` (`.env` and
`docker-compose.yml`), `Start` (`docker compose up -d`), `HealthCheck`,
`ListOthers` and `RemoveOthers` (`docker ps`, then `docker rm` of the names
read), or `Logs` and `DropNew` after a failed check.  A production container's
name is fresh for each run, a preview's is fixed; both live in one directory,
so `file` is what the last run wrote, whoever starts the stack.  A compose
service is created again when its configuration, which holds the deployment's
id as a label, is not the one it was created from.  `late` is a command that a
cancelled run has given up and docker still runs.  The stop, restart and
cleanup jobs remove the names they have read one at a time; docker's errors are
ignored where the code says `|| true` or drops the result, and recorded in
`spared`.  `claim()` keeps no two production runs apart, so `MaxInFlight` of
them may be under way: `crossed` holds the runs whose container another run has
listed while they were under way or theirs was the file.  `gated`, `crossed`,
`spared` and `taken` are history variables.

### Backups

One schedule.  `rows` are the execution rows; `copies` says, per side (the
server's disk, the bucket) and file name, whose dump is there: a file is named
by the second its handler began in, so two dumps may share it.  `run` is what
the handler of each worker has read: the schedule (`conf`) once and for all, the
selected executions (`dels`), their files (`names`).  `Select`, `Names`,
`Remove` and `Mark` are one pass of `apply_retention`, first for the disk and
then for the bucket, and `SelectForDeletion` is `select_for_deletion` with its
three rules.  The schedule may be edited meanwhile.  `dumps` and `demoted` are
history: how many dumps have been written under a name, and whether a run of an
execution that had already succeeded has overwritten its success with a failure.
Both really lose a backup; the properties are about the rest.
`OncePerMinute` is about rows that are still there: a row that retention prunes
within its minute lets the dispatcher fire again.  Deleting a schedule,
`enabled`, engines that cannot be dumped and the texts of commands are left out.

### Builds

`head` and `token` are outside: the commit the branch is at, and whether the cached
access token still opens it.  A `run` is one attempt at a deployment
(`DeploymentOf`): a worker that dies, or a database that refuses the terminal
status, leaves the deployment in progress (`Die`), and `claim()` lets the retried
job start over, with a fresh container name and another `persist_commit`, while
the container and the images of the attempt before are still there.  A run walks
through `Resolve` (ls-remote), `Record`, `Pin`, `SkipBuild` (is the image there),
`Clone`, `Build`, `PushImage`, `PullImage`, `WriteConfig`, `Up` and `Settle`; per
site (`0` is the server it deploys to, the others are build servers) `images`
says what each tag holds.  An image is a pair: `tree`, the commit whose files it
was built from, and `told`, the commit the build was told of.  `recorded` is
`deployments.commit_sha`, `containers` the image each run has started.  Every
command that exits with a code other than 0 is an error of the executor
(`rustify-ssh/src/lib.rs`), so a refused clone, push or pull fails the run; only
an ls-remote that succeeds and names no such branch lets it go on
(`ResolveBlind`).  `history` is written only for the properties: the heads of the
branch while a run went on, and the facts that excuse it (`blind`: git answered
nothing; `pruned`; `reused`: an image with its tag was there; `overlapped`:
another run was under way).  That the helper container of a dead attempt, when
it is still there, makes the next attempt fail is one of the failures of `Fail`.
Whether a build succeeds is a choice; what is written into a Dockerfile is left
out.

### Previews

A delivery is one webhook call, its deployment and its job.  `what` and `at` say
which event it is and where its handler is: classified and gated, the queue
counted (`Count`: every deploy job without a lock, those that were dropped at
their attempt limit included, `Pending`), the row upserted, the deployment created, the job inserted.
The engine's part is `Prepare` (upsert, then `Claim`, in that order), `Post` and
`Save` (the comment and its id), `Up`, `Finish`; the cleanup's is `CancelActive`,
`RemoveBox`, `ReadRow`, `DeleteComment`, `DropRow`.  `raced` and `overtaken` are
history: deployments and cleanups overlapped, and the queue grew between the
count and the insert.

### Workloads

One `row` of any of three kinds, with its status and `is_public`; `stored` are a
service's secrets in the table, `dotenv` those on the server, `live` those the
stack was started with; `box`, `preview` and `proxy` are what docker runs: a preview of an application
carries the application's label, too, and the end of its deployment writes
`running` to the application's row.  A job is resolved, then runs its steps:
for a service, the listing of the stored variables, `Generate`, one `Upsert` per
secret, `Write`, `Up`; for a database the container and the public proxy; for an
application, compose.  `FinishDeployment` is the write of the engine.  The sweep
(`sync`) lists the containers of the application, production and preview, and
for each of them in turn reads the row, inspects, stops what loops and writes,
and anything may happen between two of these.  A service is stopped in its
directory, which is there only once it has been deployed (`HasDirectory`).
`excuses` is history: production's jobs overlapped ("twice" for two deployments
of a service), docker refused a removal that the code calls a success, or, until
production's own next write, a preview's deployment or the sweep wrote a status
of something else than production as it is.

### ScheduledTasks

`rows` are the executions, `sweep` the place of the dispatcher in its loop over
the due tasks: read the resource's status, `SweepChecks` (`has_execution_since`),
`SweepCreates`, `SweepEnqueues`; the trigger request creates and enqueues
without a check.  A worker's `run` looks for a container, executes up to `Tries`
times, and finishes the row, whatever its status was.  `Tick` is the clock in
seconds, `MinuteOf` their minutes; a tick of the scheduler may come late, early
after a restart, or twice in a minute.

### Servers

`row` is the server's; `given` the address a person gave last; `machine` what
runs on each machine (docker, a proxy, the agent of a tunnel); `master` the SSH
process behind the server's socket, to a machine and perhaps through the tunnel;
`age` the entry that the workers' `MuxManager` has for it, which outlives the
master.  A job (`work`) reads the row, remembers the host, and runs commands,
each of which travels on the master there is (`Reusable`), or makes one to the
host it remembers.  A `visitor` is anybody else on the same socket: the ssh of a
terminal, with `ControlMaster=auto`, or a request's executor with an
`established` map of its own.  It rides on the live master, or opens one to the
address it holds (`Visit`, `Leave`).  A live master without an entry is entered
as newborn, whoever opened it; `master.adopted` remembers that.  `Run` of
`docker` has the installer that was not downloaded: `curl | sh` is a success all
the same, and the row becomes usable ("undocked").  `excuses`, `since` and
`adopted` are history.

### CloudServers

A request (`req`) buys one machine or `Count` of them: network, group, key, then
`Launch` (whose public address a subnet just made by `create_network` never
gives), `WaitRunning`, per node a row and a validation job, then the swarm:
`SwarmInit`, `JoinToken`, `Join`, with a role recorded after each.  Every call
may fail, an answer may be lost (`LaunchTwice` is Hetzner's retry of a POST), and
requests share the region's network and security group.  `sync` is a sweep, one
row at a time: look, write, turn on.

### TeamOwnership

One action is one statement of a READ COMMITTED transaction: it sees the
committed rows and its own writes (`View`), a row that is written or selected
`FOR UPDATE` is locked until the transaction ends, a count locks nothing.
`draft` is what a transaction has written, `raced` whether another one has
committed since it last counted.  `Authorize` and `CheckTarget` are the checks
of the routes, made before the transaction begins.

## The runs

| Run | Instance | Shows |
|---|---|---|
| `queue` | 2 workers, 2 jobs, 2 attempts, lease 2, latency 1, one panic, lost result and restart | `OneRunner`, `DroppedStaysDropped`, the refinement `ImplementsStore`, liveness `EverySettles` and `Drains` |
| `pipeline` | 3 deployments of 2 applications, 2 workers, 1 build slot, a shutdown or a lost command | `LegalTransitions`, `AdmittedOnce`, `HelperOwned`, `StopIsClean` |
| `pipeline_faults` | 2 deployments of 1 application, a crash and a database error | `DoneMeansOver`, `NoneForgotten`, liveness `EveryDeploymentEnds` |
| `containers` | 2 production runs, one after the other or at once, an unchecked preview, one job | `ZeroDowntime`, `NothingStale`, `PreviewsApart` |
| `builds` | 2 deployments at once, one forced and the other attempted once or twice, 2 commits, a build server, two events among a push, a prune, a lost token, a death and an edit | `CommitIsCurrent`, `ImageOfItsCommit`, `FilesOfItsCommit`, `MissingNeedsPrune` |
| `previews` | 3 deliveries, 2 workers, a queue of 1, one attempt per job, one trouble | `Manageable`, `SingleComment`, `LimitHolds` |
| `workloads` | one workload of each kind, an application with a preview, 2 jobs, 2 workers, an edit, a crash, a fault | `StatusFollows`, `PersistOnce`, liveness `StatusConverges` |
| `backups` | up to 3 executions, 2 workers, 2 policies, 3 seconds, one edit, restart, database error or lost command | `OncePerMinute`, `LastBackupKept`, `PromisedCopyIsThere`, `PrunedLeavesNothing` |
| `tasks` | 2 tasks, one of a service, 2 executions, 1 worker, 3 seconds, one edit, restart or failure | `OncePerMinute`, `OutcomeIsReal`, liveness `EveryExecutionEnds` |
| `servers` | 2 machines, 2 jobs of any kind, 2 workers, one edit, one fault or one visitor on the socket | `RowFollows`, `AddressKept`, `StaleMasterExpires` |
| `cloud` | 2 requests, at most 2 machines each, one edit, 2 faults | `TruthfulAnswer`, `RolesAreReal`, liveness `PowerConverges` |
| `teams` | 3 users, 2 requests in flight | `OnlyJoiningAdds`, `LossNeedsRace` |

**Bounds.**  `MaxRestarts`, `MaxPanics`, `MaxLostResults`, `MaxStops`,
`MaxDbErrors`, `MaxSshLosses` and `MaxJobs` bound how often a failure or a job
occurs, one each where it occurs, at any moment: each property is about one
failure meeting any interleaving; in `pipeline` the constraint `OneFault` keeps
to behaviours with a shutdown or a lost command, not both.  Two workers are the least that interfere,
and the properties that relate workers speak of two at a time.  Two jobs make
claims compete; two attempts make the last failure differ from the first.  Three
deployments let two of one application wait while one of another holds the
build slot.  Three members and two transactions let an heir be somebody else's
target.  Two production runs and a preview give a run something old, something
foreign and something failed to deal with; two are the least that cross.  In
`containers` only production runs overlap, and a job comes neither before or
during an overlap nor once runs have crossed (`Bounded`).  `Backups` bounds the clock
(three seconds, of which two make a minute) and the edits and failures (one of
any kind); its constraint `Bounded` cuts behaviours that have passed a clash or
a demotion, where the properties say nothing, gives the dispatcher only the
schedule without S3 (whose triggered executions then meet no failure: those of
the schedule with S3 do), and lets a third execution join only where nothing
fails.  Two executions meet every failure; three let two retentions overlap
whose newest differ.  `OverdueCap` stops counting how long
a job has been due: only the order of the due jobs depends on it.

`builds`: two deployments are the least that overlap or that follow one another
on the same tag, two commits the least that can be confused; `MaxEvents` lets
any two of the five kinds of event meet.  A second attempt can spoil or find the
container and the image of the first; its constraint lets it happen, beside the
other deployment, to applications with a public source that are built where they
run, with pushes and deaths as events.  `previews`: with a limit of one the
queue is full as soon as something waits, and three deliveries are a deployment,
a cleanup and a redelivery.  A job has one attempt: one that fails is dropped and
fills the queue, one whose process dies is run again.  `workloads`: two jobs of any kinds in any order,
at once or one after the other; two workers are busy with an application at once
only before anything has failed or crashed (`Bounded`).  `tasks`: three seconds hold the end of a minute
and a minute with two ticks; a task of an application runs and one of a service
never does, since nothing writes `service_applications.status`; two executions
are the least that clash.  `servers`: `MaxAge` 0 makes a master too old at the
next tick; a second machine is there for the address to be changed to.  A
visitor comes beside one worker and no fault (`Bounded`): a master that the
worker finds without an entry is one that the visitor opened, or, without a
visitor, one from before a restart.
`cloud`: two machines are a manager and a worker; two faults meet one request
twice or both once.

**Fairness.**  `JobQueue` assumes weak fairness of each worker's statements, of
its heartbeat, of time and of the return of a handler: every remote command is
run under `timeout` (`rustify-ssh/src/command.rs`), SQL statements and HTTP
calls end.  `DeployPipeline` assumes that handlers and engines are polled to
their end and that workers poll the queue, `ScheduledTasks` likewise.
`Workloads` and `CloudServers` assume only that the sweeps, which the scheduler
runs every 30 seconds and every few minutes, go on: nothing has to be fair to
requests or jobs for a status to converge.  Nothing obliges anyone to enqueue,
cancel, fail, shut down or restart.  In `queue` one panic leaves one of two
claim loops: with as many panics as workers `EverySettles` fails, because
nothing restarts a claim loop.

**Deadlock** is checked only for the queue, which can always let time pass; the
other systems may be at rest.

## What the code does otherwise than it says

Met while modelling, with the code as it is in the modules.  The properties are
stated about what the code does keep, so each of them names what it excepts.

Queue and deployments:

* A failed run reports `attempts` from its snapshot and clears the lock whoever
  holds it (`queue.rs:265`): when a result lands after its lease has expired, a
  dropped job can be claimed again, although "Jobs are dropped (never claimed
  again)" (`queue.rs:10`).  The model has it for `Latency` beyond `Timely`.
* `Engine::claim` does not ask admission (`engine.rs:400`): an application's
  deployments overlap when two workers are free, although a test says
  "admission: one in-flight per application" (`deploy_integration.rs:54`).
  Two that overlap can each remove the other's container and leave production
  down: `ZeroDowntime` excepts the removal by a run that has been `crossed`, and
  `NothingStale` speaks of a run whose `docker-compose.yml` is still there.
* `claim()` takes a deployment that is in progress (`engine.rs:404`): one whose
  terminal status could not be written is run again under a new container name,
  resolves the branch anew and overwrites `commit_sha` (`engine.rs:540`).  After
  a push the row then names another commit than the container of the first
  attempt runs, until the second attempt ends well.
* A preview on the recreate path passes `--remove-orphans` in production's
  project and removes production (`rolling.rs:87`).  `ZeroDowntime` also needs
  every production run to roll and be checked.
* `docker ps --filter name=<uuid>-pr-1` also matches pull request 10
  (`preview_cleanup.rs:105`).
* Log lines are numbered from 0 by each engine (`engine.rs:1486`): a second run
  of a deployment collides with the first one's keys.
* `restart` brings up whatever `docker-compose.yml` was written last
  (`app_lifecycle.rs:144`), also that of a preview or of a failed run.

Builds:

* An ls-remote that succeeds without an answer, of a branch that was deleted, lets
  the deployment go on with the commit stored on the application when it was
  prepared: its image exists, and the old build is redeployed with success
  (`engine.rs:529-534`).  (One that fails, for a revoked token say, fails the
  deployment.)  Conversely the commit a user pins is overridden by the head.
* The clone takes the head of the branch and drops the sha (`let _ = sha`,
  `engine.rs:587`); a preview resolves and clones the application's branch, not
  the pull request's.
* With a build server every commit has one tag, so "Image already exists for this
  commit" (`engine.rs:477`) is said of older images.  No handler writes `build_server_id` or
  `docker_registry_image_name`.
* The skip check ignores changed build-time variables.
* The hourly prune between the skip check and `up` fails a deployment.

Previews, workloads and tasks:

* `Engine::prepare` upserts the preview's row before it claims the deployment
  (`engine.rs:304`): the job of a deployment that a cleanup has cancelled brings
  the row back.
* `deploy_queue_full` counts all `deploy` jobs without a lock (`webhooks.rs:52`),
  also those dropped at their attempt limit, which nothing deletes: after 200 of
  them webhooks answer "Deployment queue is full." for good.
* A preview's deployment writes `running` to the application's row
  (`engine.rs:146`), and the sweep writes the status of each container with the
  application's label in turn (`status_sync.rs:85`): with a preview beside
  production the status goes back and forth, and a preview that runs keeps
  "running" on a stopped application.
* "A stopped/never-deployed stack must not fail the job" (`service.rs:196`), but
  `cd` into a directory that is not there does (`service.rs:197`).
* A database started with `is_public` false does not remove the proxy of an
  earlier start, and a stop after `is_public` was cleared leaves it running.
* Two deployments of a service at once can each generate a secret and the second
  upsert overwrites the first, although env is "persist-once" (`service.rs:9`).
* A sweep that writes what it listed before a stop leaves "running" for good:
  applications without containers are not reconciled.
* `service_applications.status` is never written (`set_application_status` has no
  caller), so tasks of services always end with "No containers running.".

Servers and cloud:

* The master is found by the server's uuid (`mux.rs`): after a change of `ip` it
  leads to the former machine for up to `MUX_MAX_AGE`, and longer when it is taken
  for a new one (`mux.rs:104`): after a restart, or when a terminal or a request
  with an executor of its own opened it.
  `MuxManager::remove` has no caller.
* Turning the tunnel off over the tunnel removes the agent that carries the
  connection, so the flag is not cleared and the server is cut off, although
  the function says "restore the direct IP" (`cloudflared.rs:242`).
* `curl | sh` (`server_setup.rs:102`) exits 0 when the download fails, and the rest
  of the script does too: the server becomes usable without docker.
* `stop_script` and `disable_script` ignore docker's refusals.  Validation starts
  the proxy without the saved custom flags.  A change of `ip` under a tunnel is
  undone when the tunnel is turned off.
* A network that `create_network` left without a subnet fails every later
  request; a security group found by name is used whatever ports it opens.
* Errors after a launch leave machines without rows; deleting a server leaves its
  machine; a POST sent again may buy two.

Backups and teams:

* The S3 rules count backups whose upload failed as copies in the bucket, so a
  failed upload makes them delete the last real one (`backups.rs:525`).
* Concurrent demotions or removals leave a team without an owner
  (`teams.rs:234`), although set_role says "never leaving the team without an
  owner"; `LossNeedsRace` says that only such an overtaking does.

## What is proved

TLAPS proves, for all values of the constants that satisfy the named
assumptions (`QueueAssumption`, `PipelineAssumption`, `BackupsAssumption`, `TeamAssumption`,
`BuildsAssumption`, `TasksAssumption`, `PreviewsAssumption`, `ServersAssumption`,
`CloudAssumption`, `WorkloadsAssumption`, `ContainersAssumption`), that the
properties below hold; a theorem that needs more says so in its own `ASSUME`.
TLC checked the inductive invariants of `Backups`, `Previews` (`Alone`), `Servers`
(`Orderly` and `Ages`), the shutdown (`Drained`) and
`AppContainers` (`Rolls`) on instances of a million states and more before they
were proved.

* `QueueBuildsProofs`, on `JobQueue`: `QueueTyping`; and under `Timely`, `Exclusive` (`OneRunner`),
  `DropsAreFinal` (`DroppedStaysDropped`) and `Implementation`
  (`ImplementsStore`).  The inductive invariant is `QueueTypeOK`, `Leased` and the
  emptiness of the hands of workers at rest: `OneRunner` is not inductive by
  itself, because what keeps a second worker away is that a busy worker's lease
  is younger than `StaleTimeout`, and that it is so follows from the time since
  its last heartbeat.  The refinement maps each statement to one step of
  `JobStore` (heartbeats and time to stutters).
* `DeployPipelineProofs`: `Typing`, `Lifecycle` (`LegalTransitions`),
  `SuccessIsFinal` (`DoneMeansOver`), `NothingForgotten` (`NoneForgotten`),
  `AdmissionOnce` (`AdmittedOnce`), `HelpersOwned` (`HelperOwned`) and
  `StopsClean` (`StopIsClean`).  The
  invariant `IInv` has a part per question: `Books` (types, and a worker past
  its claim holds the job in its hands), `Rows` (a row exists once its request
  has begun, and a sent request has a job), `Admissions` (what admission has
  given out is in progress or over and has no second job), `Stages` (what an
  engine past a step knows of its row) and `DoneMeansOver`.  `Stages` is what
  makes the rest inductive: an engine that reports success has seen its row
  over, and C2 keeps it over.  `Drained` is for the shutdown: every held job has
  an engine at work on it (`Holders`), an engine admits one deployment at most
  before it inserts its job (`OneAdmitted`), and, while no statement was lost, a
  deployment in progress is `Attended`: its job is queued, or an engine is
  before its last transition, or is about to insert its job.  When all workers
  have left only the first is possible.
* `BackupsTeamsProofs`, on `Backups`: `Typing`, `MinutesApart`
  (`OncePerMinute`), `SomethingToRestore` (`LastBackupKept`), `PromisesKept`
  (`PromisedCopyIsThere`) and `NothingLeftBehind` (`PrunedLeavesNothing`).  The
  invariant `Kept` has a part per question:
  * `Once`: all that the dispatcher has created is from before the minute it is
    about to create in.
  * `Files`: every name in use is one that a dump was begun under, and without a
    clash nobody uses the name of another; what a worker is about to record is
    there.
  * `Newest`: all that a retention has selected, or a row has marked, is older
    than some success; the newest success can be restored, and its name is on
    nobody's list.  `LastBackupKept` speaks of any restorable backup, which is
    not inductive: a retention of another worker may have it on its list.  The
    newest never is, because retention always keeps the first it sorts, and a
    success that comes later only makes the others older.
  * `Calm`: while nothing has been lost, an execution is run once (`FirstRun`),
    a copy belongs to the row that names it or to a worker that has yet to
    record it (`Written`), what a row says is deleted is (`Removed`), and the
    names a retention goes through are all the copies of what it selected
    (`Listed`).  A row goes when both sides are marked, so nothing is left.
* `BackupsTeamsProofs`, on `TeamOwnership`: `TeamTyping`,
  `WritesHeldThroughout` (a transaction holds what it has written),
  `NoResurrection` (`OnlyJoiningAdds`), `RaceNeeded` (`LossNeedsRace`) and
  `OneAtATime`: when there is never more than one request in flight, a team that
  has an owner and is not deleted still has one, which is the promise that two
  break.  The invariant adds to the types `Locks` (what a request has locked and
  written at each statement) and `Fresh` (what its last count still tells it if
  no other transaction has committed since): without `Fresh` nothing links the
  count of one statement to the commit of a later one.

* `QueueBuildsProofs`, on `Builds`: `Typing`, `RecordsTheHead` (`CommitIsCurrent`),
  `RunsWhatItRecords` (`ImageOfItsCommit`), `FilesHaveACause`
  (`FilesOfItsCommit`) and `OnlyPrunesRemove` (`MissingNeedsPrune`), for any
  number of attempts at any number of deployments.  The invariant `Inv` has,
  beside the types: `Overlaps` (two runs that are under way both know it),
  `LocalTagsTell` (a local image is tagged with the commit it was told of),
  `FilesBlamed` (every image whose files are another commit's has a run to
  blame, which still knows the commit it resolved though the row may name
  another), `RowTells` (a row names the commit of one of its attempts) and, per
  run, `Sound`: what it has recorded, found, told its build and started, at each
  step.  `Latest`, a part of `Sound`, is what attempts need: the row is that of a
  run which met no other, and when it ends well it has removed the containers of
  the attempts before it.  The properties speak of the end of a run, `Sound` of
  every point before it.

* `ScheduledTasksProofs`: `Typing`, `FiresOnce` (`OncePerMinute`) and
  `RecordsTheOutcome` (`OutcomeIsReal`).  `OncePerMinute` looks only at
  executions that are there; `Checked` says what the sweep knows between the
  statement that looks and the one that creates: no execution of its task in
  `byCron` since the minute began, which stays true because nothing but the
  sweep adds to `byCron`.  `Outcomes` and `Clean` say what a worker that holds
  an execution may assume of its command while no fault has been spent.
* `PreviewsProofs`: `Typing`, `RoomWhenItLooked` (`LimitHolds`),
  `RowOfItsContainer` (`Manageable`) and `OneComment` (`SingleComment`).
  `Looked`: a handler that has looked and was not overtaken still has room.
  Every step but an enqueue of a deploy job and a failure leaves the queue as long
  as it is or makes it shorter; an enqueue overtakes all who wait, and so does the
  job that a failure puts back or drops, and which is counted again; `Bounded` (finitely
  many jobs) is what gives the queue a length.  The other two speak of the time
  between jobs; `Alone` says what leads there.  Until a race is recorded one
  worker at most is about the preview; a deployment has the row's id, and the
  row's comment until it has posted another; a cleanup has removed the
  container, then the comment, before the row (`Tidy`).  `Numbered` keeps a
  comment that was never posted apart from those that were.
* `ServersProofs`: `Typing`, `KeepsTheAddress` (`AddressKept`),
  `RowFollowsMachine` (`RowFollows`) and `StaleMastersExpire`
  (`StaleMasterExpires`).  For the address: `Unborn` (no job of a server that is
  not there) and `Given` (a server has been given an address).  `RowFollows`
  speaks of the time when every job has succeeded.  `Follows`, its inductive
  form, says that where row and machine differ a job of the right kind is still
  open, which will write one of them again, or a worker is at the statement that
  does; `Apart` (jobs that undo each other do not run at once, unless that is
  recorded) and `OneMachine` (until the address is changed, all that jobs do they
  do to one machine) are what it needs; a server is `Docked`, or an installer
  was not downloaded.  `Ages`: while anybody, a worker or a visitor, holds a
  former address no time since its use passes, and a master that leads there and
  was not taken for a new one is, by the entry the workers have for it, no
  younger than that time; the property is about the step of a command.
* `CloudServersProofs`: `Typing`, `RealRoles` (`RolesAreReal`) and `Truth`
  (`TruthfulAnswer`).  The invariant has an `Order(r)` per request, in parts: what
  has been bought at each step, what has been written down (`Listed`: without a
  failure, all numbers below the one at hand), who has joined (`Joined`), and
  that the manager is the first of the nodes.  A request touches only machines
  and rows of its own name, so `Order` of one is kept by the steps of all others
  (`Elsewhere`), by people and by the sweep (`Harmless`).  The swarm needs
  `Swept` too: the sweep turns on only a machine that it has seen.

* `WorkloadsContainersProofs`, on `Workloads`: `WorkloadsTyping`,
  `StatusIsRight` (`StatusFollows`) and `SecretsPersist` (`PersistOnce`).  The
  invariant `Steady` has a part per question:
  * `Follows`, the inductive form of `StatusFollows`, speaks of all times: where
    status and containers differ, a job that will set the status right if it
    succeeds is still open (`Awaited`: queued, dropped after its last failure, or
    before its last command), a worker is about to write the status, or a preview
    or the sweep has written it since production last did (`Misled`).  At rest
    only the last is possible, and the property excepts it.  A deployment of an
    application or its preview is no such job, since one that fails leaves the
    status alone (`Mends`).
  * `Alike` and `Single`: production's jobs that run at once ask for the same, and
    one is a deployment, unless that is recorded in `excuses`.  `Steps` ties a worker's
    place to its job, `Unmet` says that nothing is done before the row exists.
  * `Signed`, for the secrets: what a deployment has generated agrees, at each of
    its upserts, with what is stored.  `PersistOnce` alone does not say what a
    worker that has read the table is still about to write.
* `WorkloadsContainersProofs`, on `AppContainers`: `ContainersTyping`;
  `OwnContainersOnly` (`PreviewsApart`) when no run takes the recreate path;
  `SuccessIsClean` (`NothingStale`), without any hypothesis; and `NoDowntime`
  (`ZeroDowntime`) under `Rolling`: no run on the recreate path, and health checks
  on production.  All three are for any number of runs under way at once.
  * `Apart`: a run lists containers of its own pull request only, and a container
    carries the name of the run that made it (runs of a preview share one).
  * `ListsAll`: a run at its removal has listed all that must go, as long as the
    file on the server is its own, because whatever starts the stack starts what
    the file names.
  * `Rolls`: a list names runs that are over or `crossed` (`OfPast`), never the
    run's own container (`Others`); a run past its gate serves, has been stopped
    or crossed (`Gate`, `Ungated`).  The difficult case is a removal that a
    cancelled run has given up and that lands during a later run: while nothing
    has crossed, the lists of two runs are `Nested` as far as their containers are
    still there, and until it lands either none of its containers is left or
    somebody else serves (`Kept`).  With three production runs this brought out a
    case that the property has to except: a job has stopped the later run's own
    container, docker has refused to remove an older one that the run had listed,
    and the late command then removes it.

The typing of these eleven components is proved and not checked by a run of its
own; so is `WritesHeld`.

Only model-checked: the liveness properties (`EverySettles`, `Drains`,
`EveryDeploymentEnds`, `EveryExecutionEnds`, `StatusConverges`,
`PowerConverges`), which are out of the prover's reach.  Every other property of
a run is a theorem.

## What is not modelled

The compose stacks that the docker-compose build pack starts beyond their commit
and image; deployment logs and events; the text of Dockerfiles, compose files and
scripts; catalogues of the cloud providers; several servers, whose pipelines
share only the `jobs` table; the life of invitations; metrics, which are read and
inserted; the terminal, which forwards bytes; sessions, which one statement looks
up; CRUD of one statement; the web UI.

## Plan

1. `DeployPipeline`, `Previews`, `Backups`, `Workloads` and `ScheduledTasks` keep
   their jobs with the actions of `JobStore`: that their steps are steps of the
   store or stutters, by the argument of `Implementation`.
2. `AppContainers`: which of two crossed runs takes production down, and for how
   long, as a property of its own.
3. The compose stacks of the docker-compose build pack, and proxy configuration.
