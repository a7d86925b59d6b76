------------------------------ MODULE Workloads ------------------------------
(***************************************************************************)
(* The life of one workload, a one-click service, a standalone database or *)
(* an application: the jobs that start, stop and restart it on its server, *)
(* the secrets that a service's deployment generates once and keeps, the   *)
(* preview of an application, whose deployments write the same status, and *)
(* the sweep that reconciles an application's status with docker           *)
(* (crates/rustify-deploy: service.rs, database.rs, app_lifecycle.rs,      *)
(* status_sync.rs, and the end of a deployment in engine.rs).  One action  *)
(* is one SQL statement or one remote command, or a run of them of which   *)
(* only the last one matters.                                              *)
(*                                                                         *)
(* A secret is a number; 0 is none.  A token is written as the number of   *)
(* the key it is signed with.                                              *)
(***************************************************************************)
EXTENDS Naturals, FiniteSets

CONSTANTS
  Kinds,             \* of the workload: "service", "database", "application"
  Jobs, Workers, NoWorker, NoJob,
  MaxAttempts,
  MaxEdits,          \* bounds on the changes of is_public and the deletion,
  MaxCrashes,        \* on the containers that crash,
  MaxFaults          \* and on restarts, database errors and lost commands

ASSUME WorkloadsAssumption ==
  /\ Kinds \subseteq {"service", "database", "application"}
  /\ Jobs \subseteq Nat
  /\ MaxAttempts \in Nat \ {0}
  /\ MaxEdits \in Nat /\ MaxCrashes \in Nat /\ MaxFaults \in Nat
  /\ NoWorker \notin Workers /\ NoJob \notin Jobs

VARIABLES
  kind,
  row,        \* whether the row is there, its status and is_public
  box,        \* the container, or the stack of a service
  preview,    \* the container of an application's preview
  proxy,      \* whether the proxy of a database runs
  stored,     \* environment_variables of a service
  dotenv,     \* .env on the server
  live,       \* what the stack was started with
  minted,     \* secrets generated so far
  op,         \* what each job asks for
  jobStatus, tries, holder,        \* the job store
  work,       \* where each worker is, and what it has read
  sync,       \* where the status sweep is, and what it has read
  excuses,    \* why the status may be wrong (history)
  budget

storeVars == <<jobStatus, tries, holder>>
secretVars == <<stored, dotenv, minted>>
boxVars == <<box, preview, proxy, live>>
vars == <<kind, row, boxVars, secretVars, op, storeVars, work, sync, excuses, budget>>

Store == INSTANCE JobStore WITH status <- jobStatus

NoEnv == [jwt |-> 0, anon |-> 0]
Env == [jwt: Nat, anon: Nat]
Idle == [pc |-> "idle", j |-> NoJob, public |-> FALSE, env |-> NoEnv]

BoxStates == {"absent", "up", "down", "looping", "looped"}
Boxes == {"production", "preview"}
Asleep == [pc |-> "idle", seen |-> [b \in Boxes |-> "absent"], on |-> "production",
           known |-> "exited", new |-> "exited"]

Statuses == {"exited", "running", "restarting", "crashed"}
Ops == {"start", "stop", "restart", "preview", "cleanup"}

TypeOK ==
  /\ kind \in Kinds
  /\ row \in [life: {"new", "there", "gone"}, status: Statuses, public: BOOLEAN]
  /\ box \in BoxStates /\ preview \in BoxStates /\ proxy \in BOOLEAN
  /\ stored \in Env /\ dotenv \in Env /\ live \in Env /\ minted \in Nat
  /\ op \in [Jobs -> Ops \cup {"none"}]
  /\ Store!StoreTypeOK
  /\ work \in [Workers -> [pc: {"idle", "resolve", "list", "jwt", "anon", "write", "remove",
                                "up", "proxy", "proxyRemove", "finish", "running", "exited",
                                "gaveUp", "ok", "err"},
                           j: Jobs \cup {NoJob}, public: BOOLEAN, env: Env]]
  /\ sync \in [pc: {"idle", "read", "inspect", "stop", "write"}, seen: [Boxes -> BoxStates],
               on: Boxes, known: Statuses, new: Statuses]
  /\ excuses \subseteq {"overlap", "twice", "ignored", "preview", "sync"}
  /\ budget \in [edits: 0..MaxEdits, crashes: 0..MaxCrashes, faults: 0..MaxFaults]

Init ==
  /\ kind \in Kinds
  /\ row = [life |-> "new", status |-> "exited", public |-> FALSE]
  /\ box = "absent" /\ preview = "absent" /\ proxy = FALSE
  /\ stored = NoEnv /\ dotenv = NoEnv /\ live = NoEnv /\ minted = 0
  /\ op = [j \in Jobs |-> "none"]
  /\ Store!StoreInit
  /\ work = [w \in Workers |-> Idle]
  /\ sync = Asleep
  /\ excuses = {}
  /\ budget = [edits |-> MaxEdits, crashes |-> MaxCrashes, faults |-> MaxFaults]

Spend(what) == budget[what] > 0 /\ budget' = [budget EXCEPT ![what] = @ - 1]

Excuse(why) == excuses' = excuses \cup {why}

-----------------------------------------------------------------------------
(* Requests                                                                *)

Create ==
  /\ row.life = "new"
  /\ \E public \in IF kind = "database" THEN BOOLEAN ELSE {FALSE} :
       row' = [row EXCEPT !.life = "there", !.public = public]
  /\ UNCHANGED <<kind, boxVars, secretVars, op, storeVars, work, sync, excuses, budget>>

(* update of a database                                                    *)
SetPublic ==
  /\ kind = "database" /\ row.life = "there"
  /\ Spend("edits")
  /\ row' = [row EXCEPT !.public = ~@]
  /\ UNCHANGED <<kind, boxVars, secretVars, op, storeVars, work, sync, excuses>>

(* delete removes the row and nothing else.                                *)
Delete ==
  /\ row.life = "there"
  /\ Spend("edits")
  /\ row' = [row EXCEPT !.life = "gone"]
  /\ UNCHANGED <<kind, boxVars, secretVars, op, storeVars, work, sync, excuses>>

(* start, stop and restart enqueue a job; the restart of a service or a    *)
(* database is another start.  A pull request has a preview deployed and   *)
(* cleaned up (module Previews).                                           *)
Request(j, what) ==
  /\ row.life = "there"
  /\ op[j] = "none" /\ \A i \in Jobs : i < j => op[i] # "none"
  /\ what \in {"restart", "preview", "cleanup"} => kind = "application"
  /\ op' = [op EXCEPT ![j] = what]
  /\ Store!Submit(j)
  /\ UNCHANGED <<kind, row, boxVars, secretVars, work, sync, excuses, budget>>

-----------------------------------------------------------------------------
(* The handlers, in the hands of worker w                                  *)
At(w, pc) == work[w].pc = pc
Goto(w, pc) == work' = [work EXCEPT ![w].pc = pc]
Does(w, what) == op[work[w].j] = what

jobSame == <<kind, op, storeVars, sync>>

(* Jobs about the workload itself.                                         *)
OfProduction == {"start", "stop", "restart"}

Take(w, j) ==
  LET others == {op[work[v].j] : v \in {u \in Workers : ~At(u, "idle")}} \cap OfProduction IN
  /\ At(w, "idle")
  /\ Store!Take(w, j)
  /\ work' = [work EXCEPT ![w] = [Idle EXCEPT !.pc = "resolve", !.j = j]]
  /\ excuses' = excuses \cup (IF op[j] \notin OfProduction \/ others \subseteq {op[j]}
                              THEN {} ELSE {"overlap"})
                        \cup (IF "start" = op[j] /\ "start" \in others THEN {"twice"} ELSE {})
  /\ UNCHANGED <<kind, row, boxVars, secretVars, op, sync, budget>>

FirstStep(w) ==
  CASE Does(w, "start") /\ kind = "service" -> "list"
    [] Does(w, "start") /\ kind = "database" -> "write"
    [] Does(w, "start") /\ kind = "application" -> "up"
    [] Does(w, "preview") -> "up"
    [] OTHER -> "remove"

(* The row is read once; all that follows uses it.                         *)
Resolve(w) ==
  /\ At(w, "resolve")
  /\ work' = [work EXCEPT ![w].pc = IF row.life = "gone" THEN "err" ELSE FirstStep(w),
                          ![w].public = row.public]
  /\ UNCHANGED <<jobSame, row, boxVars, secretVars, excuses, budget>>

(* Mutant: ensure_jwt_key looks at this deployment's variables only.       *)
GenerateAnew(env) ==
  [jwt |-> IF env.jwt # 0 THEN env.jwt ELSE minted + 1,
   anon |-> IF env.anon # 0 THEN env.anon ELSE minted + 1]

(* parse_and_mutate_service: what is persisted is kept; tokens that are    *)
(* missing are signed with the key there is.                               *)
Generate(env) ==
  LET key == IF env.jwt # 0 THEN env.jwt ELSE minted + 1 IN
  [jwt |-> key, anon |-> IF env.anon # 0 THEN env.anon ELSE key]

ListEnv(w) ==
  /\ At(w, "list")
  /\ work' = [work EXCEPT ![w].pc = "jwt", ![w].env = Generate(stored)]
  /\ minted' = minted + 1
  /\ UNCHANGED <<jobSame, row, boxVars, stored, dotenv, excuses, budget>>

(* One upsert per variable, in the order of their names.                   *)
Upsert(w) ==
  /\ \/ At(w, "jwt") /\ stored' = [stored EXCEPT !.jwt = work[w].env.jwt] /\ Goto(w, "anon")
     \/ At(w, "anon") /\ stored' = [stored EXCEPT !.anon = work[w].env.anon] /\ Goto(w, "write")
  /\ UNCHANGED <<jobSame, row, boxVars, dotenv, minted, excuses, budget>>

(* The files are written, the images of a database pulled.                 *)
Write(w) ==
  /\ At(w, "write")
  /\ \/ /\ dotenv' = work[w].env
        /\ Goto(w, IF kind = "service" THEN "up" ELSE "remove")
        /\ UNCHANGED budget
     \/ Spend("faults") /\ dotenv' \in {dotenv, work[w].env} /\ Goto(w, "err")
  /\ UNCHANGED <<jobSame, row, boxVars, stored, minted, excuses>>

(* What follows a removal.                                                 *)
AfterRemove(w) ==
  IF Does(w, "stop") THEN IF work[w].public THEN "proxyRemove" ELSE "exited" ELSE "up"

(* Whether the directory of a service is there, with its files.            *)
HasDirectory == kind = "service" => dotenv # NoEnv

(* stop_script; docker stop and rm of a database; compose down of a        *)
(* service, in its directory.  What docker refuses is an error of a service*)
(* and ignored by the other two; a connection that breaks is ignored by a  *)
(* database and an error of the other two.                                 *)
Remove(w) ==
  LET Gone == box' = "absent" /\ live' = NoEnv IN
  /\ At(w, "remove") /\ ~Does(w, "cleanup")
  /\ \/ /\ HasDirectory
        /\ Gone /\ Goto(w, AfterRemove(w)) /\ UNCHANGED <<excuses, budget>>
     \/ /\ ~HasDirectory
        /\ Goto(w, "err") /\ UNCHANGED <<box, live, excuses, budget>>
     \/ /\ Spend("faults") /\ kind # "service"              \* refused
        /\ Goto(w, AfterRemove(w))
        /\ IF Does(w, "stop") THEN Excuse("ignored") ELSE UNCHANGED excuses
        /\ UNCHANGED <<box, live>>
     \/ /\ Spend("faults") /\ kind # "database"
        /\ Gone \/ UNCHANGED <<box, live>>
        /\ Goto(w, "err")
        /\ UNCHANGED excuses
  /\ UNCHANGED <<jobSame, row, preview, proxy, secretVars>>

(* cleanup_preview, errors ignored.                                        *)
RemovePreview(w) ==
  /\ At(w, "remove") /\ Does(w, "cleanup")
  /\ \/ preview' = "absent" /\ UNCHANGED budget
     \/ Spend("faults") /\ UNCHANGED preview
  /\ Goto(w, "ok")
  /\ UNCHANGED <<jobSame, row, box, proxy, live, secretVars, excuses>>

(* stop_database, the proxy: only if the row said is_public.               *)
RemoveProxy(w) ==
  /\ At(w, "proxyRemove")
  /\ \/ proxy' = FALSE /\ UNCHANGED budget
     \/ Spend("faults") /\ UNCHANGED proxy
  /\ Goto(w, "exited")
  /\ UNCHANGED <<jobSame, row, box, preview, live, secretVars, excuses>>

(* What follows `docker compose up -d`, and what follows its failure: a    *)
(* service is marked exited, a deployment failed with no other write.      *)
AfterUp(w) ==
  CASE kind = "database" /\ work[w].public -> "proxy"
    [] kind = "application" /\ ~Does(w, "restart") -> "finish"
    [] OTHER -> "running"

AfterFailedUp(w) ==
  CASE kind = "service" -> "gaveUp"
    [] kind = "application" /\ ~Does(w, "restart") -> "ok"
    [] OTHER -> "err"

Started(w) ==
  IF Does(w, "preview") THEN preview' = "up" /\ UNCHANGED <<box, live>>
                        ELSE box' = "up" /\ live' = dotenv /\ UNCHANGED preview

(* Mutant: the failure of `up` is taken for success.                       *)
UpAnyway(w) ==
  /\ At(w, "up")
  /\ \/ Started(w) /\ UNCHANGED budget
     \/ Spend("faults") /\ UNCHANGED <<box, preview, live>>
  /\ Goto(w, AfterUp(w))
  /\ UNCHANGED <<jobSame, row, proxy, secretVars, excuses>>

(* `docker compose up -d`, or the steps of a deployment that start a       *)
(* container; a failure may come after the container has started.          *)
Up(w) ==
  /\ At(w, "up")
  /\ \/ Started(w) /\ Goto(w, AfterUp(w)) /\ UNCHANGED budget
     \/ /\ Spend("faults")
        /\ Started(w) \/ UNCHANGED <<box, preview, live>>
        /\ Goto(w, AfterFailedUp(w))
  /\ UNCHANGED <<jobSame, row, proxy, secretVars, excuses>>

(* The proxy of a database that was public when the row was read.          *)
UpProxy(w) ==
  /\ At(w, "proxy")
  /\ \/ proxy' = TRUE /\ Goto(w, "running") /\ UNCHANGED budget
     \/ Spend("faults") /\ proxy' \in BOOLEAN /\ Goto(w, "err")
  /\ UNCHANGED <<jobSame, row, box, preview, live, secretVars, excuses>>

(* set_status(Finished) of a deployment, of a preview too; an error of its *)
(* own is retried.                                                         *)
FinishDeployment(w) ==
  /\ At(w, "finish")
  /\ Goto(w, "running")
  /\ UNCHANGED <<jobSame, row, boxVars, secretVars, excuses, budget>>

(* set_status of the row, if it is still there.  The deployment of a       *)
(* preview writes the status of the application too, whether production    *)
(* runs or not; a later write of production's own sets it right.           *)
SetStatus(w) ==
  /\ work[w].pc \in {"running", "exited", "gaveUp"}
  /\ row' = IF row.life = "gone" THEN row
            ELSE [row EXCEPT !.status = IF At(w, "running") THEN "running" ELSE "exited"]
  /\ Goto(w, IF At(w, "gaveUp") THEN "err" ELSE "ok")
  /\ excuses' = CASE ~Does(w, "preview") -> excuses \ {"preview", "sync"}
                  [] Does(w, "preview") /\ box = "absent" -> excuses \cup {"preview"}
                  [] OTHER -> excuses
  /\ UNCHANGED <<jobSame, boxVars, secretVars, budget>>

(* A statement fails.  The engine only warns of a status it cannot write.  *)
DbFails(w) ==
  /\ work[w].pc \in {"resolve", "list", "jwt", "anon", "finish", "running", "exited", "gaveUp"}
  /\ Spend("faults")
  /\ Goto(w, IF At(w, "running") /\ kind = "application" /\ ~Does(w, "restart") THEN "ok" ELSE "err")
  /\ UNCHANGED <<jobSame, row, boxVars, secretVars, excuses>>

PutDown(w) == work' = [work EXCEPT ![w] = Idle]

Report(w) ==
  /\ \/ At(w, "ok") /\ Store!Finish(w, work[w].j)
     \/ At(w, "err") /\ Store!Miss(w, work[w].j)
  /\ PutDown(w)
  /\ UNCHANGED <<kind, op, sync, row, boxVars, secretVars, excuses, budget>>

(* The process dies, or the result of a job is lost.                       *)
Restart ==
  LET held == {j \in Jobs : jobStatus[j] = "held"} IN
  /\ Spend("faults")
  /\ held # {} /\ Store!LetGo(held)
  /\ work' = [w \in Workers |-> Idle]
  /\ sync' = Asleep
  /\ UNCHANGED <<kind, row, boxVars, secretVars, op, excuses>>

-----------------------------------------------------------------------------
State(b) == IF b = "preview" THEN preview ELSE box

Turns(b, state) ==
  IF b = "preview" THEN preview' = state /\ UNCHANGED box ELSE box' = state /\ UNCHANGED preview

(* A container of an application ends, or is restarted by docker more      *)
(* often than max_restart_count allows.                                    *)
Crash ==
  /\ kind = "application"
  /\ Spend("crashes")
  /\ \E b \in Boxes, state \in {"down", "looping"} : State(b) = "up" /\ Turns(b, state)
  /\ UNCHANGED <<kind, row, proxy, live, secretVars, op, storeVars, work, sync, excuses>>

syncSame == <<kind, proxy, live, secretVars, op, storeVars, work>>

(* sync_all: `docker ps -a` of a server, production and previews; an error *)
(* skips it.                                                               *)
SyncLists ==
  /\ kind = "application" /\ sync.pc = "idle"
  /\ \E b \in Boxes : State(b) # "absent"
  /\ sync' = [sync EXCEPT !.pc = "read", !.seen = [b \in Boxes |-> State(b)]]
  /\ UNCHANGED <<syncSame, row, box, preview, excuses, budget>>

(* reconcile, one listed container after the other: the row, then          *)
(* `docker inspect`, 0 restarts if that fails.                             *)
SyncReads ==
  /\ sync.pc = "read"
  /\ \E b \in Boxes :
       /\ sync.seen[b] # "absent"
       /\ sync' = IF row.life = "gone" THEN Asleep
                  ELSE [sync EXCEPT !.pc = "inspect", !.on = b, !.known = row.status]
  /\ UNCHANGED <<syncSame, row, box, preview, excuses, budget>>

(* desired_status; a container that is restarted is now running, now not.  *)
Desired(state) ==
  CASE state = "up" -> {"running"}
    [] state = "looping" -> {"running", "restarting"}
    [] OTHER -> {"exited"}

Looping(state) == state \in {"looping", "looped"}

SyncInspects ==
  /\ sync.pc = "inspect"
  /\ \/ /\ Looping(State(sync.on))
        /\ sync' = [sync EXCEPT !.pc = "stop"]
        /\ UNCHANGED budget
     \/ /\ IF Looping(State(sync.on)) THEN Spend("faults") ELSE UNCHANGED budget
        /\ \E s \in Desired(sync.seen[sync.on]) : sync' = [sync EXCEPT !.pc = "write", !.new = s]
  /\ UNCHANGED <<syncSame, row, box, preview, excuses>>

(* `docker stop`, errors ignored.                                          *)
SyncStops ==
  LET state == State(sync.on) IN
  /\ sync.pc = "stop"
  /\ sync' = [sync EXCEPT !.pc = "write", !.new = "crashed"]
  /\ \/ /\ Turns(sync.on, CASE state = "looping" -> "looped" [] state = "up" -> "down"
                             [] OTHER -> state)
        /\ UNCHANGED budget
     \/ Spend("faults") /\ UNCHANGED <<box, preview>>
  /\ UNCHANGED <<syncSame, row, excuses>>

(* On to the next container of the list, if there is one.                  *)
GoesOn ==
  LET rest == [sync.seen EXCEPT ![sync.on] = "absent"] IN
  sync' = IF \A b \in Boxes : rest[b] = "absent"
            THEN Asleep ELSE [Asleep EXCEPT !.pc = "read", !.seen = rest]

(* The sweep writes what is not so of production: of a preview, or of a    *)
(* container that was removed since it was listed.                         *)
Misleads == box = "absent" /\ row'.status = "running" /\ row'.status # row.status

(* Mutant: a crash that was recorded is not written over.                  *)
SyncWritesButCrashed ==
  /\ sync.pc = "write"
  /\ GoesOn
  /\ row' = IF sync.known \in {sync.new, "crashed"} \/ row.life = "gone" THEN row
            ELSE [row EXCEPT !.status = sync.new]
  /\ excuses' = IF Misleads THEN excuses \cup {"sync"} ELSE excuses
  /\ UNCHANGED <<syncSame, box, preview, budget>>

(* The status is written if it is not the one that was read.               *)
SyncWrites ==
  /\ sync.pc = "write"
  /\ GoesOn
  /\ row' = IF sync.known = sync.new \/ row.life = "gone" THEN row
            ELSE [row EXCEPT !.status = sync.new]
  /\ excuses' = IF Misleads THEN excuses \cup {"sync"} ELSE excuses
  /\ UNCHANGED <<syncSame, box, preview, budget>>

Sync == SyncLists \/ SyncReads \/ SyncInspects \/ SyncStops \/ SyncWrites

Handler(w) ==
  \/ Resolve(w) \/ ListEnv(w) \/ Upsert(w) \/ Write(w) \/ Remove(w) \/ RemovePreview(w)
  \/ RemoveProxy(w) \/ Up(w) \/ UpProxy(w) \/ FinishDeployment(w) \/ SetStatus(w) \/ DbFails(w) \/ Report(w)

Next ==
  \/ Create \/ SetPublic \/ Delete \/ Restart \/ Crash \/ Sync
  \/ \E j \in Jobs, what \in Ops : Request(j, what)
  \/ \E w \in Workers : Handler(w) \/ \E j \in Jobs : Take(w, j)

Spec == Init /\ [][Next]_vars

(* The scheduler runs the sweep every 30 seconds, and a sweep ends: remote *)
(* commands run under `timeout`.                                           *)
FairSpec == Spec /\ WF_vars(Sync)

-----------------------------------------------------------------------------
AtRest ==
  /\ \A j \in Jobs : jobStatus[j] \in {"absent", "done"}
  /\ sync.pc = "idle"

(* When every job has been run to its end, the row does not say "running"  *)
(* of what is not there, and says it of the service or database that is,   *)
(* whatever failed, was lost or crashed and was run again meanwhile; except*)
(* for what the code lets pass: a start that overlaps a stop, a removal    *)
(* that docker refused, and, until production's own next write, what the   *)
(* deployment of a preview wrote while production was not there, or a sweep*)
(* of a preview or of a container removed since it was listed.             *)
StatusFollows ==
  AtRest /\ row.life = "there" /\ excuses \subseteq {"twice"} =>
    /\ box = "absent" => row.status # "running"
    /\ box = "up" /\ kind # "application" => row.status = "running"

(* "persist-once": a secret that is stored stays what it is, and tokens    *)
(* are signed with the key that is stored, across redeployments, failures  *)
(* between two upserts and crashes; unless two deployments of the service  *)
(* ran at once.                                                            *)
PersistOnce ==
  [][\/ "twice" \in excuses
     \/ /\ stored.jwt # 0 => stored'.jwt = stored.jwt
        /\ stored.anon # 0 => stored'.anon = stored.anon
        /\ stored'.anon # 0 => stored'.anon = stored'.jwt]_vars

(* The sweep stops what crashes in a loop, and makes the row of an         *)
(* application say what one of its containers does, whatever interfered    *)
(* before: production's if it has no preview, else now the one's and now   *)
(* the other's.                                                            *)
Wanted(b) ==
  CASE State(b) = "up" -> "running" [] State(b) = "looped" -> "crashed" [] OTHER -> "exited"

StatusConverges ==
  LET there == {b \in Boxes : State(b) # "absent"} IN
  <>[](kind = "application" /\ row.life = "there" =>
         /\ \A b \in there : State(b) # "looping"
         /\ there # {} => row.status \in {Wanted(b) : b \in there})

=============================================================================
