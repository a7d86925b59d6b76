------------------------------- MODULE Builds -------------------------------
(***************************************************************************)
(* What a deployment runs: steps 3 to 8 of the engine for one application  *)
(* (which commit, which image, where it is built, how it reaches the       *)
(* server), beside everything that moves meanwhile: the branch, the access *)
(* token, the build servers in use, the registry, the hourly prune and the *)
(* other deployments of the application.  One action is one remote command *)
(* or one statement.                                                       *)
(*                                                                         *)
(* A run is one attempt at a deployment: an engine that dies, or cannot    *)
(* write the terminal status, leaves the deployment in progress, and       *)
(* another attempt starts over, later or beside it.  (That its helper      *)
(* container, when it is still there, makes the next attempt fail is one   *)
(* of the failures of Fail.)                                               *)
(*                                                                         *)
(* An image is the pair of the commit whose files it was built from        *)
(* (`tree`) and of the commit its build was told of (`told`): they differ  *)
(* because the clone takes the head of the branch, whatever commit was     *)
(* resolved before.  The container of a run is named by it, that of a      *)
(* preview by its pull request; health and order of the rollout are the    *)
(* matter of AppContainers.                                                *)
(***************************************************************************)
EXTENDS Naturals, FiniteSets

CONSTANTS
  Apps,              \* the applications that are looked at
  Deployments,       \* the deployments of the application
  Runs,              \* the attempts at them
  DeploymentOf,      \* DeploymentOf[r]: the deployment that r is an attempt at
  Slots,             \* how many run at once
  PullOf,            \* PullOf[d]: pull request of d, 0 for production
  MaxCommit,         \* commits are 1..MaxCommit
  BuildServers,      \* ids of the team's build servers, 0 is the deploy server
  Pinned,            \* applications.build_server_id, 0 when null
  Forced,            \* the deployments that force a rebuild
  MaxPushes, MaxPrunes, MaxTokenLosses, MaxDeaths, MaxEdits,   \* bounds on
  MaxEvents                                                    \* events

Commits == 1..MaxCommit
NoCommit == 0        \* "HEAD", or no branch
Sites == BuildServers \cup {0}

(* "dockerfile" stands for nixpacks and static, too: one build command.      *)
Packs == {"dockerfile", "railpack", "dockercompose", "dockerimage"}
Sources == {"public", "github"}

ASSUME BuildsAssumption ==
  /\ Apps \subseteq [pack: Packs, named: BOOLEAN, source: Sources]
  /\ Slots \in Nat /\ MaxCommit \in Nat \ {0}
  /\ DeploymentOf \in [Runs -> Deployments] /\ PullOf \in [Deployments -> Nat]
  /\ BuildServers \subseteq Nat \ {0} /\ IsFiniteSet(BuildServers)
  /\ Pinned \in Sites /\ Forced \subseteq Deployments
  /\ MaxPushes \in Nat /\ MaxPrunes \in Nat /\ MaxTokenLosses \in Nat
  /\ MaxDeaths \in Nat /\ MaxEdits \in Nat /\ MaxEvents \in Nat

VARIABLES
  app,        \* what is set once: the build pack, whether there is a registry
              \* name, the kind of git source
  head,       \* the commit the branch is at, NoCommit when it is deleted
  commit,     \* applications.git_commit_sha
  recorded,   \* deployments.commit_sha
  status,     \* deployments.status: "open" until it is a terminal one
  usable,     \* build servers that are usable
  token,      \* the cached installation token: "none" | "live" | "dead"
  images,     \* images[s][t]: the image tagged t on server s
  registry,   \* the image the registry has under the application's name
  file,       \* the docker-compose.yml: the deployment and the tag it names
  containers, \* containers[r]: the image the container of r was started from
  run,        \* what each engine knows
  history,    \* what has happened to each run, for the properties
  budget

remote == <<head, token, usable, registry>>
rows == <<commit, recorded, status>>
vars == <<app, rows, images, file, containers, run, history, budget, remote>>

BuildsImage == app.pack \in {"dockerfile", "railpack"}

NoImage == [tree |-> NoCommit, told |-> NoCommit]
Images == [tree: Commits \cup {NoCommit}, told: Commits \cup {NoCommit}]

(* name:tag, the tag "latest" unless one is set: not the commit.           *)
RegistryTag == <<0, NoCommit>>
LocalTags == {<<PullOf[d], c>> : d \in Deployments, c \in Commits}
Tags == LocalTags \cup {RegistryTag}

FromGit == app.pack # "dockerimage"

Queued == [pc |-> "queued", site |-> 0, pin |-> NoCommit, token |-> "none",
           sha |-> NoCommit, tree |-> NoCommit]

Over == {"ok", "failed", "dead"}
RunPC == {"queued", "auth", "resolve", "record", "pin", "check", "clone", "build", "plan",
          "push", "pull", "compose", "write", "up", "settle", "finish", "abort"} \cup Over

Active == {r \in Runs : run[r].pc \notin Over \cup {"queued"}}
Pull(r) == PullOf[DeploymentOf[r]]

(* The other attempts at the deployment of r, and the runs whose container *)
(* has the name of that of r.                                              *)
Others(r) == {o \in Runs \ {r} : DeploymentOf[o] = DeploymentOf[r]}
SameName(o, r) == o = r \/ (Pull(r) # 0 /\ Pull(o) = Pull(r))

TypeOK ==
  /\ app \in Apps
  /\ head \in Commits \cup {NoCommit}
  /\ commit \in Commits \cup {NoCommit}
  /\ recorded \in [Deployments -> Commits \cup {NoCommit}]
  /\ status \in [Deployments -> {"open", "finished", "failed"}]
  /\ usable \in SUBSET BuildServers
  /\ token \in {"none", "live", "dead"}
  /\ images \in [Sites -> [Tags -> Images]]
  /\ registry \in Images
  /\ file \in [run: SUBSET Runs, tag: Tags]
  /\ containers \in [Runs -> Images]
  /\ run \in [Runs -> [pc: RunPC, site: Sites, pin: Commits \cup {NoCommit},
                       token: {"none", "live", "dead"},
                       sha: Commits \cup {NoCommit}, tree: Commits \cup {NoCommit}]]
  /\ history \in [Runs -> [heads: SUBSET Commits,
                           facts: SUBSET {"blind", "reused", "overlapped", "pruned"}]]
  /\ budget \in [pushes: 0..MaxPushes, prunes: 0..MaxPrunes, tokens: 0..MaxTokenLosses,
                 deaths: 0..MaxDeaths, edits: 0..MaxEdits, all: 0..MaxEvents]

Init ==
  /\ app \in Apps
  /\ head = 1
  /\ commit = NoCommit
  /\ recorded = [d \in Deployments |-> NoCommit]
  /\ status = [d \in Deployments |-> "open"]
  /\ usable \in SUBSET BuildServers
  /\ token = "none"
  /\ images = [s \in Sites |-> [t \in Tags |-> NoImage]]
  /\ registry = NoImage
  /\ file = [run |-> {}, tag |-> RegistryTag]
  /\ containers = [r \in Runs |-> NoImage]
  /\ run = [r \in Runs |-> Queued]
  /\ history = [r \in Runs |-> [heads |-> {}, facts |-> {}]]
  /\ budget = [pushes |-> MaxPushes, prunes |-> MaxPrunes, tokens |-> MaxTokenLosses,
               deaths |-> MaxDeaths, edits |-> MaxEdits, all |-> MaxEvents]

Spend(what) ==
  /\ budget[what] > 0 /\ budget.all > 0           \* bounds
  /\ budget' = [budget EXCEPT ![what] = @ - 1, !.all = @ - 1]

At(r, where) == run[r].pc = where
Goto(r, where) == run' = [run EXCEPT ![r].pc = where]

(* A run that is over forgets what its engine knew, but for the properties *)
(* where it built and which commit it resolved.                            *)
End(r, how) ==
  run' = [run EXCEPT ![r] = [@ EXCEPT !.pc = how, !.pin = NoCommit, !.token = "none",
                                      !.tree = NoCommit]]

(* The terminal set_status: nothing moves a status that is terminal.       *)
SetStatus(r, to) ==
  status' = [status EXCEPT ![DeploymentOf[r]] = IF @ = "open" THEN to ELSE @]

Note(rs, fact) ==
  history' = [r \in Runs |-> IF r \in rs THEN [history[r] EXCEPT !.facts = @ \cup {fact}]
                                         ELSE history[r]]

-----------------------------------------------------------------------------
(* The world outside.                                                      *)

(* The branch is pushed to, or forced back.                                *)
Push(c) ==
  /\ c # head
  /\ Spend("pushes")
  /\ head' = c
  /\ history' = [r \in Runs |-> IF r \in Active THEN [history[r] EXCEPT !.heads = @ \cup {c}]
                                                ELSE history[r]]
  /\ UNCHANGED <<app, rows, usable, token, images, registry, file, containers, run>>

(* The branch is deleted; a push makes it anew.                            *)
DeleteBranch ==
  /\ head # NoCommit
  /\ Spend("pushes")
  /\ head' = NoCommit
  /\ UNCHANGED <<app, rows, usable, token, images, registry, file, containers, run, history>>

(* GitHub no longer accepts the tokens it has given out.                   *)
Revoke ==
  /\ \E r \in Active : run[r].token = "live"
  /\ Spend("tokens")
  /\ token' = IF token = "live" THEN "dead" ELSE token
  /\ run' = [r \in Runs |-> IF run[r].token = "live" THEN [run[r] EXCEPT !.token = "dead"]
                                                     ELSE run[r]]
  /\ UNCHANGED <<app, head, rows, usable, images, registry, file, containers, history>>

(* The cached token is a minute from the end its answer stated.            *)
Expire ==
  /\ token # "none"
  /\ token' = "none"
  /\ UNCHANGED <<app, head, rows, usable, images, registry, file, containers,
                 run, history, budget>>

(* A build server becomes usable or no longer is.                          *)
Edit(s) ==
  /\ Spend("edits")
  /\ usable' = IF s \in usable THEN usable \ {s} ELSE usable \cup {s}
  /\ UNCHANGED <<app, head, rows, token, images, registry, file, containers,
                 run, history>>

(* PATCH of an application: git_commit_sha is what the request says.       *)
PatchCommit(c) ==
  /\ c # commit /\ FromGit
  /\ Spend("edits")
  /\ commit' = c
  /\ UNCHANGED <<app, remote, recorded, status, images, file, containers, run, history>>

InUse(s, t) == s = 0 /\ \E r \in Runs : containers[r] = images[s][t]

(* The hourly `docker image prune -af` of one server.                      *)
Prune(s) ==
  /\ \E t \in Tags : images[s][t] # NoImage /\ ~InUse(s, t)
  /\ Spend("prunes")
  /\ images' = [images EXCEPT ![s] = [t \in Tags |-> IF InUse(s, t) THEN @[t] ELSE NoImage]]
  /\ Note(Active, "pruned")
  /\ UNCHANGED <<app, remote, rows, file, containers, run>>

-----------------------------------------------------------------------------
(* plan_build_targets: the pinned build server if it is usable, else the   *)
(* usable one with the least id, else the deploy server.                   *)
Site ==
  IF Pinned = 0 \/ usable = {} \/ ~BuildsImage THEN 0
  ELSE IF Pinned \in usable THEN Pinned
  ELSE CHOOSE s \in usable : \A o \in usable : s <= o

Remote(r) == run[r].site # 0          \* use_build_server

(* Mutant: a tag for the branch, not for each commit.                      *)
TagOfBranch(r) == IF Remote(r) THEN RegistryTag ELSE <<Pull(r), 1>>

(* The registry's name on a build server, <uuid>:<sha> or                  *)
(* <uuid>:pr-<pull request>-<sha> where the deployment runs.               *)
TagOf(r) == IF Remote(r) THEN RegistryTag ELSE <<Pull(r), run[r].sha>>

(* prepare(), which reads the application and picks the servers, claim(),  *)
(* which takes a deployment that is in progress, too, and the first lines  *)
(* of run_steps.                                                           *)
Begin(r) ==
  /\ At(r, "queued") /\ status[DeploymentOf[r]] = "open"
  /\ Cardinality(Active) < Slots
  /\ run' = [run EXCEPT ![r] =
       [Queued EXCEPT !.site = Site, !.pin = commit,
                      !.pc = IF Site # 0 /\ ~app.named THEN "abort"
                             ELSE IF app.pack = "dockerimage" THEN "pull" ELSE "auth"]]
  /\ history' = [o \in Runs |->
       IF o = r THEN [heads |-> {head} \ {NoCommit}, facts |-> IF Active = {} THEN {} ELSE {"overlapped"}]
       ELSE IF o \in Active THEN [history[o] EXCEPT !.facts = @ \cup {"overlapped"}]
       ELSE history[o]]
  /\ UNCHANGED <<app, remote, rows, images, file, containers, budget>>

(* Any command or statement of a run may fail, or the run is cancelled:    *)
(* the deployment failed.                                                  *)
Fail(r) ==
  /\ r \in Active /\ ~At(r, "finish")
  /\ SetStatus(r, "failed")
  /\ End(r, "failed")
  /\ UNCHANGED <<app, remote, commit, recorded, images, file, containers, history, budget>>

(* The worker dies, or the database refuses the terminal status.           *)
Die(r) ==
  /\ r \in Active
  /\ Spend("deaths")
  /\ End(r, "dead")
  /\ UNCHANGED <<app, remote, rows, images, file, containers, history>>

(* All steps are through.                                                  *)
Finish(r) ==
  /\ At(r, "finish")
  /\ SetStatus(r, "finished")
  /\ End(r, "ok")
  /\ UNCHANGED <<app, remote, commit, recorded, images, file, containers, history, budget>>

(* installation_token: a token is minted unless one is cached.             *)
InstallationToken == IF token = "none" THEN "live" ELSE token

(* prepare_git_auth: the token is kept for the rest of the run.            *)
Auth(r) ==
  /\ At(r, "auth")
  /\ IF app.source = "public"
       THEN Goto(r, "resolve") /\ UNCHANGED token
       ELSE /\ run' = [run EXCEPT ![r].pc = "resolve", ![r].token = InstallationToken]
            /\ token' = InstallationToken
  /\ UNCHANGED <<app, head, usable, registry, rows, images, file, containers,
                 history, budget>>

(* Git refuses a token that is dead: the command, and so the run, fails.   *)
GitWorks(r) == run[r].token # "dead"

(* Mutant: the commit recorded last comes before the one the remote has.   *)
ResolvePinned(r) ==
  /\ At(r, "resolve")
  /\ GitWorks(r) /\ head # NoCommit
  /\ run' = [run EXCEPT ![r].pc = "record",
                        ![r].sha = IF run[r].pin # NoCommit THEN run[r].pin ELSE head]
  /\ UNCHANGED <<app, remote, rows, images, file, containers, history, budget>>

(* git ls-remote answers with the head of the branch.                      *)
Resolve(r) ==
  /\ At(r, "resolve")
  /\ GitWorks(r) /\ head # NoCommit
  /\ run' = [run EXCEPT ![r].pc = "record", ![r].sha = head]
  /\ UNCHANGED <<app, remote, rows, images, file, containers, history, budget>>

(* It knows no such branch, which is no error: the commit the application  *)
(* recorded last, as prepare() read it, takes its place.                   *)
ResolveBlind(r) ==
  /\ At(r, "resolve")
  /\ GitWorks(r) /\ head = NoCommit
  /\ run' = [run EXCEPT ![r].sha = run[r].pin,
                        ![r].pc = IF run[r].pin = NoCommit THEN "abort" ELSE "record"]
  /\ Note({r}, "blind")
  /\ UNCHANGED <<app, remote, rows, images, file, containers, budget>>

(* Mutant: a commit that is on record stays there.                         *)
RecordOnce(r) ==
  /\ At(r, "record")
  /\ recorded' = [recorded EXCEPT ![DeploymentOf[r]] = IF @ = NoCommit THEN run[r].sha ELSE @]
  /\ Goto(r, "pin")
  /\ UNCHANGED <<app, remote, commit, status, images, file, containers, history, budget>>

(* persist_commit: the deployment's row, then the application's.           *)
Record(r) ==
  /\ At(r, "record")
  /\ recorded' = [recorded EXCEPT ![DeploymentOf[r]] = run[r].sha]
  /\ Goto(r, "pin")
  /\ UNCHANGED <<app, remote, commit, status, images, file, containers, history, budget>>

Pin(r) ==
  /\ At(r, "pin")
  /\ commit' = run[r].sha
  /\ Goto(r, IF app.pack = "dockercompose" THEN "clone" ELSE "check")
  /\ UNCHANGED <<app, remote, recorded, status, images, file, containers, history, budget>>

AfterImage(r) == IF Remote(r) THEN "push" ELSE "write"

(* Mutant: an earlier deployment of the commit stands for its image.       *)
SkipBuildByRow(r) ==
  /\ At(r, "check")
  /\ LET there == /\ DeploymentOf[r] \notin Forced
                  /\ \E d \in Deployments : recorded[d] = run[r].sha /\ status[d] = "finished" IN
     /\ Goto(r, IF there THEN AfterImage(r) ELSE "clone")
     /\ IF there THEN Note({r}, "reused") ELSE UNCHANGED history
  /\ UNCHANGED <<app, remote, rows, images, file, containers, budget>>

(* skip_build: `docker images -q <tag>` where the build would take place.  *)
SkipBuild(r) ==
  /\ At(r, "check")
  /\ LET there == DeploymentOf[r] \notin Forced /\ images[run[r].site][TagOf(r)] # NoImage IN
     /\ Goto(r, IF there THEN AfterImage(r) ELSE "clone")
     /\ IF there THEN Note({r}, "reused") ELSE UNCHANGED history
  /\ UNCHANGED <<app, remote, rows, images, file, containers, budget>>

(* Mutant: what the application was at is checked out, when there is that. *)
CloneAtPin(r) ==
  /\ At(r, "clone")
  /\ GitWorks(r) /\ head # NoCommit
  /\ run' = [run EXCEPT ![r].tree = IF run[r].pin = NoCommit THEN head ELSE run[r].pin,
                        ![r].pc = IF app.pack = "dockercompose" THEN "compose" ELSE "build"]
  /\ UNCHANGED <<app, remote, rows, images, file, containers, history, budget>>

(* clone_repo: the head of the branch, of its only commit; `sha` unused.   *)
Clone(r) ==
  /\ At(r, "clone")
  /\ GitWorks(r) /\ head # NoCommit
  /\ run' = [run EXCEPT ![r].tree = head,
                        ![r].pc = IF app.pack = "dockercompose" THEN "compose" ELSE "build"]
  /\ UNCHANGED <<app, remote, rows, images, file, containers, history, budget>>

(* SOURCE_COMMIT in build-time.env: what resolve_commit returned.          *)
SourceCommit(r) == run[r].sha

(* What a build makes of the files in the helper and of build-time.env.    *)
Built(r) == [tree |-> run[r].tree, told |-> SourceCommit(r)]

TagBuilt(r) ==
  /\ images' = [images EXCEPT ![run[r].site][TagOf(r)] = Built(r)]
  /\ Goto(r, AfterImage(r))
  /\ UNCHANGED <<app, remote, rows, file, containers, history, budget>>

Build(r) ==
  /\ At(r, "build") /\ app.pack # "railpack"
  /\ TagBuilt(r)

(* build_railpack: `railpack prepare` makes a plan, `docker buildx build    *)
(* --load` an image of it.                                                 *)
PrepareRailpack(r) ==
  /\ At(r, "build") /\ app.pack = "railpack"
  /\ Goto(r, "plan")
  /\ UNCHANGED <<app, remote, rows, images, file, containers, history, budget>>

BuildRailpack(r) ==
  /\ At(r, "plan")
  /\ TagBuilt(r)

(* push_then_pull: a push that is refused or has no image fails the run.   *)
PushImage(r) ==
  /\ At(r, "push")
  /\ LET image == images[run[r].site][RegistryTag] IN
       image # NoImage /\ registry' = image
  /\ Goto(r, "pull")
  /\ UNCHANGED <<app, head, token, usable, rows, images, file, containers, history, budget>>

(* The pull of push_then_pull, and that of the docker-image pack: each     *)
(* must succeed.                                                           *)
PullImage(r) ==
  /\ At(r, "pull")
  /\ registry # NoImage
  /\ images' = [images EXCEPT ![0][RegistryTag] = registry]
  /\ Goto(r, "write")
  /\ UNCHANGED <<app, remote, rows, file, containers, history, budget>>

(* Someone pushes the image a docker-image application names.              *)
Publish(c) ==
  /\ app.pack = "dockerimage"
  /\ registry # [tree |-> c, told |-> c]
  /\ Spend("pushes")
  /\ registry' = [tree |-> c, told |-> c]
  /\ UNCHANGED <<app, head, token, usable, rows, images, file, containers, run, history>>

(* compose_input: a service named by its container, and its image.         *)
ComposeInput(r) ==
  [run |-> {r}, tag |-> IF app.pack = "dockerimage" THEN RegistryTag ELSE TagOf(r)]

(* write_config: the one docker-compose.yml of the application.            *)
WriteConfig(r) ==
  /\ At(r, "write")
  /\ file' = ComposeInput(r)
  /\ Goto(r, "up")
  /\ UNCHANGED <<app, remote, rows, images, containers, history, budget>>

(* The image compose finds under a tag; a missing one is pulled, which no  *)
(* registry can serve for a local tag.                                     *)
Found(t) ==
  IF images[0][t] # NoImage THEN images[0][t]
  ELSE IF t = RegistryTag THEN registry ELSE NoImage

(* compose_up starts what the file says, which another run may have        *)
(* written since; a container of the same name is replaced.  Without an    *)
(* image the run fails, see Fail.                                          *)
Up(r) ==
  /\ At(r, "up")
  /\ Found(file.tag) # NoImage
  /\ images' = [images EXCEPT ![0][file.tag] = Found(file.tag)]
  /\ containers' = [o \in Runs |->
       IF o \in file.run THEN Found(file.tag)
       ELSE IF \E f \in file.run : SameName(o, f) THEN NoImage ELSE containers[o]]
  /\ Goto(r, "settle")
  /\ UNCHANGED <<app, remote, rows, file, history, budget>>

(* The container is well: stop_other_containers removes those of the same  *)
(* pull request that have another name.                                    *)
Settle(r) ==
  /\ At(r, "settle")
  /\ containers' = [o \in Runs |->
       IF Pull(o) = Pull(r) /\ ~SameName(o, r) THEN NoImage ELSE containers[o]]
  /\ Goto(r, "finish")
  /\ UNCHANGED <<app, remote, rows, images, file, history, budget>>

(* It is not: the container is removed and the run fails.                  *)
Unhealthy(r) ==
  /\ At(r, "settle")
  /\ containers' = [o \in Runs |-> IF SameName(o, r) THEN NoImage ELSE containers[o]]
  /\ Goto(r, "abort")
  /\ UNCHANGED <<app, remote, rows, images, file, history, budget>>

(* deploy_compose: `docker compose up -d --build` on the files themselves, *)
(* of a project named by the deployment.                                   *)
ComposeUp(r) ==
  /\ At(r, "compose")
  /\ containers' = [o \in Runs |->
       IF o = r THEN Built(r) ELSE IF o \in Others(r) THEN NoImage ELSE containers[o]]
  /\ Goto(r, "finish")
  /\ UNCHANGED <<app, remote, rows, images, file, history, budget>>

Step(r) ==
  \/ Begin(r) \/ Fail(r) \/ Die(r) \/ Finish(r) \/ Auth(r) \/ Resolve(r) \/ ResolveBlind(r)
  \/ Record(r) \/ Pin(r) \/ SkipBuild(r) \/ Clone(r) \/ Build(r) \/ PrepareRailpack(r)
  \/ BuildRailpack(r) \/ PushImage(r) \/ PullImage(r) \/ WriteConfig(r) \/ Up(r) \/ Settle(r)
  \/ Unhealthy(r) \/ ComposeUp(r)

Next ==
  \/ \E r \in Runs : Step(r)
  \/ \E c \in Commits : Push(c) \/ Publish(c) \/ PatchCommit(c)
  \/ \E s \in BuildServers : Edit(s)
  \/ \E s \in Sites : Prune(s)
  \/ DeleteBranch \/ Revoke \/ Expire

Spec == Init /\ [][Next]_vars

-----------------------------------------------------------------------------
Fact(r, fact) == fact \in history[r].facts

(* A commit the branch was at while the run went on; when the branch was   *)
(* gone then, the one the application had before.                          *)
Seen(r, c) == c \in history[r].heads \/ Fact(r, "blind")

(* A deployment that ended well records the commit that one of its         *)
(* attempts resolved, and that one was current ("Resolving commit from the *)
(* git remote"), however often it was attempted.                           *)
CommitIsCurrent ==
  \A d \in Deployments : status[d] = "finished" /\ FromGit =>
    \E r \in Runs : /\ DeploymentOf[r] = d /\ recorded[d] = run[r].sha
                    /\ run[r].sha # NoCommit /\ Seen(r, run[r].sha)

(* Another attempt has recorded another commit since.  A deployment that   *)
(* ended well has removed the container of every attempt but the last,     *)
(* unless one of them ran beside another run.                              *)
Superseded(r) ==
  /\ \E o \in Others(r) : recorded[DeploymentOf[r]] = run[o].sha
  /\ \/ status[DeploymentOf[r]] # "finished"
     \/ \E o \in Runs : DeploymentOf[o] = DeploymentOf[r] /\ Fact(o, "overlapped")

(* The container of a deployment runs an image that was built for the      *)
(* commit the deployment records, unless an attempt after the one that     *)
(* started it has recorded another commit and not ended well.  Built where *)
(* it runs, that is so however deployments overlap, because every commit   *)
(* has a tag of its own.  With a build server the tag is the same for      *)
(* every commit: the image of another one is run when the build server     *)
(* already has one or when two runs overlap.                               *)
ImageOfItsCommit ==
  \A r \in Runs : containers[r] # NoImage /\ FromGit =>
    \/ containers[r].told = recorded[DeploymentOf[r]]
    \/ Remote(r) /\ (Fact(r, "reused") \/ Fact(r, "overlapped"))
    \/ Superseded(r)

(* The files in an image are those of the commit it is tagged with, unless *)
(* the branch moved between the ls-remote and the clone of a run that      *)
(* resolved that commit, or was gone when that run asked.                  *)
FilesOfItsCommit ==
  \A s \in Sites : \A t \in Tags : FromGit /\ images[s][t].tree # images[s][t].told =>
    \E r \in Runs : /\ run[r].sha = images[s][t].told /\ Seen(r, run[r].sha)
                    /\ images[s][t].tree \in history[r].heads

(* A run whose image is not on the server when its containers are to start *)
(* has met a prune on its way.                                             *)
MissingNeedsPrune ==
  \A r \in Runs : At(r, "up") /\ ~Remote(r) /\ FromGit /\ images[0][TagOf(r)] = NoImage =>
    Fact(r, "pruned")
=============================================================================
