------------------------------ MODULE Previews ------------------------------
(***************************************************************************)
(* The preview of one pull request, from the webhooks of its git host to   *)
(* the comment under it: deliveries that are concurrent and may be sent    *)
(* twice, the back-pressure on the deploy queue, the preview's row, the    *)
(* deployments that start its container and post the comment, and the      *)
(* cleanup that takes all of it away (crates/rustify-server:               *)
(* routes/webhooks.rs, routes/previews.rs; crates/rustify-core: webhook.rs;*)
(* crates/rustify-deploy: engine.rs, pr_comment.rs, preview_cleanup.rs).   *)
(* One action is one SQL statement, HTTP call or remote command.           *)
(*                                                                         *)
(* A delivery, the deployment it creates and the job it enqueues share one *)
(* number.  Deployments of the pushed branch are here because they share   *)
(* the queue.  Admission, which gives deployments a second job, is in      *)
(* DeployPipeline.                                                         *)
(***************************************************************************)
EXTENDS Naturals, FiniteSets

CONSTANTS
  Deliveries, Workers, NoWorker, NoDelivery,
  Limit,            \* DEPLOY_QUEUE_LIMIT
  MaxAttempts,
  MaxPushes,        \* bound on the deliveries that deploy the branch
  MaxTroubles       \* bound on what fails or is lost, on restarts, and on
                    \* the comments that people delete

ASSUME PreviewsAssumption ==
  /\ Deliveries \subseteq Nat
  /\ Limit \in Nat \ {0} /\ MaxAttempts \in Nat \ {0}
  /\ MaxPushes \in Nat /\ MaxTroubles \in Nat
  /\ NoWorker \notin Workers /\ NoDelivery \notin Deliveries

VARIABLES
  what,        \* what each delivery asks for
  at,          \* how far its handler has come
  overtaken,   \* deliveries whose count of the queue is out of date (history)
  dep,         \* status of each deployment
  jobStatus, tries, holder,   \* the job store
  locked,      \* jobs that still carry the lock of a process that died
  row,         \* application_previews: its id and comment id; id 0: no row
  rows,        \* ids given so far
  comments,    \* comments of rustify under the pull request
  posted,      \* ids of comments given so far
  box,         \* whether the container of the preview is there
  work,        \* where each worker is, and what it remembers
  raced,       \* a cleanup and a deployment, or two of those, overlapped, or the
               \* container could not be removed (history)
  spent        \* the troubles so far

storeVars == <<jobStatus, tries, holder>>
handlerVars == <<what, at, overtaken>>
previewVars == <<row, rows, comments, posted, box>>
vars == <<handlerVars, dep, storeVars, locked, previewVars, work, raced, spent>>

Store == INSTANCE JobStore WITH Jobs <- Deliveries, status <- jobStatus

NoRow == [id |-> 0, comment |-> 0]
Idle == [pc |-> "idle", d |-> NoDelivery, id |-> 0, comment |-> 0]

Kinds == {"push", "open", "close", "redeploy", "cleanup"}
Deploys == {"push", "open", "redeploy"}

TypeOK ==
  /\ what \in [Deliveries -> Kinds \cup {"none"}]
  /\ at \in [Deliveries -> {"none", "count", "upsert", "create", "enqueue", "done"}]
  /\ overtaken \in SUBSET Deliveries
  /\ dep \in [Deliveries -> {"none", "queued", "in_progress", "finished", "failed", "cancelled"}]
  /\ Store!StoreTypeOK
  /\ locked \in SUBSET Deliveries
  /\ row \in [id: Nat, comment: Nat] /\ rows \in Nat
  /\ comments \in SUBSET Nat /\ posted \in Nat
  /\ box \in BOOLEAN
  /\ work \in [Workers -> [pc: {"idle", "prepare", "claim", "post", "save", "up", "finish",
                                "postEnd", "saveEnd", "cancel", "remove", "read", "uncomment",
                                "drop", "ok", "err"},
                           d: Deliveries \cup {NoDelivery}, id: Nat, comment: Nat]]
  /\ raced \in BOOLEAN
  /\ spent \in [faults: 0..MaxTroubles, deletions: 0..MaxTroubles]

Init ==
  /\ what = [d \in Deliveries |-> "none"]
  /\ at = [d \in Deliveries |-> "none"]
  /\ overtaken = {}
  /\ dep = [d \in Deliveries |-> "none"]
  /\ Store!StoreInit
  /\ locked = {}
  /\ row = NoRow /\ rows = 0 /\ comments = {} /\ posted = 0 /\ box = FALSE
  /\ work = [w \in Workers |-> Idle]
  /\ raced = FALSE
  /\ spent = [faults |-> 0, deletions |-> 0]

Spend(kind) ==
  /\ spent.faults + spent.deletions < MaxTroubles
  /\ spent' = [spent EXCEPT ![kind] = @ + 1]

-----------------------------------------------------------------------------
(* What a webhook says                                                     *)

Providers == {"github", "gitea", "gitlab", "bitbucket"}

(* classify_pr_action                                                      *)
Opening(provider) ==
  CASE provider = "github" -> {"opened", "synchronize", "reopened"}
    [] provider = "gitea" -> {"opened", "synchronized", "reopened"}
    [] provider = "gitlab" -> {"open", "opened", "synchronize", "reopened", "reopen", "update"}
    [] provider = "bitbucket" -> {"pullrequest:created", "pullrequest:updated"}

Closing(provider) ==
  CASE provider \in {"github", "gitea"} -> {"closed"}
    [] provider = "gitlab" -> {"close", "closed", "merge"}
    [] provider = "bitbucket" -> {"pullrequest:rejected", "pullrequest:fulfilled"}

Actions == UNION {Opening(p) \cup Closing(p) : p \in Providers}

(* A push is skipped if every message it has asks for it, a pull request   *)
(* if its title, or for gitlab its last message, does.                     *)
SkipAll(messages) == messages # {} /\ messages \subseteq {"skip"}
SkipAny(messages) == "skip" \in messages

(* fork_gate_allows: public previews, or somebody trusted on no fork.  Only*)
(* github-like payloads name an association.                               *)
GateAllows(public, fork, association) == public \/ (~fork /\ association = "trusted")

(* What dispatch_push and dispatch_pull make of it; "none": nothing to do. *)
PushAsks(messages) == IF SkipAll(messages) THEN "none" ELSE "push"

PullAsks(enabled, provider, action, titles, public, fork, association) ==
  CASE action \in Closing(provider) -> "close"
    [] /\ action \in Opening(provider) /\ enabled
       /\ ~SkipAny(titles) /\ GateAllows(public, fork, association) -> "open"
    [] OTHER -> "none"

Asked ==
  LET texts == SUBSET {"skip", "plain"} IN
  {PushAsks(m) : m \in texts}
  \cup {PullAsks(e, p, a, m, public, fork, association) :
          e \in BOOLEAN, p \in Providers, a \in Actions, m \in texts, public \in BOOLEAN,
          fork \in BOOLEAN, association \in {"trusted", "other"}}

-----------------------------------------------------------------------------
(* The handlers of deliveries                                              *)
GoOn(d, next) == at' = [at EXCEPT ![d] = next]

(* The deploy jobs that carry no lock.  A lock stays after a crash; a job  *)
(* that was dropped after its last attempt keeps its row and has no lock,  *)
(* so it counts for ever.                                                  *)
Pending ==
  {d \in Deliveries : jobStatus[d] \in {"queued", "dropped"} /\ what[d] \in Deploys} \ locked

(* Mutant: the jobs that may still run.                                    *)
QueueFullLive == Cardinality({d \in Pending : jobStatus[d] = "queued"}) >= Limit

(* deploy_queue_full.                                                      *)
QueueFull == Cardinality(Pending) >= Limit

(* One more of them: every count that was taken before is out of date.     *)
QueueGrows == overtaken' = overtaken \cup {d \in Deliveries : at[d] \in {"upsert", "create", "enqueue"}}

handlerSame == <<dep, storeVars, locked, row, rows, comments, posted, box, work, raced>>

(* A webhook arrives and asks for something, or somebody presses a button  *)
(* of a preview that is there.                                             *)
Arrive(d) ==
  /\ at[d] = "none" /\ \A e \in Deliveries : e < d => at[e] # "none"
  /\ \/ \E kind \in Asked \ {"none"} :
          /\ what' = [what EXCEPT ![d] = kind]
          /\ Cardinality({e \in Deliveries : what'[e] = "push"}) <= MaxPushes
          /\ GoOn(d, IF kind = "close" THEN "enqueue" ELSE "count")
     \/ /\ row # NoRow
        /\ \/ what' = [what EXCEPT ![d] = "redeploy"] /\ GoOn(d, "create")
           \/ what' = [what EXCEPT ![d] = "cleanup"] /\ GoOn(d, "enqueue")
  /\ UNCHANGED <<handlerSame, overtaken, spent>>

(* 429 when the queue is full; a count that fails is taken for 0.          *)
Count(d) ==
  /\ at[d] = "count"
  /\ \/ QueueFull /\ GoOn(d, "done") /\ UNCHANGED <<overtaken, spent>>
     \/ /\ ~QueueFull
        /\ GoOn(d, IF what[d] = "open" THEN "upsert" ELSE "create")
        /\ UNCHANGED <<overtaken, spent>>
     \/ /\ Spend("faults")
        /\ GoOn(d, IF what[d] = "open" THEN "upsert" ELSE "create")
        /\ overtaken' = overtaken \cup {d}
  /\ UNCHANGED <<handlerSame, what>>

(* upsert of the preview: a row that is there stays.                       *)
UpsertRow ==
  /\ row' = IF row = NoRow THEN [id |-> rows + 1, comment |-> 0] ELSE row
  /\ rows' = IF row = NoRow THEN rows + 1 ELSE rows

Upsert(d) ==
  /\ at[d] = "upsert"
  /\ UpsertRow
  /\ GoOn(d, "create")
  /\ UNCHANGED <<what, overtaken, dep, storeVars, locked, comments, posted, box, work, raced,
                 spent>>

CreateQueued(d) ==
  /\ at[d] = "create"
  /\ dep' = [dep EXCEPT ![d] = "queued"]
  /\ GoOn(d, "enqueue")
  /\ UNCHANGED <<what, overtaken, storeVars, locked, previewVars, work, raced, spent>>

(* The job of the deployment or of the cleanup.                            *)
Enqueue(d) ==
  /\ at[d] = "enqueue"
  /\ Store!Submit(d)
  /\ IF what[d] \in Deploys THEN QueueGrows ELSE UNCHANGED overtaken
  /\ GoOn(d, "done")
  /\ UNCHANGED <<what, dep, locked, previewVars, work, raced, spent>>

(* A statement of a handler fails, and with it the request.                *)
HandlerFails(d) ==
  /\ at[d] \in {"upsert", "create", "enqueue"}
  /\ Spend("faults")
  /\ GoOn(d, "done")
  /\ UNCHANGED <<handlerSame, what, overtaken>>

-----------------------------------------------------------------------------
(* Jobs                                                                    *)
At(w, pc) == work[w].pc = pc
Goto(w, pc) ==
  work' = [work EXCEPT ![w] = IF pc \in {"ok", "err"} THEN [Idle EXCEPT !.pc = pc, !.d = work[w].d]
                                                      ELSE [@ EXCEPT !.pc = pc]]
Mine(w) == work[w].d
IsPreview(w) == what[Mine(w)] # "push"

(* Workers that deploy the preview, and workers that clean it up.          *)
Deploying(v) == work[v].pc \in {"claim", "post", "save", "up", "finish", "postEnd", "saveEnd"}
                /\ what[work[v].d] # "push"
CleaningUp(v) == work[v].pc \in {"remove", "read", "uncomment", "drop"}

jobSame == <<handlerVars, storeVars, locked>>

Take(w, d) ==
  /\ At(w, "idle")
  /\ Store!Take(w, d)
  /\ work' = [work EXCEPT ![w] =
       [Idle EXCEPT !.d = d, !.pc = IF what[d] \in Deploys THEN "prepare" ELSE "cancel"]]
  /\ locked' = locked \ {d}
  /\ UNCHANGED <<handlerVars, dep, previewVars, raced, spent>>

(* Mutant: the row is read and not made sure of.                           *)
PrepareReads(w) ==
  /\ At(w, "prepare")
  /\ work' = [work EXCEPT ![w].pc = "claim",
                          ![w].id = IF IsPreview(w) THEN row.id ELSE 0,
                          ![w].comment = IF IsPreview(w) THEN row.comment ELSE 0]
  /\ raced' = (raced \/ (IsPreview(w) /\ \E v \in Workers \ {w} : Deploying(v) \/ CleaningUp(v)))
  /\ UNCHANGED <<jobSame, dep, previewVars, spent>>

(* Engine::prepare, before the deployment is claimed: the row again, its   *)
(* id and that of its comment.                                             *)
Prepare(w) ==
  /\ At(w, "prepare")
  /\ IF IsPreview(w) THEN UpsertRow ELSE UNCHANGED <<row, rows>>
  /\ work' = [work EXCEPT ![w].pc = "claim",
                          ![w].id = IF IsPreview(w) THEN row'.id ELSE 0,
                          ![w].comment = IF IsPreview(w) THEN row'.comment ELSE 0]
  /\ raced' = (raced \/ (IsPreview(w) /\ \E v \in Workers \ {w} : Deploying(v) \/ CleaningUp(v)))
  /\ UNCHANGED <<jobSame, dep, comments, posted, box, spent>>

(* claim; the comment is for previews only.                                *)
Claim(w) ==
  LET d == Mine(w) IN
  /\ At(w, "claim")
  /\ IF dep[d] \in {"queued", "in_progress"}
       THEN /\ dep' = [dep EXCEPT ![d] = "in_progress"]
            /\ Goto(w, IF IsPreview(w) THEN "post" ELSE "up")
       ELSE UNCHANGED dep /\ Goto(w, "ok")
  /\ UNCHANGED <<jobSame, previewVars, raced, spent>>

(* pr_comment::upsert: edit the comment that is known, or create one if    *)
(* none is or it is gone.  When the call fails the engine goes on; the     *)
(* comment may have been created.                                          *)
Post(w) ==
  LET save == IF At(w, "post") THEN "save" ELSE "saveEnd"
      next == IF At(w, "post") THEN "up" ELSE "ok"
      Created == posted' = posted + 1 /\ comments' = comments \cup {posted + 1}
  IN
  /\ At(w, "post") \/ At(w, "postEnd")
  /\ \/ /\ work[w].comment \in comments
        /\ Goto(w, next)
        /\ UNCHANGED <<comments, posted, spent>>
     \/ /\ work[w].comment \notin comments
        /\ Created
        /\ work' = [work EXCEPT ![w].pc = save, ![w].comment = posted + 1]
        /\ UNCHANGED spent
     \/ /\ Spend("faults")
        /\ Goto(w, next)
        /\ \/ UNCHANGED <<comments, posted>>
           \/ work[w].comment \notin comments /\ Created
  /\ UNCHANGED <<jobSame, dep, row, rows, box, raced>>

(* Mutant: the engine keeps the id that it read at the beginning.          *)
SaveForgets(w) ==
  /\ At(w, "save") \/ At(w, "saveEnd")
  /\ \/ /\ row' = IF row.id = work[w].id /\ row # NoRow
                    THEN [row EXCEPT !.comment = work[w].comment] ELSE row
        /\ UNCHANGED spent
     \/ Spend("faults") /\ UNCHANGED row
  /\ work' = [work EXCEPT ![w].pc = IF At(w, "save") THEN "up" ELSE "ok", ![w].comment = 0]
  /\ UNCHANGED <<jobSame, dep, rows, comments, posted, box, raced>>

(* set_comment_id, by the id of the row; the engine remembers the comment. *)
Save(w) ==
  /\ At(w, "save") \/ At(w, "saveEnd")
  /\ \/ /\ row' = IF row.id = work[w].id /\ row # NoRow
                    THEN [row EXCEPT !.comment = work[w].comment] ELSE row
        /\ UNCHANGED spent
     \/ Spend("faults") /\ UNCHANGED row
  /\ Goto(w, IF At(w, "save") THEN "up" ELSE "ok")
  /\ UNCHANGED <<jobSame, dep, rows, comments, posted, box, raced>>

(* The steps that end with the container started: it is, or a step fails,  *)
(* before or after that, or the engine sees that it is cancelled.          *)
Up(w) ==
  /\ At(w, "up")
  /\ \/ /\ box' = (box \/ IsPreview(w))
        /\ Goto(w, "finish")
        /\ UNCHANGED <<dep, spent>>
     \/ /\ Spend("faults")
        /\ box' \in {box, box \/ IsPreview(w)}
        /\ dep' = [dep EXCEPT ![Mine(w)] = IF @ = "in_progress" THEN "failed" ELSE @]
        /\ Goto(w, IF IsPreview(w) THEN "postEnd" ELSE "ok")
     \/ /\ dep[Mine(w)] = "cancelled"
        /\ Goto(w, "ok")
        /\ UNCHANGED <<box, dep, spent>>
  /\ UNCHANGED <<jobSame, row, rows, comments, posted, raced>>

(* set_status(Finished), with no regard to whether the row moved.          *)
Finish(w) ==
  /\ At(w, "finish")
  /\ dep' = [dep EXCEPT ![Mine(w)] = IF @ = "in_progress" THEN "finished" ELSE @]
  /\ Goto(w, IF IsPreview(w) THEN "postEnd" ELSE "ok")
  /\ UNCHANGED <<jobSame, previewVars, raced, spent>>

(* cleanup_preview: cancel_active_for_pr ...                               *)
CancelActive(w) ==
  /\ At(w, "cancel")
  /\ dep' = [d \in Deliveries |->
       IF what[d] # "push" /\ dep[d] \in {"queued", "in_progress"} THEN "cancelled" ELSE dep[d]]
  /\ Goto(w, "remove")
  /\ raced' = (raced \/ \E v \in Workers : Deploying(v) \/ CleaningUp(v))
  /\ UNCHANGED <<jobSame, previewVars, spent>>

(* ... the container and the network, errors ignored ...                   *)
RemoveBox(w) ==
  /\ At(w, "remove")
  /\ \/ box' = FALSE /\ UNCHANGED spent
     \/ Spend("faults") /\ UNCHANGED box
  /\ raced' = (raced \/ box')
  /\ Goto(w, "read")
  /\ UNCHANGED <<jobSame, dep, row, rows, comments, posted>>

ReadRow(w) ==
  /\ At(w, "read")
  /\ IF row = NoRow THEN Goto(w, "ok")
     ELSE work' = [work EXCEPT ![w].pc = IF row.comment # 0 THEN "uncomment" ELSE "drop",
                               ![w].id = row.id, ![w].comment = row.comment]
  /\ UNCHANGED <<jobSame, dep, previewVars, raced, spent>>

(* ... the comment, errors ignored, and the row with the id that was read. *)
DeleteComment(w) ==
  /\ At(w, "uncomment")
  /\ \/ comments' = comments \ {work[w].comment} /\ UNCHANGED spent
     \/ Spend("faults") /\ UNCHANGED comments
  /\ Goto(w, "drop")
  /\ UNCHANGED <<jobSame, dep, row, rows, posted, box, raced>>

DropRow(w) ==
  /\ At(w, "drop")
  /\ row' = IF row.id = work[w].id THEN NoRow ELSE row
  /\ Goto(w, "ok")
  /\ UNCHANGED <<jobSame, dep, rows, comments, posted, box, raced, spent>>

DbFails(w) ==
  /\ work[w].pc \in {"prepare", "claim", "finish", "cancel", "read", "drop"}
  /\ Spend("faults")
  /\ Goto(w, "err")
  /\ UNCHANGED <<jobSame, dep, previewVars, raced>>

Report(w) ==
  /\ \/ At(w, "ok") /\ Store!Finish(w, Mine(w)) /\ UNCHANGED overtaken
     \/ At(w, "err") /\ Store!Miss(w, Mine(w)) /\ QueueGrows
  /\ work' = [work EXCEPT ![w] = Idle]
  /\ UNCHANGED <<what, at, dep, locked, previewVars, raced, spent>>

(* The process dies with its workers and the requests it was handling.     *)
Restart ==
  LET held == {d \in Deliveries : jobStatus[d] = "held"} IN
  /\ Spend("faults")
  /\ held # {} /\ Store!LetGo(held)
  /\ locked' = locked \cup held
  /\ at' = [d \in Deliveries |-> IF at[d] = "none" THEN "none" ELSE "done"]
  /\ work' = [w \in Workers |-> Idle]
  /\ UNCHANGED <<what, overtaken, dep, previewVars, raced>>

(* Somebody deletes the comment.                                           *)
PersonDeletes ==
  /\ Spend("deletions")
  /\ \E c \in comments : comments' = comments \ {c}
  /\ UNCHANGED <<jobSame, dep, row, rows, posted, box, work, raced>>

Handler(d) == Arrive(d) \/ Count(d) \/ Upsert(d) \/ CreateQueued(d) \/ Enqueue(d) \/ HandlerFails(d)

Engine(w) == Prepare(w) \/ Claim(w) \/ Post(w) \/ Save(w) \/ Up(w) \/ Finish(w)

Cleanup(w) == CancelActive(w) \/ RemoveBox(w) \/ ReadRow(w) \/ DeleteComment(w) \/ DropRow(w)

Next ==
  \/ Restart \/ PersonDeletes
  \/ \E d \in Deliveries : Handler(d) \/ \E w \in Workers : Take(w, d)
  \/ \E w \in Workers : Engine(w) \/ Cleanup(w) \/ DbFails(w) \/ Report(w)

Spec == Init /\ [][Next]_vars

-----------------------------------------------------------------------------
AtRest ==
  /\ \A d \in Deliveries : at[d] \in {"none", "done"} /\ jobStatus[d] \in {"absent", "done", "dropped"}

(* A preview whose container runs has a row: without one the API answers   *)
(* 404 to its cleanup and its redeployment.  A cleanup may delete the row  *)
(* between the webhook's upsert and its deployment; not when the two       *)
(* overlap on the server, or the container could not be removed.           *)
Manageable == AtRest /\ ~raced /\ box => row # NoRow

(* "a single editable PR issue-comment": the comments under the pull       *)
(* request are the one that the row names, through redeliveries, cleanups  *)
(* and deletions, unless deployments or cleanups overlapped, or a call or  *)
(* a statement failed.                                                     *)
SingleComment ==
  AtRest /\ ~raced /\ spent.faults = 0 => comments \subseteq {row.comment}

(* A webhook adds a deploy job to a queue that is full only if the queue   *)
(* has grown since it looked, or it could not look.  The queue holds what  *)
(* waits and what was dropped.                                             *)
LimitHolds ==
  [][\A d \in Deliveries :
       /\ what[d] \in {"push", "open"} /\ at[d] = "enqueue"
       /\ jobStatus[d] = "absent" /\ jobStatus'[d] = "queued"
       /\ Cardinality(Pending) >= Limit
       => d \in overtaken]_vars

=============================================================================
