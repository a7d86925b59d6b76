--------------------------- MODULE ScheduledTasks ---------------------------
(***************************************************************************)
(* The scheduled tasks of a server: the sweep that runs every minute and   *)
(* the trigger request, which insert an execution row and then a job; the  *)
(* handler that runs the task's command in a container, three times at     *)
(* most; the daily prune of old executions; and the edits and deletions    *)
(* that meet them.  One action is one SQL statement or one remote command. *)
(*                                                                         *)
(* What other components write is here only as what is read of it: whether *)
(* the row of a task's resource says "running".                            *)
(***************************************************************************)
EXTENDS Naturals, FiniteSets

CONSTANTS
  Tasks,             \* ids of the tasks
  ServiceTasks,      \* those of services; the others belong to applications
  Execs,             \* ids of the executions
  Workers, NoWorker,
  NoTask, NoExec,
  MaxSeconds,        \* bound on the clock
  MinuteOf,          \* MinuteOf[t]: the minute second t is in
  DueMinutes,        \* DueMinutes[t]: the minutes the frequency of t matches
  Tries,             \* SCHEDULED_TASK_TRIES
  Retention,         \* the retention of daily_cleanup_task
  MaxAttempts,
  MaxTriggers,       \* bound on the trigger requests
  MaxEdits, MaxRestarts, MaxDbErrors, MaxSshLosses,   \* bounds on events,
  MaxEvents                                           \* and on all of them

Seconds == 0..MaxSeconds

ASSUME TasksAssumption ==
  /\ Tasks \subseteq Nat /\ ServiceTasks \subseteq Tasks /\ Execs \subseteq Nat
  /\ MaxSeconds \in Nat
  /\ MinuteOf \in [Seconds -> Nat]
  /\ \A s, t \in Seconds : s <= t => MinuteOf[s] <= MinuteOf[t]
  /\ Retention \in Nat
  /\ \A s, t \in Seconds : s + Retention < t => MinuteOf[s] < MinuteOf[t]
  /\ DueMinutes \in [Tasks -> SUBSET Nat]
  /\ Tries \in Nat \ {0} /\ MaxAttempts \in Nat \ {0}
  /\ MaxEdits \in Nat /\ MaxRestarts \in Nat /\ MaxDbErrors \in Nat /\ MaxSshLosses \in Nat
  /\ MaxTriggers \in Nat /\ MaxEvents \in Nat
  /\ NoWorker \notin Workers /\ NoTask \notin Tasks /\ NoExec \notin Execs

VARIABLES
  clock,      \* the time, to the second
  tasks,      \* scheduled_tasks: "enabled" | "disabled" | "gone"
  up,         \* tasks whose resource's status contains "running"
  rows,       \* scheduled_task_executions
  request,    \* who creates e: "none" | "created" | "sent" | "lost"
  byCron,     \* executions the sweep has created
  sweep,      \* where the sweep is, the second it began in, the tasks left
  jobStatus, tries, holder,       \* the job store
  run,        \* what the handler of each worker knows
  worked,     \* executions whose command has ended well
  budget

storeVars == <<jobStatus, tries, holder>>
vars == <<clock, tasks, up, rows, request, byCron, sweep, storeVars, run, worked, budget>>

Store == INSTANCE JobStore WITH Jobs <- Execs, status <- jobStatus

NoRow == [status |-> "none", task |-> NoTask, started |-> 0]
IdleSweep == [pc |-> "idle", at |-> 0, todo |-> {}]
IdleRun == [pc |-> "idle", e |-> NoExec, attempt |-> 0]

TypeOK ==
  /\ clock \in Seconds
  /\ tasks \in [Tasks -> {"enabled", "disabled", "gone"}]
  /\ up \in SUBSET Tasks
  /\ rows \in [Execs -> [status: {"none", "running", "success", "failed", "gone"},
                         task: Tasks \cup {NoTask}, started: Seconds]]
  /\ request \in [Execs -> {"none", "created", "sent", "lost"}]
  /\ byCron \in SUBSET Execs
  /\ sweep \in [pc: {"idle", "status", "check", "create", "enqueue"}, at: Seconds,
                todo: SUBSET Tasks]
  /\ Store!StoreTypeOK
  /\ run \in [Workers -> [pc: {"idle", "load", "resolve", "exec", "success", "failed",
                               "ok", "err"},
                          e: Execs \cup {NoExec}, attempt: 0..Tries]]
  /\ worked \in SUBSET Execs
  /\ budget \in [edits: 0..MaxEdits, restarts: 0..MaxRestarts, db: 0..MaxDbErrors,
                 ssh: 0..MaxSshLosses, all: 0..MaxEvents]

Init ==
  /\ clock = 0
  /\ tasks = [t \in Tasks |-> "enabled"]
  /\ up = Tasks
  /\ rows = [e \in Execs |-> NoRow]
  /\ request = [e \in Execs |-> "none"]
  /\ byCron = {}
  /\ sweep = IdleSweep
  /\ Store!StoreInit
  /\ run = [w \in Workers |-> IdleRun]
  /\ worked = {}
  /\ budget = [edits |-> MaxEdits, restarts |-> MaxRestarts, db |-> MaxDbErrors,
               ssh |-> MaxSshLosses, all |-> MaxEvents]

Spend(kind) ==
  /\ budget[kind] > 0 /\ budget.all > 0
  /\ budget' = [budget EXCEPT ![kind] = @ - 1, !.all = @ - 1]

Present(e) == rows[e].status \notin {"none", "gone"}
Gone(e) == [rows[e] EXCEPT !.status = "gone"]

-----------------------------------------------------------------------------
Tick ==
  /\ clock < MaxSeconds         \* bound
  /\ clock' = clock + 1
  /\ UNCHANGED <<tasks, up, rows, request, byCron, sweep, storeVars, run, worked, budget>>

(* update: the task is switched on or off.                                 *)
Update(t) ==
  /\ tasks[t] # "gone"
  /\ Spend("edits")
  /\ tasks' = [tasks EXCEPT ![t] = IF @ = "enabled" THEN "disabled" ELSE "enabled"]
  /\ UNCHANGED <<clock, up, rows, request, byCron, sweep, storeVars, run, worked>>

(* delete: the executions go by cascade.                                   *)
Delete(t) ==
  /\ tasks[t] # "gone"
  /\ Spend("edits")
  /\ tasks' = [tasks EXCEPT ![t] = "gone"]
  /\ rows' = [e \in Execs |-> IF rows[e].task = t /\ Present(e) THEN Gone(e) ELSE rows[e]]
  /\ UNCHANGED <<clock, up, request, byCron, sweep, storeVars, run, worked>>

(* Somebody writes the status of the resource.                             *)
ResourceChanges(t) ==
  /\ Spend("edits")
  /\ up' = IF t \in up THEN up \ {t} ELSE up \cup {t}
  /\ UNCHANGED <<clock, tasks, rows, request, byCron, sweep, storeVars, run, worked>>

(* create_execution; the foreign key refuses a task that is gone.          *)
CreateExecution(t, e) ==
  /\ tasks[t] # "gone"
  /\ rows[e].status = "none"
  /\ \A d \in Execs : d < e => rows[d].status # "none"
  /\ rows' = [rows EXCEPT ![e] = [status |-> "running", task |-> t, started |-> clock]]
  /\ request' = [request EXCEPT ![e] = "created"]

(* trigger: the row, and then its job.                                     *)
Trigger(t, e) ==
  /\ Cardinality({d \in Execs : request[d] # "none"} \ byCron) < MaxTriggers   \* bound
  /\ CreateExecution(t, e)
  /\ UNCHANGED <<clock, tasks, up, byCron, sweep, storeVars, run, worked, budget>>

SendJob(e) ==
  /\ request[e] = "created" /\ e \notin byCron
  /\ \/ /\ Store!Submit(e)
        /\ request' = [request EXCEPT ![e] = "sent"]
        /\ UNCHANGED budget
     \/ /\ Spend("db")
        /\ request' = [request EXCEPT ![e] = "lost"]
        /\ UNCHANGED storeVars
  /\ UNCHANGED <<clock, tasks, up, rows, byCron, sweep, run, worked>>

(* cleanup_old_records: only executions that have ended.                   *)
OldRecord(e) ==
  rows[e].status \in {"success", "failed"} /\ rows[e].started + Retention < clock

Prune ==
  /\ \E e \in Execs : OldRecord(e)
  /\ rows' = [e \in Execs |-> IF OldRecord(e) THEN Gone(e) ELSE rows[e]]
  /\ UNCHANGED <<clock, tasks, up, request, byCron, sweep, storeVars, run, worked, budget>>

-----------------------------------------------------------------------------
(* dispatch_due_tasks: the scheduler awaits a sweep before the next tick.  *)
First == CHOOSE t \in sweep.todo : \A u \in sweep.todo : t <= u

(* What a sweep does when it is through with the task in hand.             *)
NextTask ==
  LET rest == sweep.todo \ {First} IN
  sweep' = IF rest = {} THEN IdleSweep ELSE [sweep EXCEPT !.pc = "status", !.todo = rest]

(* list_enabled; is_due looks only at what was listed, and at `now`.       *)
SweepStarts ==
  LET due == {t \in Tasks : tasks[t] = "enabled" /\ MinuteOf[clock] \in DueMinutes[t]} IN
  /\ sweep.pc = "idle" /\ due # {}
  /\ sweep' = [pc |-> "status", at |-> clock, todo |-> due]
  /\ UNCHANGED <<clock, tasks, up, rows, request, byCron, storeVars, run, worked, budget>>

(* resource_running                                                        *)
SweepReadsStatus ==
  /\ sweep.pc = "status"
  /\ IF First \in up THEN sweep' = [sweep EXCEPT !.pc = "check"] ELSE NextTask
  /\ UNCHANGED <<clock, tasks, up, rows, request, byCron, storeVars, run, worked, budget>>

(* Mutant: only executions that have not ended count.                      *)
HasRunningSince(t, minute) ==
  \E e \in Execs : /\ rows[e].status = "running" /\ rows[e].task = t
                  /\ MinuteOf[rows[e].started] >= minute

(* has_execution_since the beginning of the minute the sweep began in.     *)
HasExecutionSince(t, minute) ==
  \E e \in Execs : Present(e) /\ rows[e].task = t /\ MinuteOf[rows[e].started] >= minute

SweepChecks ==
  /\ sweep.pc = "check"
  /\ IF HasExecutionSince(First, MinuteOf[sweep.at])
       THEN NextTask ELSE sweep' = [sweep EXCEPT !.pc = "create"]
  /\ UNCHANGED <<clock, tasks, up, rows, request, byCron, storeVars, run, worked, budget>>

SweepCreates ==
  /\ sweep.pc = "create"
  /\ \E e \in Execs : CreateExecution(First, e) /\ byCron' = byCron \cup {e}
  /\ sweep' = [sweep EXCEPT !.pc = "enqueue"]
  /\ UNCHANGED <<clock, tasks, up, storeVars, run, worked, budget>>

SweepEnqueues ==
  /\ sweep.pc = "enqueue"
  /\ \E e \in byCron :
       /\ request[e] = "created"
       /\ Store!Submit(e)
       /\ request' = [request EXCEPT ![e] = "sent"]
  /\ NextTask
  /\ UNCHANGED <<clock, tasks, up, rows, byCron, run, worked, budget>>

(* An error ends the sweep, for the tasks that are left as well: one of    *)
(* the database, or the foreign key of a task deleted meanwhile.           *)
SweepFails ==
  /\ \/ sweep.pc # "idle" /\ Spend("db")
     \/ sweep.pc = "create" /\ tasks[First] = "gone" /\ UNCHANGED budget
  /\ sweep' = IdleSweep
  /\ request' = [e \in Execs |-> IF e \in byCron /\ request[e] = "created"
                                   THEN "lost" ELSE request[e]]
  /\ UNCHANGED <<clock, tasks, up, rows, byCron, storeVars, run, worked>>

-----------------------------------------------------------------------------
(* run_scheduled_task, in the hands of worker w                            *)
At(w, pc) == run[w].pc = pc
Goto(w, pc) == run' = [run EXCEPT ![w].pc = pc]

handlerSame == <<clock, tasks, up, request, byCron, sweep, storeVars>>

Take(w, e) ==
  /\ At(w, "idle")
  /\ Store!Take(w, e)
  /\ run' = [run EXCEPT ![w] = [IdleRun EXCEPT !.pc = "load", !.e = e]]
  /\ UNCHANGED <<clock, tasks, up, rows, request, byCron, sweep, worked, budget>>

(* get_execution_by_uuid, get_by_id: a missing row is an error of the job. *)
Load(w) ==
  /\ At(w, "load")
  /\ Goto(w, IF Present(run[w].e) THEN "resolve" ELSE "err")
  /\ UNCHANGED <<handlerSame, rows, worked, budget>>

(* resolve_target: the containers of a service are those of its            *)
(* service_applications whose status says "running", which nothing ever    *)
(* writes there; so a service has none, whatever `up` says.                *)
HasContainers(t) == t \in up \ ServiceTasks

(* Mutant: the last failure leaves the loop without an outcome.            *)
ResolveForgets(w) ==
  /\ At(w, "resolve")
  /\ \/ HasContainers(rows[run[w].e].task) /\ Goto(w, "exec")
     \/ Goto(w, "ok")
  /\ UNCHANGED <<handlerSame, rows, worked, budget>>

(* resolve_target, resolve_container, resolve_conn: no resource, none that *)
(* runs, no container of that name, no server, a database error: failed.   *)
Resolve(w) ==
  /\ At(w, "resolve")
  /\ \/ HasContainers(rows[run[w].e].task) /\ Goto(w, "exec")
     \/ Goto(w, "failed")
  /\ UNCHANGED <<handlerSame, rows, worked, budget>>

(* run_with_retry: once more unless it was the last time.                  *)
Again(w) ==
  run' = [run EXCEPT ![w].attempt = @ + 1,
                     ![w].pc = IF run[w].attempt + 1 < Tries THEN "exec" ELSE "failed"]

(* Mutant: a success does not leave the loop.                              *)
ExecOnAndOn(w) ==
  /\ At(w, "exec")
  /\ Again(w)
  /\ worked' \in {worked, worked \cup {run[w].e}}
  /\ UNCHANGED <<handlerSame, rows, budget>>

(* The command ends and its exit code arrives; or the answer is lost,      *)
(* whether or not the command did its work.                                *)
Exec(w) ==
  /\ At(w, "exec")
  /\ \/ worked' = worked \cup {run[w].e} /\ Goto(w, "success") /\ UNCHANGED budget
     \/ Again(w) /\ UNCHANGED <<worked, budget>>
     \/ Spend("ssh") /\ Again(w) /\ worked' = worked \cup {run[w].e}
  /\ UNCHANGED <<handlerSame, rows>>

(* finish_execution: whatever the row says, if it is still there.          *)
FinishExecution(e, status) ==
  rows' = IF Present(e) THEN [rows EXCEPT ![e].status = status] ELSE rows

Finish(w) ==
  /\ At(w, "success") \/ At(w, "failed")
  /\ FinishExecution(run[w].e, run[w].pc)
  /\ Goto(w, "ok")
  /\ UNCHANGED <<handlerSame, worked, budget>>

DbFails(w) ==
  /\ run[w].pc \in {"load", "success", "failed"}
  /\ Spend("db")
  /\ Goto(w, "err")
  /\ UNCHANGED <<handlerSame, rows, worked>>

PutDown(w) == run' = [run EXCEPT ![w] = IdleRun]

Report(w) ==
  /\ \/ At(w, "ok") /\ Store!Finish(w, run[w].e)
     \/ At(w, "err") /\ Store!Miss(w, run[w].e)
  /\ PutDown(w)
  /\ UNCHANGED <<clock, tasks, up, rows, request, byCron, sweep, worked, budget>>

ReportLost(w) ==
  /\ At(w, "ok") \/ At(w, "err")
  /\ Spend("db")
  /\ Store!LetGo({run[w].e})
  /\ PutDown(w)
  /\ UNCHANGED <<clock, tasks, up, rows, request, byCron, sweep, worked>>

(* The process dies, wherever it is, and another one starts.               *)
Restart ==
  LET held == {e \in Execs : jobStatus[e] = "held"} IN
  /\ Spend("restarts")
  /\ IF held = {} THEN UNCHANGED storeVars ELSE Store!LetGo(held)
  /\ request' = [e \in Execs |-> IF request[e] = "created" THEN "lost" ELSE request[e]]
  /\ sweep' = IdleSweep
  /\ run' = [w \in Workers |-> IdleRun]
  /\ UNCHANGED <<clock, tasks, up, rows, byCron, worked>>

Handler(w) ==
  \/ Load(w) \/ Resolve(w) \/ Exec(w) \/ Finish(w) \/ DbFails(w) \/ Report(w) \/ ReportLost(w)

TakeSome(w) == \E e \in Execs : Take(w, e)

Sweep ==
  SweepStarts \/ SweepReadsStatus \/ SweepChecks \/ SweepCreates \/ SweepEnqueues \/ SweepFails

Next ==
  \/ Tick \/ Prune \/ Sweep \/ Restart
  \/ \E t \in Tasks : Update(t) \/ Delete(t) \/ ResourceChanges(t)
  \/ \E t \in Tasks, e \in Execs : Trigger(t, e)
  \/ \E e \in Execs : SendJob(e)
  \/ \E w \in Workers : TakeSome(w) \/ Handler(w)

Spec == Init /\ [][Next]_vars

(* Workers poll the queue and handlers are polled to their end: remote     *)
(* commands run under `timeout`, and backoffs and SQL statements end.      *)
FairSpec == Spec /\ \A w \in Workers : WF_vars(TakeSome(w)) /\ WF_vars(Handler(w))

-----------------------------------------------------------------------------
(* The sweep fires a task at most once in the minute an execution starts   *)
(* in ("Fire at most once per minute even if the tick drifts"), although   *)
(* it checks in one statement and inserts in another, may straddle the end *)
(* of a minute, and may be followed by another one in the same minute.     *)
OncePerMinute ==
  \A d, e \in byCron :
    /\ d # e /\ rows[d].task = rows[e].task /\ Present(d) /\ Present(e)
    => MinuteOf[rows[d].started] # MinuteOf[rows[e].started]

(* What the row reports of the command is true: success is recorded only   *)
(* if the command has ended well, failure only if it never did, unless an  *)
(* answer was lost or the job was run again; and a job that reported       *)
(* success has ended its execution.                                        *)
OutcomeIsReal ==
  \A e \in Execs :
    /\ rows[e].status = "success" => e \in worked
    /\ rows[e].status = "failed" /\ e \in worked => budget.all < MaxEvents
    /\ jobStatus[e] = "done" => rows[e].status \in {"success", "failed", "gone"}

(* An execution whose job was inserted ends, or its job is dropped after   *)
(* MaxAttempts errors, whatever crashes, is lost, or is deleted meanwhile. *)
EveryExecutionEnds ==
  \A e \in Execs : request[e] = "sent" ~> (rows[e].status # "running" \/ jobStatus[e] = "dropped")

=============================================================================
