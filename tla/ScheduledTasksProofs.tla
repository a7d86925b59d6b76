------------------------ MODULE ScheduledTasksProofs ------------------------
(***************************************************************************)
(* Proofs about ScheduledTasks for any tasks, executions, workers, clock   *)
(* and bounds.  A sweep that is about to create an execution has seen none *)
(* of the same task in the minute it began in, and only a sweep adds to    *)
(* `byCron`; an execution that a worker has in hand, or may take, has not  *)
(* failed after its command ended well, as long as nothing has gone wrong. *)
(***************************************************************************)
EXTENDS ScheduledTasks, WellFoundedInduction, TLAPS

(* A worker past `idle` holds the job it remembers.                        *)
Hands ==
  \A w \in Workers : run[w].pc # "idle" =>
    /\ run[w].e \in Execs
    /\ jobStatus[run[w].e] = "held" /\ holder[run[w].e] = w
    /\ run[w].pc \in {"load", "resolve", "exec"} => run[w].attempt < Tries

(* A job that may still be run has failed less than MaxAttempts times.     *)
TriesLeft ==
  \A e \in Execs : jobStatus[e] \in {"absent", "queued", "held"} => tries[e] < MaxAttempts

(* A sweep under way has a task in hand.                                   *)
Busy == sweep.pc # "idle" => sweep.todo # {}

(* Rows exist before anything refers to them, and none is from the future. *)
Rows ==
  /\ sweep.at <= clock
  /\ \A e \in Execs :
       /\ rows[e].started <= clock
       /\ e \in byCron \/ request[e] # "none" \/ jobStatus[e] # "absent" => rows[e].status # "none"

(* What a sweep that is about to create an execution knows.                *)
Checked ==
  sweep.pc = "create" =>
    \A e \in byCron : Present(e) /\ rows[e].task = First =>
      MinuteOf[rows[e].started] < MinuteOf[sweep.at]

(* The outcome that a worker is about to write, and the one it has written.*)
Over(e) == rows[e].status \in {"success", "failed", "gone"}

Outcomes ==
  /\ \A e \in Execs : /\ rows[e].status = "success" => e \in worked
                      /\ jobStatus[e] = "done" => Over(e)
  /\ \A w \in Workers : /\ At(w, "success") => run[w].e \in worked
                        /\ At(w, "ok") => Over(run[w].e)

(* While nothing has gone wrong, a job that is not through has not failed, *)
(* and has not worked before its worker knows.                             *)
Before == {"load", "resolve", "exec", "failed", "err"}

Clean ==
  budget.all = MaxEvents =>
    /\ \A e \in worked : rows[e].status # "failed"
    /\ \A e \in Execs : jobStatus[e] \in {"absent", "queued"} =>
         e \notin worked /\ rows[e].status # "failed"
    /\ \A w \in Workers :
         /\ run[w].pc \in Before => run[w].e \notin worked
         /\ run[w].pc \in Before \cup {"success"} => rows[run[w].e].status # "failed"

Core == TypeOK /\ Hands /\ TriesLeft /\ Busy
Inv == Core /\ Rows /\ Checked /\ OncePerMinute /\ Outcomes /\ Clean

RowStates == [status: {"none", "running", "success", "failed", "gone"},
              task: Tasks \cup {NoTask}, started: Seconds]
RunStates == [pc: {"idle", "load", "resolve", "exec", "success", "failed", "ok", "err"},
              e: Execs \cup {NoExec}, attempt: 0..Tries]
SweepStates == [pc: {"idle", "status", "check", "create", "enqueue"}, at: Seconds,
                todo: SUBSET Tasks]
Budgets == [edits: 0..MaxEdits, restarts: 0..MaxRestarts, db: 0..MaxDbErrors,
            ssh: 0..MaxSshLosses, all: 0..MaxEvents]

-----------------------------------------------------------------------------
(* The parts of the state that a step may leave alone.                     *)
LEMMA BudgetTyping ==
  ASSUME TypeOK, NEW kind \in {"edits", "restarts", "db", "ssh"}, Spend(kind)
  PROVE  budget' \in Budgets /\ budget'.all < MaxEvents
<1> USE TasksAssumption
<1>1. budget \in Budgets /\ budget[kind] > 0 /\ budget.all > 0
  BY DEF TypeOK, Budgets, Spend
<1>2. budget.all - 1 \in 0..MaxEvents /\ budget.all - 1 < MaxEvents
  BY <1>1 DEF Budgets
<1>3. CASE kind = "edits"
  <2>1. budget' = [budget EXCEPT !.edits = @ - 1, !.all = @ - 1]
    BY <1>3 DEF Spend
  <2>2. budget.edits - 1 \in 0..MaxEdits
    BY <1>1, <1>3 DEF Budgets
  <2> QED BY <1>1, <1>2, <2>1, <2>2 DEF Budgets
<1>4. CASE kind = "restarts"
  <2>1. budget' = [budget EXCEPT !.restarts = @ - 1, !.all = @ - 1]
    BY <1>4 DEF Spend
  <2>2. budget.restarts - 1 \in 0..MaxRestarts
    BY <1>1, <1>4 DEF Budgets
  <2> QED BY <1>1, <1>2, <2>1, <2>2 DEF Budgets
<1>5. CASE kind = "db"
  <2>1. budget' = [budget EXCEPT !.db = @ - 1, !.all = @ - 1]
    BY <1>5 DEF Spend
  <2>2. budget.db - 1 \in 0..MaxDbErrors
    BY <1>1, <1>5 DEF Budgets
  <2> QED BY <1>1, <1>2, <2>1, <2>2 DEF Budgets
<1>6. CASE kind = "ssh"
  <2>1. budget' = [budget EXCEPT !.ssh = @ - 1, !.all = @ - 1]
    BY <1>6 DEF Spend
  <2>2. budget.ssh - 1 \in 0..MaxSshLosses
    BY <1>1, <1>6 DEF Budgets
  <2> QED BY <1>1, <1>2, <2>1, <2>2 DEF Budgets
<1> QED BY <1>3, <1>4, <1>5, <1>6

LEMMA Typed ==
  TypeOK <=> /\ clock \in Seconds
             /\ tasks \in [Tasks -> {"enabled", "disabled", "gone"}]
             /\ up \in SUBSET Tasks
             /\ rows \in [Execs -> RowStates]
             /\ request \in [Execs -> {"none", "created", "sent", "lost"}]
             /\ byCron \in SUBSET Execs
             /\ sweep \in SweepStates
             /\ Store!StoreTypeOK
             /\ run \in [Workers -> RunStates]
             /\ worked \in SUBSET Execs
             /\ budget \in Budgets
BY DEF TypeOK, RowStates, RunStates, SweepStates, Budgets

LEMMA TypedNext ==
  TypeOK' <=> /\ clock' \in Seconds
              /\ tasks' \in [Tasks -> {"enabled", "disabled", "gone"}]
              /\ up' \in SUBSET Tasks
              /\ rows' \in [Execs -> RowStates]
              /\ request' \in [Execs -> {"none", "created", "sent", "lost"}]
              /\ byCron' \in SUBSET Execs
              /\ sweep' \in SweepStates
              /\ Store!StoreTypeOK'
              /\ run' \in [Workers -> RunStates]
              /\ worked' \in SUBSET Execs
              /\ budget' \in Budgets
BY DEF TypeOK, RowStates, RunStates, SweepStates, Budgets

(* The task in hand is one that the sweep has left.                        *)
LEMMA FirstIsLeft ==
  ASSUME TypeOK, sweep.todo # {}
  PROVE  First \in sweep.todo /\ First \in Tasks
<1>1. sweep.todo \subseteq Nat
  BY TasksAssumption DEF TypeOK
<1>2. PICK t \in sweep.todo : \A u \in sweep.todo : <<u, t>> \notin OpToRel(<, Nat)
  BY <1>1, NatLessThanWellFounded, WFMin
<1>3. \A u \in sweep.todo : u < t => <<u, t>> \in OpToRel(<, Nat)
  BY <1>1 DEF OpToRel
<1>4. \A u \in sweep.todo : ~(u < t)
  BY <1>2, <1>3, Zenon
<1>5. \A u \in sweep.todo : t <= u
  BY <1>1, <1>4
<1>6. First \in sweep.todo
  BY <1>5 DEF First
<1> QED BY <1>6 DEF TypeOK

(* Where a worker goes; the others stay where they are.                    *)
LEMMA GotoFacts ==
  ASSUME TypeOK, NEW w \in Workers,
         NEW pc \in {"idle", "load", "resolve", "exec", "success", "failed", "ok", "err"},
         Goto(w, pc)
  PROVE  /\ run' \in [Workers -> RunStates]
         /\ run'[w].pc = pc /\ run'[w].e = run[w].e /\ run'[w].attempt = run[w].attempt
         /\ \A o \in Workers \ {w} : run'[o] = run[o]
<1> DEFINE s == [run[w] EXCEPT !.pc = pc]
<1>1. run \in [Workers -> RunStates] /\ run[w] \in RunStates
  BY Typed
<1>2. s \in RunStates /\ s.pc = pc /\ s.e = run[w].e /\ s.attempt = run[w].attempt
  BY <1>1 DEF RunStates
<1>3. run' = [run EXCEPT ![w] = s]
  BY DEF Goto
<1> HIDE DEF s
<1> QED BY <1>1, <1>2, <1>3

LEMMA AgainFacts ==
  ASSUME TypeOK, NEW w \in Workers, Again(w), run[w].attempt < Tries
  PROVE  /\ run' \in [Workers -> RunStates]
         /\ run'[w].pc \in {"exec", "failed"} /\ run'[w].e = run[w].e
         /\ run'[w].pc = "exec" => run'[w].attempt < Tries
         /\ \A o \in Workers \ {w} : run'[o] = run[o]
<1> DEFINE to == IF run[w].attempt + 1 < Tries THEN "exec" ELSE "failed"
           s == [run[w] EXCEPT !.attempt = @ + 1, !.pc = to]
<1>1. run \in [Workers -> RunStates] /\ run[w] \in RunStates
  BY Typed
<1>2. /\ s \in RunStates /\ s.pc = to /\ s.e = run[w].e
      /\ s.attempt = run[w].attempt + 1
  <2>1. run[w].attempt + 1 \in 0..Tries
    BY <1>1, TasksAssumption DEF RunStates
  <2>2. to \in {"exec", "failed"}
    OBVIOUS
  <2> HIDE DEF to
  <2> QED BY <1>1, <2>1, <2>2 DEF RunStates
<1>3. run' = [run EXCEPT ![w] = s]
  BY DEF Again
<1>4. to \in {"exec", "failed"} /\ (to = "exec" => run[w].attempt + 1 < Tries)
  OBVIOUS
<1> HIDE DEF s, to
<1> QED BY <1>1, <1>2, <1>3, <1>4

LEMMA PutDownFacts ==
  ASSUME TypeOK, NEW w \in Workers, PutDown(w)
  PROVE  /\ run' \in [Workers -> RunStates] /\ run'[w].pc = "idle"
         /\ \A o \in Workers \ {w} : run'[o] = run[o]
<1>1. run \in [Workers -> RunStates]
  BY Typed
<1>2. IdleRun \in RunStates /\ IdleRun.pc = "idle"
  BY TasksAssumption DEF IdleRun, RunStates
<1>3. run' = [run EXCEPT ![w] = IdleRun]
  BY DEF PutDown
<1> HIDE DEF IdleRun
<1> QED BY <1>1, <1>2, <1>3

(* A row is created, or ends.                                              *)
LEMMA CreateFacts ==
  ASSUME TypeOK, NEW t \in Tasks, NEW e \in Execs, CreateExecution(t, e)
  PROVE  /\ rows' \in [Execs -> RowStates]
         /\ rows'[e] = [status |-> "running", task |-> t, started |-> clock]
         /\ \A d \in Execs \ {e} : rows'[d] = rows[d]
         /\ rows[e].status = "none"
         /\ request' = [request EXCEPT ![e] = "created"]
<1> DEFINE s == [status |-> "running", task |-> t, started |-> clock]
<1>1. rows \in [Execs -> RowStates] /\ clock \in Seconds
  BY Typed
<1>2. s \in RowStates
  BY <1>1 DEF RowStates
<1>3. /\ rows' = [rows EXCEPT ![e] = s] /\ rows[e].status = "none"
      /\ request' = [request EXCEPT ![e] = "created"]
  BY DEF CreateExecution
<1>4. s = [status |-> "running", task |-> t, started |-> clock]
  OBVIOUS
<1> HIDE DEF s
<1> QED BY <1>1, <1>2, <1>3, <1>4

(* Rows that only end or go: nothing else about them changes.              *)
Ended(ends) ==
  /\ rows' \in [Execs -> RowStates]
  /\ \A e \in Execs : /\ rows'[e].task = rows[e].task /\ rows'[e].started = rows[e].started
                      /\ rows[e].status = "none" <=> rows'[e].status = "none"
                      /\ rows[e].status = "gone" => rows'[e].status = "gone"
                      /\ rows'[e].status = rows[e].status \/ rows'[e].status \in ends

LEMMA GoneFacts ==
  ASSUME TypeOK, NEW E \in SUBSET Execs, \A e \in E : Present(e),
         rows' = [e \in Execs |-> IF e \in E THEN Gone(e) ELSE rows[e]]
  PROVE  Ended({"gone"})
<1>1. rows \in [Execs -> RowStates]
  BY Typed
<1>2. \A e \in Execs : /\ Gone(e) \in RowStates /\ Gone(e).status = "gone"
                      /\ Gone(e).task = rows[e].task /\ Gone(e).started = rows[e].started
  BY <1>1 DEF Gone, RowStates
<1> QED BY <1>1, <1>2 DEF Ended, Present

LEMMA FinishFacts ==
  ASSUME TypeOK, NEW d \in Execs, NEW status \in {"success", "failed"},
         FinishExecution(d, status)
  PROVE  /\ Ended({status})
         /\ rows[d].status # "none" => rows'[d].status \in {status, "gone"}
         /\ \A e \in Execs \ {d} : rows'[e] = rows[e]
<1> DEFINE s == [rows[d] EXCEPT !.status = status]
<1>1. rows \in [Execs -> RowStates] /\ rows[d] \in RowStates
  BY Typed
<1>2. /\ s \in RowStates /\ s.status = status
      /\ s.task = rows[d].task /\ s.started = rows[d].started
  BY <1>1 DEF RowStates
<1>3. rows' = IF Present(d) THEN [rows EXCEPT ![d] = s] ELSE rows
  BY DEF FinishExecution
<1> HIDE DEF s
<1> QED BY <1>1, <1>2, <1>3 DEF Ended, Present, RowStates

LEMMA NextTaskFacts ==
  ASSUME TypeOK, NextTask
  PROVE  /\ sweep' \in SweepStates
         /\ sweep'.pc \in {"idle", "status"} /\ sweep'.at \in {0, sweep.at}
         /\ sweep'.pc # "idle" => sweep'.todo # {}
<1> DEFINE rest == sweep.todo \ {First}
           s == [sweep EXCEPT !.pc = "status", !.todo = rest]
<1>1. sweep \in SweepStates
  BY Typed
<1>2. s \in SweepStates /\ s.pc = "status" /\ s.at = sweep.at /\ s.todo = rest
  BY <1>1 DEF SweepStates
<1>3. IdleSweep \in SweepStates /\ IdleSweep.pc = "idle" /\ IdleSweep.at = 0
  BY TasksAssumption DEF IdleSweep, SweepStates, Seconds
<1>4. sweep' = IF rest = {} THEN IdleSweep ELSE s
  BY DEF NextTask
<1> HIDE DEF s, rest
<1> QED BY <1>2, <1>3, <1>4

-----------------------------------------------------------------------------
(* Types, the hands of the workers, and the task in hand.                  *)
LEMMA HandsRest ==
  ASSUME Hands, TriesLeft, UNCHANGED <<storeVars, run>>
  PROVE  Hands' /\ TriesLeft'
BY DEF Hands, TriesLeft, storeVars

LEMMA HandMoves ==
  ASSUME Hands, TriesLeft, NEW w \in Workers, UNCHANGED storeVars,
         run[w].pc # "idle", run'[w].e = run[w].e,
         run'[w].pc \in {"load", "resolve", "exec"} => run'[w].attempt < Tries,
         \A o \in Workers \ {w} : run'[o] = run[o]
  PROVE  Hands' /\ TriesLeft'
BY DEF Hands, TriesLeft, storeVars

LEMMA SweepCore ==
  ASSUME Core, Sweep
  PROVE  Core'
<1> USE DEF Core
<1>1. CASE SweepStarts
  <2> DEFINE due == {t \in Tasks : tasks[t] = "enabled" /\ MinuteOf[clock] \in DueMinutes[t]}
  <2>1. due \subseteq Tasks /\ due # {} /\ sweep' = [pc |-> "status", at |-> clock, todo |-> due]
    BY <1>1 DEF SweepStarts
  <2> HIDE DEF due
  <2>2. sweep' \in SweepStates /\ Busy'
    BY <2>1, Typed DEF SweepStates, Busy
  <2> QED BY <1>1, <2>2, Typed, TypedNext, HandsRest
       DEF SweepStarts, storeVars, Store!StoreTypeOK
<1>2. CASE SweepReadsStatus
  <2>1. sweep' \in SweepStates /\ Busy'
    <3>1. CASE NextTask
      BY <3>1, NextTaskFacts DEF Busy
    <3>2. CASE sweep' = [sweep EXCEPT !.pc = "check"]
      BY <1>2, <3>2, Typed DEF SweepReadsStatus, SweepStates, Busy
    <3> QED BY <1>2, <3>1, <3>2 DEF SweepReadsStatus
  <2> QED BY <1>2, <2>1, Typed, TypedNext, HandsRest
       DEF SweepReadsStatus, storeVars, Store!StoreTypeOK
<1>3. CASE SweepChecks
  <2>1. sweep' \in SweepStates /\ Busy'
    <3>1. CASE NextTask
      BY <3>1, NextTaskFacts DEF Busy
    <3>2. CASE sweep' = [sweep EXCEPT !.pc = "create"]
      BY <1>3, <3>2, Typed DEF SweepChecks, SweepStates, Busy
    <3> QED BY <1>3, <3>1, <3>2 DEF SweepChecks
  <2> QED BY <1>3, <2>1, Typed, TypedNext, HandsRest
       DEF SweepChecks, storeVars, Store!StoreTypeOK
<1>4. CASE SweepCreates
  <2>1. sweep.pc = "create" /\ sweep' = [sweep EXCEPT !.pc = "enqueue"]
    BY <1>4 DEF SweepCreates
  <2>2. sweep' \in SweepStates /\ Busy'
    BY <2>1, Typed DEF SweepStates, Busy
  <2>3. PICK e \in Execs : CreateExecution(First, e) /\ byCron' = byCron \cup {e}
    BY <1>4 DEF SweepCreates
  <2>4. First \in Tasks
    BY <2>1, FirstIsLeft DEF Busy
  <2>5. /\ rows' \in [Execs -> RowStates]
        /\ request' \in [Execs -> {"none", "created", "sent", "lost"}]
    BY <2>3, <2>4, CreateFacts, Typed
  <2>6. byCron' \in SUBSET Execs
    BY <2>3, Typed
  <2> QED BY <1>4, <2>2, <2>5, <2>6, Typed, TypedNext, HandsRest
       DEF SweepCreates, storeVars, Store!StoreTypeOK
<1>5. CASE SweepEnqueues
  <2>1. PICK e \in byCron : Store!Submit(e) /\ request' = [request EXCEPT ![e] = "sent"]
    BY <1>5 DEF SweepEnqueues
  <2>2. e \in Execs /\ request' \in [Execs -> {"none", "created", "sent", "lost"}]
    BY <2>1, Typed
  <2>3. Store!StoreTypeOK' /\ TriesLeft'
    BY <2>1, <2>2, Typed DEF Store!StoreTypeOK, Store!Submit, Store!Status, TriesLeft
  <2>4. Hands'
    BY <1>5, <2>1, <2>2, Typed DEF Hands, Store!Submit, Store!StoreTypeOK, SweepEnqueues
  <2>5. sweep' \in SweepStates /\ Busy'
    BY <1>5, NextTaskFacts DEF SweepEnqueues, Busy
  <2> QED BY <1>5, <2>2, <2>3, <2>4, <2>5, Typed, TypedNext DEF SweepEnqueues
<1>6. CASE SweepFails
  <2>1. sweep' = IdleSweep
    BY <1>6 DEF SweepFails
  <2>2. sweep' \in SweepStates /\ Busy'
    BY <2>1, TasksAssumption DEF IdleSweep, SweepStates, Busy, Seconds
  <2>3. request' \in [Execs -> {"none", "created", "sent", "lost"}]
    BY <1>6, Typed DEF SweepFails
  <2>4. budget' \in Budgets
    BY <1>6, Typed, BudgetTyping DEF SweepFails
  <2> QED BY <1>6, <2>2, <2>3, <2>4, Typed, TypedNext, HandsRest
       DEF SweepFails, storeVars, Store!StoreTypeOK
<1> QED BY <1>1, <1>2, <1>3, <1>4, <1>5, <1>6 DEF Sweep

LEMMA HandlerCore ==
  ASSUME Core, NEW w \in Workers, Handler(w) \/ TakeSome(w)
  PROVE  Core'
<1> USE DEF Core, At, handlerSame
<1>0. run[w] \in RunStates /\ (run[w].pc # "idle" => run[w].e \in Execs)
  BY Typed DEF Hands
<1>1. CASE TakeSome(w)
  <2>1. PICK e \in Execs : Take(w, e)
    BY <1>1 DEF TakeSome
  <2> DEFINE s == [IdleRun EXCEPT !.pc = "load", !.e = e]
  <2>2. s \in RunStates /\ s.pc = "load" /\ s.e = e /\ s.attempt < Tries
    <3>1. IdleRun \in RunStates /\ IdleRun.attempt = 0 /\ 0 < Tries
      BY TasksAssumption DEF IdleRun, RunStates
    <3> HIDE DEF IdleRun
    <3> QED BY <3>1 DEF RunStates
  <2>3. run' = [run EXCEPT ![w] = s] /\ Store!Take(w, e)
    BY <2>1 DEF Take
  <2> HIDE DEF s
  <2>4. run' \in [Workers -> RunStates] /\ run'[w] = s
        /\ \A o \in Workers \ {w} : run'[o] = run[o]
    BY <2>2, <2>3, Typed
  <2>5. Store!StoreTypeOK' /\ TriesLeft'
    BY <2>3, Typed DEF Store!StoreTypeOK, Store!Take, Store!Status, TriesLeft
  <2>6. /\ jobStatus[e] = "queued" /\ jobStatus'[e] = "held" /\ holder'[e] = w
        /\ \A d \in Execs \ {e} : jobStatus'[d] = jobStatus[d] /\ holder'[d] = holder[d]
    BY <2>3, Typed DEF Store!StoreTypeOK, Store!Take
  <2>7. Hands'
    BY <2>2, <2>4, <2>6 DEF Hands
  <2>8. Busy'
    BY <2>1 DEF Take, Busy
  <2> QED BY <2>1, <2>4, <2>5, <2>7, <2>8, Typed, TypedNext DEF Take
<1>2. CASE Load(w)
  <2>1. /\ run[w].pc = "load" /\ run[w].attempt < Tries
        /\ \E pc \in {"resolve", "err"} : Goto(w, pc)
    BY <1>2 DEF Load, Hands
  <2>2. run' \in [Workers -> RunStates] /\ Hands' /\ TriesLeft'
    BY <1>2, <2>1, GotoFacts, HandMoves DEF Load, storeVars
  <2> QED BY <1>2, <2>2, Typed, TypedNext DEF Load, storeVars, Store!StoreTypeOK, Busy
<1>3. CASE Resolve(w)
  <2>1. /\ run[w].pc = "resolve" /\ run[w].attempt < Tries
        /\ \E pc \in {"exec", "failed"} : Goto(w, pc)
    BY <1>3 DEF Resolve, Hands
  <2>2. run' \in [Workers -> RunStates] /\ Hands' /\ TriesLeft'
    BY <1>3, <2>1, GotoFacts, HandMoves DEF Resolve, storeVars
  <2> QED BY <1>3, <2>2, Typed, TypedNext DEF Resolve, storeVars, Store!StoreTypeOK, Busy
<1>4. CASE Exec(w)
  <2>1. run[w].pc = "exec" /\ run[w].attempt < Tries
    BY <1>4 DEF Exec, Hands
  <2>2. run' \in [Workers -> RunStates] /\ Hands' /\ TriesLeft'
    <3>1. CASE Goto(w, "success")
      BY <1>4, <2>1, <3>1, GotoFacts, HandMoves DEF Exec, storeVars
    <3>2. CASE Again(w)
      BY <1>4, <2>1, <3>2, AgainFacts, HandMoves DEF Exec, storeVars
    <3> QED BY <1>4, <3>1, <3>2 DEF Exec
  <2>3. worked' \in SUBSET Execs /\ budget' \in Budgets
    BY <1>0, <1>4, <2>1, Typed, BudgetTyping DEF Exec
  <2> QED BY <1>4, <2>2, <2>3, Typed, TypedNext DEF Exec, storeVars, Store!StoreTypeOK, Busy
<1>5. CASE Finish(w)
  <2>1. run[w].pc \in {"success", "failed"} /\ FinishExecution(run[w].e, run[w].pc) /\ Goto(w, "ok")
    BY <1>5 DEF Finish
  <2>2. rows' \in [Execs -> RowStates]
    BY <1>0, <2>1, FinishFacts DEF Ended
  <2>3. run' \in [Workers -> RunStates] /\ Hands' /\ TriesLeft'
    BY <1>5, <2>1, GotoFacts, HandMoves DEF Finish, storeVars
  <2> QED BY <1>5, <2>2, <2>3, Typed, TypedNext DEF Finish, storeVars, Store!StoreTypeOK, Busy
<1>6. CASE DbFails(w)
  <2>1. run[w].pc # "idle" /\ Goto(w, "err") /\ Spend("db")
    BY <1>6 DEF DbFails
  <2>2. run' \in [Workers -> RunStates] /\ Hands' /\ TriesLeft'
    BY <1>6, <2>1, GotoFacts, HandMoves DEF DbFails, storeVars
  <2>3. budget' \in Budgets
    BY <2>1, BudgetTyping
  <2> QED BY <1>6, <2>2, <2>3, Typed, TypedNext DEF DbFails, storeVars, Store!StoreTypeOK, Busy
<1>7. CASE Report(w)
  <2>1. run[w].e \in Execs /\ PutDown(w) /\ (Store!Finish(w, run[w].e) \/ Store!Miss(w, run[w].e))
    BY <1>0, <1>7 DEF Report
  <2> DEFINE e == run[w].e
  <2>2. tries[e] + 1 \in 0..MaxAttempts
    <3>1. jobStatus[e] = "held" /\ e \in Execs
      BY <2>1 DEF Store!Finish, Store!Miss
    <3>2. tries[e] \in 0..MaxAttempts /\ tries[e] < MaxAttempts
      BY <3>1, Typed DEF Store!StoreTypeOK, TriesLeft
    <3> HIDE DEF e
    <3> QED BY <3>2, TasksAssumption
  <2>3. Store!StoreTypeOK' /\ TriesLeft'
    BY <2>1, <2>2, Typed, TasksAssumption
    DEF Store!StoreTypeOK, Store!Finish, Store!Miss, Store!Status, TriesLeft
  <2>4. /\ holder[e] = w
        /\ \A d \in Execs \ {e} : jobStatus'[d] = jobStatus[d] /\ holder'[d] = holder[d]
    BY <2>1, Typed DEF Store!StoreTypeOK, Store!Finish, Store!Miss
  <2>5. /\ run' \in [Workers -> RunStates] /\ run'[w].pc = "idle"
        /\ \A o \in Workers \ {w} : run'[o] = run[o]
    BY <2>1, PutDownFacts
  <2>6. Hands'
    BY <2>4, <2>5 DEF Hands
  <2> QED BY <1>7, <2>3, <2>5, <2>6, Typed, TypedNext DEF Report, Busy
<1>8. CASE ReportLost(w)
  <2>1. run[w].e \in Execs /\ PutDown(w) /\ Store!LetGo({run[w].e}) /\ Spend("db")
    BY <1>0, <1>8 DEF ReportLost
  <2> DEFINE e == run[w].e
  <2>2. Store!StoreTypeOK' /\ TriesLeft'
    BY <2>1, Typed DEF Store!StoreTypeOK, Store!LetGo, Store!Status, TriesLeft
  <2>3. /\ run[w].pc # "idle"
        /\ \A d \in Execs \ {e} : jobStatus'[d] = jobStatus[d] /\ holder'[d] = holder[d]
    BY <1>8, <2>1, Typed DEF ReportLost, Store!StoreTypeOK, Store!LetGo
  <2>4. /\ run' \in [Workers -> RunStates] /\ run'[w].pc = "idle"
        /\ \A o \in Workers \ {w} : run'[o] = run[o]
    BY <2>1, PutDownFacts
  <2>5. Hands'
    BY <2>3, <2>4 DEF Hands
  <2>6. budget' \in Budgets
    BY <2>1, BudgetTyping
  <2> QED BY <1>8, <2>2, <2>4, <2>5, <2>6, Typed, TypedNext DEF ReportLost, Busy
<1> QED BY <1>1, <1>2, <1>3, <1>4, <1>5, <1>6, <1>7, <1>8 DEF Handler

LEMMA OthersCore ==
  ASSUME Core,
         \/ Tick \/ Prune \/ Restart \/ UNCHANGED vars
         \/ \E t \in Tasks : Update(t) \/ Delete(t) \/ ResourceChanges(t)
         \/ \E t \in Tasks, e \in Execs : Trigger(t, e)
         \/ \E e \in Execs : SendJob(e)
  PROVE  Core'
<1> USE DEF Core
<1>1. CASE Tick
  <2>1. clock' \in Seconds
    BY <1>1, Typed, TasksAssumption DEF Tick, Seconds
  <2> QED BY <1>1, <2>1, Typed, TypedNext, HandsRest DEF Tick, storeVars, Store!StoreTypeOK, Busy
<1>2. CASE Prune
  <2> DEFINE E == {e \in Execs : OldRecord(e)}
  <2>1. rows' = [e \in Execs |-> IF e \in E THEN Gone(e) ELSE rows[e]]
    BY <1>2 DEF Prune
  <2>2. \A e \in E : Present(e)
    BY DEF OldRecord, Present
  <2> HIDE DEF E
  <2>3. rows' \in [Execs -> RowStates]
    BY <2>1, <2>2, Typed DEF Gone, RowStates
  <2> QED BY <1>2, <2>3, Typed, TypedNext, HandsRest DEF Prune, storeVars, Store!StoreTypeOK, Busy
<1>3. CASE Restart
  <2> DEFINE held == {e \in Execs : jobStatus[e] = "held"}
  <2>1. /\ Store!StoreTypeOK' /\ TriesLeft'
    BY <1>3, Typed DEF Restart, Store!StoreTypeOK, Store!LetGo, Store!Status, TriesLeft, storeVars
  <2>2. request' \in [Execs -> {"none", "created", "sent", "lost"}]
    BY <1>3, Typed DEF Restart
  <2>3. run' \in [Workers -> RunStates] /\ Hands'
    <3>1. IdleRun \in RunStates /\ IdleRun.pc = "idle"
      BY TasksAssumption DEF IdleRun, RunStates
    <3>2. run' = [w \in Workers |-> IdleRun]
      BY <1>3 DEF Restart
    <3> HIDE DEF IdleRun
    <3> QED BY <3>1, <3>2 DEF Hands
  <2>4. sweep' \in SweepStates /\ Busy'
    <3>1. sweep' = IdleSweep
      BY <1>3 DEF Restart
    <3> QED BY <3>1, TasksAssumption DEF IdleSweep, SweepStates, Busy, Seconds
  <2>5. budget' \in Budgets
    BY <1>3, BudgetTyping DEF Restart
  <2> QED BY <1>3, <2>1, <2>2, <2>3, <2>4, <2>5, Typed, TypedNext DEF Restart
<1>4. CASE UNCHANGED vars
  BY <1>4, Typed, TypedNext, HandsRest DEF vars, storeVars, Store!StoreTypeOK, Busy
<1>5. ASSUME NEW t \in Tasks, Update(t) \/ Delete(t) \/ ResourceChanges(t)
      PROVE  Core'
  <2>1. budget' \in Budgets
    BY <1>5, BudgetTyping DEF Update, Delete, ResourceChanges
  <2>2. CASE Update(t)
    <3>1. tasks' \in [Tasks -> {"enabled", "disabled", "gone"}]
      BY <2>2, Typed DEF Update
    <3> QED BY <2>1, <2>2, <3>1, Typed, TypedNext, HandsRest
         DEF Update, storeVars, Store!StoreTypeOK, Busy
  <2>3. CASE Delete(t)
    <3>1. /\ tasks' \in [Tasks -> {"enabled", "disabled", "gone"}]
          /\ rows' \in [Execs -> RowStates]
      BY <2>3, Typed DEF Delete, Gone, RowStates
    <3> QED BY <2>1, <2>3, <3>1, Typed, TypedNext, HandsRest
         DEF Delete, storeVars, Store!StoreTypeOK, Busy
  <2>4. CASE ResourceChanges(t)
    <3>1. up' \in SUBSET Tasks
      BY <2>4, Typed DEF ResourceChanges
    <3> QED BY <2>1, <2>4, <3>1, Typed, TypedNext, HandsRest
         DEF ResourceChanges, storeVars, Store!StoreTypeOK, Busy
  <2> QED BY <1>5, <2>2, <2>3, <2>4
<1>6. ASSUME NEW t \in Tasks, NEW e \in Execs, Trigger(t, e)
      PROVE  Core'
  <2>1. CreateExecution(t, e)
    BY <1>6 DEF Trigger
  <2>2. /\ rows' \in [Execs -> RowStates]
        /\ request' \in [Execs -> {"none", "created", "sent", "lost"}]
    BY <2>1, CreateFacts, Typed
  <2> QED BY <1>6, <2>2, Typed, TypedNext, HandsRest
       DEF Trigger, storeVars, Store!StoreTypeOK, Busy
<1>7. ASSUME NEW e \in Execs, SendJob(e)
      PROVE  Core'
  <2>1. CASE Store!Submit(e)
    <3>1. Store!StoreTypeOK' /\ TriesLeft'
      BY <2>1, Typed DEF Store!StoreTypeOK, Store!Submit, Store!Status, TriesLeft
    <3>2. Hands'
      BY <1>7, <2>1, Typed DEF Hands, Store!Submit, Store!StoreTypeOK, SendJob
    <3>3. /\ request' \in [Execs -> {"none", "created", "sent", "lost"}]
          /\ budget' \in Budgets
      BY <1>7, Typed, BudgetTyping DEF SendJob
    <3> QED BY <1>7, <3>1, <3>2, <3>3, Typed, TypedNext DEF SendJob, Busy
  <2>2. CASE UNCHANGED storeVars
    <3>1. /\ request' \in [Execs -> {"none", "created", "sent", "lost"}]
          /\ budget' \in Budgets
      BY <1>7, Typed, BudgetTyping DEF SendJob
    <3> QED BY <1>7, <2>2, <3>1, Typed, TypedNext, HandsRest
         DEF SendJob, Busy, storeVars, Store!StoreTypeOK
  <2> QED BY <1>7, <2>1, <2>2 DEF SendJob
<1> QED BY <1>1, <1>2, <1>3, <1>4, <1>5, <1>6, <1>7

LEMMA CoreNext ==
  ASSUME Core, [Next]_vars
  PROVE  Core'
BY SweepCore, HandlerCore, OthersCore DEF Next

LEMMA CoreInit == Init => Core
<1> SUFFICES ASSUME Init PROVE Core
  OBVIOUS
<1> USE TasksAssumption
<1>1. NoRow \in RowStates /\ IdleSweep \in SweepStates /\ IdleRun \in RunStates
      /\ IdleRun.pc = "idle" /\ IdleSweep.pc = "idle"
  BY DEF NoRow, RowStates, IdleSweep, SweepStates, IdleRun, RunStates, Seconds
<1>2. budget \in Budgets
  BY DEF Init, Budgets
<1>3. Store!StoreTypeOK /\ TriesLeft
  BY DEF Init, Store!StoreInit, Store!StoreTypeOK, Store!Status, TriesLeft
<1> HIDE DEF NoRow, IdleSweep, IdleRun
<1>4. /\ clock \in Seconds /\ tasks \in [Tasks -> {"enabled", "disabled", "gone"}]
      /\ up \in SUBSET Tasks /\ byCron \in SUBSET Execs /\ worked \in SUBSET Execs
      /\ request \in [Execs -> {"none", "created", "sent", "lost"}]
  BY DEF Init, Seconds
<1>5. rows \in [Execs -> RowStates] /\ sweep \in SweepStates /\ run \in [Workers -> RunStates]
  BY <1>1 DEF Init
<1>6. Hands /\ Busy
  BY <1>1 DEF Init, Hands, Busy
<1> QED BY <1>2, <1>3, <1>4, <1>5, <1>6, Typed DEF Core

-----------------------------------------------------------------------------
(* Once per minute.                                                        *)
LEMMA RowsStay ==
  ASSUME TypeOK, UNCHANGED rows
  PROVE  Ended({})
BY Typed DEF Ended

LEMMA OnceStays ==
  ASSUME Core, OncePerMinute, NEW ends, ends \subseteq {"success", "failed", "gone"}, Ended(ends),
         UNCHANGED byCron
  PROVE  OncePerMinute'
<1>1. \A e \in Execs : Present(e)' => Present(e)
  BY Typed DEF Core, Ended, Present, RowStates
<1>2. byCron \subseteq Execs
  BY Typed DEF Core
<1> QED BY <1>1, <1>2 DEF OncePerMinute, Ended

LEMMA CheckStays ==
  ASSUME Core, Checked, NEW ends, ends \subseteq {"success", "failed", "gone"}, Ended(ends),
         UNCHANGED <<byCron, sweep>>
  PROVE  Checked'
<1>1. \A e \in Execs : Present(e)' => Present(e)
  BY Typed DEF Core, Ended, Present, RowStates
<1>2. byCron \subseteq Execs /\ First' = First
  BY Typed DEF Core, First
<1> QED BY <1>1, <1>2 DEF Checked, Ended

LEMMA RowsRemain ==
  ASSUME Core, Rows, NEW ends, Ended(ends),
         UNCHANGED byCron, clock' \in Seconds, clock <= clock', sweep'.at <= clock',
         \A e \in Execs : request'[e] # "none" => request[e] # "none",
         \A e \in Execs : jobStatus'[e] # "absent" => jobStatus[e] # "absent" \/ request[e] # "none"
  PROVE  Rows'
<1>1. clock \in Int /\ clock' \in Int /\ byCron \subseteq Execs
      /\ \A e \in Execs : rows[e].started \in Int
  BY Typed, TasksAssumption DEF Core, Seconds, RowStates
<1> QED BY <1>1 DEF Rows, Ended

LEMMA Timed ==
  ASSUME Core
  PROVE  /\ clock \in Int /\ sweep.at \in Int /\ 0 <= clock
         /\ \A e \in Execs : rows[e].started \in Int /\ rows[e].started \in Seconds
         /\ \A s \in Seconds : MinuteOf[s] \in Int
         /\ clock \in Seconds /\ sweep.at \in Seconds
BY Typed, TasksAssumption DEF Core, Seconds, RowStates, SweepStates

(* A trigger's execution is not the sweep's.                               *)
LEMMA TriggerFires ==
  ASSUME Core, Rows, Checked, OncePerMinute,
         NEW t \in Tasks, NEW e \in Execs, Trigger(t, e)
  PROVE  Rows' /\ Checked' /\ OncePerMinute'
<1>1. /\ rows[e].status = "none"
      /\ rows'[e] = [status |-> "running", task |-> t, started |-> clock]
      /\ \A d \in Execs \ {e} : rows'[d] = rows[d]
      /\ request' = [request EXCEPT ![e] = "created"]
  BY CreateFacts DEF Trigger, Core
<1>2. /\ UNCHANGED <<byCron, sweep, clock, storeVars>>
      /\ e \notin byCron /\ byCron \subseteq Execs
      /\ request \in [Execs -> {"none", "created", "sent", "lost"}]
  BY <1>1, Typed DEF Trigger, Rows, Core
<1>3. First' = First
  BY <1>2 DEF First
<1>4. Rows'
  BY <1>1, <1>2, Timed DEF Rows, storeVars
<1>5. Checked'
  BY <1>1, <1>2, <1>3 DEF Checked, Present
<1>6. OncePerMinute'
  BY <1>1, <1>2 DEF OncePerMinute, Present
<1> QED BY <1>4, <1>5, <1>6

(* The sweep's execution comes after those it has looked for.              *)
LEMMA SweepFires ==
  ASSUME Core, Rows, Checked, OncePerMinute, SweepCreates
  PROVE  Rows' /\ Checked' /\ OncePerMinute'
<1>1. sweep.pc = "create" /\ sweep' = [sweep EXCEPT !.pc = "enqueue"] /\ UNCHANGED <<clock, storeVars>>
  BY DEF SweepCreates
<1>2. PICK e \in Execs : CreateExecution(First, e) /\ byCron' = byCron \cup {e}
  BY DEF SweepCreates
<1>3. First \in Tasks
  BY <1>1, FirstIsLeft DEF Busy, Core
<1>4. /\ rows[e].status = "none"
      /\ rows'[e] = [status |-> "running", task |-> First, started |-> clock]
      /\ \A d \in Execs \ {e} : rows'[d] = rows[d]
      /\ request' = [request EXCEPT ![e] = "created"]
  BY <1>2, <1>3, CreateFacts DEF Core
<1>5. /\ e \notin byCron /\ byCron \subseteq Execs
      /\ request \in [Execs -> {"none", "created", "sent", "lost"}]
  BY <1>4, Typed DEF Rows, Core
<1>6. sweep'.pc = "enqueue" /\ sweep'.at = sweep.at
  BY <1>1, Typed DEF Core, SweepStates
<1>7. Rows'
  BY <1>1, <1>2, <1>4, <1>5, <1>6, Timed DEF Rows, storeVars
<1>8. Checked'
  BY <1>6 DEF Checked
<1>9. MinuteOf[sweep.at] <= MinuteOf[clock]
  BY Timed, TasksAssumption DEF Rows
<1>10. \A d \in byCron : Present(d) /\ rows[d].task = First =>
         MinuteOf[rows[d].started] # MinuteOf[clock]
  <2> SUFFICES ASSUME NEW d \in byCron, Present(d), rows[d].task = First
               PROVE  MinuteOf[rows[d].started] # MinuteOf[clock]
    OBVIOUS
  <2>1. MinuteOf[rows[d].started] < MinuteOf[sweep.at]
    BY <1>1 DEF Checked
  <2>2. /\ MinuteOf[rows[d].started] \in Int /\ MinuteOf[sweep.at] \in Int
        /\ MinuteOf[clock] \in Int
    BY <1>5, Timed
  <2> QED BY <1>9, <2>1, <2>2
<1>11. \A d \in byCron : rows'[d] = rows[d] /\ (Present(d)' <=> Present(d))
  BY <1>4, <1>5 DEF Present
<1>12. rows'[e].task = First /\ rows'[e].started = clock
  BY <1>4
<1>13. ASSUME NEW d \in byCron', NEW f \in byCron', d # f, rows'[d].task = rows'[f].task,
              Present(d)', Present(f)'
       PROVE  MinuteOf[rows'[d].started] # MinuteOf[rows'[f].started]
  <2>1. CASE d = e
    <3>1. f \in byCron
      BY <1>2, <1>13, <2>1
    <3> QED BY <1>10, <1>11, <1>12, <1>13, <2>1, <3>1
  <2>2. CASE f = e
    <3>1. d \in byCron
      BY <1>2, <1>13, <2>2
    <3> QED BY <1>10, <1>11, <1>12, <1>13, <2>2, <3>1
  <2>3. CASE d # e /\ f # e
    <3>1. d \in byCron /\ f \in byCron
      BY <1>2, <2>3
    <3> QED BY <1>11, <1>13, <3>1 DEF OncePerMinute
  <2> QED BY <2>1, <2>2, <2>3
<1>14. OncePerMinute'
  BY <1>13 DEF OncePerMinute
<1> QED BY <1>7, <1>8, <1>14

LEMMA SweepMoves ==
  ASSUME Core, Rows, Checked, OncePerMinute, Sweep, ~SweepCreates
  PROVE  Rows' /\ Checked' /\ OncePerMinute'
<1> USE DEF Core
<1>1. Ended({}) /\ UNCHANGED <<byCron, clock>>
  BY RowsStay DEF Sweep, SweepStarts, SweepReadsStatus, SweepChecks, SweepEnqueues, SweepFails
<1>2. OncePerMinute'
  BY <1>1, OnceStays
<1>3. /\ sweep'.pc \in {"idle", "status", "check", "create"}
      /\ sweep'.at \in {0, sweep.at, clock}
      /\ sweep'.pc = "create" => SweepChecks /\ sweep' = [sweep EXCEPT !.pc = "create"]
  <2>1. CASE SweepStarts
    BY <2>1 DEF SweepStarts
  <2>2. CASE SweepReadsStatus
    BY <2>2, NextTaskFacts, Typed DEF SweepReadsStatus, SweepStates
  <2>3. CASE SweepChecks
    BY <2>3, NextTaskFacts, Typed DEF SweepChecks, SweepStates
  <2>4. CASE SweepEnqueues
    BY <2>4, NextTaskFacts DEF SweepEnqueues
  <2>5. CASE SweepFails
    BY <2>5 DEF SweepFails, IdleSweep
  <2> QED BY <2>1, <2>2, <2>3, <2>4, <2>5 DEF Sweep
<1>4. Checked'
  <2>1. CASE sweep'.pc # "create"
    BY <2>1 DEF Checked
  <2>2. CASE sweep'.pc = "create"
    <3>1. /\ SweepChecks /\ sweep.pc = "check" /\ sweep' = [sweep EXCEPT !.pc = "create"]
          /\ UNCHANGED rows
      BY <1>3, <2>2 DEF SweepChecks
    <3>2. ~HasExecutionSince(First, MinuteOf[sweep.at])
      <4>1. CASE NextTask
        BY <2>2, <4>1, NextTaskFacts
      <4> QED BY <3>1, <4>1 DEF SweepChecks
    <3>3. sweep'.at = sweep.at /\ sweep'.todo = sweep.todo /\ First' = First
      BY <3>1, Typed DEF SweepStates, First
    <3>4. \A e \in byCron : Present(e) /\ rows[e].task = First =>
            MinuteOf[rows[e].started] < MinuteOf[sweep.at]
      <4>1. byCron \subseteq Execs
        BY Typed
      <4> QED BY <3>2, <4>1, Timed DEF HasExecutionSince
    <3> QED BY <1>1, <3>1, <3>3, <3>4 DEF Checked, Present
  <2> QED BY <2>1, <2>2
<1>5. Rows'
  <2>1. \A e \in Execs : request'[e] # "none" => request[e] # "none"
    BY Typed DEF Sweep, SweepStarts, SweepReadsStatus, SweepChecks, SweepEnqueues, SweepFails
  <2>2. \A e \in Execs : jobStatus'[e] # "absent" => jobStatus[e] # "absent" \/ request[e] # "none"
    <3>1. CASE SweepEnqueues
      BY <3>1, Typed DEF SweepEnqueues, Store!Submit, Store!StoreTypeOK
    <3>2. CASE ~SweepEnqueues
      BY <3>2 DEF Sweep, SweepStarts, SweepReadsStatus, SweepChecks, SweepFails, storeVars
    <3> QED BY <3>1, <3>2
  <2>3. clock \in Seconds /\ clock' = clock /\ sweep'.at <= clock
    BY <1>1, <1>3, Timed DEF Rows
  <2> QED BY <1>1, <2>1, <2>2, <2>3, RowsRemain, Timed
<1> QED BY <1>2, <1>4, <1>5

LEMMA HandlerMoves ==
  ASSUME Core, Rows, Checked, OncePerMinute, NEW w \in Workers, Handler(w) \/ TakeSome(w)
  PROVE  Rows' /\ Checked' /\ OncePerMinute'
<1> USE DEF Core, handlerSame, At
<1>1. UNCHANGED <<byCron, clock, sweep, request>>
  BY DEF Handler, TakeSome, Take, Load, Resolve, Exec, Finish, DbFails, Report, ReportLost
<1>2. \E ends \in {{}, {"success"}, {"failed"}} : Ended(ends)
  <2>1. CASE Finish(w)
    <3>1. run[w].pc \in {"success", "failed"} /\ run[w].e \in Execs
      BY <2>1 DEF Finish, Hands
    <3>2. FinishExecution(run[w].e, run[w].pc)
      BY <2>1 DEF Finish
    <3>3. Ended({run[w].pc})
      BY <3>1, <3>2, FinishFacts
    <3> QED BY <3>1, <3>3
  <2>2. CASE ~Finish(w)
    BY <2>2, RowsStay DEF Handler, TakeSome, Take, Load, Resolve, Exec, DbFails, Report, ReportLost
  <2> QED BY <2>1, <2>2
<1>3. \A e \in Execs : jobStatus'[e] # "absent" => jobStatus[e] # "absent"
  <2>1. CASE TakeSome(w)
    BY <2>1, Typed DEF TakeSome, Take, Store!Take, Store!StoreTypeOK
  <2>2. CASE Report(w)
    BY <2>2, Typed DEF Report, Store!Finish, Store!Miss, Store!StoreTypeOK
  <2>3. CASE ReportLost(w)
    BY <2>3, Typed DEF ReportLost, Store!LetGo, Store!StoreTypeOK
  <2>4. CASE Load(w) \/ Resolve(w) \/ Exec(w) \/ Finish(w) \/ DbFails(w)
    BY <2>4 DEF Load, Resolve, Exec, Finish, DbFails, storeVars
  <2> QED BY <2>1, <2>2, <2>3, <2>4 DEF Handler
<1>4. PICK ends \in {{}, {"success"}, {"failed"}} : Ended(ends)
  BY <1>2
<1>5. clock' \in Seconds /\ clock <= clock' /\ sweep'.at <= clock'
  BY <1>1, Timed DEF Rows
<1>6. ends \subseteq {"success", "failed", "gone"}
  BY <1>4
<1>7. Rows'
  BY <1>1, <1>3, <1>4, <1>5, RowsRemain
<1>8. Checked' /\ OncePerMinute'
  BY <1>1, <1>4, <1>6, CheckStays, OnceStays
<1> QED BY <1>7, <1>8

LEMMA OthersMove ==
  ASSUME Core, Rows, Checked, OncePerMinute,
         \/ Tick \/ Prune \/ Restart \/ UNCHANGED vars
         \/ \E t \in Tasks : Update(t) \/ Delete(t) \/ ResourceChanges(t)
         \/ \E e \in Execs : SendJob(e)
  PROVE  Rows' /\ Checked' /\ OncePerMinute'
<1> USE DEF Core
<1>1. UNCHANGED byCron
  BY DEF Tick, Prune, Restart, Update, Delete, ResourceChanges, SendJob, vars
<1>2. Ended({}) \/ Ended({"gone"})
  <2>1. CASE Prune
    <3> DEFINE E == {e \in Execs : OldRecord(e)}
    <3>1. E \in SUBSET Execs /\ \A e \in E : Present(e)
      BY DEF OldRecord, Present
    <3>2. rows' = [e \in Execs |-> IF e \in E THEN Gone(e) ELSE rows[e]]
      BY <2>1 DEF Prune
    <3> HIDE DEF E
    <3> QED BY <3>1, <3>2, GoneFacts
  <2>2. ASSUME NEW t \in Tasks, Delete(t)
        PROVE  Ended({"gone"})
    <3> DEFINE E == {e \in Execs : rows[e].task = t /\ Present(e)}
    <3>1. E \in SUBSET Execs /\ \A e \in E : Present(e)
      OBVIOUS
    <3>2. rows' = [e \in Execs |-> IF e \in E THEN Gone(e) ELSE rows[e]]
      BY <2>2 DEF Delete
    <3> HIDE DEF E
    <3> QED BY <3>1, <3>2, GoneFacts
  <2>3. CASE UNCHANGED rows
    BY <2>3, RowsStay
  <2> QED BY <2>1, <2>2, <2>3 DEF Tick, Restart, Update, ResourceChanges, SendJob, vars
<1>3. clock' \in Seconds /\ clock <= clock' /\ sweep'.at \in {0, sweep.at}
      /\ sweep' \in {sweep, IdleSweep}
  <2>1. CASE Tick
    BY <2>1, Timed, TasksAssumption DEF Tick, Seconds
  <2>2. CASE ~Tick
    BY <2>2, Timed
    DEF Prune, Restart, Update, Delete, ResourceChanges, SendJob, vars, IdleSweep, Seconds
  <2> QED BY <2>1, <2>2
<1>4. sweep'.at <= clock'
  BY <1>3, Timed DEF Rows, Seconds
<1>5. \A e \in Execs : request'[e] # "none" => request[e] # "none"
  BY Typed DEF Tick, Prune, Restart, Update, Delete, ResourceChanges, SendJob, vars
<1>6. \A e \in Execs : jobStatus'[e] # "absent" => jobStatus[e] # "absent" \/ request[e] # "none"
  <2>1. CASE Restart
    BY <2>1, Typed DEF Restart, Store!LetGo, Store!StoreTypeOK, storeVars
  <2>2. ASSUME NEW e \in Execs, SendJob(e)
        PROVE  \A d \in Execs : jobStatus'[d] # "absent" => jobStatus[d] # "absent" \/ request[d] # "none"
    BY <2>2, Typed DEF SendJob, Store!Submit, Store!StoreTypeOK, storeVars
  <2>3. CASE UNCHANGED storeVars
    BY <2>3 DEF storeVars
  <2> QED BY <2>1, <2>2, <2>3 DEF Tick, Prune, Update, Delete, ResourceChanges, vars
<1>7. Rows'
  BY <1>1, <1>2, <1>3, <1>4, <1>5, <1>6, RowsRemain
<1>8. OncePerMinute'
  BY <1>1, <1>2, OnceStays
<1>9. Checked'
  <2>1. CASE sweep' = sweep
    BY <1>1, <1>2, <2>1, CheckStays
  <2>2. CASE sweep' = IdleSweep
    BY <2>2 DEF Checked, IdleSweep
  <2> QED BY <1>3, <2>1, <2>2
<1> QED BY <1>7, <1>8, <1>9

-----------------------------------------------------------------------------
(* The outcomes.                                                           *)
LEMMA OutcomesStay ==
  ASSUME Core, Outcomes, Clean, Ended({}) \/ Ended({"gone"}),
         \A w \in Workers : run'[w] = run[w] \/ run'[w].pc = "idle",
         UNCHANGED worked,
         \A e \in Execs : jobStatus'[e] = "done" => jobStatus[e] = "done",
         \/ budget'.all < MaxEvents
         \/ /\ budget' = budget
            /\ \A e \in Execs : jobStatus'[e] \in {"absent", "queued"} =>
                                jobStatus[e] \in {"absent", "queued"}
  PROVE  Outcomes' /\ Clean'
<1>0. worked' = worked /\ worked \subseteq Execs
  BY Typed DEF Core
<1>1. ASSUME NEW e \in Execs
      PROVE  /\ rows[e].status \in {"success", "failed", "gone"} =>
                rows'[e].status \in {"success", "failed", "gone"}
             /\ rows'[e].status = "success" => rows[e].status = "success"
             /\ rows'[e].status = "failed" => rows[e].status = "failed"
  <2>1. CASE Ended({})
    BY <2>1 DEF Ended
  <2>2. CASE Ended({"gone"})
    BY <2>2 DEF Ended
  <2> QED BY <2>1, <2>2
<1>2. \A w \in Workers : run[w].pc # "idle" => run[w].e \in Execs
  BY DEF Core, Hands
<1>3. Outcomes'
  <2>1. ASSUME NEW e \in Execs
        PROVE  /\ rows'[e].status = "success" => e \in worked'
               /\ jobStatus'[e] = "done" => rows'[e].status \in {"success", "failed", "gone"}
    BY <1>0, <1>1 DEF Outcomes, Over
  <2>2. ASSUME NEW w \in Workers
        PROVE  /\ run'[w].pc = "success" => run'[w].e \in worked'
               /\ run'[w].pc = "ok" => rows'[run'[w].e].status \in {"success", "failed", "gone"}
    <3>1. CASE run'[w] = run[w]
      <4>1. run[w].pc = "success" => run[w].e \in worked
        BY DEF Outcomes, At
      <4>2. run[w].pc = "ok" => run[w].e \in Execs /\ rows[run[w].e].status \in {"success", "failed", "gone"}
        BY <1>2 DEF Outcomes, At, Over
      <4> QED BY <1>0, <1>1, <3>1, <4>1, <4>2
    <3>2. CASE run'[w].pc = "idle"
      BY <3>2
    <3> QED BY <3>1, <3>2
  <2> QED BY <2>1, <2>2 DEF Outcomes, At, Over
<1>4. Clean'
  <2>1. CASE /\ budget' = budget
             /\ \A e \in Execs : jobStatus'[e] \in {"absent", "queued"} =>
                                 jobStatus[e] \in {"absent", "queued"}
    <3> SUFFICES ASSUME budget.all = MaxEvents PROVE Clean'
      BY <2>1 DEF Clean
    <3>1. /\ \A e \in worked : rows[e].status # "failed"
          /\ \A e \in Execs : jobStatus[e] \in {"absent", "queued"} =>
               e \notin worked /\ rows[e].status # "failed"
          /\ \A w \in Workers :
               /\ run[w].pc \in Before => run[w].e \notin worked
               /\ run[w].pc \in Before \cup {"success"} => rows[run[w].e].status # "failed"
      BY DEF Clean
    <3>2. /\ \A e \in worked' : rows'[e].status # "failed"
          /\ \A e \in Execs : jobStatus'[e] \in {"absent", "queued"} =>
               e \notin worked' /\ rows'[e].status # "failed"
      BY <1>0, <1>1, <2>1, <3>1
    <3>3. ASSUME NEW w \in Workers
          PROVE  /\ run'[w].pc \in Before => run'[w].e \notin worked'
                 /\ run'[w].pc \in Before \cup {"success"} => rows'[run'[w].e].status # "failed"
      <4>1. CASE run'[w] = run[w]
        <5>1. run[w].pc \in Before \cup {"success"} => run[w].e \in Execs
          BY <1>2 DEF Before
        <5> QED BY <1>0, <1>1, <3>1, <4>1, <5>1
      <4>2. CASE run'[w].pc = "idle"
        BY <4>2 DEF Before
      <4> QED BY <4>1, <4>2
    <3> QED BY <3>2, <3>3 DEF Clean
  <2>2. CASE budget'.all < MaxEvents
    BY <2>2, TasksAssumption, TypedNext DEF Clean, Core
  <2> QED BY <2>1, <2>2
<1> QED BY <1>3, <1>4

LEMMA CreatesOutcome ==
  ASSUME Core, Rows, Outcomes, Clean, NEW t \in Tasks, NEW e \in Execs, CreateExecution(t, e),
         UNCHANGED <<run, worked, budget, storeVars>>
  PROVE  Outcomes' /\ Clean'
<1>1. /\ rows[e].status = "none" /\ rows'[e].status = "running"
      /\ \A d \in Execs \ {e} : rows'[d] = rows[d]
  <2>1. /\ rows[e].status = "none"
        /\ rows'[e] = [status |-> "running", task |-> t, started |-> clock]
        /\ \A d \in Execs \ {e} : rows'[d] = rows[d]
    BY CreateFacts DEF Core
  <2> QED BY <2>1
<1>2. \A w \in Workers : run[w].pc # "idle" => run[w].e \in Execs
  BY DEF Core, Hands
<1>3. worked \subseteq Execs
  BY Typed DEF Core
<1>4. Outcomes'
  BY <1>1, <1>2 DEF Outcomes, At, Over, storeVars
<1>5. Clean'
  BY <1>1, <1>2, <1>3 DEF Clean, Before, storeVars
<1> QED BY <1>4, <1>5

LEMMA OthersOutcome ==
  ASSUME Core, Rows, Outcomes, Clean,
         \/ Tick \/ Prune \/ Restart \/ Sweep \/ UNCHANGED vars
         \/ \E t \in Tasks : Update(t) \/ Delete(t) \/ ResourceChanges(t)
         \/ \E t \in Tasks, e \in Execs : Trigger(t, e)
         \/ \E e \in Execs : SendJob(e)
  PROVE  Outcomes' /\ Clean'
<1> USE DEF Core
<1>1. CASE Prune
  <2> DEFINE E == {e \in Execs : OldRecord(e)}
  <2>1. E \in SUBSET Execs /\ \A e \in E : Present(e)
    BY DEF OldRecord, Present
  <2>2. rows' = [e \in Execs |-> IF e \in E THEN Gone(e) ELSE rows[e]]
    BY <1>1 DEF Prune
  <2> HIDE DEF E
  <2>3. Ended({"gone"})
    BY <2>1, <2>2, GoneFacts
  <2> QED BY <1>1, <2>3, OutcomesStay DEF Prune, storeVars
<1>2. CASE Restart
  <2>1. Ended({}) /\ budget'.all < MaxEvents /\ UNCHANGED worked
    BY <1>2, RowsStay, BudgetTyping DEF Restart
  <2>2. \A w \in Workers : run'[w].pc = "idle"
    BY <1>2 DEF Restart, IdleRun
  <2>3. \A e \in Execs : jobStatus'[e] = "done" => jobStatus[e] = "done"
    BY <1>2, Typed DEF Restart, Store!LetGo, Store!StoreTypeOK, storeVars
  <2> QED BY <2>1, <2>2, <2>3, OutcomesStay
<1>3. ASSUME NEW e \in Execs, Store!Submit(e), UNCHANGED <<rows, run, worked, budget>>
      PROVE  Outcomes' /\ Clean'
  <2>1. \A d \in Execs : jobStatus'[d] = jobStatus[d] \/ (jobStatus[d] = "absent" /\ jobStatus'[d] = "queued")
    BY <1>3, Typed DEF Store!Submit, Store!StoreTypeOK
  <2> QED BY <1>3, <2>1, RowsStay, OutcomesStay
<1>4. ASSUME NEW e \in Execs, SendJob(e)
      PROVE  Outcomes' /\ Clean'
  <2>1. CASE Store!Submit(e) /\ UNCHANGED budget
    BY <1>3, <1>4, <2>1 DEF SendJob
  <2>2. CASE Spend("db") /\ UNCHANGED storeVars
    BY <1>4, <2>2, RowsStay, BudgetTyping, OutcomesStay DEF SendJob, storeVars
  <2> QED BY <1>4, <2>1, <2>2 DEF SendJob
<1>5. ASSUME NEW t \in Tasks, Delete(t)
      PROVE  Outcomes' /\ Clean'
  <2> DEFINE E == {e \in Execs : rows[e].task = t /\ Present(e)}
  <2>1. E \in SUBSET Execs /\ \A e \in E : Present(e)
    OBVIOUS
  <2>2. rows' = [e \in Execs |-> IF e \in E THEN Gone(e) ELSE rows[e]]
    BY <1>5 DEF Delete
  <2> HIDE DEF E
  <2>3. Ended({"gone"})
    BY <2>1, <2>2, GoneFacts
  <2> QED BY <1>5, <2>3, BudgetTyping, OutcomesStay DEF Delete, storeVars
<1>6. CASE Tick \/ UNCHANGED vars
  BY <1>6, RowsStay, OutcomesStay DEF Tick, vars, storeVars
<1>7. ASSUME NEW t \in Tasks, Update(t) \/ ResourceChanges(t)
      PROVE  Outcomes' /\ Clean'
  BY <1>7, RowsStay, BudgetTyping, OutcomesStay DEF Update, ResourceChanges, storeVars
<1>8. ASSUME NEW t \in Tasks, NEW e \in Execs, Trigger(t, e)
      PROVE  Outcomes' /\ Clean'
  BY <1>8, CreatesOutcome DEF Trigger
<1>9. CASE Sweep
  <2>1. CASE SweepCreates
    <3>1. PICK e \in Execs : CreateExecution(First, e)
      BY <2>1 DEF SweepCreates
    <3>2. First \in Tasks
      BY <2>1, FirstIsLeft DEF SweepCreates, Busy
    <3> QED BY <2>1, <3>1, <3>2, CreatesOutcome DEF SweepCreates
  <2>2. CASE SweepEnqueues
    <3>1. PICK e \in byCron : Store!Submit(e)
      BY <2>2 DEF SweepEnqueues
    <3>2. e \in Execs
      BY <3>1, Typed
    <3> QED BY <1>3, <2>2, <3>1, <3>2 DEF SweepEnqueues
  <2>3. CASE SweepFails
    BY <2>3, RowsStay, BudgetTyping, OutcomesStay DEF SweepFails, storeVars
  <2>4. CASE SweepStarts \/ SweepReadsStatus \/ SweepChecks
    BY <2>4, RowsStay, OutcomesStay DEF SweepStarts, SweepReadsStatus, SweepChecks, storeVars
  <2> QED BY <1>9, <2>1, <2>2, <2>3, <2>4 DEF Sweep
<1> QED BY <1>1, <1>2, <1>4, <1>5, <1>6, <1>7, <1>8, <1>9

LEMMA HandlerOutcome ==
  ASSUME Core, Rows, Outcomes, Clean, NEW w \in Workers, Handler(w) \/ TakeSome(w)
  PROVE  Outcomes' /\ Clean'
<1> USE DEF Core, At, handlerSame
<1> DEFINE e == run[w].e
<1>1. /\ run[w].pc # "idle" => e \in Execs /\ jobStatus[e] = "held" /\ rows[e].status # "none"
      /\ \A o \in Workers : run[o].pc # "idle" => run[o].e \in Execs /\ (o # w /\ run[w].pc # "idle" => run[o].e # e)
  BY DEF Hands, Rows
<1>2. worked \subseteq Execs /\ run[w] \in RunStates
  BY Typed
<1> HIDE DEF e
<1>3. CASE TakeSome(w)
  <2>1. PICK d \in Execs : Take(w, d)
    BY <1>3 DEF TakeSome
  <2>2. /\ jobStatus[d] = "queued" /\ jobStatus'[d] = "held"
        /\ \A f \in Execs \ {d} : jobStatus'[f] = jobStatus[f]
        /\ UNCHANGED <<rows, worked, budget>>
    BY <2>1, Typed DEF Take, Store!Take, Store!StoreTypeOK
  <2>3. /\ run'[w].pc = "load" /\ run'[w].e = d
        /\ \A o \in Workers \ {w} : run'[o] = run[o]
    BY <2>1, Typed DEF Take, IdleRun
  <2>4. Outcomes'
    BY <2>2, <2>3 DEF Outcomes, Over
  <2>5. Clean'
    BY <2>2, <2>3 DEF Clean, Before
  <2> QED BY <2>4, <2>5
<1>4. CASE Load(w) \/ Resolve(w)
  <2>1. /\ run[w].pc \in {"load", "resolve"}
        /\ \E pc \in {"resolve", "exec", "failed", "err"} : Goto(w, pc)
        /\ UNCHANGED <<rows, worked, budget, jobStatus>>
    BY <1>4 DEF Load, Resolve, storeVars
  <2>2. /\ run'[w].pc \in {"resolve", "exec", "failed", "err"} /\ run'[w].e = e
        /\ \A o \in Workers \ {w} : run'[o] = run[o]
    BY <2>1, GotoFacts DEF e
  <2>3. Outcomes'
    BY <2>1, <2>2 DEF Outcomes, Over
  <2>4. Clean'
    BY <2>1, <2>2 DEF Clean, Before, e
  <2> QED BY <2>3, <2>4
<1>5. CASE Exec(w)
  <2>1. /\ run[w].pc = "exec" /\ run[w].attempt < Tries
        /\ UNCHANGED <<rows, jobStatus>>
    BY <1>5 DEF Exec, Hands, storeVars
  <2>2. CASE worked' = worked \cup {e} /\ Goto(w, "success") /\ UNCHANGED budget
    <3>1. /\ run'[w].pc = "success" /\ run'[w].e = e
          /\ \A o \in Workers \ {w} : run'[o] = run[o]
      BY <2>2, GotoFacts DEF e
    <3>2. Outcomes'
      BY <2>1, <2>2, <3>1 DEF Outcomes, Over
    <3>3. Clean'
      <4> SUFFICES ASSUME budget.all = MaxEvents PROVE Clean'
        BY <2>2 DEF Clean
      <4>1. e \notin worked /\ rows[e].status # "failed"
        BY <2>1 DEF Clean, Before, e
      <4> QED BY <1>1, <1>2, <2>1, <2>2, <3>1, <4>1 DEF Clean, Before
    <3> QED BY <3>2, <3>3
  <2>3. CASE /\ Again(w)
             /\ \/ UNCHANGED <<worked, budget>>
                \/ Spend("ssh") /\ worked' = worked \cup {e}
    <3>1. /\ run'[w].pc \in {"exec", "failed"} /\ run'[w].e = e
          /\ \A o \in Workers \ {w} : run'[o] = run[o]
      BY <2>1, <2>3, AgainFacts DEF e
    <3>2. CASE UNCHANGED <<worked, budget>>
      <4>1. Outcomes'
        BY <2>1, <3>1, <3>2 DEF Outcomes, Over
      <4>2. Clean'
        BY <2>1, <3>1, <3>2 DEF Clean, Before, e
      <4> QED BY <4>1, <4>2
    <3>3. CASE Spend("ssh") /\ worked' = worked \cup {e}
      <4>1. Outcomes'
        BY <2>1, <3>1, <3>3 DEF Outcomes, Over
      <4>2. budget'.all < MaxEvents /\ budget'.all \in Int
        BY <3>3, BudgetTyping DEF Budgets
      <4>3. Clean'
        BY <4>2, TasksAssumption DEF Clean
      <4> QED BY <4>1, <4>3
    <3> QED BY <2>3, <3>2, <3>3
  <2> QED BY <1>5, <2>2, <2>3 DEF Exec, e
<1>6. CASE Finish(w)
  <2>1. /\ run[w].pc \in {"success", "failed"} /\ FinishExecution(e, run[w].pc) /\ Goto(w, "ok")
        /\ UNCHANGED <<jobStatus, worked, budget>>
    BY <1>6 DEF Finish, storeVars, e
  <2>2. /\ run'[w].pc = "ok" /\ run'[w].e = e
        /\ \A o \in Workers \ {w} : run'[o] = run[o]
    BY <2>1, GotoFacts DEF e
  <2>3. /\ Ended({run[w].pc}) /\ rows'[e].status \in {run[w].pc, "gone"}
        /\ \A d \in Execs \ {e} : rows'[d] = rows[d]
    BY <1>1, <2>1, FinishFacts
  <2>4. run[w].pc = "success" => e \in worked
    BY DEF Outcomes, e
  <2>5. Outcomes'
    BY <1>1, <2>1, <2>2, <2>3, <2>4 DEF Outcomes, Over
  <2>6. Clean'
    <3> SUFFICES ASSUME budget.all = MaxEvents PROVE Clean'
      BY <2>1 DEF Clean
    <3>1. run[w].pc = "failed" => e \notin worked
      BY DEF Clean, Before, e
    <3> QED BY <1>1, <1>2, <2>1, <2>2, <2>3, <3>1 DEF Clean, Before
  <2> QED BY <2>5, <2>6
<1>7. CASE DbFails(w)
  <2>1. Goto(w, "err") /\ Spend("db") /\ UNCHANGED <<rows, jobStatus, worked>>
    BY <1>7 DEF DbFails, storeVars
  <2>2. /\ run'[w].pc = "err"
        /\ \A o \in Workers \ {w} : run'[o] = run[o]
    BY <2>1, GotoFacts
  <2>3. Outcomes'
    BY <2>1, <2>2 DEF Outcomes, Over
  <2>4. budget'.all < MaxEvents /\ budget'.all \in Int
    BY <2>1, BudgetTyping DEF Budgets
  <2> QED BY <2>3, <2>4, TasksAssumption DEF Clean
<1>8. CASE Report(w)
  <2>1. /\ run'[w].pc = "idle" /\ UNCHANGED <<rows, worked, budget>>
        /\ \A o \in Workers \ {w} : run'[o] = run[o]
    BY <1>8, PutDownFacts DEF Report
  <2>2. CASE run[w].pc = "ok" /\ Store!Finish(w, e)
    <3>1. /\ jobStatus'[e] = "done" /\ \A d \in Execs \ {e} : jobStatus'[d] = jobStatus[d]
      BY <1>1, <2>2, Typed DEF Store!Finish, Store!StoreTypeOK
    <3>2. Outcomes'
      BY <2>1, <2>2, <3>1 DEF Outcomes, Over, e
    <3>3. Clean'
      BY <2>1, <3>1 DEF Clean, Before
    <3> QED BY <3>2, <3>3
  <2>3. CASE run[w].pc = "err" /\ Store!Miss(w, e)
    <3>1. /\ jobStatus'[e] \in {"dropped", "queued"}
          /\ \A d \in Execs \ {e} : jobStatus'[d] = jobStatus[d]
      BY <1>1, <2>3, Typed DEF Store!Miss, Store!StoreTypeOK
    <3>2. Outcomes'
      BY <2>1, <3>1 DEF Outcomes, Over
    <3>3. Clean'
      <4> SUFFICES ASSUME budget.all = MaxEvents PROVE Clean'
        BY <2>1 DEF Clean
      <4>1. e \notin worked /\ rows[e].status # "failed"
        BY <2>3 DEF Clean, Before, e
      <4> QED BY <2>1, <3>1, <4>1 DEF Clean, Before
    <3> QED BY <3>2, <3>3
  <2> QED BY <1>8, <2>2, <2>3 DEF Report, e
<1>9. CASE ReportLost(w)
  <2>1. /\ run[w].pc # "idle" /\ Store!LetGo({e}) /\ Spend("db") /\ UNCHANGED <<rows, worked>>
        /\ run'[w].pc = "idle" /\ \A o \in Workers \ {w} : run'[o] = run[o]
    BY <1>9, PutDownFacts DEF ReportLost, e
  <2>2. \A d \in Execs : jobStatus'[d] = "done" => jobStatus[d] = "done"
    BY <2>1, Typed DEF Store!LetGo, Store!StoreTypeOK
  <2>3. Outcomes'
    BY <2>1, <2>2 DEF Outcomes, Over
  <2>4. budget'.all < MaxEvents /\ budget'.all \in Int
    BY <2>1, BudgetTyping DEF Budgets
  <2> QED BY <2>3, <2>4, TasksAssumption DEF Clean
<1> QED BY <1>3, <1>4, <1>5, <1>6, <1>7, <1>8, <1>9 DEF Handler

-----------------------------------------------------------------------------
LEMMA InvInit == Init => Inv
<1> SUFFICES ASSUME Init PROVE Inv
  OBVIOUS
<1>1. Core
  BY CoreInit
<1>2. Rows /\ Checked /\ OncePerMinute
  BY TasksAssumption
  DEF Init, Rows, Checked, OncePerMinute, NoRow, IdleSweep, Seconds, Store!StoreInit
<1>3. Outcomes /\ Clean
  BY DEF Init, Outcomes, Clean, Before, At, NoRow, IdleRun, Store!StoreInit
<1> QED BY <1>1, <1>2, <1>3 DEF Inv

LEMMA InvNext ==
  ASSUME Inv, [Next]_vars
  PROVE  Inv'
<1> USE DEF Inv
<1>1. Core'
  BY CoreNext
<1>2. Rows' /\ Checked' /\ OncePerMinute'
  BY SweepFires, SweepMoves, TriggerFires, HandlerMoves, OthersMove DEF Next
<1>3. Outcomes' /\ Clean'
  BY HandlerOutcome, OthersOutcome DEF Next
<1> QED BY <1>1, <1>2, <1>3

LEMMA Invariance == Spec => []Inv
BY InvInit, InvNext, PTL DEF Spec

(* The rows, the sweep, the workers and the bounds keep their types, for   *)
(* any tasks, executions and workers.                                      *)
THEOREM Typing == Spec => []TypeOK
<1>1. Inv => TypeOK
  BY DEF Inv, Core
<1> QED BY <1>1, Invariance, PTL

(* dispatch_due_tasks fires a task at most once in a minute, whatever the  *)
(* number of tasks, the length of a minute and the delays of a sweep.      *)
THEOREM FiresOnce == Spec => []OncePerMinute
<1>1. Inv => OncePerMinute
  BY DEF Inv
<1> QED BY <1>1, Invariance, PTL

(* What finish_execution records is what has become of the command, however*)
(* many workers, retries of the command and runs of the job there were.    *)
THEOREM RecordsTheOutcome == Spec => []OutcomeIsReal
<1>1. Inv => OutcomeIsReal
  <2> SUFFICES ASSUME Inv PROVE OutcomeIsReal
    OBVIOUS
  <2>1. budget.all \in Int /\ budget.all <= MaxEvents
    BY Typed, TasksAssumption DEF Inv, Core, Budgets
  <2> QED BY <2>1, TasksAssumption DEF Inv, Outcomes, Clean, OutcomeIsReal, Over
<1> QED BY <1>1, Invariance, PTL

=============================================================================
