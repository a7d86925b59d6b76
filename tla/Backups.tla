------------------------------ MODULE Backups -------------------------------
(***************************************************************************)
(* The backups of one schedule: the per-minute dispatcher and the trigger  *)
(* request that insert an execution row and then a job, the job store of   *)
(* JobStore, the handler each worker runs for a job (run_backup), and the  *)
(* retention it ends with, on the server's disk and then in the bucket.    *)
(* One action is one SQL statement or one remote command; workers that     *)
(* back up the same database interleave, and the process may die between.  *)
(*                                                                         *)
(* Executions are named by their id, and a dump by the second its handler  *)
(* began in, the only part of the file name that varies.                   *)
(***************************************************************************)
EXTENDS Naturals, FiniteSetsExt

CONSTANTS
  Execs,             \* ids of the executions
  Workers, NoWorker,
  NoExec, NoFile,    \* no execution in hand, filename IS NULL
  Absent, Partial,   \* no file of that name, one that is no restorable dump
  Policies,          \* what the schedule's columns may say, see below
  Sizes,             \* sizes a dump may have
  MaxSeconds,        \* bound on the clock
  MinuteOf,          \* MinuteOf[t]: the minute second t is in
  DueMinutes,        \* minutes the cron expression matches
  MaxAttempts,
  MaxUpdates, MaxRestarts, MaxDbErrors, MaxSshLosses,   \* bounds on events,
  MaxEvents                                             \* and on all of them

Sides == {"local", "s3"}
Seconds == 0..MaxSeconds

(* A policy: saveS3 (save_s3 with a storage), dropLocal                    *)
(* (disable_local_backup), and per side the three retention limits, in     *)
(* executions, seconds and units of size.                                  *)
Policy == [saveS3: BOOLEAN, dropLocal: BOOLEAN,
           keep: [Sides -> [amount: Nat, age: Nat, space: Nat]]]

ASSUME BackupsAssumption ==
  /\ Execs \subseteq Nat \ {0}
  /\ Policies \subseteq Policy
  /\ Sizes \subseteq Nat \ {0}
  /\ MaxSeconds \in Nat /\ MaxAttempts \in Nat \ {0}
  /\ MinuteOf \in [Seconds -> Nat]
  /\ \A s, t \in Seconds : s <= t => MinuteOf[s] <= MinuteOf[t]
  /\ DueMinutes \subseteq Nat
  /\ MaxUpdates \in Nat /\ MaxRestarts \in Nat /\ MaxDbErrors \in Nat /\ MaxSshLosses \in Nat
  /\ MaxEvents \in Nat
  /\ NoWorker \notin Workers /\ NoExec \notin Execs /\ NoFile \notin Seconds
  /\ Absent # Partial /\ {Absent, Partial} \cap Execs = {}

VARIABLES
  clock,      \* the time, to the second
  policy,     \* the schedule's row
  rows,       \* scheduled_database_backup_executions
  copies,     \* per side and file name, the execution whose dump it holds
  request,    \* who creates e: "none" | "created" | "sent" | "lost"
  byCron,     \* executions the dispatcher has created
  sweep,      \* where the dispatcher is: "idle" | "check" | "create" | "enqueue"
  jobStatus, tries, holder,       \* the job store
  run,        \* what the handler of each worker knows
  dumps,      \* dumps begun per file name: 0, 1, or 2 for more
  demoted,    \* a failed run has overwritten a recorded success
  budget

storeVars == <<jobStatus, tries, holder>>
dispatchVars == <<request, byCron, sweep>>
ghostVars == <<dumps, demoted>>
vars == <<clock, policy, rows, copies, dispatchVars, storeVars, run, ghostVars, budget>>

Store == INSTANCE JobStore WITH Jobs <- Execs, status <- jobStatus

NoRow == [status |-> "none", created |-> 0, size |-> 0, file |-> NoFile,
          uploaded |-> "null", deleted |-> {}]

Content == Execs \cup {Absent, Partial}

HandlerPC == {"resolve", "dump", "dumping", "upload", "drop", "record", "fail", "select",
              "names", "helper", "remove", "mark", "prune", "ok", "err"}

AnyPolicy == CHOOSE p \in Policies : TRUE

IdleRun == [pc |-> "idle", e |-> NoExec, at |-> 0, conf |-> AnyPolicy, size |-> 0,
            uploaded |-> "null", side |-> "local", dels |-> {}, names |-> {}]

TypeOK ==
  /\ clock \in Seconds
  /\ policy \in Policies
  /\ rows \in [Execs -> [status: {"none", "running", "success", "failed", "gone"},
                         created: Seconds, size: Sizes \cup {0}, file: Seconds \cup {NoFile},
                         uploaded: {"null", "yes", "no"}, deleted: SUBSET Sides]]
  /\ copies \in [Sides -> [Seconds -> Content]]
  /\ request \in [Execs -> {"none", "created", "sent", "lost"}]
  /\ byCron \in SUBSET Execs
  /\ sweep \in {"idle", "check", "create", "enqueue"}
  /\ Store!StoreTypeOK
  /\ run \in [Workers -> [pc: HandlerPC \cup {"idle"}, e: Execs \cup {NoExec}, at: Seconds,
                          conf: Policies, size: Sizes \cup {0},
                          uploaded: {"null", "yes", "no"}, side: Sides,
                          dels: SUBSET Execs, names: SUBSET Seconds]]
  /\ dumps \in [Seconds -> 0..2]
  /\ demoted \in BOOLEAN
  /\ budget \in [updates: 0..MaxUpdates, restarts: 0..MaxRestarts, db: 0..MaxDbErrors,
                 ssh: 0..MaxSshLosses, all: 0..MaxEvents]

Init ==
  /\ clock = 0
  /\ policy \in Policies
  /\ rows = [e \in Execs |-> NoRow]
  /\ copies = [s \in Sides |-> [t \in Seconds |-> Absent]]
  /\ request = [e \in Execs |-> "none"]
  /\ byCron = {}
  /\ sweep = "idle"
  /\ Store!StoreInit
  /\ run = [w \in Workers |-> IdleRun]
  /\ dumps = [t \in Seconds |-> 0]
  /\ demoted = FALSE
  /\ budget = [updates |-> MaxUpdates, restarts |-> MaxRestarts, db |-> MaxDbErrors,
               ssh |-> MaxSshLosses, all |-> MaxEvents]

Spend(kind) ==
  /\ budget[kind] > 0 /\ budget.all > 0
  /\ budget' = [budget EXCEPT ![kind] = @ - 1, !.all = @ - 1]

-----------------------------------------------------------------------------
(* select_for_deletion                                                     *)
Latest(S) == CHOOSE e \in S : \A d \in S : d <= e
NewerIn(S, e) == {d \in S : d > e}

(* The amount rule: all but the newest `amount`.                           *)
TooMany(S, amount) == {e \in S : amount > 0 /\ Cardinality(NewerIn(S, e)) >= amount}

(* The days rule, counted back from the newest execution.                  *)
TooOld(S, age) ==
  {e \in S : age > 0 /\ rows[e].created + age < rows[Latest(S)].created}

(* The space rule: sizes are added up from the second newest on; of the    *)
(* executions as old as the one that crosses the limit, or older, all go   *)
(* but the first.                                                          *)
TooBig(S, space) ==
  LET Used(e) == MapThenSumSet(LAMBDA d : rows[d].size,
                               {d \in S \ {Latest(S)} : d >= e})
      over == {e \in S \ {Latest(S)} : Used(e) > space}
      group == {e \in S : rows[e].created <= rows[Latest(over)].created}
  IN  IF space = 0 \/ over = {} THEN {} ELSE group \ {Latest(group)}

(* Mutant: skip(amount - 1), and no protection of the newest.              *)
SelectOneMore(S, keep) ==
  IF S = {} THEN {}
  ELSE {e \in S : keep.amount > 0 /\ Cardinality(NewerIn(S, e)) + 1 >= keep.amount}
         \cup TooOld(S, keep.age) \cup TooBig(S, keep.space)

(* The union of the rules; a limit of 0 is no limit, and the newest stays. *)
SelectForDeletion(S, keep) ==
  IF S = {} THEN {}
  ELSE (TooMany(S, keep.amount) \cup TooOld(S, keep.age) \cup TooBig(S, keep.space))
         \ {Latest(S)}

-----------------------------------------------------------------------------
(* Time passes.                                                            *)
Tick ==
  /\ clock < MaxSeconds         \* bound
  /\ clock' = clock + 1
  /\ UNCHANGED <<policy, rows, copies, dispatchVars, storeVars, run, ghostVars, budget>>

(* The schedule is edited.                                                 *)
Update(p) ==
  /\ p # policy
  /\ Spend("updates")
  /\ policy' = p
  /\ UNCHANGED <<clock, rows, copies, dispatchVars, storeVars, run, ghostVars>>

(* create_running: a row with the next id, created now.                    *)
CreateRunning(e) ==
  /\ rows[e].status = "none"
  /\ \A d \in Execs : d < e => rows[d].status # "none"
  /\ rows' = [rows EXCEPT ![e].status = "running", ![e].created = clock]
  /\ request' = [request EXCEPT ![e] = "created"]

(* The trigger request, and its enqueue, which may fail.                   *)
Trigger(e) ==
  /\ CreateRunning(e)
  /\ UNCHANGED <<clock, policy, copies, byCron, sweep, storeVars, run, ghostVars, budget>>

SendJob(e) ==
  /\ request[e] = "created" /\ e \notin byCron
  /\ \/ /\ Store!Submit(e)
        /\ request' = [request EXCEPT ![e] = "sent"]
        /\ UNCHANGED budget
     \/ /\ Spend("db")
        /\ request' = [request EXCEPT ![e] = "lost"]
        /\ UNCHANGED storeVars
  /\ UNCHANGED <<clock, policy, rows, copies, byCron, sweep, run, ghostVars>>

(* dispatch_due_backups: a sweep starts when the last one has ended, which *)
(* may be twice in a minute (a late tick, a new process).                  *)
SweepStarts ==
  /\ sweep = "idle"
  /\ MinuteOf[clock] \in DueMinutes
  /\ sweep' = "check"
  /\ UNCHANGED <<clock, policy, rows, copies, request, byCron, storeVars, run, ghostVars,
                 budget>>

(* exists_in_current_minute, by the clock of the database.                 *)
ExistsInCurrentMinute ==
  \E e \in Execs : /\ rows[e].status \notin {"none", "gone"}
                   /\ MinuteOf[rows[e].created] = MinuteOf[clock]

(* Mutant: only rows that have not ended count.                            *)
SweepChecksRunning ==
  /\ sweep = "check"
  /\ sweep' = IF \E e \in Execs : /\ rows[e].status = "running"
                                  /\ MinuteOf[rows[e].created] = MinuteOf[clock]
                THEN "idle" ELSE "create"
  /\ UNCHANGED <<clock, policy, rows, copies, request, byCron, storeVars, run, ghostVars,
                 budget>>

SweepChecks ==
  /\ sweep = "check"
  /\ sweep' = IF ExistsInCurrentMinute THEN "idle" ELSE "create"
  /\ UNCHANGED <<clock, policy, rows, copies, request, byCron, storeVars, run, ghostVars,
                 budget>>

SweepCreates ==
  /\ sweep = "create"
  /\ \E e \in Execs : CreateRunning(e) /\ byCron' = byCron \cup {e}
  /\ sweep' = "enqueue"
  /\ UNCHANGED <<clock, policy, copies, storeVars, run, ghostVars, budget>>

SweepEnqueues ==
  /\ sweep = "enqueue"
  /\ \E e \in byCron :
       /\ request[e] = "created"
       /\ Store!Submit(e)
       /\ request' = [request EXCEPT ![e] = "sent"]
  /\ sweep' = "idle"
  /\ UNCHANGED <<clock, policy, rows, copies, byCron, run, ghostVars, budget>>

(* A database error ends the sweep; a row it had created stays without job. *)
SweepFails ==
  /\ sweep # "idle"
  /\ Spend("db")
  /\ sweep' = "idle"
  /\ request' = [e \in Execs |-> IF e \in byCron /\ request[e] = "created"
                                   THEN "lost" ELSE request[e]]
  /\ UNCHANGED <<clock, policy, rows, copies, byCron, storeVars, run, ghostVars>>

-----------------------------------------------------------------------------
(* run_backup, in the hands of worker w                                    *)
At(w, pc) == run[w].pc = pc
Goto(w, pc) == run' = [run EXCEPT ![w].pc = pc]

handlerSame == <<clock, policy, dispatchVars, storeVars>>

Take(w, e) ==
  /\ At(w, "idle")
  /\ Store!Take(w, e)
  /\ run' = [run EXCEPT ![w] = [IdleRun EXCEPT !.pc = "resolve", !.e = e]]
  /\ UNCHANGED <<clock, policy, rows, copies, dispatchVars, ghostVars, budget>>

(* `now`, and resolve: the rows are read once and for all.                 *)
Resolve(w) ==
  /\ At(w, "resolve")
  /\ IF rows[run[w].e].status = "gone"
       THEN Goto(w, "err")
       ELSE run' = [run EXCEPT ![w].pc = "dump", ![w].at = clock, ![w].conf = policy]
  /\ UNCHANGED <<handlerSame, rows, copies, ghostVars, budget>>

(* The shell opens, and so truncates, the file before the dump runs.       *)
StartDump(w) ==
  LET t == run[w].at IN
  /\ At(w, "dump")
  /\ copies' = [copies EXCEPT !["local"][t] = Partial]
  /\ dumps' = [dumps EXCEPT ![t] = IF @ = 2 THEN 2 ELSE @ + 1]
  /\ Goto(w, "dumping")
  /\ UNCHANGED <<handlerSame, rows, demoted, budget>>

(* mkdir fails: an error of the job.                                       *)
MkdirFails(w) ==
  /\ At(w, "dump")
  /\ Spend("ssh")
  /\ Goto(w, "err")
  /\ UNCHANGED <<handlerSame, rows, copies, ghostVars>>

(* The dump ends and is measured.  A failed or an empty one leaves a file  *)
(* that no row will name.                                                  *)
EndDump(w) ==
  /\ At(w, "dumping")
  /\ \/ /\ copies' = [copies EXCEPT !["local"][run[w].at] = run[w].e]
        /\ \E size \in Sizes :
             run' = [run EXCEPT ![w].size = size,
                                ![w].pc = IF run[w].conf.saveS3 THEN "upload" ELSE "record"]
     \/ Goto(w, "fail") /\ UNCHANGED copies
  /\ UNCHANGED <<handlerSame, rows, ghostVars, budget>>

(* Mutant: the local copy is dropped whatever became of the upload.        *)
UploadThenDrop(w) ==
  LET t == run[w].at IN
  /\ At(w, "upload")
  /\ \E uploaded \in {"yes", "no"} :
       /\ copies' = IF uploaded = "yes" THEN [copies EXCEPT !["s3"][t] = copies["local"][t]]
                                        ELSE copies
       /\ run' = [run EXCEPT ![w].uploaded = uploaded,
                             ![w].pc = IF run[w].conf.dropLocal THEN "drop" ELSE "record"]
  /\ UNCHANGED <<handlerSame, rows, ghostVars, budget>>

(* upload_to_s3: whatever goes wrong only leaves a warning.                *)
Upload(w) ==
  LET t == run[w].at
      stored == [copies EXCEPT !["s3"][t] = copies["local"][t]] IN
  /\ At(w, "upload")
  /\ \/ /\ copies["local"][t] # Absent
        /\ copies' = stored
        /\ run' = [run EXCEPT ![w].uploaded = "yes",
                              ![w].pc = IF run[w].conf.dropLocal THEN "drop" ELSE "record"]
        /\ UNCHANGED budget
     \/ /\ run' = [run EXCEPT ![w].uploaded = "no", ![w].pc = "record"]
        /\ \/ UNCHANGED <<copies, budget>>
           \/ copies["local"][t] # Absent /\ Spend("ssh") /\ copies' = stored
  /\ UNCHANGED <<handlerSame, rows, ghostVars>>

(* A remote rm: its errors are ignored.                                    *)
RemoveCopy(side, t) ==
  \/ copies' = [copies EXCEPT ![side][t] = Absent] /\ UNCHANGED budget
  \/ Spend("ssh") /\ UNCHANGED copies

DropLocal(w) ==
  /\ At(w, "drop")
  /\ RemoveCopy("local", run[w].at)
  /\ Goto(w, "record")
  /\ UNCHANGED <<handlerSame, rows, ghostVars>>

(* BackupExecutionRepo::finish on the row of e, if it is still there: it   *)
(* looks at no status and leaves s3_storage_deleted alone.                 *)
FinishRow(e, status, size, file, uploaded, localDeleted) ==
  rows' = IF rows[e].status = "gone" THEN rows
          ELSE [rows EXCEPT
                  ![e] = [status |-> status, created |-> @.created, size |-> size,
                          file |-> file, uploaded |-> uploaded,
                          deleted |-> (@.deleted \ {"local"}) \cup localDeleted]]

Record(w) ==
  LET r == run[w] IN
  /\ At(w, "record")
  /\ FinishRow(r.e, "success", r.size, r.at, r.uploaded,
               IF r.conf.dropLocal /\ r.uploaded = "yes" THEN {"local"} ELSE {})
  /\ run' = [run EXCEPT ![w] = [IdleRun EXCEPT !.pc = "select", !.e = r.e, !.conf = r.conf]]
  /\ UNCHANGED <<handlerSame, copies, ghostVars, budget>>

RecordFailure(w) ==
  LET e == run[w].e IN
  /\ At(w, "fail")
  /\ FinishRow(e, "failed", 0, NoFile, "null", {})
  /\ demoted' = (demoted \/ rows[e].status = "success")
  /\ Goto(w, "ok")
  /\ UNCHANGED <<handlerSame, copies, dumps, budget>>

-----------------------------------------------------------------------------
(* apply_retention: the four steps below for the disk, then for the bucket *)

(* successful_with_local, successful_with_s3: whether the upload of the    *)
(* execution succeeded is not looked at.                                   *)
SuccessfulWith(side) ==
  {e \in Execs : rows[e].status = "success" /\ side \notin rows[e].deleted}

Select(w) ==
  LET side == run[w].side IN
  /\ At(w, "select")
  /\ run' = [run EXCEPT ![w].dels = SelectForDeletion(SuccessfulWith(side),
                                                      run[w].conf.keep[side]),
                        ![w].pc = "names"]
  /\ UNCHANGED <<handlerSame, rows, copies, ghostVars, budget>>

(* filenames_for: a second read.                                           *)
Names(w) ==
  LET found == {e \in run[w].dels : rows[e].status # "gone" /\ rows[e].file # NoFile}
      names == {rows[e].file : e \in found} IN
  /\ At(w, "names")
  /\ run' = [run EXCEPT ![w].names = names,
                        ![w].pc = IF run[w].side = "s3" /\ names # {}
                                    THEN "helper" ELSE "remove"]
  /\ UNCHANGED <<handlerSame, rows, copies, ghostVars, budget>>

(* The helper container of remove_from_s3 comes up, or its failure is an   *)
(* error of the job.                                                       *)
Helper(w) ==
  /\ At(w, "helper")
  /\ \/ Goto(w, "remove") /\ UNCHANGED budget
     \/ Goto(w, "err") /\ Spend("ssh")
  /\ UNCHANGED <<handlerSame, rows, copies, ghostVars>>

Remove(w) ==
  /\ At(w, "remove")
  /\ \/ \E t \in run[w].names :
          /\ RemoveCopy(run[w].side, t)
          /\ run' = [run EXCEPT ![w].names = @ \ {t}]
     \/ run[w].names = {} /\ Goto(w, "mark") /\ UNCHANGED <<copies, budget>>
  /\ UNCHANGED <<handlerSame, rows, ghostVars>>

(* mark_local_deleted, mark_s3_deleted                                     *)
Mark(w) ==
  LET r == run[w] IN
  /\ At(w, "mark")
  /\ rows' = [e \in Execs |-> IF e \in r.dels /\ rows[e].status # "gone"
                                THEN [rows[e] EXCEPT !.deleted = @ \cup {r.side}]
                                ELSE rows[e]]
  /\ run' = [run EXCEPT ![w].dels = {},
       ![w].side = "s3",
       ![w].pc = IF r.side = "local" /\ r.conf.saveS3 THEN "select" ELSE "prune"]
  /\ UNCHANGED <<handlerSame, copies, ghostVars, budget>>

(* Mutant: rows go with their local copy.                                  *)
OrphanLocally(e) == "local" \in rows[e].deleted

Orphan(e) ==
  "local" \in rows[e].deleted /\ ("s3" \in rows[e].deleted \/ rows[e].uploaded = "null")

(* prune_orphans; the row of an execution that runs may go, too.           *)
Prune(w) ==
  /\ At(w, "prune")
  /\ rows' = [e \in Execs |-> IF rows[e].status # "none" /\ Orphan(e)
                                THEN [NoRow EXCEPT !.status = "gone"] ELSE rows[e]]
  /\ Goto(w, "ok")
  /\ UNCHANGED <<handlerSame, copies, ghostVars, budget>>

DbFails(w) ==
  /\ run[w].pc \in {"resolve", "record", "fail", "select", "names", "mark", "prune"}
  /\ Spend("db")
  /\ Goto(w, "err")
  /\ UNCHANGED <<handlerSame, rows, copies, ghostVars>>

-----------------------------------------------------------------------------
PutDown(w) == run' = [run EXCEPT ![w] = IdleRun]

Report(w) ==
  /\ \/ At(w, "ok") /\ Store!Finish(w, run[w].e)
     \/ At(w, "err") /\ Store!Miss(w, run[w].e)
  /\ PutDown(w)
  /\ UNCHANGED <<clock, policy, rows, copies, dispatchVars, ghostVars, budget>>

ReportLost(w) ==
  /\ At(w, "ok") \/ At(w, "err")
  /\ Spend("db")
  /\ Store!LetGo({run[w].e})
  /\ PutDown(w)
  /\ UNCHANGED <<clock, policy, rows, copies, dispatchVars, ghostVars>>

(* The process dies, wherever it is, and another one starts.               *)
Restart ==
  LET held == {e \in Execs : jobStatus[e] = "held"} IN
  /\ Spend("restarts")
  /\ IF held = {} THEN UNCHANGED storeVars ELSE Store!LetGo(held)
  /\ request' = [e \in Execs |-> IF request[e] = "created" THEN "lost" ELSE request[e]]
  /\ sweep' = "idle"
  /\ run' = [w \in Workers |-> IdleRun]
  /\ UNCHANGED <<clock, policy, rows, copies, byCron, ghostVars>>

Handler(w) ==
  \/ Resolve(w) \/ StartDump(w) \/ MkdirFails(w) \/ EndDump(w) \/ Upload(w) \/ DropLocal(w)
  \/ Record(w) \/ RecordFailure(w)
  \/ Select(w) \/ Names(w) \/ Helper(w) \/ Remove(w) \/ Mark(w) \/ Prune(w)
  \/ DbFails(w) \/ Report(w) \/ ReportLost(w)

TakeSome(w) == \E e \in Execs : Take(w, e)

Dispatcher == SweepStarts \/ SweepChecks \/ SweepCreates \/ SweepEnqueues \/ SweepFails

Next ==
  \/ Tick
  \/ \E p \in Policies : Update(p)
  \/ \E e \in Execs : Trigger(e) \/ SendJob(e)
  \/ Dispatcher
  \/ \E w \in Workers : TakeSome(w) \/ Handler(w)
  \/ Restart

Spec == Init /\ [][Next]_vars

-----------------------------------------------------------------------------
(* At most one execution per schedule and minute comes from the dispatcher *)
(* while its rows are there ("skipping any that already produced an        *)
(* execution this clock-minute"), although the check and the insert are    *)
(* two statements and a sweep may straddle the end of a minute.            *)
OncePerMinute ==
  \A d, e \in byCron :
    /\ d # e /\ rows[d].status # "gone" /\ rows[e].status # "gone"
    => MinuteOf[rows[d].created] # MinuteOf[rows[e].created]

(* Two dumps begun in one second share a file.                             *)
Clash == \E t \in Seconds : dumps[t] = 2

(* What a user can restore e from.                                         *)
Holds(side, e) ==
  /\ rows[e].status = "success"
  /\ rows[e].file # NoFile /\ copies[side][rows[e].file] = e

Restorable == \E e \in Execs : \E side \in Sides : Holds(side, e)

(* Once there is a backup to restore from, there always is one, whatever   *)
(* limits apply, however retentions of several workers, edits of the       *)
(* schedule, failed uploads and removals, restarts and redone executions   *)
(* interleave; unless two dumps shared a file, or an execution was run     *)
(* again after it had succeeded, and failed.                               *)
LastBackupKept ==
  [][Restorable /\ ~Clash' /\ ~demoted' => Restorable']_vars

Undisturbed == budget.restarts = MaxRestarts /\ budget.db = MaxDbErrors
               /\ budget.ssh = MaxSshLosses

(* A row that promises a local copy has it, unless a worker is removing it *)
(* at this very time, as long as no statement or command was lost.         *)
PromisedCopyIsThere ==
  Undisturbed /\ ~Clash =>
    \A e \in SuccessfulWith("local") :
      \/ Holds("local", e)
      \/ \E w \in Workers : /\ run[w].pc \in {"remove", "mark"} /\ run[w].side = "local"
                            /\ e \in run[w].dels

(* A row goes only when no copy of its dump is left anywhere: nothing can  *)
(* find such a copy any more.                                              *)
PrunedLeavesNothing ==
  [][\A e \in Execs :
       Undisturbed /\ ~Clash /\ rows[e].status # "gone" /\ rows'[e].status = "gone" =>
         \A side \in Sides, t \in Seconds : copies[side][t] # e]_vars

=============================================================================
