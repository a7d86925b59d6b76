------------------------------ MODULE JobQueue ------------------------------
(***************************************************************************)
(* The job queue of crates/rustify-jobs/src/queue.rs: claim loops that     *)
(* share the `jobs` table through leases that expire.  A claim writes      *)
(* locked_at and locked_by; a worker re-locks every half StaleTimeout      *)
(* while its handler runs; a lease older than StaleTimeout may be claimed  *)
(* by anyone.  Nothing in the DELETE and UPDATE that record a result looks *)
(* at who holds the lease, so everything rests on the leases being renewed *)
(* in time.  One action is one SQL statement or one step of a worker       *)
(* between two awaits.                                                     *)
(*                                                                         *)
(* Time is discrete and relative: lockAge[j] is now - locked_at, wait[j]   *)
(* is run_at - now, hb[w] is the time since worker w last wrote its lease. *)
(* Every statement lands at most Latency after it is due.                  *)
(***************************************************************************)
EXTENDS Integers, FiniteSets

CONSTANTS
  Jobs, Workers, NoJob, NoWorker,
  MaxAttempts,      \* MAX_ATTEMPTS
  StaleTimeout,     \* stale_lock_timeout
  BackoffBase,      \* backoff_base
  Delays,           \* run_at - now of the jobs inserted
  Latency,          \* how late a heartbeat or a result may reach the table
  OverdueCap,       \* bound: wait is not counted below -OverdueCap
  MaxRestarts, MaxPanics, MaxLostResults  \* bounds on failures

ASSUME QueueAssumption ==
  /\ MaxAttempts \in Nat \ {0}
  /\ StaleTimeout \in Nat /\ BackoffBase \in Nat /\ Latency \in Nat
  /\ OverdueCap \in Nat
  /\ Delays \subseteq Nat
  /\ MaxRestarts \in Nat /\ MaxPanics \in Nat /\ MaxLostResults \in Nat
  /\ NoWorker \notin Workers
  /\ NoJob \notin Jobs

VARIABLES
  \* the table
  row,        \* "absent" | "present" | "deleted"
  attempts,
  lockedBy,   \* NoWorker stands for locked_at = locked_by = NULL
  lockAge,    \* counted up to StaleTimeout + 1
  wait,
  \* the claim loops
  pc,         \* "loop" | "claiming" | "running" | "ok" | "err" | "exited" | "dead"
  job,        \* the ClaimedJob in hand
  snap,       \* its `attempts` when it was claimed
  hb,
  shutdown,   \* the CancellationToken
  faults      \* restarts, panics and lost results still allowed

tableVars == <<row, attempts, lockedBy, lockAge, wait>>
queueVars == <<row, attempts, lockedBy, lockAge, wait, pc, job, snap, hb, shutdown, faults>>

-----------------------------------------------------------------------------
(* Mutant: the heartbeat is only due when the lease runs out.              *)
WholeTimeout == StaleTimeout

HeartbeatPeriod == StaleTimeout \div 2

Running(w) == pc[w] = "running"

(* w holds a ClaimedJob: its handler runs, or the result is on its way.    *)
Busy(w) == pc[w] \in {"running", "ok", "err"}

Stopped(w) == pc[w] \in {"exited", "dead"}

(* backoff_duration                                                        *)
Backoff(n) == BackoffBase * (IF n < 1 THEN 1 ELSE n)

(* Mutants of Ready: no attempts test; a lease that never expires.         *)
ReadyUncapped(j) ==
  /\ row[j] = "present" /\ wait[j] <= 0
  /\ lockedBy[j] = NoWorker \/ lockAge[j] > StaleTimeout

ReadyNeverStale(j) ==
  /\ row[j] = "present" /\ wait[j] <= 0 /\ attempts[j] < MaxAttempts
  /\ lockedBy[j] = NoWorker

(* The WHERE clause of claim().                                            *)
Ready(j) ==
  /\ row[j] = "present"
  /\ wait[j] <= 0
  /\ attempts[j] < MaxAttempts
  /\ lockedBy[j] = NoWorker \/ lockAge[j] > StaleTimeout

QueueTypeOK ==
  /\ row \in [Jobs -> {"absent", "present", "deleted"}]
  /\ attempts \in [Jobs -> 0..MaxAttempts]
  /\ lockedBy \in [Jobs -> Workers \cup {NoWorker}]
  /\ lockAge \in [Jobs -> 0..(StaleTimeout + 1)]
  /\ wait \in [Jobs -> Int]
  /\ pc \in [Workers -> {"loop", "claiming", "running", "ok", "err", "exited", "dead"}]
  /\ job \in [Workers -> Jobs \cup {NoJob}]
  /\ snap \in [Workers -> 0..(MaxAttempts - 1)]
  /\ hb \in [Workers -> Nat]
  /\ shutdown \in BOOLEAN
  /\ faults \in [restarts: 0..MaxRestarts, panics: 0..MaxPanics, lost: 0..MaxLostResults]

QueueInit ==
  /\ row = [j \in Jobs |-> "absent"]
  /\ attempts = [j \in Jobs |-> 0]
  /\ lockedBy = [j \in Jobs |-> NoWorker]
  /\ lockAge = [j \in Jobs |-> 0]
  /\ wait = [j \in Jobs |-> 0]
  /\ pc = [w \in Workers |-> "loop"]
  /\ job = [w \in Workers |-> NoJob]
  /\ snap = [w \in Workers |-> 0]
  /\ hb = [w \in Workers |-> 0]
  /\ shutdown = FALSE
  /\ faults = [restarts |-> MaxRestarts, panics |-> MaxPanics, lost |-> MaxLostResults]

(* Worker w lets go of its ClaimedJob, which execute() owned.              *)
PutDown(w, next) ==
  /\ pc' = [pc EXCEPT ![w] = next]
  /\ job' = [job EXCEPT ![w] = NoJob]
  /\ snap' = [snap EXCEPT ![w] = 0]
  /\ hb' = [hb EXCEPT ![w] = 0]

-----------------------------------------------------------------------------
(* JobQueue::enqueue                                                       *)
Enqueue(j) ==
  /\ row[j] = "absent"
  /\ \E d \in Delays : wait' = [wait EXCEPT ![j] = d]
  /\ row' = [row EXCEPT ![j] = "present"]
  /\ UNCHANGED <<attempts, lockedBy, lockAge, pc, job, snap, hb, shutdown, faults>>

(* Mutant: the loop forgets to look at the token.                          *)
LoopHeadDeaf(w) ==
  /\ pc[w] = "loop"
  /\ pc' = [pc EXCEPT ![w] = "claiming"]
  /\ UNCHANGED <<tableVars, job, snap, hb, shutdown, faults>>

(* The head of run_loop, and the end of an idle poll: return on shutdown,  *)
(* else go on to claim().  The token may still be cancelled in between.    *)
LoopHead(w) ==
  /\ pc[w] = "loop"
  /\ pc' = [pc EXCEPT ![w] = IF shutdown THEN "exited" ELSE "claiming"]
  /\ UNCHANGED <<tableVars, job, snap, hb, shutdown, faults>>

(* claim() returns the ready job that has been due longest.                *)
Claim(w, j) ==
  /\ pc[w] = "claiming"
  /\ Ready(j)
  /\ \A k \in Jobs : Ready(k) => wait[j] <= wait[k]
  /\ lockedBy' = [lockedBy EXCEPT ![j] = w]
  /\ lockAge' = [lockAge EXCEPT ![j] = 0]
  /\ pc' = [pc EXCEPT ![w] = "running"]
  /\ job' = [job EXCEPT ![w] = j]
  /\ snap' = [snap EXCEPT ![w] = attempts[j]]
  /\ hb' = [hb EXCEPT ![w] = 0]
  /\ UNCHANGED <<row, attempts, wait, shutdown, faults>>

(* claim() finds nothing: idle for a poll interval.                        *)
ClaimNothing(w) ==
  /\ pc[w] = "claiming"
  /\ \A j \in Jobs : ~Ready(j)
  /\ pc' = [pc EXCEPT ![w] = "loop"]
  /\ UNCHANGED <<tableVars, job, snap, hb, shutdown, faults>>

(* The heartbeat branch of execute(): re-lock the row if it is still ours. *)
(* Ticks are due every HeartbeatPeriod and land up to Latency late, so two *)
(* landings are at least HeartbeatPeriod - Latency apart.                  *)
Heartbeat(w) ==
  /\ Running(w)
  /\ hb[w] >= HeartbeatPeriod - Latency
  /\ lockAge' = [j \in Jobs |->
       IF row[j] = "present" /\ j = job[w] /\ lockedBy[j] = w THEN 0 ELSE lockAge[j]]
  /\ hb' = [hb EXCEPT ![w] = 0]
  /\ UNCHANGED <<row, attempts, lockedBy, wait, pc, job, snap, shutdown, faults>>

(* The handler's future resolves.                                          *)
HandlerReturns(w) ==
  /\ Running(w)
  /\ \E result \in {"ok", "err"} : pc' = [pc EXCEPT ![w] = result]
  /\ UNCHANGED <<tableVars, job, snap, hb, shutdown, faults>>

(* The handler panics: the task of the claim loop unwinds and nothing      *)
(* starts another one.                                                     *)
HandlerPanics(w) ==
  /\ Running(w)
  /\ faults.panics > 0          \* bound
  /\ PutDown(w, "dead")
  /\ faults' = [faults EXCEPT !.panics = @ - 1]
  /\ UNCHANGED <<tableVars, shutdown>>

(* Ok(()) arm of execute(): DELETE ... WHERE id.                           *)
DeleteFinished(w) ==
  /\ pc[w] = "ok"
  /\ row' = [row EXCEPT ![job[w]] = "deleted"]
  /\ PutDown(w, "loop")
  /\ UNCHANGED <<attempts, lockedBy, lockAge, wait, shutdown, faults>>

(* Mutant: the last failure deletes the row instead of keeping it.         *)
RecordFailureDeletes(w) ==
  LET j == job[w] IN
  /\ pc[w] = "err"
  /\ attempts' = [attempts EXCEPT ![j] = snap[w] + 1]
  /\ row' = [row EXCEPT ![j] = IF snap[w] + 1 = MaxAttempts THEN "deleted" ELSE @]
  /\ lockedBy' = [lockedBy EXCEPT ![j] = NoWorker]
  /\ PutDown(w, "loop")
  /\ UNCHANGED <<lockAge, wait, shutdown, faults>>

(* Err arm of execute(): UPDATE ... WHERE id, from the claimed snapshot.   *)
(* It changes nothing when the row is gone.                                *)
RecordFailure(w) ==
  LET j == job[w] IN
  /\ pc[w] = "err"
  /\ IF row[j] = "present"
       THEN /\ attempts' = [attempts EXCEPT ![j] = snap[w] + 1]
            /\ lockedBy' = [lockedBy EXCEPT ![j] = NoWorker]
            /\ lockAge' = [lockAge EXCEPT ![j] = 0]
            /\ wait' = [wait EXCEPT ![j] = Backoff(snap[w] + 1)]
       ELSE UNCHANGED <<attempts, lockedBy, lockAge, wait>>
  /\ PutDown(w, "loop")
  /\ UNCHANGED <<row, shutdown, faults>>

(* Either statement fails: the error is logged, the row keeps its lease.   *)
ResultLost(w) ==
  /\ pc[w] \in {"ok", "err"}
  /\ faults.lost > 0            \* bound
  /\ PutDown(w, "loop")
  /\ faults' = [faults EXCEPT !.lost = @ - 1]
  /\ UNCHANGED <<tableVars, shutdown>>

(* ctrl-c cancels the token.                                               *)
Shutdown ==
  /\ ~shutdown
  /\ shutdown' = TRUE
  /\ UNCHANGED <<tableVars, pc, job, snap, hb, faults>>

(* The process is gone, crashed or drained, and another one starts: only   *)
(* the table survives.                                                     *)
Restart ==
  /\ faults.restarts > 0        \* bound
  /\ faults' = [faults EXCEPT !.restarts = @ - 1]
  /\ pc' = [w \in Workers |-> "loop"]
  /\ job' = [w \in Workers |-> NoJob]
  /\ snap' = [w \in Workers |-> 0]
  /\ hb' = [w \in Workers |-> 0]
  /\ shutdown' = FALSE
  /\ UNCHANGED tableVars

(* Time passes, unless a heartbeat or a result must land first.            *)
Tick ==
  /\ \A w \in Workers : Busy(w) => hb[w] < HeartbeatPeriod + Latency
  /\ lockAge' = [j \in Jobs |->
       IF lockedBy[j] # NoWorker /\ lockAge[j] <= StaleTimeout
         THEN lockAge[j] + 1 ELSE lockAge[j]]
  /\ wait' = [j \in Jobs |->
       IF row[j] = "present" /\ wait[j] > -OverdueCap THEN wait[j] - 1 ELSE wait[j]]
  /\ hb' = [w \in Workers |-> IF Busy(w) THEN hb[w] + 1 ELSE hb[w]]
  /\ UNCHANGED <<row, attempts, lockedBy, pc, job, snap, shutdown, faults>>

WorkerStep(w) ==
  \/ LoopHead(w) \/ ClaimNothing(w) \/ (\E j \in Jobs : Claim(w, j))
  \/ DeleteFinished(w) \/ RecordFailure(w) \/ ResultLost(w)

QueueNext ==
  \/ \E j \in Jobs : Enqueue(j)
  \/ \E w \in Workers :
       WorkerStep(w) \/ Heartbeat(w) \/ HandlerReturns(w) \/ HandlerPanics(w)
  \/ Shutdown \/ Restart \/ Tick

QueueSpec == QueueInit /\ [][QueueNext]_queueVars

(* The executor polls every claim loop and its heartbeat, time passes, and *)
(* a handler comes back: what it awaits (SSH commands, HTTP calls, SQL)    *)
(* has a timeout.  Nothing obliges anyone to enqueue, panic, shut down or  *)
(* restart.                                                                *)
Fairness ==
  /\ WF_queueVars(Tick)
  /\ \A w \in Workers :
       WF_queueVars(WorkerStep(w)) /\ WF_queueVars(Heartbeat(w)) /\ WF_queueVars(HandlerReturns(w))

FairSpec == QueueSpec /\ Fairness

-----------------------------------------------------------------------------
(* Every heartbeat and every result reaches the table before the lease     *)
(* could expire: what the constants must satisfy for the rest to hold.     *)
Timely == HeartbeatPeriod + Latency <= StaleTimeout

(* No two workers ever run the same job (the comment of claim(): "so no    *)
(* two workers ever hold the same row").                                   *)
OneRunner ==
  \A v, w \in Workers : Busy(v) /\ Busy(w) /\ job[v] = job[w] => v = w

(* What OneRunner rests on: a busy worker's row exists, names the worker,  *)
(* is fresh enough not to be claimable, and has not been counted against   *)
(* since the worker took its snapshot.                                     *)
Leased ==
  \A w \in Workers : Busy(w) =>
    /\ job[w] \in Jobs
    /\ row[job[w]] = "present"
    /\ lockedBy[job[w]] = w
    /\ lockAge[job[w]] <= hb[w]
    /\ hb[w] <= HeartbeatPeriod + Latency
    /\ attempts[job[w]] = snap[w]

(* A job that has failed MaxAttempts times is never claimed again: its     *)
(* count does not come down and no lease is written on its row, whatever a *)
(* slow worker still reports ("Jobs are dropped (never claimed again) once *)
(* they fail this many attempts").                                         *)
Dropped(j) == row[j] = "present" /\ attempts[j] = MaxAttempts

DroppedStaysDropped ==
  [][\A j \in Jobs : Dropped(j) =>
       row'[j] = "deleted" \/ (attempts'[j] = MaxAttempts /\ lockedBy'[j] = NoWorker)]_queueVars

(* Nothing is left to do for the job.                                      *)
Settled(j) ==
  \/ row[j] = "deleted"
  \/ Dropped(j) /\ lockedBy[j] = NoWorker

(* Every job that is enqueued is run until it succeeds or is dropped, past *)
(* panics, lost results and restarts, unless the process is told to stop.  *)
EverySettles ==
  \A j \in Jobs : (row[j] = "present") ~> (Settled(j) \/ shutdown)

(* Draining: once told to stop, every claim loop returns, after its job in *)
(* flight and at most one more that it was about to claim.                 *)
Drains == shutdown ~> ((\A w \in Workers : Stopped(w)) \/ ~shutdown)

-----------------------------------------------------------------------------
(* What the table means to those who enqueue: JobStore.                    *)
HeldJobs == {job[w] : w \in {v \in Workers : Busy(v)}}

StatusOf(j) ==
  CASE row[j] = "absent"  -> "absent"
    [] row[j] = "deleted" -> "done"
    [] row[j] = "present" /\ j \in HeldJobs -> "held"
    [] row[j] = "present" /\ j \notin HeldJobs /\ attempts[j] = MaxAttempts -> "dropped"
    [] row[j] = "present" /\ j \notin HeldJobs /\ attempts[j] # MaxAttempts -> "queued"

StoreStatus == [j \in Jobs |-> StatusOf(j)]

StoreHolder == [j \in Jobs |-> IF j \in HeldJobs THEN lockedBy[j] ELSE NoWorker]

Store == INSTANCE JobStore WITH
  status <- StoreStatus, tries <- attempts, holder <- StoreHolder

(* With timely leases the queue implements the store: exclusive runs,      *)
(* exact counts, nothing lost, nothing resurrected.                        *)
ImplementsStore == Store!StoreSpec

=============================================================================
