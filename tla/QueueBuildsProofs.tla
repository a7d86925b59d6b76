-------------------------- MODULE QueueBuildsProofs --------------------------
(***************************************************************************)
(* Proofs about JobQueue and about Builds, two models that share no state: *)
(* how a job gets to a worker, and what the job of a deployment then does. *)
(*                                                                         *)
(* JobQueue, for any numbers of jobs, workers and failures: with timely    *)
(* leases a job has one runner, a dropped job stays dropped, and the queue *)
(* implements JobStore.  Leased is the inductive invariant: OneRunner      *)
(* alone says nothing of the row, and a claim is only kept away from a     *)
(* busy worker's row by that row's name and age.                           *)
(*                                                                         *)
(* Builds, for any deployments, attempts at them, slots, build servers,    *)
(* commits and bounds.  The invariant follows a commit through a run: what *)
(* it resolved is what it records and what its image is told of; a run     *)
(* that met none of the accidents its history can name had the registry's  *)
(* only tag for itself; and one that met no other run at all is the last   *)
(* attempt at its deployment when it ends well, with nothing left of those *)
(* before it (Latest).                                                     *)
(***************************************************************************)
EXTENDS JobQueue, Builds, WellFoundedInduction, TLAPS

-----------------------------------------------------------------------------
(* The queue                                                               *)

(* The arithmetic of leases and backoffs, stated once for the steps below. *)
LEMMA Constants ==
  /\ HeartbeatPeriod \in Nat
  /\ \A n \in Nat : Backoff(n) \in Nat
<1>1. HeartbeatPeriod \in Nat
  BY QueueAssumption DEF HeartbeatPeriod
<1>2. ASSUME NEW n \in Nat PROVE Backoff(n) \in Nat
  <2>1. BackoffBase \in Nat /\ (IF n < 1 THEN 1 ELSE n) \in Nat
    BY QueueAssumption
  <2>2. \A a, b \in Nat : a * b \in Nat
    OBVIOUS
  <2> QED BY <2>1, <2>2 DEF Backoff
<1> QED BY <1>1, <1>2

(* Every step of JobQueue, named: what the proofs below split on.          *)
LEMMA Steps ==
  ASSUME QueueNext
  PROVE  \/ \E j \in Jobs : Enqueue(j)
         \/ \E w \in Workers : LoopHead(w) \/ ClaimNothing(w)
         \/ \E w \in Workers, j \in Jobs : Claim(w, j)
         \/ \E w \in Workers : DeleteFinished(w)
         \/ \E w \in Workers : RecordFailure(w)
         \/ \E w \in Workers : ResultLost(w)
         \/ \E w \in Workers : Heartbeat(w)
         \/ \E w \in Workers : HandlerReturns(w)
         \/ \E w \in Workers : HandlerPanics(w)
         \/ Shutdown \/ Restart \/ Tick
BY DEF QueueNext, WorkerStep

(* Type correctness: in particular no claim takes a snapshot of            *)
(* MaxAttempts and no failure counts past it.                              *)
THEOREM QueueTyping == QueueSpec => []QueueTypeOK
<1>1. ASSUME QueueInit PROVE QueueTypeOK
  <2>1. 0 \in 0..MaxAttempts /\ 0 \in 0..(MaxAttempts - 1) /\ 0 \in 0..(StaleTimeout + 1)
    BY QueueAssumption
  <2>2. faults \in [restarts: 0..MaxRestarts, panics: 0..MaxPanics, lost: 0..MaxLostResults]
    BY <1>1, QueueAssumption DEF QueueInit
  <2>3. attempts \in [Jobs -> 0..MaxAttempts] /\ lockAge \in [Jobs -> 0..(StaleTimeout + 1)]
    BY <1>1, <2>1 DEF QueueInit
  <2>4. snap \in [Workers -> 0..(MaxAttempts - 1)] /\ hb \in [Workers -> Nat]
    BY <1>1, <2>1 DEF QueueInit
  <2>5. row \in [Jobs -> {"absent", "present", "deleted"}]
    BY <1>1 DEF QueueInit
  <2>6. lockedBy \in [Jobs -> Workers \cup {NoWorker}] /\ wait \in [Jobs -> Int]
    BY <1>1 DEF QueueInit
  <2>7. pc \in [Workers -> {"loop", "claiming", "running", "ok", "err", "exited", "dead"}]
    BY <1>1 DEF QueueInit
  <2>8. job \in [Workers -> Jobs \cup {NoJob}] /\ shutdown \in BOOLEAN
    BY <1>1 DEF QueueInit
  <2> QED BY <2>2, <2>3, <2>4, <2>5, <2>6, <2>7, <2>8 DEF QueueTypeOK
<1>2. QueueTypeOK /\ [QueueNext]_queueVars => QueueTypeOK'
  <2> SUFFICES ASSUME QueueTypeOK, [QueueNext]_queueVars PROVE QueueTypeOK'
    OBVIOUS
  <2> USE QueueAssumption DEF QueueTypeOK, tableVars
  <2>1. ASSUME NEW j \in Jobs, Enqueue(j) PROVE QueueTypeOK'
    BY <2>1 DEF Enqueue
  <2>2. ASSUME NEW w \in Workers, LoopHead(w) \/ ClaimNothing(w) PROVE QueueTypeOK'
    BY <2>2 DEF LoopHead, ClaimNothing
  <2>3. ASSUME NEW w \in Workers, NEW j \in Jobs, Claim(w, j) PROVE QueueTypeOK'
    BY <2>3 DEF Claim, Ready
  <2>4. ASSUME NEW w \in Workers, DeleteFinished(w) PROVE QueueTypeOK'
    <3>1. row' \in [Jobs -> {"absent", "present", "deleted"}]
      BY <2>4 DEF DeleteFinished
    <3>2. PutDown(w, "loop")
      BY <2>4 DEF DeleteFinished
    <3> QED BY <2>4, <3>1, <3>2 DEF DeleteFinished, PutDown
  <2>5. ASSUME NEW w \in Workers, RecordFailure(w) PROVE QueueTypeOK'
    <3>1. snap[w] + 1 \in 0..MaxAttempts /\ Backoff(snap[w] + 1) \in Int
      BY Constants
    <3> QED BY <2>5, <3>1 DEF RecordFailure, PutDown
  <2>6. ASSUME NEW w \in Workers, ResultLost(w) PROVE QueueTypeOK'
    BY <2>6 DEF ResultLost, PutDown
  <2>7. ASSUME NEW w \in Workers, Heartbeat(w) PROVE QueueTypeOK'
    BY <2>7 DEF Heartbeat
  <2>8. ASSUME NEW w \in Workers, HandlerReturns(w) PROVE QueueTypeOK'
    BY <2>8 DEF HandlerReturns
  <2>9. ASSUME NEW w \in Workers, HandlerPanics(w) PROVE QueueTypeOK'
    BY <2>9 DEF HandlerPanics, PutDown
  <2>10. CASE Shutdown
    BY <2>10 DEF Shutdown
  <2>11. CASE Restart
    <3>1. pc' \in [Workers -> {"loop", "claiming", "running", "ok", "err", "exited", "dead"}]
      BY <2>11 DEF Restart
    <3>2. job' \in [Workers -> Jobs \cup {NoJob}] /\ hb' \in [Workers -> Nat]
      BY <2>11 DEF Restart
    <3>3. snap' \in [Workers -> 0..(MaxAttempts - 1)]
      BY <2>11 DEF Restart
    <3>4. faults' \in [restarts: 0..MaxRestarts, panics: 0..MaxPanics, lost: 0..MaxLostResults]
      BY <2>11 DEF Restart
    <3> QED BY <2>11, <3>1, <3>2, <3>3, <3>4 DEF Restart
  <2>12. CASE Tick
    <3>1. lockAge' \in [Jobs -> 0..(StaleTimeout + 1)]
      <4>1. ASSUME NEW j \in Jobs, lockAge[j] <= StaleTimeout
            PROVE  lockAge[j] + 1 \in 0..(StaleTimeout + 1)
        BY <4>1
      <4> QED BY <2>12, <4>1 DEF Tick
    <3>2. wait' \in [Jobs -> Int]
      BY <2>12 DEF Tick
    <3>3. hb' \in [Workers -> Nat]
      BY <2>12 DEF Tick
    <3> QED BY <2>12, <3>1, <3>2, <3>3 DEF Tick
  <2>13. CASE UNCHANGED queueVars
    BY <2>13 DEF queueVars
  <2> QED BY <2>1, <2>2, <2>3, <2>4, <2>5, <2>6, <2>7, <2>8, <2>9, <2>10,
             <2>11, <2>12, <2>13, Steps
<1> QED BY <1>1, <1>2, PTL DEF QueueSpec

-----------------------------------------------------------------------------
(* With timely leases the row of a busy worker is its own: no other claim, *)
(* heartbeat or result touches it before the worker puts the job down.     *)
LEMMA LeasedInvariant == ASSUME Timely PROVE QueueSpec => []Leased
<1>1. QueueInit => Leased
  BY DEF QueueInit, Leased, Busy
<1>2. QueueTypeOK /\ Leased /\ [QueueNext]_queueVars => Leased'
  <2> SUFFICES ASSUME QueueTypeOK, Leased, [QueueNext]_queueVars PROVE Leased'
    OBVIOUS
  <2> USE QueueAssumption, Constants DEF QueueTypeOK, Leased, Busy, Running, tableVars
  <2>1. ASSUME NEW j \in Jobs, Enqueue(j) PROVE Leased'
    BY <2>1 DEF Enqueue
  <2>2. ASSUME NEW w \in Workers, LoopHead(w) \/ ClaimNothing(w) PROVE Leased'
    BY <2>2 DEF LoopHead, ClaimNothing
  <2>3. ASSUME NEW w \in Workers, NEW j \in Jobs, Claim(w, j) PROVE Leased'
    <3>1. \A u \in Workers : Busy(u) => job[u] # j
      BY <2>3 DEF Claim, Ready, Timely
    <3> QED BY <2>3, <3>1 DEF Claim, Ready
  <2>4. ASSUME NEW w \in Workers, DeleteFinished(w) PROVE Leased'
    BY <2>4 DEF DeleteFinished, PutDown
  <2>5. ASSUME NEW w \in Workers, RecordFailure(w) PROVE Leased'
    BY <2>5 DEF RecordFailure, PutDown
  <2>6. ASSUME NEW w \in Workers, ResultLost(w) PROVE Leased'
    BY <2>6 DEF ResultLost, PutDown
  <2>7. ASSUME NEW w \in Workers, Heartbeat(w) PROVE Leased'
    BY <2>7 DEF Heartbeat
  <2>8. ASSUME NEW w \in Workers, HandlerReturns(w) PROVE Leased'
    BY <2>8 DEF HandlerReturns
  <2>9. ASSUME NEW w \in Workers, HandlerPanics(w) PROVE Leased'
    BY <2>9 DEF HandlerPanics, PutDown
  <2>10. CASE Shutdown
    BY <2>10 DEF Shutdown
  <2>11. CASE Restart
    BY <2>11 DEF Restart
  <2>12. CASE Tick
    BY <2>12 DEF Tick
  <2>13. CASE UNCHANGED queueVars
    BY <2>13 DEF queueVars
  <2> QED BY <2>1, <2>2, <2>3, <2>4, <2>5, <2>6, <2>7, <2>8, <2>9, <2>10,
             <2>11, <2>12, <2>13, Steps
<1> QED BY <1>1, <1>2, QueueTyping, PTL DEF QueueSpec

(* No two workers ever run the same job, however many there are.           *)
THEOREM Exclusive == ASSUME Timely PROVE QueueSpec => []OneRunner
<1>1. Leased => OneRunner
  BY DEF Leased, OneRunner
<1> QED BY <1>1, LeasedInvariant, PTL

(* Rows nobody works on: an absent row has no failures, and a row with all *)
(* its failures has no lease.                                              *)
RestingRows ==
  \A j \in Jobs :
    /\ row[j] = "absent" => attempts[j] = 0
    /\ attempts[j] = MaxAttempts => lockedBy[j] = NoWorker

LEMMA RestingRowsInvariant == ASSUME Timely PROVE QueueSpec => []RestingRows
<1>1. QueueInit => RestingRows
  BY QueueAssumption DEF QueueInit, RestingRows
<1>2. QueueTypeOK /\ Leased /\ RestingRows /\ [QueueNext]_queueVars => RestingRows'
  <2> SUFFICES ASSUME QueueTypeOK, Leased, RestingRows, [QueueNext]_queueVars PROVE RestingRows'
    OBVIOUS
  <2> USE QueueAssumption DEF QueueTypeOK, RestingRows, tableVars
  <2>1. ASSUME NEW j \in Jobs, Enqueue(j) PROVE RestingRows'
    BY <2>1 DEF Enqueue
  <2>2. ASSUME NEW w \in Workers,
               LoopHead(w) \/ ClaimNothing(w) \/ ResultLost(w)
               \/ HandlerReturns(w) \/ HandlerPanics(w)
        PROVE  RestingRows'
    BY <2>2 DEF LoopHead, ClaimNothing, ResultLost, HandlerReturns, HandlerPanics
  <2>3. ASSUME NEW w \in Workers, NEW j \in Jobs, Claim(w, j) PROVE RestingRows'
    BY <2>3 DEF Claim, Ready
  <2>4. ASSUME NEW w \in Workers, DeleteFinished(w) PROVE RestingRows'
    BY <2>4 DEF DeleteFinished
  <2>5. ASSUME NEW w \in Workers, RecordFailure(w) PROVE RestingRows'
    BY <2>5 DEF RecordFailure
  <2>6. ASSUME NEW w \in Workers, Heartbeat(w) PROVE RestingRows'
    BY <2>6 DEF Heartbeat
  <2>7. CASE Shutdown \/ Restart \/ Tick \/ UNCHANGED queueVars
    BY <2>7 DEF Shutdown, Restart, Tick, queueVars
  <2> QED BY <2>1, <2>2, <2>3, <2>4, <2>5, <2>6, <2>7, Steps
<1> QED BY <1>1, <1>2, QueueTyping, LeasedInvariant, PTL DEF QueueSpec

(* A dropped job stays dropped: no step of any worker brings its count     *)
(* down or leases it again.                                                *)
THEOREM DropsAreFinal == ASSUME Timely PROVE QueueSpec => DroppedStaysDropped
<1> DEFINE Final(j) ==
      row'[j] = "deleted" \/ (attempts'[j] = MaxAttempts /\ lockedBy'[j] = NoWorker)
<1>1. ASSUME QueueTypeOK, Leased, RestingRows, [QueueNext]_queueVars, NEW j \in Jobs, Dropped(j)
      PROVE  Final(j)
  <2> USE <1>1 DEF QueueTypeOK, tableVars, Dropped, RestingRows
  <2>1. \A w \in Workers : Busy(w) => job[w] # j
    BY QueueAssumption DEF Leased
  <2>2. ASSUME NEW k \in Jobs, Enqueue(k) PROVE Final(j)
    BY <2>2 DEF Enqueue
  <2>3. ASSUME NEW w \in Workers,
               LoopHead(w) \/ ClaimNothing(w) \/ ResultLost(w)
               \/ HandlerReturns(w) \/ HandlerPanics(w)
        PROVE  Final(j)
    BY <2>3 DEF LoopHead, ClaimNothing, ResultLost, HandlerReturns, HandlerPanics
  <2>4. ASSUME NEW w \in Workers, NEW k \in Jobs, Claim(w, k) PROVE Final(j)
    BY <2>4, QueueAssumption DEF Claim, Ready
  <2>5. ASSUME NEW w \in Workers, DeleteFinished(w) PROVE Final(j)
    BY <2>5 DEF DeleteFinished
  <2>6. ASSUME NEW w \in Workers, RecordFailure(w) PROVE Final(j)
    BY <2>1, <2>6 DEF RecordFailure, Busy
  <2>7. ASSUME NEW w \in Workers, Heartbeat(w) PROVE Final(j)
    BY <2>7 DEF Heartbeat
  <2>8. CASE Shutdown \/ Restart \/ Tick \/ UNCHANGED queueVars
    BY <2>8 DEF Shutdown, Restart, Tick, queueVars
  <2> QED BY <2>2, <2>3, <2>4, <2>5, <2>6, <2>7, <2>8, Steps
<1>2. QueueTypeOK /\ Leased /\ RestingRows /\ [QueueNext]_queueVars
      => [\A j \in Jobs : Dropped(j) => Final(j)]_queueVars
  BY <1>1
<1> QED BY <1>2, QueueTyping, LeasedInvariant, RestingRowsInvariant, PTL
        DEF QueueSpec, DroppedStaysDropped

-----------------------------------------------------------------------------
(* A step that changes neither who is busy with what nor what the rows say *)
(* of a job is a stutter of the store.                                     *)
LEMMA Stutter ==
  ASSUME UNCHANGED <<row, attempts, lockedBy>>, HeldJobs' = HeldJobs
  PROVE  UNCHANGED Store!storeVars
<1>1. \A j \in Jobs : StatusOf(j)' = StatusOf(j)
  BY DEF StatusOf
<1>2. StoreStatus' = StoreStatus
  BY <1>1 DEF StoreStatus
<1>3. StoreHolder' = StoreHolder
  BY DEF StoreHolder
<1> QED BY <1>2, <1>3 DEF Store!storeVars

(* A busy worker that puts its job down is the only one who had it.        *)
LEMMA PuttingDown ==
  ASSUME QueueTypeOK, Leased, NEW w \in Workers, Busy(w),
         NEW next \in {"loop", "dead"}, PutDown(w, next)
  PROVE  /\ job[w] \in Jobs \cap HeldJobs
         /\ HeldJobs' = HeldJobs \ {job[w]}
         /\ row[job[w]] = "present"
         /\ StoreStatus[job[w]] = "held" /\ StoreHolder[job[w]] = w
<1>1. job[w] \in Jobs \cap HeldJobs /\ row[job[w]] = "present" /\ lockedBy[job[w]] = w
  BY DEF Leased, HeldJobs
<1>2. \A v \in Workers : Busy(v) /\ job[v] = job[w] => v = w
  BY DEF Leased
<1>3. \A v \in Workers : Busy(v)' <=> Busy(v) /\ v # w
  BY DEF Busy, PutDown, QueueTypeOK
<1>4. \A v \in Workers : v # w => job'[v] = job[v]
  BY DEF PutDown, QueueTypeOK
<1>5. HeldJobs' = HeldJobs \ {job[w]}
  BY <1>2, <1>3, <1>4 DEF HeldJobs
<1>6. StoreStatus[job[w]] = "held"
  BY <1>1 DEF StoreStatus, StatusOf
<1>7. StoreHolder[job[w]] = w
  BY <1>1 DEF StoreHolder
<1> QED BY <1>1, <1>5, <1>6, <1>7

(* With timely leases every step of the queue is a step of the store or    *)
(* leaves it alone: the table implements the promise its users rely on.    *)
THEOREM Implementation == ASSUME Timely PROVE QueueSpec => ImplementsStore
<1>1. ASSUME QueueInit PROVE Store!StoreInit
  <2>1. HeldJobs = {}
    BY <1>1 DEF QueueInit, HeldJobs, Busy
  <2>2. StoreStatus = [j \in Jobs |-> "absent"]
    BY <1>1, <2>1 DEF QueueInit, StoreStatus, StatusOf
  <2>3. StoreHolder = [j \in Jobs |-> NoWorker]
    BY <2>1 DEF StoreHolder
  <2> QED BY <1>1, <2>2, <2>3 DEF QueueInit, Store!StoreInit
<1>2. ASSUME QueueTypeOK, Leased, RestingRows, [QueueNext]_queueVars
      PROVE  Store!StoreNext \/ UNCHANGED Store!storeVars
  <2> USE <1>2
  <2>1. ASSUME NEW j \in Jobs, Enqueue(j) PROVE Store!StoreNext
    <3>1. HeldJobs' = HeldJobs /\ j \notin HeldJobs
      BY <2>1 DEF Enqueue, HeldJobs, Busy, Leased
    <3>2. \A k \in Jobs : StatusOf(k)' = IF k = j THEN "queued" ELSE StatusOf(k)
      BY <2>1, <3>1, QueueAssumption DEF QueueTypeOK, Enqueue, StatusOf, RestingRows
    <3>3. StoreStatus[j] = "absent"
      BY <2>1 DEF Enqueue, StoreStatus, StatusOf
    <3>4. StoreStatus' = [StoreStatus EXCEPT ![j] = "queued"]
      BY <3>2 DEF StoreStatus
    <3>5. StoreHolder' = StoreHolder
      BY <2>1, <3>1 DEF Enqueue, StoreHolder
    <3>6. Store!Submit(j)
      BY <2>1, <3>3, <3>4, <3>5 DEF Enqueue, Store!Submit
    <3> QED BY <3>6 DEF Store!StoreNext
  <2>2. ASSUME NEW w \in Workers,
               LoopHead(w) \/ ClaimNothing(w) \/ HandlerReturns(w) \/ Heartbeat(w)
        PROVE  UNCHANGED Store!storeVars
    <3>1. /\ \A v \in Workers : Busy(v)' <=> Busy(v)
          /\ UNCHANGED <<job, row, attempts, lockedBy>>
      BY <2>2 DEF LoopHead, ClaimNothing, HandlerReturns, Heartbeat, Busy, Running,
                  tableVars, QueueTypeOK
    <3>2. HeldJobs' = HeldJobs
      BY <3>1 DEF HeldJobs
    <3> QED BY <3>1, <3>2, Stutter
  <2>3. ASSUME NEW w \in Workers, NEW j \in Jobs, Claim(w, j) PROVE Store!StoreNext
    <3>1. \A v \in Workers : Busy(v) => job[v] # j
      BY <2>3, QueueAssumption, Constants DEF QueueTypeOK, Claim, Ready, Leased, Timely
    <3>2. \A v \in Workers : Busy(v)' <=> Busy(v) \/ v = w
      BY <2>3 DEF QueueTypeOK, Claim, Busy
    <3>3. ~Busy(w) /\ job' = [job EXCEPT ![w] = j]
      BY <2>3 DEF Claim, Busy
    <3>4. HeldJobs' = HeldJobs \cup {j} /\ j \notin HeldJobs
      BY <3>1, <3>2, <3>3 DEF HeldJobs, QueueTypeOK
    <3>5. \A k \in Jobs : StatusOf(k)' = IF k = j THEN "held" ELSE StatusOf(k)
      BY <2>3, <3>4 DEF QueueTypeOK, Claim, Ready, StatusOf
    <3>6. StatusOf(j) = "queued"
      BY <2>3, <3>4, QueueAssumption DEF QueueTypeOK, Claim, Ready, StatusOf
    <3>7. StoreStatus[j] = "queued" /\ StoreStatus' = [StoreStatus EXCEPT ![j] = "held"]
      BY <3>5, <3>6 DEF StoreStatus
    <3>8. StoreHolder' = [StoreHolder EXCEPT ![j] = w]
      BY <2>3, <3>4 DEF Claim, StoreHolder, QueueTypeOK
    <3>9. Store!Take(w, j)
      BY <2>3, <3>7, <3>8 DEF Claim, Store!Take
    <3> QED BY <3>9 DEF Store!StoreNext
  <2>4. ASSUME NEW w \in Workers, DeleteFinished(w) PROVE Store!StoreNext
    <3> DEFINE j == job[w]
    <3>1. Busy(w) /\ PutDown(w, "loop")
      BY <2>4 DEF DeleteFinished, Busy
    <3>2. \A k \in Jobs : StatusOf(k)' = IF k = j THEN "done" ELSE StatusOf(k)
      BY <2>4, <3>1, PuttingDown DEF QueueTypeOK, DeleteFinished, StatusOf
    <3>3. StoreStatus' = [StoreStatus EXCEPT ![j] = "done"]
      BY <3>2 DEF StoreStatus
    <3>4. StoreHolder' = [StoreHolder EXCEPT ![j] = NoWorker]
      BY <2>4, <3>1, PuttingDown DEF DeleteFinished, StoreHolder
    <3>5. Store!Finish(w, j)
      BY <2>4, <3>1, <3>3, <3>4, PuttingDown DEF DeleteFinished, Store!Finish
    <3> QED BY <3>1, <3>5, PuttingDown DEF Store!StoreNext
  <2>5. ASSUME NEW w \in Workers, RecordFailure(w) PROVE Store!StoreNext
    <3> DEFINE j == job[w]
    <3>1. Busy(w) /\ PutDown(w, "loop")
      BY <2>5 DEF RecordFailure, Busy
    <3>2. attempts[j] < MaxAttempts /\ attempts' = [attempts EXCEPT ![j] = attempts[j] + 1]
      BY <2>5, <3>1, PuttingDown, QueueAssumption DEF QueueTypeOK, RecordFailure, Leased
    <3>3. \A k \in Jobs : StatusOf(k)' =
            IF k # j THEN StatusOf(k)
            ELSE IF attempts[j] + 1 >= MaxAttempts THEN "dropped" ELSE "queued"
      BY <2>5, <3>1, <3>2, PuttingDown, QueueAssumption
         DEF QueueTypeOK, RecordFailure, StatusOf
    <3>4. StoreStatus' = [StoreStatus EXCEPT
            ![j] = IF attempts[j] + 1 >= MaxAttempts THEN "dropped" ELSE "queued"]
      BY <3>3 DEF StoreStatus
    <3>5. StoreHolder' = [StoreHolder EXCEPT ![j] = NoWorker]
      <4>1. lockedBy' = [lockedBy EXCEPT ![j] = NoWorker]
        BY <2>5, <3>1, PuttingDown DEF RecordFailure
      <4>2. HeldJobs' = HeldJobs \ {j}
        BY <3>1, PuttingDown
      <4>3. \A k \in HeldJobs' : lockedBy'[k] = lockedBy[k]
        BY <4>1, <4>2
      <4> QED BY <4>2, <4>3 DEF StoreHolder
    <3>6. Store!Miss(w, j)
      BY <3>1, <3>2, <3>4, <3>5, PuttingDown DEF Store!Miss
    <3> QED BY <3>1, <3>6, PuttingDown DEF Store!StoreNext
  <2>6. ASSUME NEW w \in Workers, ResultLost(w) \/ HandlerPanics(w)
        PROVE  Store!StoreNext
    <3> DEFINE j == job[w]
    <3>1. Busy(w) /\ (PutDown(w, "loop") \/ PutDown(w, "dead"))
      BY <2>6 DEF ResultLost, HandlerPanics, Busy, Running
    <3>2. attempts[j] # MaxAttempts /\ UNCHANGED <<row, attempts, lockedBy>>
      BY <2>6, <3>1, QueueAssumption
         DEF QueueTypeOK, ResultLost, HandlerPanics, Leased, tableVars
    <3>3. \A k \in Jobs : StatusOf(k)' = IF k = j THEN "queued" ELSE StatusOf(k)
      BY <3>1, <3>2, PuttingDown DEF QueueTypeOK, StatusOf
    <3>4. StoreStatus' = [k \in Jobs |-> IF k \in {j} THEN "queued" ELSE StoreStatus[k]]
      BY <3>3 DEF StoreStatus
    <3>5. StoreHolder' = [k \in Jobs |-> IF k \in {j} THEN NoWorker ELSE StoreHolder[k]]
      BY <3>1, <3>2, PuttingDown DEF StoreHolder
    <3>6. Store!LetGo({j}) /\ {j} \in SUBSET Jobs
      BY <3>1, <3>2, <3>4, <3>5, PuttingDown DEF Store!LetGo
    <3> QED BY <3>6 DEF Store!StoreNext
  <2>7. CASE Restart
    <3>1. HeldJobs' = {} /\ UNCHANGED <<row, attempts, lockedBy>>
      BY <2>7 DEF Restart, HeldJobs, Busy, tableVars
    <3>2. \A j \in HeldJobs : j \in Jobs /\ row[j] = "present" /\ attempts[j] # MaxAttempts
      BY QueueAssumption DEF HeldJobs, Leased, QueueTypeOK
    <3>3. \A j \in Jobs : StatusOf(j)' = IF j \in HeldJobs THEN "queued" ELSE StatusOf(j)
      BY <3>1, <3>2 DEF QueueTypeOK, StatusOf
    <3>4. StoreStatus' =
            [j \in Jobs |-> IF j \in HeldJobs THEN "queued" ELSE StoreStatus[j]]
      BY <3>3 DEF StoreStatus
    <3>5. StoreHolder' =
            [j \in Jobs |-> IF j \in HeldJobs THEN NoWorker ELSE StoreHolder[j]]
      BY <3>1 DEF StoreHolder
    <3>6. \A j \in HeldJobs : StoreStatus[j] = "held"
      BY <3>2 DEF StoreStatus, StatusOf
    <3>7. CASE HeldJobs = {}
      BY <3>1, <3>7, Stutter
    <3>8. CASE HeldJobs # {}
      <4>1. Store!LetGo(HeldJobs) /\ HeldJobs \in SUBSET Jobs
        BY <3>1, <3>2, <3>4, <3>5, <3>6, <3>8 DEF Store!LetGo
      <4> QED BY <4>1 DEF Store!StoreNext
    <3> QED BY <3>7, <3>8
  <2>8. CASE Shutdown \/ Tick \/ UNCHANGED queueVars
    <3>1. UNCHANGED <<row, attempts, lockedBy, pc, job>>
      BY <2>8 DEF Shutdown, Tick, queueVars, tableVars
    <3>2. HeldJobs' = HeldJobs
      BY <3>1 DEF HeldJobs, Busy
    <3> QED BY <3>1, <3>2, Stutter
  <2> QED BY <2>1, <2>2, <2>3, <2>4, <2>5, <2>6, <2>7, <2>8, Steps
<1> QED BY <1>1, <1>2, QueueTyping, LeasedInvariant, RestingRowsInvariant, PTL
        DEF QueueSpec, ImplementsStore, Store!StoreSpec

-----------------------------------------------------------------------------
(* Builds                                                                  *)

(* Once the compose file may be written, and until the run is over.        *)
Unresolved == {"queued", "auth", "resolve"}
Written == {"up", "settle", "finish", "abort", "ok", "failed", "dead"}

(* The run has a commit, and its deployment records one.  A docker-image   *)
(* application never has one.                                              *)
Recorded(r) ==
  \/ run[r].pc \in {"pin", "check", "clone", "build", "plan", "push", "compose"}
  \/ FromGit /\ run[r].pc \in {"pull", "write", "up", "settle", "finish", "ok"}

Accidents == {"reused", "overlapped"}
Tainted(r) == \E fact \in Accidents : Fact(r, fact)

(* What a run has resolved, recorded and cloned.                           *)
Committed(r) ==
  /\ Remote(r) => BuildsImage
  /\ r \in Active => head \in history[r].heads \cup {NoCommit}
  /\ run[r].pc \in Unresolved => run[r].sha = NoCommit
  /\ run[r].sha # NoCommit => Seen(r, run[r].sha)
  /\ run[r].pc = "record" => run[r].sha \in Commits
  /\ run[r].pc \in {"auth", "resolve", "record"} \/ Recorded(r) => FromGit
  /\ Recorded(r) => run[r].sha \in Commits /\ recorded[DeploymentOf[r]] # NoCommit
  /\ run[r].pc \in {"push", "pull"} /\ FromGit => Remote(r)
  /\ run[r].pc \in {"check", "build", "plan", "push", "pull", "write", "up", "settle"} =>
       app.pack # "dockercompose"
  /\ run[r].pc = "compose" => app.pack = "dockercompose"
  /\ run[r].pc \in {"build", "plan", "compose"} => run[r].tree \in history[r].heads

(* Whoever runs beside another run has it in its history.                  *)
Overlaps == \A r, o \in Active : r # o => Fact(r, "overlapped")

(* The compose file is of a run that has resolved its commit; one about to *)
(* start its containers finds its own file or that of another run that     *)
(* was beside it.                                                          *)
Owns(o) ==
  o \in file.run =>
    /\ run[o].pc \in Written /\ app.pack # "dockercompose"
    /\ FromGit => run[o].sha \in Commits /\ file.tag = TagOf(o)
                  /\ recorded[DeploymentOf[o]] # NoCommit

Finds(r) == At(r, "up") => \A o \in file.run : o = r \/ Fact(o, "overlapped")

(* A local tag tells the commit; the one of the registry does so for a run *)
(* that met no accident.                                                   *)
LocalTagsTell == \A t \in LocalTags : images[0][t] # NoImage => images[0][t].told = t[2]

Tells(image, r) == image = NoImage \/ image.told = run[r].sha

Told(r) ==
  Remote(r) /\ ~Tainted(r) =>
    /\ At(r, "push") => Tells(images[run[r].site][RegistryTag], r)
    /\ run[r].pc \in {"pull", "write", "up"} => Tells(registry, r)
    /\ run[r].pc \in {"write", "up"} => Tells(images[0][RegistryTag], r)

ContainerTells(r) ==
  containers[r] # NoImage =>
    /\ run[r].pc \in Written
    /\ FromGit => /\ containers[r].told = run[r].sha \/ (Remote(r) /\ Tainted(r))
                  /\ recorded[DeploymentOf[r]] # NoCommit

(* A run that met no other: its commit is the one on record, and when it   *)
(* ends well it leaves nothing of the attempts before it.                  *)
Latest(r) ==
  FromGit /\ ~Fact(r, "overlapped") =>
    /\ Recorded(r) => recorded[DeploymentOf[r]] = run[r].sha
    /\ At(r, "up") => file.run = {r}
    /\ run[r].pc \in {"settle", "finish", "ok"} => file.run \cap Others(r) = {}
    /\ At(r, "settle") /\ Pull(r) # 0 => \A q \in Others(r) : containers[q] = NoImage
    /\ run[r].pc \in {"finish", "ok"} =>
         \A q \in Others(r) : q \notin Active /\ containers[q] = NoImage

(* A row names the commit of one of its attempts, and one of them ended    *)
(* well when it says so.                                                   *)
RowTells(d) ==
  /\ recorded[d] # NoCommit => \E r \in Runs : DeploymentOf[r] = d /\ recorded[d] = run[r].sha
  /\ status[d] = "finished" => \E r \in Runs : DeploymentOf[r] = d /\ At(r, "ok")

(* An image with files of another commit has a run to blame.               *)
Blamed(image) ==
  image.tree # image.told =>
    \E r \in Runs : /\ run[r].sha = image.told /\ run[r].sha # NoCommit
                    /\ image.tree \in history[r].heads

FilesBlamed ==
  FromGit => /\ Blamed(registry)
             /\ \A s \in Sites, t \in Tags : Blamed(images[s][t])

Kept(r) ==
  run[r].pc \in {"write", "up"} /\ ~Remote(r) /\ FromGit =>
    images[0][TagOf(r)] # NoImage \/ Fact(r, "pruned")

Closed(r) == At(r, "ok") => status[DeploymentOf[r]] # "open"

Sound(r) ==
  /\ Committed(r) /\ Owns(r) /\ Finds(r) /\ Told(r) /\ ContainerTells(r) /\ Kept(r)
  /\ Latest(r) /\ Closed(r)

Inv ==
  /\ TypeOK /\ Overlaps /\ LocalTagsTell /\ FilesBlamed
  /\ \A d \in Deployments : RowTells(d)
  /\ \A r \in Runs : Sound(r)

RunStates == [pc: RunPC, site: Sites, pin: Commits \cup {NoCommit},
              token: {"none", "live", "dead"},
              sha: Commits \cup {NoCommit}, tree: Commits \cup {NoCommit}]
Facts == {"blind", "reused", "overlapped", "pruned"}
Histories == [heads: SUBSET Commits, facts: SUBSET Facts]
Budgets == [pushes: 0..MaxPushes, prunes: 0..MaxPrunes, tokens: 0..MaxTokenLosses,
            deaths: 0..MaxDeaths, edits: 0..MaxEdits, all: 0..MaxEvents]

-----------------------------------------------------------------------------
(* The tags and the missing image.                                         *)
LEMMA TagFacts ==
  /\ RegistryTag \in Tags /\ RegistryTag \notin LocalTags
  /\ \A t \in Tags : t # RegistryTag => t \in LocalTags
  /\ LocalTags \subseteq Tags
  /\ \A t \in LocalTags : t[2] \in Commits
  /\ \A r \in Runs, c \in Commits : <<Pull(r), c>> \in LocalTags /\ <<Pull(r), c>>[2] = c
BY BuildsAssumption DEF Pull, RegistryTag, LocalTags, Tags, NoCommit, Commits

LEMMA ImageFacts ==
  /\ NoImage \in Images /\ NoImage.told = NoCommit /\ NoImage.tree = NoCommit
  /\ NoCommit \notin Commits
  /\ 0 \in Sites
BY BuildsAssumption DEF NoImage, Images, NoCommit, Commits, Sites

-----------------------------------------------------------------------------
(* How the parts of the state are typed after the usual assignments.       *)
LEMMA BudgetTyping ==
  ASSUME TypeOK, NEW what \in {"pushes", "prunes", "tokens", "deaths", "edits"}, Spend(what)
  PROVE  budget' \in Budgets
<1> USE BuildsAssumption
<1>1. budget \in Budgets /\ budget[what] > 0 /\ budget.all > 0
  BY DEF TypeOK, Budgets, Spend
<1>2. CASE what = "pushes"
  <2>1. budget' = [budget EXCEPT !.pushes = @ - 1, !.all = @ - 1]
    BY <1>2 DEF Spend
  <2>2. budget.pushes - 1 \in 0..MaxPushes /\ budget.all - 1 \in 0..MaxEvents
    BY <1>1, <1>2 DEF Budgets
  <2> QED BY <1>1, <2>1, <2>2 DEF Budgets
<1>3. CASE what = "prunes"
  <2>1. budget' = [budget EXCEPT !.prunes = @ - 1, !.all = @ - 1]
    BY <1>3 DEF Spend
  <2>2. budget.prunes - 1 \in 0..MaxPrunes /\ budget.all - 1 \in 0..MaxEvents
    BY <1>1, <1>3 DEF Budgets
  <2> QED BY <1>1, <2>1, <2>2 DEF Budgets
<1>4. CASE what = "tokens"
  <2>1. budget' = [budget EXCEPT !.tokens = @ - 1, !.all = @ - 1]
    BY <1>4 DEF Spend
  <2>2. budget.tokens - 1 \in 0..MaxTokenLosses /\ budget.all - 1 \in 0..MaxEvents
    BY <1>1, <1>4 DEF Budgets
  <2> QED BY <1>1, <2>1, <2>2 DEF Budgets
<1>5. CASE what = "deaths"
  <2>1. budget' = [budget EXCEPT !.deaths = @ - 1, !.all = @ - 1]
    BY <1>5 DEF Spend
  <2>2. budget.deaths - 1 \in 0..MaxDeaths /\ budget.all - 1 \in 0..MaxEvents
    BY <1>1, <1>5 DEF Budgets
  <2> QED BY <1>1, <2>1, <2>2 DEF Budgets
<1>6. CASE what = "edits"
  <2>1. budget' = [budget EXCEPT !.edits = @ - 1, !.all = @ - 1]
    BY <1>6 DEF Spend
  <2>2. budget.edits - 1 \in 0..MaxEdits /\ budget.all - 1 \in 0..MaxEvents
    BY <1>1, <1>6 DEF Budgets
  <2> QED BY <1>1, <2>1, <2>2 DEF Budgets
<1> QED BY <1>2, <1>3, <1>4, <1>5, <1>6

LEMMA Typed ==
  TypeOK <=> /\ app \in Apps
             /\ head \in Commits \cup {NoCommit} /\ commit \in Commits \cup {NoCommit}
             /\ recorded \in [Deployments -> Commits \cup {NoCommit}]
             /\ status \in [Deployments -> {"open", "finished", "failed"}]
             /\ usable \in SUBSET BuildServers /\ token \in {"none", "live", "dead"}
             /\ images \in [Sites -> [Tags -> Images]] /\ registry \in Images
             /\ file \in [run: SUBSET Runs, tag: Tags]
             /\ containers \in [Runs -> Images]
             /\ run \in [Runs -> RunStates]
             /\ history \in [Runs -> Histories] /\ budget \in Budgets
BY DEF TypeOK, RunStates, Histories, Facts, Budgets

LEMMA TypedNext ==
  TypeOK' <=> /\ app' \in Apps
              /\ head' \in Commits \cup {NoCommit} /\ commit' \in Commits \cup {NoCommit}
              /\ recorded' \in [Deployments -> Commits \cup {NoCommit}]
              /\ status' \in [Deployments -> {"open", "finished", "failed"}]
              /\ usable' \in SUBSET BuildServers /\ token' \in {"none", "live", "dead"}
              /\ images' \in [Sites -> [Tags -> Images]] /\ registry' \in Images
              /\ file' \in [run: SUBSET Runs, tag: Tags]
              /\ containers' \in [Runs -> Images]
              /\ run' \in [Runs -> RunStates]
              /\ history' \in [Runs -> Histories] /\ budget' \in Budgets
BY DEF TypeOK, RunStates, Histories, Facts, Budgets

LEMMA GotoTyping ==
  ASSUME TypeOK, NEW r \in Runs, NEW where \in RunPC, Goto(r, where)
  PROVE  /\ run' \in [Runs -> RunStates]
         /\ run'[r] = [run[r] EXCEPT !.pc = where]
         /\ run'[r].pc = where /\ run'[r].site = run[r].site
         /\ run'[r].sha = run[r].sha /\ run'[r].tree = run[r].tree
         /\ \A o \in Runs : o # r => run'[o] = run[o]
<1>1. run \in [Runs -> RunStates]
  BY Typed
<1>2. run' = [run EXCEPT ![r] = [run[r] EXCEPT !.pc = where]]
  BY <1>1 DEF Goto
<1> DEFINE s == [run[r] EXCEPT !.pc = where]
<1>3. /\ s \in RunStates /\ s.pc = where /\ s.site = run[r].site
      /\ s.sha = run[r].sha /\ s.tree = run[r].tree
  BY <1>1 DEF RunStates
<1>4. run' = [run EXCEPT ![r] = s]
  BY <1>2
<1>5. s = [run[r] EXCEPT !.pc = where]
  OBVIOUS
<1> HIDE DEF s
<1> QED BY <1>1, <1>3, <1>4, <1>5

LEMMA EndTyping ==
  ASSUME TypeOK, NEW r \in Runs, NEW how \in Over, End(r, how)
  PROVE  /\ run' \in [Runs -> RunStates]
         /\ run'[r].pc = how /\ run'[r].site = run[r].site /\ run'[r].sha = run[r].sha
         /\ \A o \in Runs : o # r => run'[o] = run[o]
<1>1. run \in [Runs -> RunStates]
  BY Typed
<1> DEFINE s == [run[r] EXCEPT !.pc = how, !.pin = NoCommit, !.token = "none",
                               !.tree = NoCommit]
<1>2. run' = [run EXCEPT ![r] = s]
  BY <1>1 DEF End
<1>3. s \in RunStates /\ s.pc = how /\ s.site = run[r].site /\ s.sha = run[r].sha
  BY <1>1 DEF RunStates, RunPC, Over
<1> HIDE DEF s
<1> QED BY <1>1, <1>2, <1>3

(* Histories only grow, except that of a run that begins.                  *)
GrowsFor(o) ==
  history[o].heads \subseteq history'[o].heads /\ history[o].facts \subseteq history'[o].facts
Grows == \A o \in Runs : run[o].pc # "queued" => GrowsFor(o)

LEMMA NoteTyping ==
  ASSUME TypeOK, NEW rs \in SUBSET Runs, NEW fact \in Facts, Note(rs, fact)
  PROVE  /\ history' \in [Runs -> Histories]
         /\ \A o \in Runs : GrowsFor(o) /\ (o \in rs => Fact(o, fact)')
         /\ Grows
<1>1. history \in [Runs -> Histories]
  BY Typed
<1>2. ASSUME NEW o \in Runs
      PROVE  history'[o] \in Histories /\ GrowsFor(o) /\ (o \in rs => Fact(o, fact)')
  <2>1. CASE o \in rs
    <3>1. history'[o] = [history[o] EXCEPT !.facts = @ \cup {fact}]
      BY <2>1 DEF Note
    <3> QED BY <3>1, <1>1, <2>1 DEF Histories, GrowsFor, Fact
  <2>2. CASE o \notin rs
    BY <2>2, <1>1 DEF Note, GrowsFor
  <2> QED BY <2>1, <2>2
<1> QED BY <1>1, <1>2 DEF Note, Grows

LEMMA SameHistory ==
  ASSUME UNCHANGED history
  PROVE  Grows /\ \A o \in Runs : GrowsFor(o)
BY DEF Grows, GrowsFor

-----------------------------------------------------------------------------
(* Blame, rows and overlaps stay where they are.                           *)
ShasStay == \A o \in Runs : run[o].sha # NoCommit => run'[o].sha = run[o].sha

LEMMA BlameRests ==
  ASSUME Inv, Grows, ShasStay
  PROVE  \A i \in Images : Blamed(i) => Blamed(i)'
<1>1. SUFFICES ASSUME NEW i \in Images, Blamed(i), i.tree # i.told
               PROVE  Blamed(i)'
  BY DEF Blamed
<1>2. PICK o \in Runs : /\ run[o].sha = i.told /\ run[o].sha # NoCommit
                        /\ i.tree \in history[o].heads
  BY <1>1 DEF Blamed
<1>3. run[o].pc # "queued"
  BY <1>2 DEF Inv, Sound, Committed, Unresolved
<1> QED BY <1>2, <1>3 DEF Blamed, Grows, GrowsFor, ShasStay

LEMMA FilesRest ==
  ASSUME Inv, Grows, ShasStay, app' = app, images' = images, registry' = registry
  PROVE  FilesBlamed'
<1>1. registry \in Images /\ \A s \in Sites, t \in Tags : images[s][t] \in Images
  BY Typed DEF Inv
<1>2. \A i \in Images : Blamed(i) => Blamed(i)'
  BY BlameRests
<1> QED BY <1>1, <1>2 DEF Inv, FilesBlamed, FromGit, Blamed

(* Two runs that are active know that they overlap.                        *)
LEMMA BothTainted ==
  ASSUME Inv, Grows, NEW r \in Active, NEW o \in Active, r # o
  PROVE  Tainted(o)' /\ Fact(o, "overlapped")'
BY DEF Inv, Overlaps, Grows, GrowsFor, Fact, Tainted, Accidents, Active

LEMMA OverlapsRest ==
  ASSUME Inv, Grows, Active' \subseteq Active
  PROVE  Overlaps'
BY DEF Inv, Overlaps, Grows, GrowsFor, Fact, Active

LEMMA RowsRest ==
  ASSUME Inv, ShasStay, \A o \in Runs : At(o, "ok") => At(o, "ok")',
         \A d \in Deployments :
           /\ recorded'[d] = recorded[d]
                \/ \E o \in Runs : DeploymentOf[o] = d /\ recorded'[d] = run'[o].sha
           /\ status'[d] = "finished" =>
                status[d] = "finished" \/ \E o \in Runs : DeploymentOf[o] = d /\ At(o, "ok")'
  PROVE  \A d \in Deployments : RowTells(d)'
<1>1. SUFFICES ASSUME NEW d \in Deployments
               PROVE  RowTells(d)'
  OBVIOUS
<1>2. RowTells(d)
  BY DEF Inv
<1>3. recorded'[d] # NoCommit => \E o \in Runs : DeploymentOf[o] = d /\ recorded'[d] = run'[o].sha
  BY <1>2 DEF RowTells, ShasStay
<1>4. status'[d] = "finished" => \E o \in Runs : DeploymentOf[o] = d /\ At(o, "ok")'
  BY <1>2 DEF RowTells
<1> QED BY <1>3, <1>4 DEF RowTells

(* The image that a run is about to start has a local tag.                 *)
LEMMA Tagged ==
  ASSUME Inv, NEW o \in Runs, run[o].pc \in {"write", "up"}, ~Remote(o), FromGit
  PROVE  TagOf(o) = <<Pull(o), run[o].sha>> /\ TagOf(o) \in LocalTags
                                           /\ run[o].sha \in Commits
BY TagFacts DEF Inv, Sound, Committed, Recorded, TagOf

-----------------------------------------------------------------------------
(* A run that does not act keeps what is its own.                          *)
Rests(o) ==
  /\ run'[o].pc = run[o].pc /\ run'[o].site = run[o].site
  /\ run'[o].sha = run[o].sha /\ run'[o].tree = run[o].tree
  /\ GrowsFor(o)

LEMMA RestFacts ==
  ASSUME app' = app, NEW o \in Runs, Rests(o)
  PROVE  /\ Remote(o)' = Remote(o) /\ TagOf(o)' = TagOf(o) /\ FromGit' = FromGit
         /\ BuildsImage' = BuildsImage /\ (o \in Active)' = (o \in Active)
         /\ Recorded(o)' = Recorded(o) /\ \A p \in STRING : At(o, p)' = At(o, p)
         /\ \A f \in Facts : Fact(o, f) => Fact(o, f)'
         /\ Tainted(o) => Tainted(o)'
BY DEF Rests, GrowsFor, Fact, Remote, TagOf, FromGit, BuildsImage, Active, Recorded, At, Tainted,
       Accidents, Facts

LEMMA CommittedRests ==
  ASSUME Inv, app' = app, NEW o \in Runs, Rests(o),
         o \in Active => head' \in history'[o].heads \cup {NoCommit},
         recorded[DeploymentOf[o]] # NoCommit => recorded'[DeploymentOf[o]] # NoCommit
  PROVE  Committed(o)'
<1>1. Committed(o)
  BY DEF Inv, Sound
<1>2. Seen(o, run[o].sha) => Seen(o, run[o].sha)'
  BY RestFacts DEF Seen, Facts, Rests, GrowsFor
<1>3. run[o].tree \in history[o].heads => run'[o].tree \in history'[o].heads
  BY DEF Rests, GrowsFor
<1>4. run'[o].sha = run[o].sha /\ run'[o].pc = run[o].pc
  BY DEF Rests
<1> QED
  BY <1>1, <1>2, <1>3, <1>4, RestFacts DEF Committed, Seen

LEMMA ContainerRests ==
  ASSUME Inv, app' = app, NEW o \in Runs, Rests(o),
         containers'[o] \in {containers[o], NoImage},
         recorded[DeploymentOf[o]] # NoCommit => recorded'[DeploymentOf[o]] # NoCommit
  PROVE  ContainerTells(o)'
<1>1. ContainerTells(o)
  BY DEF Inv, Sound
<1> QED
  BY <1>1, RestFacts DEF ContainerTells, Rests

LEMMA KeptRests ==
  ASSUME Inv, app' = app, NEW o \in Runs, Rests(o),
         (run[o].pc \in {"write", "up"} /\ ~Remote(o) /\ FromGit /\ images[0][TagOf(o)] # NoImage) =>
           images'[0][TagOf(o)] # NoImage \/ Fact(o, "pruned")'
  PROVE  Kept(o)'
<1>1. SUFFICES ASSUME run'[o].pc \in {"write", "up"}, ~Remote(o)', FromGit'
               PROVE  images'[0][TagOf(o)'] # NoImage \/ Fact(o, "pruned")'
  BY DEF Kept
<1>2. run[o].pc \in {"write", "up"}
  BY <1>1 DEF Rests
<1>3. images[0][TagOf(o)] # NoImage \/ Fact(o, "pruned")
  BY <1>1, <1>2, RestFacts DEF Inv, Sound, Kept
<1> QED BY <1>1, <1>2, <1>3, RestFacts DEF Facts

-----------------------------------------------------------------------------
(* A step of an active run, seen from another one: one that is active, too,*)
(* knows of it; one that is over is kept from it by the end of the         *)
(* deployment.                                                             *)
Acts(r) ==
  /\ \A o \in Runs : o # r => run'[o] = run[o]
  /\ run'[r].pc # "queued"
  /\ run[r].sha # NoCommit => run'[r].sha = run[r].sha
  /\ app' = app /\ head' = head
  /\ file' = file \/ file'.run = {r}
  /\ \A d \in Deployments :
       /\ d # DeploymentOf[r] => recorded'[d] = recorded[d]
       /\ recorded'[d] = recorded[d] \/ (recorded'[d] = run'[r].sha /\ run'[r].sha # NoCommit)
       /\ status[d] # "open" => status'[d] = status[d]
       /\ status'[d] = "finished" =>
            status[d] = "finished" \/ (d = DeploymentOf[r] /\ run'[r].pc = "ok")
  /\ \A o \in Runs : o # r =>
       containers'[o] \in {containers[o], NoImage} \/ (o \in file.run /\ ContainerTells(o)')
  /\ \A t \in LocalTags : images[0][t] # NoImage => images'[0][t] # NoImage

LEMMA LatestBeside ==
  ASSUME Inv, Grows, NEW r \in Active, Acts(r), NEW o \in Runs, o # r, Rests(o)
  PROVE  Latest(o)'
<1>1. Latest(o) /\ Closed(o) /\ DeploymentOf[o] \in Deployments /\ DeploymentOf[r] \in Deployments
  BY BuildsAssumption DEF Inv, Sound, Active
<1>2. CASE o \in Active
  <2>1. Fact(o, "overlapped")'
    BY <1>2, BothTainted
  <2> QED BY <2>1 DEF Latest
<1>3. CASE run[o].pc # "ok" /\ o \notin Active
  <2>1. run[o].pc \in {"queued", "failed", "dead"}
    BY <1>3 DEF Active, Over
  <2>2. run'[o].pc \in {"queued", "failed", "dead"}
    BY <2>1 DEF Rests
  <2> QED BY <2>2 DEF Latest, Recorded, At
<1>4. CASE run[o].pc = "ok"
  <2>1. SUFFICES ASSUME FromGit, ~Fact(o, "overlapped")
                 PROVE  /\ recorded'[DeploymentOf[o]] = run[o].sha
                        /\ file'.run \cap Others(o) = {}
                        /\ \A q \in Others(o) : q \notin Active' /\ containers'[q] = NoImage
    <3>1. run'[o].pc = "ok" /\ run'[o].sha = run[o].sha
      BY <1>4 DEF Rests
    <3>2. Others(o)' = Others(o) /\ FromGit' = FromGit /\ (Fact(o, "overlapped") => Fact(o, "overlapped")')
      BY RestFacts DEF Others, Acts, Facts
    <3> QED BY <2>1, <3>1, <3>2 DEF Latest, At
  <2>2. /\ recorded[DeploymentOf[o]] = run[o].sha /\ file.run \cap Others(o) = {}
        /\ \A q \in Others(o) : q \notin Active /\ containers[q] = NoImage
    BY <1>1, <1>4, <2>1 DEF Latest, Recorded
  <2>3. r \notin Others(o) /\ DeploymentOf[r] # DeploymentOf[o]
    BY <2>2 DEF Others, Active
  <2>4. recorded'[DeploymentOf[o]] = run[o].sha
    BY <1>1, <2>2, <2>3 DEF Acts
  <2>5. file'.run \cap Others(o) = {}
    BY <2>2, <2>3 DEF Acts
  <2>6. ASSUME NEW q \in Others(o)
        PROVE  q \notin Active' /\ containers'[q] = NoImage
    <3>1. q \in Runs /\ q # r /\ q \notin file.run /\ q \notin Active /\ containers[q] = NoImage
      BY <2>2, <2>3 DEF Others
    <3> QED BY <3>1 DEF Acts, Active
  <2> QED BY <2>4, <2>5, <2>6
<1> QED BY <1>2, <1>3, <1>4 DEF Active, Over

LEMMA Beside ==
  ASSUME Inv, Grows, NEW r \in Active, Acts(r), NEW o \in Runs, o # r, Rests(o)
  PROVE  Sound(o)'
<1>1. /\ Sound(o) /\ TypeOK /\ app' = app /\ file.run \subseteq Runs
      /\ DeploymentOf[o] \in Deployments
  BY Typed, BuildsAssumption DEF Inv, Acts
<1>2. recorded[DeploymentOf[o]] # NoCommit => recorded'[DeploymentOf[o]] # NoCommit
  BY <1>1 DEF Acts
<1>3. Committed(o)'
  <2>1. o \in Active => head' \in history'[o].heads \cup {NoCommit}
    BY <1>1 DEF Acts, Sound, Committed, Rests, GrowsFor
  <2> QED BY <1>1, <1>2, <2>1, CommittedRests
<1>4. Owns(o)'
  <2>1. SUFFICES ASSUME o \in file'.run
                 PROVE  Owns(o)'
    BY DEF Owns
  <2>2. file' = file
    BY <2>1 DEF Acts
  <2> QED BY <1>1, <1>2, <2>2, RestFacts DEF Owns, Sound, Rests
<1>5. Finds(o)'
  <2>1. SUFFICES ASSUME At(o, "up")', NEW p \in file'.run, p # o
                 PROVE  Fact(p, "overlapped")'
    BY DEF Finds
  <2>2. o \in Active /\ At(o, "up")
    BY <2>1 DEF At, Rests, Active, Over
  <2>3. CASE file' = file
    <3>1. p \in Runs /\ Fact(p, "overlapped")
      BY <1>1, <2>1, <2>2, <2>3 DEF Sound, Finds
    <3>2. run[p].pc # "queued"
      BY <2>1, <2>3, <3>1 DEF Inv, Sound, Owns, Written
    <3> QED BY <3>1, <3>2 DEF Grows, GrowsFor, Fact
  <2>4. CASE file'.run = {r}
    BY <2>1, <2>2, <2>4, BothTainted DEF Active
  <2> QED BY <2>3, <2>4 DEF Acts
<1>6. Told(o)'
  <2>1. o \in Active => Tainted(o)'
    BY BothTainted
  <2>2. o \notin Active => run'[o].pc \notin {"push", "pull", "write", "up"}
    BY DEF Active, Over, Rests
  <2> QED BY <2>1, <2>2 DEF Told, At
<1>7. ContainerTells(o)'
  BY <1>1, <1>2, ContainerRests DEF Acts
<1>8. Kept(o)'
  BY <1>1, KeptRests, Tagged DEF Acts
<1>9. Latest(o)'
  BY LatestBeside
<1>10. Closed(o)'
  BY <1>1 DEF Acts, Sound, Closed, At, Rests
<1> QED
  BY <1>3, <1>4, <1>5, <1>6, <1>7, <1>8, <1>9, <1>10 DEF Sound

LEMMA Acting ==
  ASSUME Inv, TypeOK', Grows, NEW r \in Active, Acts(r), Sound(r)', LocalTagsTell', FilesBlamed'
  PROVE  Inv'
<1>1. r \in Runs /\ Active' \subseteq Active
  BY DEF Active, Acts
<1>2. ASSUME NEW o \in Runs
      PROVE  Sound(o)'
  <2>1. CASE run[o].pc = "queued" /\ o # r
    <3>1. /\ run'[o] = run[o] /\ FromGit' = FromGit /\ o \notin Active /\ o \notin Active'
          /\ DeploymentOf[o] \in Deployments /\ Sound(o)
      BY <2>1, BuildsAssumption DEF Acts, FromGit, Active, Inv
    <3>2. o \notin file'.run /\ containers'[o] = NoImage
      BY <2>1, <3>1 DEF Acts, Sound, Owns, ContainerTells, Written
    <3> QED
      BY <2>1, <3>1, <3>2 DEF Sound, Committed, Owns, Finds, Told, ContainerTells, Kept, Latest, Closed,
              Remote, BuildsImage, Recorded, At, Unresolved, Written, Acts
  <2>2. CASE run[o].pc # "queued" /\ o # r
    <3>1. Rests(o)
      BY <2>2, <1>2 DEF Rests, Grows, Acts
    <3> QED BY <2>2, <3>1, Beside
  <2> QED BY <2>1, <2>2
<1>3. ShasStay
  BY DEF ShasStay, Acts
<1>4. \A d \in Deployments : RowTells(d)'
  <2>1. \A o \in Runs : At(o, "ok") => At(o, "ok")'
    BY DEF Acts, At, Active, Over
  <2> QED BY <1>1, <1>3, <2>1, RowsRest DEF Acts, At
<1>5. Overlaps'
  BY <1>1, OverlapsRest
<1> QED BY <1>2, <1>4, <1>5 DEF Inv

(* The step of a run that has not written the compose file yet, and has    *)
(* not started a container.                                                *)
Inside == {"auth", "resolve", "record", "pin", "check", "clone", "build", "plan", "push",
           "pull", "compose", "write"}

LEMMA Alone ==
  ASSUME Inv, TypeOK', NEW r \in Runs, run[r].pc \in Inside, run'[r].pc \in Inside \cup {"abort"},
         \A o \in Runs : o # r => run'[o] = run[o],
         run[r].sha # NoCommit => run'[r].sha = run[r].sha,
         \A d \in Deployments :
           /\ d # DeploymentOf[r] => recorded'[d] = recorded[d]
           /\ recorded'[d] = recorded[d] \/ (recorded'[d] = run'[r].sha /\ run'[r].sha # NoCommit),
         Grows, UNCHANGED <<app, head, status, file, containers>>,
         \A t \in LocalTags : images[0][t] # NoImage => images'[0][t] # NoImage,
         Committed(r)', Told(r)', Kept(r)', LocalTagsTell', FilesBlamed',
         Fact(r, "overlapped")' \/ (Recorded(r)' => recorded'[DeploymentOf[r]] = run'[r].sha)
  PROVE  Inv'
<1>1. r \in Active
  BY DEF Inside, Active, Over
<1>2. Acts(r)
  BY DEF Acts, Inside
<1>3. r \notin file.run /\ containers[r] = NoImage
  BY DEF Inv, Sound, Owns, ContainerTells, Inside, Written
<1>4. Owns(r)' /\ Finds(r)' /\ ContainerTells(r)' /\ Closed(r)'
  BY <1>3 DEF Owns, Finds, At, ContainerTells, Closed, Inside
<1>5. Latest(r)'
  BY DEF Latest, At, Inside
<1> QED BY <1>1, <1>2, <1>4, <1>5, Acting DEF Sound
-----------------------------------------------------------------------------
(* The steps from the access token to the pulled image.                    *)
LEMMA AuthInv ==
  ASSUME Inv, NEW r \in Runs, Auth(r)
  PROVE  Inv'
<1> USE DEF Auth, remote, rows, At
<1>1. /\ run' \in [Runs -> RunStates] /\ run'[r].pc = "resolve" /\ run'[r].site = run[r].site
      /\ run'[r].sha = run[r].sha
      /\ run[r].pc = "auth" /\ \A o \in Runs : o # r => run'[o] = run[o]
      /\ token' \in {"none", "live", "dead"}
  <2>1. CASE app.source = "public"
    BY <2>1, GotoTyping, Typed DEF Inv, RunPC
  <2>2. CASE app.source # "public"
    <3>1. run \in [Runs -> RunStates] /\ InstallationToken \in {"none", "live", "dead"}
      BY Typed DEF Inv, InstallationToken
    <3> DEFINE s == [run[r] EXCEPT !.pc = "resolve", !.token = InstallationToken]
    <3>2. run' = [run EXCEPT ![r] = s] /\ token' = InstallationToken
      BY <2>2, <3>1
    <3>3. s \in RunStates /\ s.pc = "resolve" /\ s.site = run[r].site /\ s.sha = run[r].sha
      BY <3>1 DEF RunStates, RunPC
    <3> HIDE DEF s
    <3> QED BY <3>1, <3>2, <3>3
  <2> QED BY <2>1, <2>2
<1>2. TypeOK'
  BY <1>1, Typed, TypedNext DEF Inv
<1>3. Grows /\ GrowsFor(r)
  BY SameHistory
<1>4. Committed(r)'
  BY <1>1, <1>3 DEF Inv, Sound, Committed, Recorded, Remote, BuildsImage, Active, Over,
                    Unresolved, Seen, GrowsFor, FromGit
<1>5. Told(r)' /\ Kept(r)'
  BY <1>1 DEF Told, Kept
<1>6. LocalTagsTell' /\ FilesBlamed'
  BY <1>1, <1>3, FilesRest DEF Inv, LocalTagsTell, ShasStay
<1> QED
  BY <1>1, <1>2, <1>3, <1>4, <1>5, <1>6, Alone DEF Inside, Recorded

(* A run resolves the commit sha.                                          *)
LEMMA ShaTyping ==
  ASSUME TypeOK, NEW r \in Runs, NEW sha \in Commits \cup {NoCommit}, NEW where \in RunPC,
         run' = [run EXCEPT ![r].pc = where, ![r].sha = sha]
  PROVE  /\ run' \in [Runs -> RunStates] /\ run'[r].pc = where /\ run'[r].sha = sha
         /\ run'[r].site = run[r].site /\ \A o \in Runs : o # r => run'[o] = run[o]
<1>1. run \in [Runs -> RunStates]
  BY Typed
<1> DEFINE s == [run[r] EXCEPT !.pc = where, !.sha = sha]
<1>2. run' = [run EXCEPT ![r] = s]
  BY <1>1
<1>3. s \in RunStates /\ s.pc = where /\ s.sha = sha /\ s.site = run[r].site
  BY <1>1 DEF RunStates
<1> HIDE DEF s
<1> QED BY <1>1, <1>2, <1>3

LEMMA ResolveInv ==
  ASSUME Inv, NEW r \in Runs, Resolve(r)
  PROVE  Inv'
<1> USE DEF remote, rows, At
<1>1. run[r].pc = "resolve" /\ run' = [run EXCEPT ![r].pc = "record", ![r].sha = head]
  BY DEF Resolve
<1>2. head \in Commits /\ "record" \in RunPC
  BY Typed DEF Inv, RunPC, Resolve
<1>3. /\ run' \in [Runs -> RunStates] /\ run'[r].pc = "record" /\ run'[r].sha = head
      /\ run'[r].site = run[r].site /\ \A o \in Runs : o # r => run'[o] = run[o]
  BY <1>1, <1>2, ShaTyping DEF Inv
<1>4. TypeOK'
  BY <1>3, Typed, TypedNext DEF Inv, Resolve
<1>5. Grows /\ GrowsFor(r)
  BY SameHistory DEF Resolve
<1>6. run[r].sha = NoCommit
  BY <1>1 DEF Inv, Sound, Committed, Unresolved
<1>7. Committed(r)' /\ ~Recorded(r)'
  BY <1>1, <1>2, <1>3, ImageFacts DEF Inv, Sound, Committed, Resolve, Recorded, Remote, BuildsImage,
     Active, Over, Unresolved, Seen, FromGit
<1>8. Told(r)' /\ Kept(r)'
  BY <1>3 DEF Told, Kept
<1>9. LocalTagsTell' /\ FilesBlamed'
  BY <1>3, <1>5, <1>6, FilesRest DEF Inv, LocalTagsTell, Resolve, ShasStay
<1> QED
  BY <1>1, <1>3, <1>4, <1>5, <1>6, <1>7, <1>8, <1>9, Alone DEF Inside, Resolve

LEMMA ResolveBlindInv ==
  ASSUME Inv, NEW r \in Runs, ResolveBlind(r)
  PROVE  Inv'
<1> USE DEF remote, rows, At
<1> DEFINE where == IF run[r].pin = NoCommit THEN "abort" ELSE "record"
<1>1. run[r].pc = "resolve" /\ Note({r}, "blind")
  BY DEF ResolveBlind
<1>2. run' = [run EXCEPT ![r].pc = where, ![r].sha = run[r].pin]
  <2>1. run \in [Runs -> RunStates]
    BY Typed DEF Inv
  <2> QED BY <2>1 DEF ResolveBlind
<1>3. where \in RunPC /\ run[r].pin \in Commits \cup {NoCommit}
      /\ where \in {"abort", "record"} /\ (where = "record" => run[r].pin \in Commits)
  BY Typed DEF Inv, RunPC, Over, RunStates
<1> HIDE DEF where
<1>4. /\ run' \in [Runs -> RunStates] /\ run'[r].pc = where /\ run'[r].sha = run[r].pin
      /\ run'[r].site = run[r].site /\ \A o \in Runs : o # r => run'[o] = run[o]
  BY <1>2, <1>3, ShaTyping DEF Inv
<1>5. history' \in [Runs -> Histories] /\ Grows /\ GrowsFor(r) /\ Fact(r, "blind")'
  BY <1>1, NoteTyping DEF Inv, Facts
<1>6. TypeOK'
  BY <1>4, <1>5, Typed, TypedNext DEF Inv, ResolveBlind
<1>7. run[r].sha = NoCommit
  BY <1>1 DEF Inv, Sound, Committed, Unresolved
<1>8. Committed(r)' /\ ~Recorded(r)'
  BY <1>1, <1>3, <1>4, <1>5, <1>7, ImageFacts DEF Inv, Sound, Committed, ResolveBlind, Recorded, Remote,
     BuildsImage, Active, Over, Unresolved, Seen, GrowsFor, FromGit
<1>9. Told(r)' /\ Kept(r)'
  BY <1>3, <1>4 DEF Told, Kept
<1>10. LocalTagsTell' /\ FilesBlamed'
  BY <1>4, <1>5, <1>7, FilesRest DEF Inv, LocalTagsTell, ResolveBlind, ShasStay
<1> QED
  BY <1>1, <1>3, <1>4, <1>5, <1>6, <1>7, <1>8, <1>9, <1>10, Alone DEF Inside, ResolveBlind

LEMMA RecordInv ==
  ASSUME Inv, NEW r \in Runs, Record(r)
  PROVE  Inv'
<1> USE DEF remote, rows, At
<1>1. /\ run' \in [Runs -> RunStates] /\ run'[r].pc = "pin" /\ run'[r].site = run[r].site
      /\ run'[r].sha = run[r].sha /\ \A o \in Runs : o # r => run'[o] = run[o]
  BY GotoTyping DEF Inv, Record, RunPC
<1>2. run[r].pc = "record" /\ run[r].sha \in Commits /\ DeploymentOf[r] \in Deployments
  BY BuildsAssumption DEF Inv, Sound, Committed, Record
<1>3. /\ recorded' \in [Deployments -> Commits \cup {NoCommit}]
      /\ recorded'[DeploymentOf[r]] = run[r].sha
      /\ \A d \in Deployments : d # DeploymentOf[r] => recorded'[d] = recorded[d]
  BY <1>2, Typed DEF Inv, Record
<1>4. TypeOK'
  BY <1>1, <1>3, Typed, TypedNext DEF Inv, Record
<1>5. Grows /\ GrowsFor(r)
  BY SameHistory DEF Record
<1>6. Committed(r)'
  BY <1>1, <1>2, <1>3, ImageFacts DEF Inv, Sound, Committed, Record, Recorded, Remote, BuildsImage,
     Active, Over, Unresolved, FromGit, Fact, Seen
<1>7. Told(r)' /\ Kept(r)'
  BY <1>1 DEF Told, Kept
<1>8. LocalTagsTell' /\ FilesBlamed'
  BY <1>1, <1>5, FilesRest DEF Inv, LocalTagsTell, Record, ShasStay
<1> QED
  BY <1>1, <1>2, <1>3, <1>4, <1>5, <1>6, <1>7, <1>8, ImageFacts, Alone DEF Inside, Record

(* A run without an accident goes on with the commit that it has recorded. *)
LEMMA StillLatest ==
  ASSUME Inv, NEW r \in Runs, Recorded(r), GrowsFor(r)
  PROVE  Fact(r, "overlapped")' \/ recorded[DeploymentOf[r]] = run[r].sha
BY DEF Inv, Sound, Latest, Recorded, Fact, GrowsFor, FromGit, Committed

LEMMA PinInv ==
  ASSUME Inv, NEW r \in Runs, Pin(r)
  PROVE  Inv'
<1> USE DEF remote, rows, At
<1> DEFINE where == IF app.pack = "dockercompose" THEN "clone" ELSE "check"
<1>1. where \in {"clone", "check"} /\ Goto(r, where)
      /\ (where = "check" => app.pack # "dockercompose")
  BY DEF Pin
<1> HIDE DEF where
<1>2. /\ run' \in [Runs -> RunStates] /\ run'[r].pc = where /\ run'[r].site = run[r].site
      /\ run'[r].sha = run[r].sha /\ \A o \in Runs : o # r => run'[o] = run[o]
  BY <1>1, GotoTyping DEF Inv, RunPC
<1>3. run[r].pc = "pin" /\ run[r].sha \in Commits /\ Recorded(r)
  BY DEF Inv, Sound, Committed, Pin, Recorded
<1>4. TypeOK'
  BY <1>2, <1>3, Typed, TypedNext DEF Inv, Pin
<1>5. Grows /\ GrowsFor(r)
  BY SameHistory DEF Pin
<1>6. Committed(r)'
  BY <1>1, <1>2, <1>3 DEF Inv, Sound, Committed, Pin, Recorded, Remote, BuildsImage, Active, Over,
                    Unresolved, FromGit, Fact, Seen
<1>7. Told(r)' /\ Kept(r)'
  BY <1>1, <1>2 DEF Told, Kept
<1>8. LocalTagsTell' /\ FilesBlamed'
  BY <1>2, <1>5, FilesRest DEF Inv, LocalTagsTell, Pin, ShasStay
<1> QED
  BY <1>1, <1>2, <1>3, <1>4, <1>5, <1>6, <1>7, <1>8, StillLatest, Alone DEF Inside, Pin

LEMMA SkipBuildInv ==
  ASSUME Inv, NEW r \in Runs, SkipBuild(r)
  PROVE  Inv'
<1> USE DEF remote, rows, At
<1> DEFINE there == DeploymentOf[r] \notin Forced /\ images[run[r].site][TagOf(r)] # NoImage
           where == IF there THEN AfterImage(r) ELSE "clone"
<1>1. /\ run[r].pc = "check" /\ Goto(r, where)
      /\ IF there THEN Note({r}, "reused") ELSE UNCHANGED history
  BY DEF SkipBuild
<1>2. /\ where \in {"push", "write", "clone"}
      /\ where = "push" => there /\ Remote(r)
      /\ where = "write" => there /\ ~Remote(r)
  BY DEF AfterImage
<1>3. there => images[run[r].site][TagOf(r)] # NoImage
  OBVIOUS
<1> HIDE DEF there, where
<1>4. /\ run' \in [Runs -> RunStates] /\ run'[r].pc = where /\ run'[r].site = run[r].site
      /\ run'[r].sha = run[r].sha /\ \A o \in Runs : o # r => run'[o] = run[o]
  BY <1>1, <1>2, GotoTyping DEF Inv, RunPC
<1>5. /\ history' \in [Runs -> Histories] /\ Grows /\ GrowsFor(r)
      /\ there => Fact(r, "reused")'
  BY <1>1, NoteTyping, SameHistory, Typed DEF Inv, Facts
<1>6. TypeOK'
  BY <1>4, <1>5, Typed, TypedNext DEF Inv, SkipBuild
<1>7. Committed(r)'
  BY <1>1, <1>2, <1>4, <1>5 DEF Inv, Sound, Committed, SkipBuild, Recorded, Remote, BuildsImage, Active,
                    Over, Unresolved, Seen, FromGit, Fact, GrowsFor
<1>8. Told(r)'
  <2>1. CASE where = "push"
    BY <1>2, <1>5, <2>1 DEF Told, Tainted, Accidents
  <2>2. CASE where # "push"
    BY <1>2, <1>4, <2>2 DEF Told, Remote
  <2> QED BY <2>1, <2>2
<1>9. Kept(r)'
  <2>1. CASE where = "write"
    BY <1>2, <1>3, <1>4, <2>1 DEF Kept, Remote, TagOf, SkipBuild
  <2>2. CASE where # "write"
    BY <1>2, <1>4, <2>2 DEF Kept
  <2> QED BY <2>1, <2>2
<1>10. LocalTagsTell' /\ FilesBlamed'
  BY <1>4, <1>5, FilesRest DEF Inv, LocalTagsTell, SkipBuild, ShasStay
<1>11. Recorded(r)
  BY <1>1 DEF Recorded
<1> QED
  BY <1>1, <1>2, <1>4, <1>5, <1>6, <1>7, <1>8, <1>9, <1>10, <1>11, StillLatest, Alone DEF Inside, SkipBuild

LEMMA CloneInv ==
  ASSUME Inv, NEW r \in Runs, Clone(r)
  PROVE  Inv'
<1> USE DEF remote, rows, At
<1> DEFINE where == IF app.pack = "dockercompose" THEN "compose" ELSE "build"
           s == [run[r] EXCEPT !.tree = head, !.pc = where]
<1>1. run \in [Runs -> RunStates] /\ head \in Commits
  BY Typed DEF Inv, Clone
<1>2. where \in {"compose", "build"} /\ run[r].pc = "clone"
      /\ (where = "build" => app.pack # "dockercompose") /\ run' = [run EXCEPT ![r] = s]
  BY <1>1 DEF Clone
<1> HIDE DEF where
<1>3. s \in RunStates /\ s.pc = where /\ s.site = run[r].site /\ s.sha = run[r].sha /\ s.tree = head
  BY <1>1, <1>2 DEF RunStates, RunPC
<1> HIDE DEF s
<1>4. /\ run' \in [Runs -> RunStates] /\ run'[r].pc = where /\ run'[r].site = run[r].site
      /\ run'[r].sha = run[r].sha /\ run'[r].tree = head
      /\ \A o \in Runs : o # r => run'[o] = run[o]
  BY <1>1, <1>2, <1>3
<1>5. TypeOK'
  BY <1>4, Typed, TypedNext DEF Inv, Clone
<1>6. Grows /\ GrowsFor(r)
  BY SameHistory DEF Clone
<1>7. Committed(r)'
  BY <1>2, <1>4 DEF Inv, Sound, Committed, Clone, Recorded, Remote, BuildsImage, Active, Over,
                    Unresolved, Seen, FromGit, Fact
<1>8. Told(r)' /\ Kept(r)'
  BY <1>2, <1>4 DEF Told, Kept
<1>9. LocalTagsTell' /\ FilesBlamed'
  BY <1>4, <1>6, FilesRest DEF Inv, LocalTagsTell, Clone, ShasStay
<1>10. Recorded(r)
  BY <1>2 DEF Recorded
<1> QED
  BY <1>2, <1>4, <1>5, <1>6, <1>7, <1>8, <1>9, <1>10, StillLatest, Alone DEF Inside, Clone

LEMMA PrepareRailpackInv ==
  ASSUME Inv, NEW r \in Runs, PrepareRailpack(r)
  PROVE  Inv'
<1> USE DEF remote, rows, At
<1>1. /\ run' \in [Runs -> RunStates] /\ run'[r].pc = "plan" /\ run'[r].site = run[r].site
      /\ run'[r].sha = run[r].sha /\ run'[r].tree = run[r].tree
      /\ run[r].pc = "build" /\ \A o \in Runs : o # r => run'[o] = run[o]
  BY GotoTyping DEF Inv, PrepareRailpack, RunPC
<1>2. TypeOK'
  BY <1>1, Typed, TypedNext DEF Inv, PrepareRailpack
<1>3. Grows /\ GrowsFor(r)
  BY SameHistory DEF PrepareRailpack
<1>4. Committed(r)'
  BY <1>1 DEF Inv, Sound, Committed, PrepareRailpack, Recorded, Remote, BuildsImage, Active, Over,
                    Unresolved, Seen, FromGit, Fact
<1>5. Told(r)' /\ Kept(r)'
  BY <1>1 DEF Told, Kept
<1>6. LocalTagsTell' /\ FilesBlamed'
  BY <1>1, <1>3, FilesRest DEF Inv, LocalTagsTell, PrepareRailpack, ShasStay
<1>7. Recorded(r)
  BY <1>1 DEF Recorded
<1> QED
  BY <1>1, <1>2, <1>3, <1>4, <1>5, <1>6, <1>7, StillLatest, Alone DEF Inside, PrepareRailpack

(* What a build makes is told the commit that was resolved, and has files  *)
(* of a head that its run has seen.                                        *)
LEMMA TagBuiltInv ==
  ASSUME Inv, NEW r \in Runs, run[r].pc \in {"build", "plan"}, TagBuilt(r)
  PROVE  Inv'
<1> USE DEF remote, rows, At
<1>1. /\ run[r] \in RunStates /\ run[r].sha \in Commits /\ Recorded(r)
      /\ run[r].tree \in history[r].heads /\ run[r].site \in Sites
      /\ images \in [Sites -> [Tags -> Images]]
  <2>1. Committed(r) /\ TypeOK
    BY DEF Inv, Sound
  <2> QED BY <2>1, Typed DEF Committed, Recorded, RunStates
<1>2. Built(r) \in Images /\ Built(r).told = run[r].sha /\ Built(r).tree = run[r].tree
      /\ Built(r) # NoImage
  BY <1>1, ImageFacts DEF Built, SourceCommit, Images, RunStates
<1>3. TagOf(r) \in Tags /\ (~Remote(r) => TagOf(r) \in LocalTags /\ TagOf(r)[2] = run[r].sha)
      /\ (Remote(r) => TagOf(r) = RegistryTag)
  BY <1>1, TagFacts DEF TagOf
<1>4. /\ images' \in [Sites -> [Tags -> Images]]
      /\ images'[run[r].site][TagOf(r)] = Built(r)
      /\ \A s \in Sites, t \in Tags : s # run[r].site \/ t # TagOf(r) =>
           images'[s][t] = images[s][t]
  <2>1. images' = [images EXCEPT ![run[r].site][TagOf(r)] = Built(r)]
    BY DEF TagBuilt
  <2> HIDE DEF TagBuilt
  <2> QED BY <1>1, <1>2, <1>3, <2>1
<1> DEFINE where == AfterImage(r)
<1>5. /\ Goto(r, where) /\ where \in {"push", "write"}
      /\ where = "push" <=> Remote(r)
  BY DEF TagBuilt, AfterImage
<1> HIDE DEF where
<1>6. /\ run' \in [Runs -> RunStates] /\ run'[r].pc = where /\ run'[r].site = run[r].site
      /\ run'[r].sha = run[r].sha /\ \A o \in Runs : o # r => run'[o] = run[o]
  BY <1>5, GotoTyping DEF Inv, RunPC
<1>7. TypeOK'
  BY <1>4, <1>6, Typed, TypedNext DEF Inv, TagBuilt
<1>8. Grows /\ GrowsFor(r)
  BY SameHistory DEF TagBuilt
<1>9. Committed(r)'
  BY <1>1, <1>5, <1>6 DEF Inv, Sound, Committed, TagBuilt, Recorded, Remote, BuildsImage, Active, Over,
                    Unresolved, Seen, FromGit, Fact
<1>10. Told(r)'
  BY <1>2, <1>3, <1>4, <1>5, <1>6 DEF Told, Tells, Remote
<1>11. Kept(r)'
  BY <1>2, <1>3, <1>4, <1>5, <1>6 DEF Kept, Remote, TagOf
<1>12. LocalTagsTell'
  BY <1>1, <1>2, <1>3, <1>4, TagFacts, ImageFacts DEF Inv, LocalTagsTell, Remote
<1>13. FilesBlamed'
  <2>1. \A i \in Images : Blamed(i) => Blamed(i)'
    BY <1>6, <1>8, BlameRests DEF ShasStay
  <2>2. ShasStay /\ history' = history /\ app' = app /\ registry' = registry
        /\ registry \in Images
    BY <1>6, Typed DEF TagBuilt, Inv, ShasStay
  <2>3. SUFFICES ASSUME FromGit
                 PROVE  Blamed(registry)' /\ \A s \in Sites, t \in Tags : Blamed(images[s][t])'
    BY <2>2 DEF FilesBlamed, FromGit
  <2>4. Blamed(registry) /\ \A s \in Sites, t \in Tags : Blamed(images[s][t])
    BY <2>3 DEF Inv, FilesBlamed
  <2>5. Blamed(registry)'
    BY <2>1, <2>2, <2>4 DEF Blamed
  <2>6. ASSUME NEW s \in Sites, NEW t \in Tags
        PROVE  Blamed(images[s][t])'
    <3>1. CASE s = run[r].site /\ t = TagOf(r)
      BY <1>1, <1>2, <1>4, <1>6, <2>2, <3>1, ImageFacts DEF Blamed
    <3>2. CASE ~(s = run[r].site /\ t = TagOf(r))
      <4>1. images'[s][t] = images[s][t] /\ images[s][t] \in Images /\ Blamed(images[s][t])
        BY <1>1, <1>4, <2>4, <3>2
      <4> QED BY <2>1, <4>1 DEF Blamed
    <3> QED BY <3>1, <3>2
  <2> QED BY <2>5, <2>6
<1> QED
  <2>1. \A t \in LocalTags : images[0][t] # NoImage => images'[0][t] # NoImage
    BY <1>2, <1>4, TagFacts, ImageFacts
  <2> QED BY <1>1, <1>5, <1>6, <1>7, <1>8, <1>9, <1>10, <1>11, <1>12, <1>13, <2>1,
         StillLatest, Alone DEF Inside, TagBuilt

LEMMA PushImageInv ==
  ASSUME Inv, NEW r \in Runs, PushImage(r)
  PROVE  Inv'
<1> USE DEF remote, rows, At
<1> DEFINE image == images[run[r].site][RegistryTag]
<1>1. /\ run' \in [Runs -> RunStates] /\ run'[r].pc = "pull" /\ run'[r].site = run[r].site
      /\ run'[r].sha = run[r].sha /\ \A o \in Runs : o # r => run'[o] = run[o]
  BY GotoTyping DEF Inv, PushImage, RunPC
<1>2. run[r].pc = "push" /\ Recorded(r)
  BY DEF PushImage, Recorded
<1>3. image \in Images /\ registry \in Images /\ run[r].site \in Sites
  BY TagFacts, Typed DEF Inv, RunStates
<1>4. image # NoImage /\ registry' = image
  BY DEF PushImage
<1>5. Grows /\ GrowsFor(r)
  BY SameHistory DEF PushImage
<1>6. TypeOK'
  BY <1>1, <1>3, <1>4, Typed, TypedNext DEF Inv, PushImage
<1>7. Committed(r)'
  BY <1>1, <1>2, <1>5 DEF Inv, Sound, Committed, PushImage, Recorded, Remote, BuildsImage, Active, Over,
                    Unresolved, FromGit, Fact, GrowsFor, Seen
<1>8. Told(r)'
  <2>1. Told(r)
    BY DEF Inv, Sound
  <2> QED BY <1>1, <1>2, <1>4, <2>1 DEF Told, Tells, Remote, Tainted, Fact, PushImage
<1>9. Kept(r)'
  BY <1>1 DEF Kept
<1>10. LocalTagsTell'
  BY DEF Inv, LocalTagsTell, PushImage
<1>11. FilesBlamed'
  <2>1. \A i \in Images : Blamed(i) => Blamed(i)'
    BY <1>1, <1>5, BlameRests DEF ShasStay
  <2>2. SUFFICES ASSUME FromGit
                 PROVE  Blamed(registry)' /\ \A s \in Sites, t \in Tags : Blamed(images[s][t])'
    BY DEF FilesBlamed, FromGit, PushImage
  <2>3. \A s \in Sites, t \in Tags : Blamed(images[s][t])
    BY <2>2 DEF Inv, FilesBlamed
  <2>4. Blamed(image)
    BY <1>3, <2>3, TagFacts
  <2>5. Blamed(registry)'
    BY <1>3, <1>4, <2>1, <2>4 DEF Blamed
  <2>6. ASSUME NEW s \in Sites, NEW t \in Tags
        PROVE  Blamed(images[s][t])'
    BY <2>1, <2>3, Typed DEF Blamed, Inv, PushImage
  <2> QED BY <2>5, <2>6
<1> QED
  BY <1>1, <1>2, <1>5, <1>6, <1>7, <1>8, <1>9, <1>10, <1>11, StillLatest, Alone DEF Inside, PushImage

LEMMA PullImageInv ==
  ASSUME Inv, NEW r \in Runs, PullImage(r)
  PROVE  Inv'
<1> USE DEF remote, rows, At
<1>1. /\ run' \in [Runs -> RunStates] /\ run'[r].pc = "write" /\ run'[r].site = run[r].site
      /\ run'[r].sha = run[r].sha /\ \A o \in Runs : o # r => run'[o] = run[o]
  BY GotoTyping DEF Inv, PullImage, RunPC
<1>2. /\ run[r].pc = "pull" /\ registry \in Images /\ images \in [Sites -> [Tags -> Images]]
      /\ registry # NoImage
  BY Typed DEF Inv, PullImage
<1>3. images' = [images EXCEPT ![0][RegistryTag] = registry]
  BY DEF PullImage
<1>4. Grows /\ GrowsFor(r)
  BY SameHistory DEF PullImage
<1>5. /\ images' \in [Sites -> [Tags -> Images]] /\ images'[0][RegistryTag] = registry
      /\ \A s \in Sites, t \in Tags : s # 0 \/ t # RegistryTag => images'[s][t] = images[s][t]
  BY <1>2, <1>3, TagFacts, ImageFacts
<1>6. TypeOK'
  BY <1>1, <1>5, Typed, TypedNext DEF Inv, PullImage
<1>7. Committed(r)'
  BY <1>1, <1>2, <1>4 DEF Inv, Sound, Committed, PullImage, Recorded, Remote, BuildsImage, Active, Over,
                    Unresolved, FromGit, Fact, GrowsFor, Seen
<1>8. Told(r)'
  <2>1. Told(r)
    BY DEF Inv, Sound
  <2> QED BY <1>1, <1>2, <1>5, <2>1 DEF Told, Tells, Remote, Tainted, Fact, PullImage
<1>9. Kept(r)'
  BY <1>1, <1>2 DEF Inv, Sound, Committed, Kept, Remote, FromGit, PullImage
<1>10. LocalTagsTell'
  BY <1>5, TagFacts, ImageFacts DEF Inv, LocalTagsTell
<1>11. FilesBlamed'
  <2>1. \A i \in Images : Blamed(i) => Blamed(i)'
    BY <1>1, <1>4, BlameRests DEF ShasStay
  <2>2. SUFFICES ASSUME FromGit
                 PROVE  Blamed(registry)' /\ \A s \in Sites, t \in Tags : Blamed(images[s][t])'
    BY DEF FilesBlamed, FromGit, PullImage
  <2>3. Blamed(registry) /\ \A s \in Sites, t \in Tags : Blamed(images[s][t])
    BY <2>2 DEF Inv, FilesBlamed
  <2>4. Blamed(registry)'
    BY <1>2, <2>1, <2>3 DEF Blamed, PullImage
  <2>5. ASSUME NEW s \in Sites, NEW t \in Tags
        PROVE  Blamed(images[s][t])'
    <3>1. images'[s][t] = registry \/ images'[s][t] = images[s][t]
      BY <1>5, ImageFacts, TagFacts
    <3>2. images[s][t] \in Images
      BY <1>2
    <3> QED BY <1>2, <2>1, <2>3, <3>1, <3>2 DEF Blamed
  <2> QED BY <2>4, <2>5
<1>12. \A t \in LocalTags : images[0][t] # NoImage => images'[0][t] # NoImage
  BY <1>5, TagFacts, ImageFacts
<1>13. Fact(r, "overlapped")' \/ (Recorded(r)' => recorded'[DeploymentOf[r]] = run'[r].sha)
  <2>1. Recorded(r)' => Recorded(r) /\ recorded' = recorded
    BY <1>1, <1>2 DEF Recorded, FromGit, PullImage
  <2> QED BY <1>1, <1>4, <2>1, StillLatest DEF PullImage
<1> QED
  BY <1>1, <1>2, <1>4, <1>6, <1>7, <1>8, <1>9, <1>10, <1>11, <1>12, <1>13, Alone DEF Inside, PullImage

-----------------------------------------------------------------------------
(* The steps that write the file and start or remove containers.           *)
LEMMA WriteConfigInv ==
  ASSUME Inv, NEW r \in Runs, WriteConfig(r)
  PROVE  Inv'
<1> USE DEF remote, rows, At
<1>1. /\ run' \in [Runs -> RunStates] /\ run'[r].pc = "up" /\ run'[r].site = run[r].site
      /\ run'[r].sha = run[r].sha /\ \A o \in Runs : o # r => run'[o] = run[o]
  BY GotoTyping DEF Inv, WriteConfig, RunPC
<1>2. /\ run[r].pc = "write" /\ r \in Active /\ (Recorded(r) <=> FromGit)
      /\ Recorded(r) => run[r].sha \in Commits /\ recorded[DeploymentOf[r]] # NoCommit
  BY <1>1 DEF Inv, Sound, Committed, WriteConfig, Recorded, Active, Over, FromGit
<1>3. /\ file' = [run |-> {r}, tag |-> ComposeInput(r).tag] /\ ComposeInput(r).tag \in Tags
      /\ file'.run = {r} /\ (FromGit => file'.tag = TagOf(r))
  BY <1>2, TagFacts DEF WriteConfig, ComposeInput, FromGit, TagOf
<1>4. TypeOK'
  BY <1>1, <1>3, Typed, TypedNext DEF Inv, WriteConfig
<1>5. Grows /\ GrowsFor(r)
  BY SameHistory DEF WriteConfig
<1>6. Committed(r)'
  BY <1>1, <1>2, <1>5 DEF Inv, Sound, Committed, WriteConfig, Recorded, Remote, BuildsImage, Active, Over,
                    Unresolved, FromGit, Fact, GrowsFor, Seen
<1>7. Owns(r)' /\ Finds(r)'
  BY <1>1, <1>2, <1>3 DEF Inv, Sound, Committed, Owns, Finds, Written, FromGit, TagOf, Remote, WriteConfig
<1>8. Told(r)' /\ Kept(r)' /\ ContainerTells(r)' /\ Closed(r)'
  BY <1>1, <1>2 DEF Inv, Sound, Told, Tells, Kept, ContainerTells, Tainted, Fact, Remote, FromGit, TagOf,
                    WriteConfig, Written, Closed
<1>9. Latest(r)'
  BY <1>1, <1>2, <1>3, <1>5, StillLatest DEF Latest, Recorded, FromGit, WriteConfig
<1>10. LocalTagsTell' /\ FilesBlamed'
  BY <1>1, <1>5, FilesRest DEF Inv, LocalTagsTell, WriteConfig, ShasStay
<1>11. Acts(r)
  BY <1>1, <1>3 DEF Acts, WriteConfig
<1> QED
  BY <1>2, <1>4, <1>5, <1>6, <1>7, <1>8, <1>9, <1>10, <1>11, Acting DEF Sound

(* What compose finds under the tag of the file is told of the commit of   *)
(* the run that wrote it, but for an accident of that run.                 *)
LEMMA FoundTells ==
  ASSUME Inv, NEW r \in Runs, At(r, "up"), NEW o \in file.run, Found(file.tag) # NoImage, FromGit
  PROVE  Found(file.tag).told = run[o].sha \/ (Remote(o) /\ Tainted(o))
<1> DEFINE found == Found(file.tag)
<1>1. /\ o \in Runs /\ run[o].sha \in Commits /\ file.tag = TagOf(o)
  BY Typed DEF Inv, Sound, Owns
<1>2. found = images[0][file.tag]
        \/ (images[0][file.tag] = NoImage /\ file.tag = RegistryTag /\ found = registry)
  BY DEF Found
<1>3. CASE ~Remote(o)
  <2>1. file.tag = <<Pull(o), run[o].sha>> /\ file.tag \in LocalTags /\ file.tag[2] = run[o].sha
    BY <1>1, <1>3, TagFacts DEF TagOf
  <2>2. found = images[0][file.tag]
    BY <1>2, <2>1, TagFacts
  <2> QED BY <2>1, <2>2 DEF Inv, LocalTagsTell
<1>4. CASE Remote(o) /\ o = r /\ ~Tainted(o)
  <2>1. file.tag = RegistryTag /\ Tells(images[0][RegistryTag], o) /\ Tells(registry, o)
    BY <1>1, <1>4 DEF Inv, Sound, Told, TagOf, At
  <2> QED BY <1>2, <2>1 DEF Tells
<1>5. CASE Remote(o) /\ o # r
  BY <1>1, <1>5 DEF Inv, Sound, Finds, Tainted, Accidents
<1> QED BY <1>3, <1>4, <1>5

LEMMA UpInv ==
  ASSUME Inv, NEW r \in Runs, Up(r)
  PROVE  Inv'
<1> USE DEF remote, rows, At
<1>1. /\ run' \in [Runs -> RunStates] /\ run'[r].pc = "settle" /\ run'[r].site = run[r].site
      /\ run'[r].sha = run[r].sha /\ \A o \in Runs : o # r => run'[o] = run[o]
  BY GotoTyping DEF Inv, Up, RunPC
<1>2. run[r].pc = "up" /\ r \in Active
  BY <1>1 DEF Up, Active, Over
<1> DEFINE found == Found(file.tag)
<1>3. /\ file.tag \in Tags /\ file.run \subseteq Runs /\ registry \in Images
      /\ images \in [Sites -> [Tags -> Images]] /\ containers \in [Runs -> Images]
  BY Typed DEF Inv
<1>4. found \in Images /\ found # NoImage
      /\ (found = images[0][file.tag]
            \/ (images[0][file.tag] = NoImage /\ file.tag = RegistryTag /\ found = registry))
  <2>1. images[0][file.tag] \in Images /\ found # NoImage
    BY <1>3, ImageFacts DEF Up
  <2>2. CASE images[0][file.tag] # NoImage
    BY <2>1, <2>2 DEF Found
  <2>3. CASE images[0][file.tag] = NoImage
    BY <1>3, <2>1, <2>3 DEF Found
  <2> QED BY <2>2, <2>3
<1>5. /\ images' = [images EXCEPT ![0][file.tag] = found]
      /\ containers' = [o \in Runs |->
           IF o \in file.run THEN found
           ELSE IF \E f \in file.run : SameName(o, f) THEN NoImage ELSE containers[o]]
      /\ UNCHANGED <<app, head, rows, registry, file, history>>
  BY DEF Up
<1>6. ASSUME NEW o \in file.run, FromGit
      PROVE  found.told = run[o].sha \/ (Remote(o) /\ Tainted(o))
  BY <1>2, <1>4, <1>6, FoundTells
<1> HIDE DEF found
<1>7. /\ images' \in [Sites -> [Tags -> Images]] /\ images'[0][file.tag] = found
      /\ \A s \in Sites, t \in Tags : s # 0 \/ t # file.tag => images'[s][t] = images[s][t]
  BY <1>3, <1>4, <1>5, ImageFacts
<1>8. containers' \in [Runs -> Images]
  BY <1>3, <1>4, <1>5, ImageFacts
<1>9. TypeOK'
  BY <1>1, <1>5, <1>7, <1>8, Typed, TypedNext DEF Inv, Up
<1>10. Grows /\ GrowsFor(r)
  BY <1>5, SameHistory
<1>11. \A t \in Tags : images[0][t] # NoImage => images'[0][t] = images[0][t]
  BY <1>4, <1>7, ImageFacts
<1>12. ASSUME NEW o \in file.run
       PROVE  ContainerTells(o)'
  <2>1. o \in Runs /\ containers'[o] = found /\ Owns(o)
    BY <1>3, <1>5 DEF Inv, Sound
  <2>2. run'[o].pc \in Written /\ run'[o].sha = run[o].sha /\ run'[o].site = run[o].site
    BY <1>1, <2>1 DEF Owns, Written
  <2>3. Remote(o)' = Remote(o) /\ Tainted(o)' = Tainted(o) /\ FromGit' = FromGit
    BY <1>5, <2>2 DEF Remote, Tainted, Fact, FromGit
  <2> QED BY <1>5, <1>6, <2>1, <2>2, <2>3 DEF ContainerTells, Owns
<1>13. Acts(r)
  <2>1. \A o \in Runs : o # r =>
          containers'[o] \in {containers[o], NoImage} \/ (o \in file.run /\ ContainerTells(o)')
    BY <1>5, <1>12
  <2>2. \A t \in LocalTags : images[0][t] # NoImage => images'[0][t] # NoImage
    BY <1>11, TagFacts
  <2> QED BY <1>1, <1>5, <2>1, <2>2 DEF Acts
<1>14. Committed(r)'
  BY <1>1, <1>2, <1>5 DEF Inv, Sound, Committed, Recorded, Remote, BuildsImage, Active, Over,
                    Unresolved, FromGit, Fact, Seen
<1>15. Owns(r)' /\ Finds(r)' /\ Told(r)' /\ Kept(r)' /\ Closed(r)'
  BY <1>1, <1>5 DEF Inv, Sound, Owns, Finds, Told, Kept, Closed, Written, FromGit, TagOf, Remote
<1>16. ContainerTells(r)'
  <2>1. CASE r \in file.run
    BY <1>12, <2>1
  <2>2. CASE r \notin file.run
    <3>1. containers'[r] \in {containers[r], NoImage}
      BY <1>5, <2>2
    <3> QED BY <1>1, <1>2, <1>5, <3>1 DEF Inv, Sound, ContainerTells, Written, FromGit, Remote, Tainted, Fact
  <2> QED BY <2>1, <2>2
<1>17. Latest(r)'
  <2>1. SUFFICES ASSUME FromGit', ~Fact(r, "overlapped")'
                 PROVE  /\ recorded[DeploymentOf[r]] = run[r].sha /\ file.run \cap Others(r) = {}
                        /\ Pull(r) # 0 => \A q \in Others(r) : containers'[q] = NoImage
    BY <1>1, <1>5 DEF Latest, Recorded, Others, Pull
  <2>2. FromGit /\ ~Fact(r, "overlapped")
    BY <1>5, <2>1 DEF FromGit, Fact
  <2>3. file.run = {r} /\ recorded[DeploymentOf[r]] = run[r].sha
    BY <1>2, <2>2 DEF Inv, Sound, Latest, Recorded
  <2>4. ASSUME NEW q \in Others(r), Pull(r) # 0
        PROVE  containers'[q] = NoImage
    <3>1. q \in Runs /\ q # r /\ SameName(q, r)
      BY <2>4 DEF Others, SameName, Pull
    <3> QED BY <1>5, <2>3, <3>1
  <2> QED BY <2>3, <2>4 DEF Others
<1>18. LocalTagsTell'
  <2>1. SUFFICES ASSUME NEW t \in LocalTags, images'[0][t] # NoImage
                 PROVE  images'[0][t].told = t[2]
    BY DEF LocalTagsTell
  <2>2. images'[0][t] = images[0][t]
    BY <1>4, <1>7, <2>1, TagFacts, ImageFacts
  <2> QED BY <2>1, <2>2 DEF Inv, LocalTagsTell
<1>19. FilesBlamed'
  <2>1. \A i \in Images : Blamed(i) => Blamed(i)'
    BY <1>1, <1>10, BlameRests DEF ShasStay
  <2>2. SUFFICES ASSUME FromGit
                 PROVE  Blamed(registry)' /\ \A s \in Sites, t \in Tags : Blamed(images[s][t])'
    BY <1>5 DEF FilesBlamed, FromGit
  <2>3. Blamed(registry) /\ \A s \in Sites, t \in Tags : Blamed(images[s][t])
    BY <2>2 DEF Inv, FilesBlamed
  <2>4. Blamed(registry)'
    BY <1>3, <1>5, <2>1, <2>3 DEF Blamed
  <2>5. ASSUME NEW s \in Sites, NEW t \in Tags
        PROVE  Blamed(images[s][t])'
    <3>1. images'[s][t] = registry \/ images'[s][t] = images[s][t]
      BY <1>4, <1>7, ImageFacts
    <3>2. images[s][t] \in Images
      BY <1>3
    <3> QED BY <1>3, <2>1, <2>3, <3>1, <3>2 DEF Blamed
  <2> QED BY <2>4, <2>5
<1> QED
  BY <1>2, <1>9, <1>10, <1>13, <1>14, <1>15, <1>16, <1>17, <1>18, <1>19, Acting DEF Sound

(* A run that met no other is the only active one of its deployment.       *)
LEMMA NoneBeside ==
  ASSUME Inv, NEW r \in Active, ~Fact(r, "overlapped")
  PROVE  \A q \in Others(r) : q \notin Active
BY DEF Inv, Overlaps, Others

(* A step after which nothing but the row is left to write.                *)
LEMMA EndedInv ==
  ASSUME Inv, TypeOK', NEW r \in Active,
         run'[r].pc \in {"finish", "ok", "abort", "failed", "dead"},
         run'[r].site = run[r].site, run'[r].sha = run[r].sha,
         \A o \in Runs : o # r => run'[o] = run[o] /\ containers'[o] \in {containers[o], NoImage},
         run'[r].pc \in {"finish", "ok"} => run[r].pc \in {"settle", "compose", "finish"},
         ContainerTells(r)', Latest(r)',
         UNCHANGED <<app, head, recorded, images, registry, file, history>>,
         \A d \in Deployments :
           /\ status[d] # "open" => status'[d] = status[d]
           /\ status'[d] = "finished" =>
                status[d] = "finished" \/ (d = DeploymentOf[r] /\ run'[r].pc = "ok"),
         Closed(r)'
  PROVE  Inv'
<1> USE DEF At
<1>1. Grows /\ GrowsFor(r) /\ ShasStay /\ r \in Runs
  BY SameHistory DEF ShasStay, Active
<1>2. Recorded(r)' => Recorded(r)
  BY DEF Inv, Sound, Committed, Recorded, FromGit
<1>3. Committed(r)'
  BY <1>2 DEF Inv, Sound, Committed, Recorded, Remote, BuildsImage, Active, Over, Unresolved, FromGit, Fact, Seen
<1>4. Owns(r)' /\ Finds(r)' /\ Told(r)' /\ Kept(r)'
  <2>1. Owns(r) /\ Remote(r)' = Remote(r) /\ FromGit' = FromGit /\ TagOf(r)' = TagOf(r)
    BY <1>1 DEF Inv, Sound, Remote, FromGit, TagOf
  <2>2. Owns(r)'
    BY <2>1 DEF Owns, Written
  <2> QED BY <2>2 DEF Finds, Told, Kept
<1>5. Acts(r)
  <2>1. run[r] \in RunStates /\ DeploymentOf[r] \in Deployments
    BY <1>1, Typed, BuildsAssumption DEF Inv
  <2> QED BY <2>1 DEF Acts
<1>6. LocalTagsTell' /\ FilesBlamed'
  BY <1>1, FilesRest DEF Inv, LocalTagsTell
<1> QED
  BY <1>1, <1>3, <1>4, <1>5, <1>6, Acting DEF Sound

LEMMA SettleInv ==
  ASSUME Inv, NEW r \in Runs, Settle(r)
  PROVE  Inv'
<1> USE DEF remote, rows, At
<1>1. /\ run' \in [Runs -> RunStates] /\ run'[r].pc = "finish" /\ run'[r].site = run[r].site
      /\ run'[r].sha = run[r].sha /\ \A o \in Runs : o # r => run'[o] = run[o]
  BY GotoTyping DEF Inv, Settle, RunPC
<1>2. /\ containers' \in [Runs -> Images] /\ containers'[r] = containers[r]
      /\ \A o \in Runs : containers'[o] \in {containers[o], NoImage}
      /\ \A o \in Runs : Pull(o) = Pull(r) /\ ~SameName(o, r) => containers'[o] = NoImage
  BY Typed, ImageFacts DEF Inv, Settle, SameName
<1>3. TypeOK' /\ r \in Active /\ run[r].pc = "settle"
  BY <1>1, <1>2, Typed, TypedNext DEF Inv, Settle, Active, Over
<1>4. ContainerTells(r)'
  BY <1>1, <1>2 DEF Inv, Sound, ContainerTells, Written, FromGit, Remote, Tainted, Fact, Settle
<1>5. Latest(r)'
  <2>1. SUFFICES ASSUME FromGit', ~Fact(r, "overlapped")'
                 PROVE  /\ recorded[DeploymentOf[r]] = run[r].sha /\ file.run \cap Others(r) = {}
                        /\ \A q \in Others(r) : q \notin Active' /\ containers'[q] = NoImage
    BY <1>1 DEF Latest, Recorded, Others, Pull, Settle
  <2>2. FromGit /\ ~Fact(r, "overlapped")
    BY <2>1 DEF FromGit, Fact, Settle
  <2>3. /\ recorded[DeploymentOf[r]] = run[r].sha /\ file.run \cap Others(r) = {}
        /\ Pull(r) # 0 => \A q \in Others(r) : containers[q] = NoImage
    BY <1>3, <2>2 DEF Inv, Sound, Latest, Recorded
  <2>4. ASSUME NEW q \in Others(r)
        PROVE  q \notin Active' /\ containers'[q] = NoImage
    <3>1. q \in Runs /\ q # r /\ Pull(q) = Pull(r) /\ q \notin Active
      BY <1>3, <2>2, NoneBeside DEF Others, Pull
    <3>2. q \notin Active'
      BY <1>1, <3>1 DEF Active
    <3>3. CASE Pull(r) = 0
      BY <1>2, <3>1, <3>2, <3>3 DEF SameName
    <3>4. CASE Pull(r) # 0
      BY <1>2, <2>3, <3>1, <3>2, <3>4
    <3> QED BY <3>2, <3>3, <3>4
  <2> QED BY <2>3, <2>4
<1> QED
  BY <1>1, <1>2, <1>3, <1>4, <1>5, EndedInv DEF Settle, Closed

LEMMA ComposeUpInv ==
  ASSUME Inv, NEW r \in Runs, ComposeUp(r)
  PROVE  Inv'
<1> USE DEF remote, rows, At
<1>1. /\ run' \in [Runs -> RunStates] /\ run'[r].pc = "finish" /\ run'[r].site = run[r].site
      /\ run'[r].sha = run[r].sha /\ \A o \in Runs : o # r => run'[o] = run[o]
  BY GotoTyping DEF Inv, ComposeUp, RunPC
<1>2. /\ run[r] \in RunStates /\ run[r].pc = "compose" /\ Recorded(r) /\ r \in Active
      /\ app.pack = "dockercompose" /\ recorded[DeploymentOf[r]] # NoCommit
  BY Typed DEF Inv, Sound, Committed, Recorded, ComposeUp, Active, Over
<1>3. Built(r) \in Images /\ Built(r).told = run[r].sha
  BY <1>2 DEF Built, SourceCommit, Images, RunStates
<1>4. /\ containers' \in [Runs -> Images] /\ containers'[r] = Built(r)
      /\ \A o \in Runs : o # r => containers'[o] \in {containers[o], NoImage}
      /\ \A o \in Others(r) : containers'[o] = NoImage
  BY <1>3, Typed, ImageFacts DEF Inv, ComposeUp, Others
<1>5. TypeOK'
  BY <1>1, <1>4, Typed, TypedNext DEF Inv, ComposeUp
<1>6. ContainerTells(r)'
  BY <1>1, <1>2, <1>3, <1>4 DEF ContainerTells, Written, ComposeUp
<1>7. Latest(r)'
  <2>1. SUFFICES ASSUME FromGit', ~Fact(r, "overlapped")'
                 PROVE  /\ recorded[DeploymentOf[r]] = run[r].sha /\ file.run \cap Others(r) = {}
                        /\ \A q \in Others(r) : q \notin Active' /\ containers'[q] = NoImage
    BY <1>1 DEF Latest, Recorded, Others, Pull, ComposeUp
  <2>2. FromGit /\ ~Fact(r, "overlapped")
    BY <2>1 DEF FromGit, Fact, ComposeUp
  <2>3. recorded[DeploymentOf[r]] = run[r].sha
    BY <1>2, <2>2 DEF Inv, Sound, Latest
  <2>4. file.run \cap Others(r) = {}
    BY <1>2 DEF Inv, Sound, Owns, Others
  <2>5. \A q \in Others(r) : q \notin Active'
    <3>1. \A q \in Others(r) : q \in Runs /\ q # r /\ q \notin Active
      BY <1>2, <2>2, NoneBeside DEF Others
    <3> QED BY <1>1, <3>1 DEF Active
  <2> QED BY <1>4, <2>3, <2>4, <2>5
<1> QED
  BY <1>1, <1>2, <1>4, <1>5, <1>6, <1>7, EndedInv DEF ComposeUp, Closed

LEMMA UnhealthyInv ==
  ASSUME Inv, NEW r \in Runs, Unhealthy(r)
  PROVE  Inv'
<1> USE DEF remote, rows, At
<1>1. /\ run' \in [Runs -> RunStates] /\ run'[r].pc = "abort" /\ run'[r].site = run[r].site
      /\ run'[r].sha = run[r].sha /\ \A o \in Runs : o # r => run'[o] = run[o]
  BY GotoTyping DEF Inv, Unhealthy, RunPC
<1>2. /\ containers' \in [Runs -> Images] /\ containers'[r] = NoImage
      /\ \A o \in Runs : containers'[o] \in {containers[o], NoImage}
  BY Typed, ImageFacts DEF Inv, Unhealthy, SameName
<1>3. TypeOK' /\ r \in Active
  BY <1>1, <1>2, Typed, TypedNext DEF Inv, Unhealthy, Active, Over
<1>4. ContainerTells(r)' /\ Latest(r)' /\ Closed(r)'
  BY <1>1, <1>2 DEF ContainerTells, Latest, Recorded, Closed
<1> QED
  BY <1>1, <1>2, <1>3, <1>4, EndedInv DEF Unhealthy

(* A container is told of the commit that its run resolved, over or not.   *)
LEMMA StoppedTells ==
  ASSUME Inv, NEW r \in Runs, run'[r].pc \in {"ok", "failed", "dead"}, run'[r].site = run[r].site,
         run'[r].sha = run[r].sha, UNCHANGED <<app, recorded, containers, history>>
  PROVE  ContainerTells(r)'
BY DEF Inv, Sound, ContainerTells, Written, FromGit, Remote, Tainted, Fact

LEMMA FailInv ==
  ASSUME Inv, NEW r \in Runs, Fail(r)
  PROVE  Inv'
<1> USE DEF remote, rows, At
<1>1. /\ run' \in [Runs -> RunStates] /\ run'[r].pc = "failed" /\ run'[r].site = run[r].site
      /\ run'[r].sha = run[r].sha /\ \A o \in Runs : o # r => run'[o] = run[o]
  BY EndTyping DEF Inv, Fail, Over
<1>2. /\ status' \in [Deployments -> {"open", "finished", "failed"}]
      /\ \A d \in Deployments : status'[d] = status[d] \/ (status[d] = "open" /\ status'[d] = "failed")
  BY Typed DEF Inv, Fail, SetStatus
<1>3. TypeOK'
  BY <1>1, <1>2, Typed, TypedNext DEF Inv, Fail
<1>4. ContainerTells(r)' /\ Latest(r)' /\ Closed(r)'
  BY <1>1, StoppedTells DEF Latest, Recorded, Closed, Fail
<1> QED
  BY <1>1, <1>2, <1>3, <1>4, EndedInv DEF Fail

LEMMA DieInv ==
  ASSUME Inv, NEW r \in Runs, Die(r)
  PROVE  Inv'
<1> USE DEF remote, rows, At
<1>1. /\ run' \in [Runs -> RunStates] /\ run'[r].pc = "dead" /\ run'[r].site = run[r].site
      /\ run'[r].sha = run[r].sha /\ \A o \in Runs : o # r => run'[o] = run[o]
  BY EndTyping DEF Inv, Die, Over
<1>2. budget' \in Budgets
  BY BudgetTyping DEF Inv, Die
<1>3. TypeOK'
  BY <1>1, <1>2, Typed, TypedNext DEF Inv, Die
<1>4. ContainerTells(r)' /\ Latest(r)' /\ Closed(r)'
  BY <1>1, StoppedTells DEF Latest, Recorded, Closed, Die
<1> QED
  BY <1>1, <1>3, <1>4, EndedInv DEF Die

LEMMA FinishInv ==
  ASSUME Inv, NEW r \in Runs, Finish(r)
  PROVE  Inv'
<1> USE DEF remote, rows, At
<1>1. /\ run' \in [Runs -> RunStates] /\ run'[r].pc = "ok" /\ run'[r].site = run[r].site
      /\ run'[r].sha = run[r].sha /\ \A o \in Runs : o # r => run'[o] = run[o]
  BY EndTyping DEF Inv, Finish, Over
<1>2. run[r].pc = "finish" /\ r \in Active /\ DeploymentOf[r] \in Deployments
  BY BuildsAssumption DEF Finish, Active, Over
<1>3. /\ status' \in [Deployments -> {"open", "finished", "failed"}]
      /\ status'[DeploymentOf[r]] # "open"
      /\ \A d \in Deployments : status[d] # "open" => status'[d] = status[d]
      /\ \A d \in Deployments : d # DeploymentOf[r] => status'[d] = status[d]
  BY <1>2, Typed DEF Inv, Finish, SetStatus
<1>4. TypeOK'
  BY <1>1, <1>3, Typed, TypedNext DEF Inv, Finish
<1>5. ContainerTells(r)' /\ Closed(r)'
  BY <1>1, <1>3, StoppedTells DEF Closed, Finish
<1>6. Latest(r)'
  <2>1. Latest(r) /\ Active' \subseteq Active
    BY <1>1 DEF Inv, Sound, Active, Over
  <2> QED BY <1>1, <1>2, <2>1 DEF Latest, Recorded, FromGit, Fact, Others, Pull, Finish
<1> QED
  BY <1>1, <1>2, <1>3, <1>4, <1>5, <1>6, EndedInv DEF Finish

LEMMA LeastServer ==
  ASSUME NEW T, T \subseteq Nat, T # {}
  PROVE  \E u \in T : \A o \in T : u <= o
<1>1. PICK u \in T : \A o \in T : <<o, u>> \notin OpToRel(<, Nat)
  BY NatLessThanWellFounded, WFMin
<1>2. \A o \in T : o < u => <<o, u>> \in OpToRel(<, Nat)
  BY DEF OpToRel
<1>3. \A o \in T : ~(o < u)
  BY <1>1, <1>2, Zenon
<1>4. \A o \in T : u <= o
  BY <1>3
<1> QED BY <1>4

-----------------------------------------------------------------------------
(* What a run knows still holds when the images at most vanish.            *)
LEMMA StillSound ==
  ASSUME Inv, Grows, NEW o \in Runs, Rests(o),
         UNCHANGED <<app, recorded, status, file, containers>>,
         o \in Active => head' \in history'[o].heads \cup {NoCommit},
         FromGit => /\ registry' = registry
                    /\ \A s \in Sites : images'[s][RegistryTag] \in {images[s][RegistryTag], NoImage},
         (run[o].pc \in {"write", "up"} /\ ~Remote(o) /\ FromGit /\ images[0][TagOf(o)] # NoImage) =>
           images'[0][TagOf(o)] # NoImage \/ Fact(o, "pruned")',
         Latest(o)'
  PROVE  Sound(o)'
<1>1. Sound(o) /\ TypeOK
  BY DEF Inv
<1>2. Committed(o)'
  BY CommittedRests
<1>3. Owns(o)'
  BY <1>1, RestFacts DEF Owns, Sound, Rests
<1>4. Finds(o)'
  <2>1. SUFFICES ASSUME At(o, "up"), NEW p \in file.run, p # o
                 PROVE  Fact(p, "overlapped")'
    BY DEF Finds, At, Rests
  <2>2. p \in Runs /\ Fact(p, "overlapped") /\ run[p].pc # "queued"
    BY <1>1, <2>1, Typed DEF Inv, Sound, Finds, Owns, Written
  <2> QED BY <2>2 DEF Grows, GrowsFor, Fact
<1>5. Told(o)'
  <2>1. SUFFICES ASSUME Remote(o), ~Tainted(o)
                 PROVE  /\ At(o, "push") => Tells(images[run[o].site][RegistryTag], o)'
                        /\ run[o].pc \in {"pull", "write", "up"} => Tells(registry, o)'
                        /\ run[o].pc \in {"write", "up"} => Tells(images[0][RegistryTag], o)'
    BY RestFacts DEF Told, At, Rests
  <2>2. FromGit /\ Told(o) /\ run[o].site \in Sites /\ 0 \in Sites
    BY <1>1, <2>1, ImageFacts, Typed DEF Sound, Committed, BuildsImage, FromGit, RunStates
  <2> QED BY <2>1, <2>2 DEF Told, Tells, Rests
<1>6. ContainerTells(o)'
  BY ContainerRests
<1>7. Kept(o)'
  BY KeptRests
<1>8. Closed(o)'
  BY <1>1 DEF Sound, Closed, At, Rests
<1> QED
  BY <1>2, <1>3, <1>4, <1>5, <1>6, <1>7, <1>8 DEF Sound

LEMMA StillRows ==
  ASSUME Inv, \A o \in Runs : run'[o].sha = run[o].sha \/ run[o].sha = NoCommit,
         \A o \in Runs : At(o, "ok") => At(o, "ok")', UNCHANGED <<recorded, status>>
  PROVE  \A d \in Deployments : RowTells(d)'
BY RowsRest DEF ShasStay

(* A run begins: whoever is active overlaps from now on.                   *)
LEMMA BeginInv ==
  ASSUME Inv, NEW r \in Runs, Begin(r)
  PROVE  Inv'
<1> USE DEF remote, rows, At
<1> DEFINE where == IF Site # 0 /\ ~app.named THEN "abort"
                    ELSE IF app.pack = "dockerimage" THEN "pull" ELSE "auth"
           s == [Queued EXCEPT !.site = Site, !.pin = commit, !.pc = where]
           beside == [heads |-> {head} \ {NoCommit},
                      facts |-> IF Active = {} THEN {} ELSE {"overlapped"}]
<1>1. /\ run \in [Runs -> RunStates] /\ history \in [Runs -> Histories]
      /\ head \in Commits \cup {NoCommit} /\ commit \in Commits \cup {NoCommit}
      /\ usable \subseteq BuildServers
  BY Typed DEF Inv
<1>2. Site \in Sites /\ (Site # 0 => BuildsImage)
  <2>1. CASE Pinned = 0 \/ usable = {} \/ ~BuildsImage
    BY <2>1, ImageFacts DEF Site
  <2>2. CASE ~(Pinned = 0 \/ usable = {} \/ ~BuildsImage) /\ Pinned \in usable
    BY <2>2, BuildsAssumption DEF Site
  <2>3. CASE ~(Pinned = 0 \/ usable = {} \/ ~BuildsImage) /\ Pinned \notin usable
    <3>1. usable \subseteq Nat /\ usable # {}
      BY <1>1, <2>3, BuildsAssumption
    <3>2. \E u \in usable : \A o \in usable : u <= o
      BY <3>1, LeastServer
    <3> QED BY <1>1, <2>3, <3>2 DEF Site, Sites
  <2> QED BY <2>1, <2>2, <2>3
<1>3. /\ run[r].pc = "queued" /\ run' = [run EXCEPT ![r] = s] /\ status[DeploymentOf[r]] = "open"
      /\ where \in {"abort", "pull", "auth"}
      /\ (where = "pull" => ~FromGit) /\ (where = "auth" => FromGit)
  BY DEF Begin, FromGit
<1>4. history' = [o \in Runs |->
         IF o = r THEN beside
         ELSE IF o \in Active THEN [history[o] EXCEPT !.facts = @ \cup {"overlapped"}]
         ELSE history[o]]
  BY DEF Begin
<1>5. /\ beside \in Histories /\ beside.heads = {head} \ {NoCommit}
      /\ (Active # {} => "overlapped" \in beside.facts)
  BY <1>1 DEF Histories, Facts, NoCommit
<1> HIDE DEF where, beside
<1>6. s \in RunStates /\ s.pc = where /\ s.site = Site /\ s.sha = NoCommit
  BY <1>1, <1>2, <1>3 DEF Queued, RunStates, RunPC, Over, Sites
<1> HIDE DEF s
<1>7. /\ run' \in [Runs -> RunStates] /\ run'[r].pc = where /\ run'[r].site = Site
      /\ run'[r].sha = NoCommit /\ run[r].sha = NoCommit
      /\ \A o \in Runs : o # r => run'[o] = run[o]
  BY <1>1, <1>3, <1>6 DEF Inv, Sound, Committed, Unresolved
<1>8. ASSUME NEW o \in Runs, o # r
      PROVE  history'[o] \in Histories /\ GrowsFor(o) /\ (o \in Active => Fact(o, "overlapped")')
  <2>1. CASE o \in Active
    <3>1. history'[o] = [history[o] EXCEPT !.facts = @ \cup {"overlapped"}]
      BY <1>4, <1>8, <2>1
    <3>2. "overlapped" \in Facts /\ history[o] \in Histories
      BY <1>1 DEF Facts
    <3> QED BY <3>1, <3>2 DEF Histories, GrowsFor, Fact
  <2>2. CASE o \notin Active
    BY <1>1, <1>4, <1>8, <2>2 DEF GrowsFor
  <2> QED BY <2>1, <2>2
<1>9. history' \in [Runs -> Histories] /\ history'[r] = beside /\ Grows
  BY <1>3, <1>4, <1>5, <1>8 DEF Grows
<1>10. TypeOK'
  BY <1>7, <1>9, Typed, TypedNext DEF Inv, Begin
<1>11. r \notin Active /\ r \notin file.run /\ containers[r] = NoImage
  BY <1>3 DEF Inv, Sound, Owns, ContainerTells, Written, Active
<1>12. Committed(r)'
  BY <1>1, <1>2, <1>3, <1>5, <1>7, <1>9 DEF Committed, Begin, Remote, BuildsImage, Recorded, FromGit,
                                          Unresolved
<1>13. Owns(r)' /\ Finds(r)' /\ Told(r)' /\ Kept(r)' /\ ContainerTells(r)' /\ Latest(r)' /\ Closed(r)'
  BY <1>2, <1>3, <1>7, <1>11 DEF Owns, Finds, Told, Kept, ContainerTells, Begin, Remote, BuildsImage, FromGit,
                               Latest, Recorded, Closed
<1>14. ASSUME NEW o \in Runs, o # r
       PROVE  Sound(o)'
  <2>1. Rests(o)
    BY <1>7, <1>8, <1>14 DEF Rests, Begin
  <2>2. o \in Active => head' \in history'[o].heads \cup {NoCommit}
    BY <2>1 DEF Inv, Sound, Committed, Begin, Rests, GrowsFor
  <2>3. Latest(o)'
    <3>1. CASE o \in Active
      BY <1>8, <1>14, <3>1 DEF Latest
    <3>2. CASE o \notin Active /\ run[o].pc # "ok"
      <4>1. run'[o].pc \in {"queued", "failed", "dead"}
        BY <1>7, <1>14, <3>2 DEF Active, Over
      <4> QED BY <4>1 DEF Latest, Recorded
    <3>3. CASE run[o].pc = "ok"
      <4>1. r \notin Others(o) /\ DeploymentOf[r] # DeploymentOf[o]
        BY <1>3, <3>3 DEF Inv, Sound, Closed, Others
      <4>2. \A q \in Others(o) : q \in Active' => q \in Active
        BY <1>7, <4>1 DEF Others, Active
      <4>3. Latest(o) /\ run'[o] = run[o] /\ Others(o)' = Others(o)
        BY <1>7, <1>14 DEF Inv, Sound, Others
      <4>4. Fact(o, "overlapped") => Fact(o, "overlapped")'
        BY <2>1 DEF Rests, GrowsFor, Fact
      <4> QED BY <3>3, <4>2, <4>3, <4>4 DEF Latest, Recorded, FromGit, Begin
    <3> QED BY <3>1, <3>2, <3>3
  <2> QED BY <1>9, <1>14, <2>1, <2>2, <2>3, StillSound DEF Begin
<1>15. Overlaps'
  <2>1. SUFFICES ASSUME NEW a \in Active', NEW b \in Active', a # b
                 PROVE  Fact(a, "overlapped")'
    BY DEF Overlaps
  <2>2. a \in Runs /\ b \in Runs /\ (a # r => a \in Active) /\ (b # r => b \in Active)
    BY <1>7, <2>1 DEF Active
  <2>3. CASE a = r
    BY <1>5, <1>9, <2>1, <2>2, <2>3 DEF Fact
  <2>4. CASE a # r
    BY <1>8, <2>2, <2>4
  <2> QED BY <2>3, <2>4
<1>16. LocalTagsTell' /\ FilesBlamed'
  BY <1>7, <1>9, FilesRest DEF Inv, LocalTagsTell, Begin, ShasStay
<1>17. \A d \in Deployments : RowTells(d)'
  <2>1. \A o \in Runs : At(o, "ok") => At(o, "ok")'
    BY <1>3, <1>7
  <2>2. \A o \in Runs : run'[o].sha = run[o].sha \/ run[o].sha = NoCommit
    BY <1>7
  <2> QED BY <2>1, <2>2, StillRows DEF Begin
<1> QED
  BY <1>10, <1>12, <1>13, <1>14, <1>15, <1>16, <1>17 DEF Inv, Sound

-----------------------------------------------------------------------------
(* The world outside.  No run moves.                                       *)
LEMMA WorldRests ==
  ASSUME Inv, TypeOK', Grows, \A o \in Runs : Rests(o),
         UNCHANGED <<app, recorded, status, file, containers>>,
         \A o \in Active : head' \in history'[o].heads \cup {NoCommit},
         FromGit => /\ registry' = registry
                    /\ \A s \in Sites : images'[s][RegistryTag] \in {images[s][RegistryTag], NoImage},
         \A o \in Runs : run[o].pc \in {"write", "up"} /\ ~Remote(o) /\ FromGit
                           /\ images[0][TagOf(o)] # NoImage =>
           images'[0][TagOf(o)] # NoImage \/ Fact(o, "pruned")',
         LocalTagsTell', FilesBlamed'
  PROVE  Inv'
<1>1. ASSUME NEW o \in Runs
      PROVE  Sound(o)'
  <2>1. Latest(o)'
    <3>1. Latest(o) /\ Others(o)' = Others(o) /\ Pull(o)' = Pull(o) /\ Active' = Active
      BY DEF Inv, Sound, Others, Active, Rests
    <3>2. Fact(o, "overlapped") => Fact(o, "overlapped")'
      BY DEF Rests, GrowsFor, Fact
    <3>3. FromGit' = FromGit /\ Recorded(o)' = Recorded(o) /\ run'[o].pc = run[o].pc /\ run'[o].sha = run[o].sha
      BY RestFacts DEF Rests
    <3> QED BY <3>1, <3>2, <3>3 DEF Latest, At
  <2> QED BY <2>1, StillSound
<1>2. Overlaps'
  <2>1. Active' \subseteq Active
    BY DEF Active, Rests
  <2> QED BY <2>1, OverlapsRest
<1>3. \A d \in Deployments : RowTells(d)'
  BY StillRows DEF Rests, At
<1> QED
  BY <1>1, <1>2, <1>3 DEF Inv

LEMMA HeadSeen ==
  ASSUME Inv, NEW o \in Active
  PROVE  head \in history[o].heads \cup {NoCommit}
BY DEF Inv, Sound, Committed, Active

(* A step that leaves all but the token, the build servers in use and the  *)
(* application's own commit as they were.                                  *)
LEMMA SettingsRest ==
  ASSUME Inv, TypeOK', \A o \in Runs : Rests(o), head' \in {head, NoCommit},
         UNCHANGED <<app, recorded, status, images, registry, file, containers, history>>
  PROVE  Inv'
<1>1. Grows /\ ShasStay
  BY SameHistory DEF Rests, ShasStay
<1>2. LocalTagsTell' /\ FilesBlamed'
  BY <1>1, FilesRest DEF Inv, LocalTagsTell
<1>3. \A o \in Active : head' \in history'[o].heads \cup {NoCommit}
  BY HeadSeen
<1> QED
  BY <1>1, <1>2, <1>3, WorldRests

LEMMA PushInv ==
  ASSUME Inv, NEW c \in Commits, Push(c)
  PROVE  Inv'
<1>1. budget' \in Budgets /\ history \in [Runs -> Histories]
  BY BudgetTyping, Typed DEF Push, Inv
<1>2. ASSUME NEW o \in Runs
      PROVE  history'[o] \in Histories /\ GrowsFor(o) /\ (o \in Active => c \in history'[o].heads)
  <2>1. CASE o \in Active
    <3>1. history'[o] = [history[o] EXCEPT !.heads = @ \cup {c}]
      BY <2>1 DEF Push
    <3> QED BY <1>1, <3>1 DEF Histories, GrowsFor
  <2>2. CASE o \notin Active
    BY <1>1, <2>2 DEF Push, GrowsFor
  <2> QED BY <2>1, <2>2
<1>3. history' \in [Runs -> Histories] /\ Grows /\ \A o \in Runs : Rests(o)
  BY <1>2 DEF Push, Grows, Rests
<1>4. TypeOK'
  BY <1>1, <1>3, Typed, TypedNext DEF Push, Inv, rows
<1>5. LocalTagsTell' /\ FilesBlamed'
  BY <1>3, FilesRest DEF Inv, LocalTagsTell, Push, ShasStay, rows
<1>6. \A o \in Active : head' \in history'[o].heads \cup {NoCommit}
  BY <1>2 DEF Push, Active
<1> QED
  BY <1>3, <1>4, <1>5, <1>6, WorldRests DEF Push, rows

LEMMA DeleteBranchInv ==
  ASSUME Inv, DeleteBranch
  PROVE  Inv'
<1>1. budget' \in Budgets
  BY BudgetTyping DEF DeleteBranch, Inv
<1>2. TypeOK' /\ \A o \in Runs : Rests(o)
  BY <1>1, Typed, TypedNext DEF DeleteBranch, Inv, Rests, GrowsFor, rows
<1> QED
  BY <1>2, SettingsRest DEF DeleteBranch, rows

LEMMA RevokeInv ==
  ASSUME Inv, Revoke
  PROVE  Inv'
<1>1. budget' \in Budgets /\ run \in [Runs -> RunStates]
  BY BudgetTyping, Typed DEF Revoke, Inv
<1>2. ASSUME NEW o \in Runs
      PROVE  run'[o] \in RunStates /\ Rests(o)
  <2>1. CASE run[o].token = "live"
    <3>1. run'[o] = [run[o] EXCEPT !.token = "dead"]
      BY <2>1 DEF Revoke
    <3> QED BY <1>1, <3>1 DEF RunStates, Rests, GrowsFor, Revoke
  <2>2. CASE run[o].token # "live"
    BY <1>1, <2>2 DEF Revoke, Rests, GrowsFor
  <2> QED BY <2>1, <2>2
<1>3. run' \in [Runs -> RunStates]
  BY <1>2 DEF Revoke
<1>4. TypeOK'
  BY <1>1, <1>3, Typed, TypedNext DEF rows, Revoke, Inv
<1> QED
  BY <1>2, <1>4, SettingsRest DEF rows, Revoke

LEMMA ExpireInv ==
  ASSUME Inv, Expire
  PROVE  Inv'
<1>1. TypeOK' /\ \A o \in Runs : Rests(o)
  BY Typed, TypedNext DEF rows, Expire, Inv, Rests, GrowsFor
<1> QED
  BY <1>1, SettingsRest DEF rows, Expire

LEMMA EditInv ==
  ASSUME Inv, NEW s \in BuildServers, Edit(s)
  PROVE  Inv'
<1>1. budget' \in Budgets
  BY BudgetTyping DEF Edit, Inv
<1>2. TypeOK' /\ \A o \in Runs : Rests(o)
  BY <1>1, Typed, TypedNext DEF rows, Edit, Inv, Rests, GrowsFor
<1> QED
  BY <1>2, SettingsRest DEF rows, Edit

LEMMA PatchCommitInv ==
  ASSUME Inv, NEW c \in Commits, PatchCommit(c)
  PROVE  Inv'
<1>1. budget' \in Budgets
  BY BudgetTyping DEF PatchCommit, Inv
<1>2. TypeOK' /\ \A o \in Runs : Rests(o)
  BY <1>1, Typed, TypedNext DEF rows, PatchCommit, Inv, Rests, GrowsFor, remote
<1> QED
  BY <1>2, SettingsRest DEF rows, PatchCommit, remote

LEMMA PublishInv ==
  ASSUME Inv, NEW c \in Commits, Publish(c)
  PROVE  Inv'
<1>1. budget' \in Budgets /\ [tree |-> c, told |-> c] \in Images
  BY BudgetTyping DEF Publish, Inv, Images
<1>2. TypeOK' /\ \A o \in Runs : Rests(o)
  BY <1>1, Typed, TypedNext DEF Publish, Inv, Rests, GrowsFor, rows
<1>3. ~FromGit /\ \A o \in Runs : ~Remote(o)
  BY DEF Publish, FromGit, Inv, Sound, Committed, BuildsImage
<1>4. LocalTagsTell' /\ FilesBlamed'
  BY <1>3 DEF Inv, LocalTagsTell, FilesBlamed, FromGit, Publish
<1>5. Grows /\ \A o \in Active : head' \in history'[o].heads \cup {NoCommit}
  BY SameHistory, HeadSeen DEF Publish
<1> QED
  BY <1>2, <1>3, <1>4, <1>5, WorldRests DEF Publish, Active, rows

LEMMA PruneInv ==
  ASSUME Inv, NEW s \in Sites, Prune(s)
  PROVE  Inv'
<1> USE DEF remote, rows
<1>1. budget' \in Budgets
  BY BudgetTyping DEF Prune, Inv
<1>2. /\ history' \in [Runs -> Histories] /\ Grows /\ \A o \in Runs : GrowsFor(o)
      /\ \A o \in Active : Fact(o, "pruned")'
  BY NoteTyping DEF Prune, Inv, Facts, Active
<1>3. /\ images' \in [Sites -> [Tags -> Images]]
      /\ \A p \in Sites, t \in Tags : images'[p][t] \in {images[p][t], NoImage}
  <2>1. images \in [Sites -> [Tags -> Images]]
    BY Typed DEF Inv
  <2>2. images' = [images EXCEPT ![s] = [t \in Tags |-> IF InUse(s, t) THEN images[s][t] ELSE NoImage]]
    BY <2>1 DEF Prune
  <2> QED BY <2>1, <2>2, ImageFacts
<1>4. TypeOK' /\ \A o \in Runs : Rests(o)
  BY <1>1, <1>2, <1>3, Typed, TypedNext DEF Prune, Inv, Rests
<1>5. LocalTagsTell'
  BY <1>3, TagFacts, ImageFacts DEF Inv, LocalTagsTell
<1>6. FilesBlamed'
  <2>1. \A i \in Images : Blamed(i) => Blamed(i)'
    BY <1>2, BlameRests DEF Prune, ShasStay
  <2>2. SUFFICES ASSUME FromGit
                 PROVE  Blamed(registry)' /\ \A p \in Sites, t \in Tags : Blamed(images[p][t])'
    BY DEF FilesBlamed, FromGit, Prune
  <2>3. Blamed(registry) /\ \A p \in Sites, t \in Tags : Blamed(images[p][t])
    BY <2>2 DEF Inv, FilesBlamed
  <2>4. Blamed(registry)'
    BY <2>1, <2>3, Typed DEF Inv, Blamed, Prune
  <2>5. ASSUME NEW p \in Sites, NEW t \in Tags
        PROVE  Blamed(images[p][t])'
    <3>1. images[p][t] \in Images /\ (images'[p][t] = images[p][t] \/ images'[p][t] = NoImage)
      BY <1>3, Typed DEF Inv
    <3> QED BY <2>1, <2>3, <3>1, ImageFacts DEF Blamed
  <2> QED BY <2>4, <2>5
<1>7. \A o \in Active : head' \in history'[o].heads \cup {NoCommit}
  BY <1>2, HeadSeen DEF Prune, GrowsFor, Active
<1>8. \A o \in Runs : run[o].pc \in {"write", "up"} => Fact(o, "pruned")'
  BY <1>2 DEF Active, Over
<1>9. \A p \in Sites : images'[p][RegistryTag] \in {images[p][RegistryTag], NoImage}
  BY <1>3, TagFacts
<1> QED
  BY <1>2, <1>4, <1>5, <1>6, <1>7, <1>8, <1>9, WorldRests DEF Prune

-----------------------------------------------------------------------------
(* The invariant holds at first and is kept by every step.                 *)
LEMMA InitInv ==
  ASSUME Init
  PROVE  Inv
<1> USE TagFacts, ImageFacts, BuildsAssumption DEF Init
<1>1. TypeOK
  <2>1. Queued \in RunStates
    BY DEF Queued, RunStates, RunPC
  <2>2. [heads |-> {}, facts |-> {}] \in Histories
    BY DEF Histories
  <2>3. budget \in Budgets /\ 1 \in Commits
    BY DEF Budgets, Commits
  <2>4. file \in [run: SUBSET Runs, tag: Tags]
    OBVIOUS
  <2> QED BY <2>1, <2>2, <2>3, <2>4, Typed
<1>2. \A r \in Runs : run[r].pc = "queued" /\ run[r].site = 0
  BY DEF Queued
<1>3. Overlaps /\ LocalTagsTell
  BY <1>2 DEF Overlaps, Active, LocalTagsTell
<1>4. FilesBlamed
  BY DEF FilesBlamed, Blamed
<1>5. ASSUME NEW r \in Runs
      PROVE  Sound(r)
  <2>1. ~Recorded(r) /\ run[r].sha = NoCommit /\ r \notin Active /\ ~Remote(r)
    BY <1>2 DEF Recorded, Active, Remote, Queued
  <2>2. Committed(r)
    BY <1>2, <2>1 DEF Committed
  <2> QED
    BY <1>2, <2>1, <2>2 DEF Sound, Owns, Finds, Told, ContainerTells, Kept, At, Latest, Closed
<1>6. \A d \in Deployments : RowTells(d)
  BY DEF RowTells
<1> QED
  BY <1>1, <1>3, <1>4, <1>5, <1>6 DEF Inv

LEMMA InvStep ==
  ASSUME Inv, [Next]_vars
  PROVE  Inv'
<1>1. ASSUME NEW r \in Runs, Step(r)
      PROVE  Inv'
  <2>1. CASE Build(r)
    BY <1>1, <2>1, TagBuiltInv DEF Build, At
  <2>2. CASE BuildRailpack(r)
    BY <1>1, <2>2, TagBuiltInv DEF BuildRailpack, At
  <2> QED
    BY <1>1, <2>1, <2>2, BeginInv, FailInv, DieInv, FinishInv, AuthInv, ResolveInv, ResolveBlindInv, RecordInv, PinInv,
       SkipBuildInv, CloneInv, PrepareRailpackInv, PushImageInv, PullImageInv, WriteConfigInv,
       UpInv, SettleInv, UnhealthyInv, ComposeUpInv DEF Step
<1>2. CASE UNCHANGED vars
  <2>1. TypeOK' /\ \A o \in Runs : Rests(o)
    BY <1>2, Typed, TypedNext DEF Inv, vars, rows, remote, Rests, GrowsFor
  <2> QED BY <1>2, <2>1, SettingsRest DEF vars, rows, remote
<1> QED
  BY <1>1, <1>2, PushInv, PublishInv, PatchCommitInv, EditInv, PruneInv, DeleteBranchInv,
     RevokeInv, ExpireInv DEF Next

LEMMA Invariance == Spec => []Inv
BY InitInv, InvStep, PTL DEF Spec

-----------------------------------------------------------------------------
(* What a deployment records, and the images and containers it makes, have *)
(* the types the model gives them, for any set of deployments.             *)
THEOREM Typing == Spec => []TypeOK
<1>1. Inv => TypeOK
  BY DEF Inv
<1> QED BY <1>1, Invariance, PTL

(* A deployment that ended well records a commit that one of its attempts  *)
(* resolved and that the branch was at, unless the branch was gone then    *)
(* (engine.rs, resolve_commit and persist_commit).                         *)
THEOREM RecordsTheHead == Spec => []CommitIsCurrent
<1>1. ASSUME Inv
      PROVE  CommitIsCurrent
  <2>1. SUFFICES ASSUME NEW d \in Deployments, status[d] = "finished", FromGit
                 PROVE  \E r \in Runs : /\ DeploymentOf[r] = d /\ recorded[d] = run[r].sha
                                        /\ run[r].sha # NoCommit /\ Seen(r, run[r].sha)
    BY DEF CommitIsCurrent
  <2>2. PICK o \in Runs : DeploymentOf[o] = d /\ At(o, "ok")
    BY <1>1, <2>1 DEF Inv, RowTells
  <2>3. recorded[d] # NoCommit
    BY <1>1, <2>1, <2>2 DEF Inv, Sound, Committed, Recorded, At
  <2>4. PICK r \in Runs : DeploymentOf[r] = d /\ recorded[d] = run[r].sha
    BY <1>1, <2>3 DEF Inv, RowTells
  <2> QED BY <1>1, <2>3, <2>4 DEF Inv, Sound, Committed
<1> QED BY <1>1, Invariance, PTL

(* A container runs the image of the commit its deployment records, but    *)
(* for the accidents that the one tag of the registry allows, and until a  *)
(* later attempt at the deployment has ended well.                         *)
THEOREM RunsWhatItRecords == Spec => []ImageOfItsCommit
<1>1. ASSUME Inv
      PROVE  ImageOfItsCommit
  <2>1. SUFFICES ASSUME NEW q \in Runs, containers[q] # NoImage, FromGit,
                        ~(Remote(q) /\ (Fact(q, "reused") \/ Fact(q, "overlapped"))),
                        containers[q].told # recorded[DeploymentOf[q]]
                 PROVE  Superseded(q)
    BY DEF ImageOfItsCommit
  <2>2. containers[q].told = run[q].sha /\ recorded[DeploymentOf[q]] # NoCommit
    BY <1>1, <2>1 DEF Inv, Sound, ContainerTells, Tainted, Accidents
  <2>3. DeploymentOf[q] \in Deployments
    BY BuildsAssumption
  <2>4. PICK o \in Runs : DeploymentOf[o] = DeploymentOf[q] /\ recorded[DeploymentOf[q]] = run[o].sha
    BY <1>1, <2>2, <2>3 DEF Inv, RowTells
  <2>5. o \in Others(q)
    BY <2>1, <2>2, <2>4 DEF Others
  <2>6. ASSUME status[DeploymentOf[q]] = "finished",
               ~\E p \in Runs : DeploymentOf[p] = DeploymentOf[q] /\ Fact(p, "overlapped")
        PROVE  FALSE
    <3>1. PICK r \in Runs : DeploymentOf[r] = DeploymentOf[q] /\ At(r, "ok")
      BY <1>1, <2>3, <2>6 DEF Inv, RowTells
    <3>2. Latest(r) /\ ~Fact(r, "overlapped")
      BY <1>1, <2>6, <3>1 DEF Inv, Sound
    <3>3. CASE r = q
      BY <2>1, <2>2, <3>1, <3>2, <3>3 DEF Latest, Recorded, At
    <3>4. CASE r # q
      <4>1. q \in Others(r)
        BY <3>1, <3>4 DEF Others
      <4> QED BY <2>1, <3>1, <3>2, <4>1 DEF Latest, At
    <3> QED BY <3>3, <3>4
  <2> QED BY <2>4, <2>5, <2>6 DEF Superseded
<1> QED BY <1>1, Invariance, PTL

(* An image holds other files than those of its commit only when the       *)
(* branch moved under a run that resolved that commit, whatever the row    *)
(* has come to record since.                                               *)
THEOREM FilesHaveACause == Spec => []FilesOfItsCommit
<1>1. ASSUME Inv
      PROVE  FilesOfItsCommit
  <2>1. SUFFICES ASSUME NEW s \in Sites, NEW t \in Tags, FromGit,
                        images[s][t].tree # images[s][t].told
                 PROVE  \E r \in Runs : /\ run[r].sha = images[s][t].told /\ Seen(r, run[r].sha)
                                        /\ images[s][t].tree \in history[r].heads
    BY DEF FilesOfItsCommit
  <2>2. Blamed(images[s][t])
    BY <1>1, <2>1 DEF Inv, FilesBlamed
  <2> QED BY <1>1, <2>1, <2>2 DEF Inv, Sound, Committed, Blamed
<1> QED BY <1>1, Invariance, PTL

(* Only a prune takes away the image that a deployment is about to start.  *)
THEOREM OnlyPrunesRemove == Spec => []MissingNeedsPrune
<1>1. Inv => MissingNeedsPrune
  BY DEF Inv, Sound, Kept, MissingNeedsPrune, At
<1> QED BY <1>1, Invariance, PTL

=============================================================================
