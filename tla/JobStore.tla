------------------------------ MODULE JobStore ------------------------------
(***************************************************************************)
(* What the `jobs` table promises the rest of rustify (contract C6): every *)
(* submitted job is run at least once, by one worker at a time, until a    *)
(* run succeeds or MaxAttempts runs have failed.  JobQueue, the detailed   *)
(* model of crates/rustify-jobs/src/queue.rs, implements this module, and  *)
(* DeployPipeline uses it as the queue under the deployment engine.        *)
(***************************************************************************)
EXTENDS Naturals

CONSTANTS
  Jobs,         \* rows that may ever be inserted
  Workers,      \* claim loops
  NoWorker,     \* nobody runs the job
  MaxAttempts   \* MAX_ATTEMPTS

VARIABLES
  status,   \* life of each job
  tries,    \* failed runs recorded so far
  holder    \* the worker running the job

storeVars == <<status, tries, holder>>

Status == {"absent", "queued", "held", "done", "dropped"}

StoreTypeOK ==
  /\ status \in [Jobs -> Status]
  /\ tries \in [Jobs -> 0..MaxAttempts]
  /\ holder \in [Jobs -> Workers \cup {NoWorker}]

StoreInit ==
  /\ status = [j \in Jobs |-> "absent"]
  /\ tries = [j \in Jobs |-> 0]
  /\ holder = [j \in Jobs |-> NoWorker]

(* A job is inserted.                                                      *)
Submit(j) ==
  /\ status[j] = "absent"
  /\ status' = [status EXCEPT ![j] = "queued"]
  /\ UNCHANGED <<tries, holder>>

(* A worker starts to run a job that nobody runs.                          *)
Take(w, j) ==
  /\ status[j] = "queued"
  /\ status' = [status EXCEPT ![j] = "held"]
  /\ holder' = [holder EXCEPT ![j] = w]
  /\ UNCHANGED tries

(* The run succeeded: the job is gone for good.                            *)
Finish(w, j) ==
  /\ status[j] = "held" /\ holder[j] = w
  /\ status' = [status EXCEPT ![j] = "done"]
  /\ holder' = [holder EXCEPT ![j] = NoWorker]
  /\ UNCHANGED tries

(* The run failed: one more try is used up, the last one drops the job.    *)
Miss(w, j) ==
  /\ status[j] = "held" /\ holder[j] = w
  /\ tries' = [tries EXCEPT ![j] = @ + 1]
  /\ status' = [status EXCEPT
                  ![j] = IF tries[j] + 1 >= MaxAttempts THEN "dropped" ELSE "queued"]
  /\ holder' = [holder EXCEPT ![j] = NoWorker]

(* Runs end with no recorded result (the process died, the handler         *)
(* panicked, the result statement failed): the jobs run again, uncounted.  *)
LetGo(gone) ==
  /\ gone # {}
  /\ \A j \in gone : status[j] = "held"
  /\ status' = [j \in Jobs |-> IF j \in gone THEN "queued" ELSE status[j]]
  /\ holder' = [j \in Jobs |-> IF j \in gone THEN NoWorker ELSE holder[j]]
  /\ UNCHANGED tries

StoreNext ==
  \/ \E j \in Jobs : Submit(j)
  \/ \E w \in Workers, j \in Jobs : Take(w, j) \/ Finish(w, j) \/ Miss(w, j)
  \/ \E gone \in SUBSET Jobs : LetGo(gone)

StoreSpec == StoreInit /\ [][StoreNext]_storeVars

=============================================================================
