------------------------ MODULE DeployPipelineProofs ------------------------
(***************************************************************************)
(* Proofs about DeployPipeline for any numbers of deployments, workers,    *)
(* builds and failures.  The inductive invariant is built in layers: Books *)
(* ties each engine to the job it holds; Rows ties each job to a row and a *)
(* request; Stages says what an engine's position implies of the status it *)
(* will next overwrite or report on; Admissions says that a row admission  *)
(* has not moved yet has no job of admission's; Drained says who attends   *)
(* to a deployment in progress.                                            *)
(***************************************************************************)
EXTENDS DeployPipeline, TLAPS

(* An engine is at work exactly on a job that its worker holds.            *)
Hands ==
  \A w \in Workers : pc[w] \in EnginePC =>
    job[w] \in JobIds /\ jobStatus[job[w]] = "held" /\ holder[job[w]] = w

(* A job that may still be run has a try left.                             *)
Unspent ==
  \A j \in JobIds : jobStatus[j] \in {"absent", "queued", "held"} => tries[j] < MaxAttempts

Books == TypeOK /\ Hands /\ Unspent

(* A job id is the pair it is written as.                                  *)
LEMMA JobIdParts ==
  /\ \A j \in JobIds : j[1] \in Deps /\ j[2] \in {"api", "adm"} /\ j = <<j[1], j[2]>>
  /\ \A d \in Deps : <<d, "api">> \in JobIds /\ <<d, "adm">> \in JobIds
BY DEF JobIds

(* Every step, named: what the proofs below split on.                      *)
LEMMA Steps ==
  ASSUME Next
  PROVE  \/ \E d \in Deps : Create(d)
         \/ \E d \in Deps : SendJob(d)
         \/ \E d \in Deps : SendFails(d)
         \/ \E d \in Deps : LateHelper(d) \/ KillHelper(d)
         \/ \E targets \in SUBSET Deps : Cancel(targets)
         \/ \E w \in Workers, j \in JobIds : Take(w, j)
         \/ \E w \in Workers : Exit(w)
         \/ \E w \in Workers : Claim(w)
         \/ \E w \in Workers : Reread(w)
         \/ \E w \in Workers : Dispatch(w)
         \/ \E w \in Workers : HelperUp(w)
         \/ \E w \in Workers : HelperFails(w)
         \/ \E w \in Workers : StepsEnd(w)
         \/ \E w \in Workers : Cleanup(w)
         \/ \E w \in Workers : Finish(w)
         \/ \E w \in Workers : InfraError(w)
         \/ \E w \in Workers : Drain(w)
         \/ \E w \in Workers : EnqueueAdmitted(w)
         \/ \E w \in Workers : DrainError(w)
         \/ \E w \in Workers : Report(w)
         \/ \E w \in Workers : ReportLost(w)
         \/ Shutdown \/ Restart
BY DEF Next, Handler, TakeSome, Engine

(* An engine at work has a deployment in hand.                             *)
LEMMA DepInHand ==
  ASSUME Books, NEW w \in Workers, pc[w] \in EnginePC
  PROVE  DepOf(w) \in Deps /\ job[w] \in JobIds
BY JobIdParts DEF Books, Hands, DepOf

LEMMA BooksInit == Init => Books
<1> SUFFICES ASSUME Init PROVE Books
  OBVIOUS
<1> USE PipelineAssumption DEF Init
<1>1. Store!StoreInit
  OBVIOUS
<1>2. /\ jobStatus \in [JobIds -> {"absent", "queued", "held", "done", "dropped"}]
      /\ tries \in [JobIds -> 0..MaxAttempts]
      /\ holder \in [JobIds -> Workers \cup {NoWorker}]
  BY <1>1 DEF Store!StoreInit
<1>3. Unspent
  BY <1>1 DEF Store!StoreInit, Unspent
<1>4. budget \in [restarts: 0..MaxRestarts, stops: 0..MaxStops,
                  db: 0..MaxDbErrors, ssh: 0..MaxSshLosses]
  OBVIOUS
<1>5. TypeOK
  BY <1>2, <1>4 DEF TypeOK
<1>6. Hands
  BY DEF Hands, EnginePC
<1> QED BY <1>3, <1>5, <1>6 DEF Books

(* What a transition does to the column, whatever the row was.             *)
LEMMA TransitionTyped ==
  ASSUME TypeOK, NEW d \in Deps, NEW next \in DeploymentStatus, Transition(d, next)
  PROVE  status' \in [Deps -> DeploymentStatus \cup {"none"}]
BY DEF TypeOK, Transition

(* A bounded failure leaves the budget typed.                              *)
LEMMA BudgetTyped ==
  ASSUME TypeOK, DbError \/ SshLoss
  PROVE  /\ budget' \in [restarts: 0..MaxRestarts, stops: 0..MaxStops,
                         db: 0..MaxDbErrors, ssh: 0..MaxSshLosses]
         /\ budget'.restarts = budget.restarts
<1>1. ASSUME DbError
      PROVE  /\ budget' \in [restarts: 0..MaxRestarts, stops: 0..MaxStops,
                             db: 0..MaxDbErrors, ssh: 0..MaxSshLosses]
             /\ budget'.restarts = budget.restarts
  BY <1>1, PipelineAssumption DEF TypeOK, DbError
<1>2. ASSUME SshLoss
      PROVE  /\ budget' \in [restarts: 0..MaxRestarts, stops: 0..MaxStops,
                             db: 0..MaxDbErrors, ssh: 0..MaxSshLosses]
             /\ budget'.restarts = budget.restarts
  BY <1>2, PipelineAssumption DEF TypeOK, SshLoss
<1> QED BY <1>1, <1>2

(* What the steps of the job store that do not take a job leave of it.     *)
StoreTyped ==
  /\ jobStatus \in [JobIds -> {"absent", "queued", "held", "done", "dropped"}]
  /\ tries \in [JobIds -> 0..MaxAttempts]
  /\ holder \in [JobIds -> Workers \cup {NoWorker}]

LEMMA StoreSteps ==
  ASSUME Books
  PROVE  /\ \A j \in JobIds : Store!Submit(j) =>
              /\ StoreTyped' /\ Unspent' /\ holder' = holder
              /\ \A i \in JobIds : i # j => jobStatus'[i] = jobStatus[i]
              /\ jobStatus[j] = "absent" /\ jobStatus'[j] = "queued"
         /\ \A w \in Workers, j \in JobIds : Store!Finish(w, j) \/ Store!Miss(w, j) =>
              /\ StoreTyped' /\ Unspent'
              /\ jobStatus[j] = "held" /\ jobStatus'[j] \in {"queued", "done", "dropped"}
              /\ \A i \in JobIds : i # j =>
                   jobStatus'[i] = jobStatus[i] /\ holder'[i] = holder[i]
         /\ \A gone \in SUBSET JobIds : Store!LetGo(gone) =>
              /\ StoreTyped' /\ Unspent'
              /\ \A i \in gone : jobStatus'[i] = "queued"
              /\ \A i \in JobIds : i \notin gone =>
                   jobStatus'[i] = jobStatus[i] /\ holder'[i] = holder[i]
<1> USE PipelineAssumption DEF Books, TypeOK, Unspent, StoreTyped
<1>1. ASSUME NEW j \in JobIds, Store!Submit(j)
      PROVE  /\ StoreTyped' /\ Unspent' /\ holder' = holder
             /\ \A i \in JobIds : i # j => jobStatus'[i] = jobStatus[i]
             /\ jobStatus[j] = "absent" /\ jobStatus'[j] = "queued"
  BY <1>1 DEF Store!Submit
<1>2. ASSUME NEW w \in Workers, NEW j \in JobIds, Store!Finish(w, j)
      PROVE  /\ StoreTyped' /\ Unspent'
             /\ jobStatus[j] = "held" /\ jobStatus'[j] \in {"queued", "done", "dropped"}
             /\ \A i \in JobIds : i # j =>
                  jobStatus'[i] = jobStatus[i] /\ holder'[i] = holder[i]
  BY <1>2 DEF Store!Finish
<1>3. ASSUME NEW w \in Workers, NEW j \in JobIds, Store!Miss(w, j)
      PROVE  /\ StoreTyped' /\ Unspent'
             /\ jobStatus[j] = "held" /\ jobStatus'[j] \in {"queued", "done", "dropped"}
             /\ \A i \in JobIds : i # j =>
                  jobStatus'[i] = jobStatus[i] /\ holder'[i] = holder[i]
  BY <1>3 DEF Store!Miss
<1>4. ASSUME NEW gone \in SUBSET JobIds, Store!LetGo(gone)
      PROVE  /\ StoreTyped' /\ Unspent'
             /\ \A i \in gone : jobStatus'[i] = "queued"
             /\ \A i \in JobIds : i \notin gone =>
                  jobStatus'[i] = jobStatus[i] /\ holder'[i] = holder[i]
  BY <1>4 DEF Store!LetGo
<1> QED BY <1>1, <1>2, <1>3, <1>4

LEMMA BooksStep == Books /\ [Next]_vars => Books'
<1> SUFFICES ASSUME Books, [Next]_vars PROVE Books'
  OBVIOUS
<1> USE PipelineAssumption, JobIdParts, DepInHand
    DEF Books, TypeOK, Hands, Unspent, storeVars, engineVars, containerVars,
        EnginePC, DeploymentStatus
<1>1. ASSUME NEW d \in Deps, Create(d) PROVE Books'
  BY <1>1 DEF Create
<1>2. ASSUME NEW d \in Deps, SendJob(d) PROVE Books'
  <2>1. <<d, "api">> \in JobIds /\ Store!Submit(<<d, "api">>)
    BY <1>2 DEF SendJob
  <2>2. StoreTyped' /\ Unspent' /\ holder' = holder
        /\ \A i \in JobIds : jobStatus[i] = "held" => jobStatus'[i] = "held"
    BY <2>1, StoreSteps
  <2>3. request' \in [Deps -> {"none", "created", "sent", "lost"}]
    BY <1>2 DEF SendJob
  <2>4. UNCHANGED <<status, engineVars, containerVars, shutdown, budget>>
    BY <1>2 DEF SendJob
  <2> QED BY <2>2, <2>3, <2>4 DEF StoreTyped
<1>3. ASSUME NEW d \in Deps, SendFails(d) PROVE Books'
  BY <1>3, BudgetTyped DEF SendFails
<1>4. ASSUME NEW d \in Deps, LateHelper(d) \/ KillHelper(d) PROVE Books'
  <2>1. CASE LateHelper(d)
    BY <2>1 DEF LateHelper
  <2>2. CASE KillHelper(d)
    BY <2>2 DEF KillHelper
  <2> QED BY <1>4, <2>1, <2>2
<1>5. ASSUME NEW targets \in SUBSET Deps, Cancel(targets) PROVE Books'
  BY <1>5 DEF Cancel
<1>6. ASSUME NEW w \in Workers, NEW j \in JobIds, Take(w, j) PROVE Books'
  BY <1>6 DEF Take, Store!Take, Goto
<1>7. ASSUME NEW w \in Workers, Exit(w) PROVE Books'
  BY <1>7 DEF Exit, Goto
<1>8. ASSUME NEW w \in Workers, Claim(w) PROVE Books'
  BY <1>8, TransitionTyped DEF Claim, Goto
<1>9. ASSUME NEW w \in Workers, Reread(w) PROVE Books'
  BY <1>9 DEF Reread, Goto
<1>10. ASSUME NEW w \in Workers, Dispatch(w) PROVE Books'
  <2>1. /\ outcome' \in [Workers -> {"ok", "cancelled", "failed"}]
        /\ pc' \in [Workers -> EnginePC \cup {"idle", "exited"}]
        /\ \A u \in Workers : pc'[u] \in EnginePC => pc[u] \in EnginePC
    <3>1. pc[w] = "up" /\ (pc' = [pc EXCEPT ![w] = "cleanup"] \/ pc' = [pc EXCEPT ![w] = "sent"])
      BY <1>10 DEF Dispatch, Goto
    <3>2. outcome' = outcome \/ outcome' = [outcome EXCEPT ![w] = "cancelled"]
      BY <1>10 DEF Dispatch
    <3>3. outcome' \in [Workers -> {"ok", "cancelled", "failed"}]
      BY <3>2
    <3>4. pc' \in [Workers -> EnginePC \cup {"idle", "exited"}]
      BY <3>1
    <3>5. \A u \in Workers : u # w => pc'[u] = pc[u]
      BY <3>1
    <3> QED BY <3>1, <3>3, <3>4, <3>5
  <2>2. UNCHANGED <<status, request, storeVars, job, admitted, containerVars, shutdown, budget>>
    BY <1>10 DEF Dispatch
  <2> HIDE DEF EnginePC
  <2> QED BY <2>1, <2>2
<1>11. ASSUME NEW w \in Workers, HelperUp(w) PROVE Books'
  BY <1>11 DEF HelperUp, Goto
<1>12. ASSUME NEW w \in Workers, HelperFails(w) PROVE Books'
  <2>1. budget' \in [restarts: 0..MaxRestarts, stops: 0..MaxStops,
                      db: 0..MaxDbErrors, ssh: 0..MaxSshLosses]
    BY <1>12, BudgetTyped DEF HelperFails
  <2>2. stray' \in [Deps -> {"no", "sent", "late", "kept"}]
    BY <1>12 DEF HelperFails
  <2> QED BY <1>12, <2>1, <2>2 DEF HelperFails, Goto
<1>13. ASSUME NEW w \in Workers, StepsEnd(w) PROVE Books'
  BY <1>13 DEF StepsEnd, Goto
<1>14. ASSUME NEW w \in Workers, Cleanup(w) PROVE Books'
  <2>1. budget' \in [restarts: 0..MaxRestarts, stops: 0..MaxStops,
                      db: 0..MaxDbErrors, ssh: 0..MaxSshLosses]
    BY <1>14, BudgetTyped DEF Cleanup
  <2>2. helper' \in SUBSET Deps /\ stray' \in [Deps -> {"no", "sent", "late", "kept"}]
    BY <1>14 DEF Cleanup
  <2> QED BY <1>14, <2>1, <2>2 DEF Cleanup, Goto
<1>15. ASSUME NEW w \in Workers, Finish(w) PROVE Books'
  <2>1. EndOf(outcome[w]) \in DeploymentStatus
    BY DEF EndOf
  <2> QED BY <1>15, <2>1, TransitionTyped DEF Finish, Goto
<1>16. ASSUME NEW w \in Workers, InfraError(w) PROVE Books'
  BY <1>16, BudgetTyped DEF InfraError, Goto
<1>17. ASSUME NEW w \in Workers, Drain(w) PROVE Books'
  <2>1. status' \in [Deps -> DeploymentStatus \cup {"none"}]
        /\ admitted' \in [Workers -> SUBSET Deps]
    BY <1>17 DEF Drain
  <2>2. pc' \in [Workers -> EnginePC \cup {"idle", "exited"}] /\ pc[w] = "drain"
        /\ \A u \in Workers : pc'[u] \in EnginePC => pc[u] \in EnginePC
    BY <1>17 DEF Drain, Goto
  <2> QED BY <1>17, <2>1, <2>2 DEF Drain
<1>18. ASSUME NEW w \in Workers, EnqueueAdmitted(w) PROVE Books'
  <2>1. PICK d \in Deps : Store!Submit(<<d, "adm">>)
    BY <1>18 DEF EnqueueAdmitted
  <2>2. StoreTyped' /\ Unspent' /\ holder' = holder
        /\ \A i \in JobIds : jobStatus[i] = "held" => jobStatus'[i] = "held"
    BY <2>1, StoreSteps, <<d, "adm">> \in JobIds
  <2>3. admitted' \in [Workers -> SUBSET Deps]
    BY <1>18 DEF EnqueueAdmitted
  <2>4. pc' \in [Workers -> EnginePC \cup {"idle", "exited"}]
        /\ \A u \in Workers : pc'[u] \in EnginePC => pc[u] \in EnginePC
    BY <1>18 DEF EnqueueAdmitted, Goto
  <2>5. UNCHANGED <<status, request, job, outcome, containerVars, shutdown, budget>>
    BY <1>18 DEF EnqueueAdmitted
  <2> HIDE DEF EnginePC
  <2> QED BY <2>2, <2>3, <2>4, <2>5 DEF StoreTyped
<1>19. ASSUME NEW w \in Workers, DrainError(w) PROVE Books'
  BY <1>19, BudgetTyped DEF DrainError, Goto
<1>20. ASSUME NEW w \in Workers, Report(w) PROVE Books'
  <2>1. Store!Finish(w, job[w]) \/ Store!Miss(w, job[w])
    BY <1>20 DEF Report
  <2>2. pc[w] \in EnginePC /\ job[w] \in JobIds
    BY <1>20 DEF Report
  <2>3. StoreTyped' /\ Unspent'
    BY <2>1, <2>2, StoreSteps
  <2>4. Hands'
    BY <1>20, <2>1, <2>2, StoreSteps DEF Report, PutDown, Goto
  <2>5. TypeOK'
    BY <1>20, <2>3 DEF Report, PutDown, Goto, StoreTyped
  <2> QED BY <2>3, <2>4, <2>5
<1>21. ASSUME NEW w \in Workers, ReportLost(w) PROVE Books'
  BY <1>21, BudgetTyped DEF ReportLost, PutDown, Goto, Store!LetGo
<1>22. CASE Shutdown
  BY <1>22 DEF Shutdown
<1>23. CASE Restart
  <2>1. StoreTyped' /\ Unspent'
    BY <1>23, StoreSteps DEF Restart, StoreTyped
  <2>2. budget' \in [restarts: 0..MaxRestarts, stops: 0..MaxStops,
                      db: 0..MaxDbErrors, ssh: 0..MaxSshLosses]
    BY <1>23, budget.restarts - 1 \in 0..MaxRestarts DEF Restart
  <2>3. Hands'
    BY <1>23 DEF Restart
  <2>4. /\ request' \in [Deps -> {"none", "created", "sent", "lost"}]
        /\ stray' \in [Deps -> {"no", "sent", "late", "kept"}]
    BY <1>23 DEF Restart
  <2>5. TypeOK'
    BY <1>23, <2>1, <2>2, <2>4 DEF Restart, StoreTyped
  <2> QED BY <2>1, <2>3, <2>5
<1>24. CASE UNCHANGED vars
  BY <1>24 DEF vars
<1> QED BY <1>1, <1>2, <1>3, <1>4, <1>5, <1>6, <1>7, <1>8, <1>9, <1>10, <1>11, <1>12,
           <1>13, <1>14, <1>15, <1>16, <1>17, <1>18, <1>19, <1>20, <1>21, <1>22, <1>23,
           <1>24, Steps

THEOREM Typing == Spec => []TypeOK
<1>1. Spec => []Books
  BY BooksInit, BooksStep, PTL DEF Spec
<1>2. Books => TypeOK
  BY DEF Books
<1> QED BY <1>1, <1>2, PTL

-----------------------------------------------------------------------------
(* Contract C2 for one deployment and one step.                            *)
Legal(d) ==
  \/ status'[d] = status[d]
  \/ status[d] = "none" /\ status'[d] = "queued"
  \/ status[d] = "queued" /\ status'[d] \in {"in_progress", "cancelled"}
  \/ status[d] = "in_progress" /\ status'[d] \in Terminal

LEMMA LegalStep ==
  ASSUME Books, [Next]_vars
  PROVE  \A d \in Deps : Legal(d)
<1> SUFFICES ASSUME NEW d \in Deps PROVE Legal(d)
  OBVIOUS
<1> USE DEF Books, TypeOK, Legal, Terminal
<1>1. ASSUME NEW e \in Deps, Create(e) PROVE Legal(d)
  BY <1>1 DEF Create
<1>2. ASSUME NEW targets \in SUBSET Deps, Cancel(targets) PROVE Legal(d)
  BY <1>2 DEF Cancel, CanTransition
<1>3. ASSUME NEW w \in Workers, Claim(w) PROVE Legal(d)
  BY <1>3 DEF Claim, Transition, CanTransition
<1>4. ASSUME NEW w \in Workers, Finish(w) PROVE Legal(d)
  <2>1. EndOf(outcome[w]) \in Terminal
    BY DEF EndOf
  <2> QED BY <1>4, <2>1 DEF Finish, Transition, CanTransition
<1>5. ASSUME NEW w \in Workers, Drain(w) PROVE Legal(d)
  BY <1>5 DEF Drain, Admissible
<1>6. ASSUME UNCHANGED status PROVE Legal(d)
  BY <1>6
<1>7. \/ \E e \in Deps : Create(e)
      \/ \E targets \in SUBSET Deps : Cancel(targets)
      \/ \E w \in Workers : Claim(w) \/ Finish(w) \/ Drain(w)
      \/ UNCHANGED status
  <2>1. CASE Next
    BY <2>1, Steps DEF SendJob, SendFails, LateHelper, KillHelper, Take, Exit, Reread, Dispatch,
       HelperUp, HelperFails, StepsEnd, Cleanup, InfraError, EnqueueAdmitted,
       DrainError, Report, ReportLost, Shutdown, Restart
  <2>2. CASE UNCHANGED vars
    BY <2>2 DEF vars
  <2> QED BY <2>1, <2>2
<1> QED BY <1>1, <1>2, <1>3, <1>4, <1>5, <1>6, <1>7

(* The state machine of C2 is kept by every writer of the column, however  *)
(* requests, engines, admission, cancels and restarts interleave.          *)
THEOREM Lifecycle == Spec => LegalTransitions
<1>1. Spec => []Books
  BY BooksInit, BooksStep, PTL DEF Spec
<1>2. Books /\ [Next]_vars =>
        [\A d \in Deps : status'[d] # status[d] =>
           \/ status[d] = "none" /\ status'[d] = "queued"
           \/ status[d] = "queued" /\ status'[d] \in {"in_progress", "cancelled"}
           \/ status[d] = "in_progress" /\ status'[d] \in Terminal]_vars
  BY LegalStep DEF Legal
<1> QED BY <1>1, <1>2, PTL DEF Spec, LegalTransitions

-----------------------------------------------------------------------------
(* Rows, requests and jobs: a row exists once its request has begun, a job *)
(* belongs to a row that exists, and a request that was sent left a job.   *)
Rows ==
  /\ \A d \in Deps : status[d] = "none" <=> request[d] = "none"
  /\ \A j \in JobIds : jobStatus[j] # "absent" => status[j[1]] # "none"
  /\ \A d \in Deps : request[d] = "sent" => jobStatus[<<d, "api">>] # "absent"

(* What admission has in hand is a row it has moved, one worker's only,    *)
(* that has no job of admission's yet; a row not moved has none either.    *)
Admissions ==
  /\ \A d \in Deps : status[d] \in {"none", "queued"} => jobStatus[<<d, "adm">>] = "absent"
  /\ \A w \in Workers : \A d \in admitted[w] :
       /\ status[d] \notin {"none", "queued"}
       /\ jobStatus[<<d, "adm">>] = "absent"
       /\ \A v \in Workers : d \in admitted[v] => v = w

(* Past the claim the row is claimed; past the terminal transition it is   *)
(* over, whoever ended it.                                                 *)
Stages ==
  \A w \in Workers :
    /\ pc[w] \in {"reread", "up", "sent", "steps", "cleanup", "finish"} =>
         status[DepOf(w)] \notin {"none", "queued"}
    /\ pc[w] \in {"drain", "enqueue", "ok"} => status[DepOf(w)] \in Terminal

IInv == Books /\ Rows /\ Admissions /\ Stages /\ DoneMeansOver

LEMMA IInvInit == Init => IInv
<1> SUFFICES ASSUME Init PROVE IInv
  OBVIOUS
<1>1. \A j \in JobIds : jobStatus[j] = "absent"
  BY DEF Init, Store!StoreInit
<1>2. Rows /\ Admissions /\ DoneMeansOver
  BY <1>1, JobIdParts DEF Init, Rows, Admissions, DoneMeansOver
<1>3. Stages
  BY DEF Init, Stages
<1> QED BY <1>2, <1>3, BooksInit DEF IInv

(* How a step may change a job: insert it, move it on, or finish it.       *)
JobChange(j) ==
  \/ jobStatus'[j] = jobStatus[j]
  \/ jobStatus[j] = "absent" /\ jobStatus'[j] = "queued" /\
       \/ \E d \in Deps : j = <<d, "api">> /\ SendJob(d)
       \/ \E w \in Workers : \E d \in admitted[w] : j = <<d, "adm">> /\ EnqueueAdmitted(w)
  \/ jobStatus[j] \in {"queued", "held"} /\ jobStatus'[j] \in {"queued", "held", "dropped"}
  \/ jobStatus[j] = "held" /\ jobStatus'[j] = "done" /\
       \E w \in Workers : j = job[w] /\ pc[w] = "ok"

LEMMA JobSteps ==
  ASSUME Books, [Next]_vars
  PROVE  \A j \in JobIds : JobChange(j)
<1> SUFFICES ASSUME NEW j \in JobIds PROVE JobChange(j)
  OBVIOUS
<1> USE DEF JobChange
<1>1. ASSUME NEW d \in Deps, SendJob(d) PROVE JobChange(j)
  <2>1. Store!Submit(<<d, "api">>)
    BY <1>1 DEF SendJob
  <2>2. CASE j = <<d, "api">>
    BY <1>1, <2>1, <2>2, StoreSteps
  <2>3. CASE j # <<d, "api">>
    BY <2>1, <2>3, StoreSteps, JobIdParts
  <2> QED BY <2>2, <2>3
<1>2. ASSUME NEW w \in Workers, EnqueueAdmitted(w) PROVE JobChange(j)
  <2>1. PICK d \in admitted[w] : Store!Submit(<<d, "adm">>)
    BY <1>2 DEF EnqueueAdmitted
  <2>2. d \in Deps /\ <<d, "adm">> \in JobIds
    BY JobIdParts DEF Books, TypeOK
  <2>3. CASE j = <<d, "adm">>
    BY <1>2, <2>1, <2>3, StoreSteps
  <2>4. CASE j # <<d, "adm">>
    BY <2>1, <2>2, <2>4, StoreSteps
  <2> QED BY <2>3, <2>4
<1>3. ASSUME NEW w \in Workers, NEW i \in JobIds, Take(w, i) PROVE JobChange(j)
  BY <1>3 DEF Take, Store!Take, Books, TypeOK
<1>4. ASSUME NEW w \in Workers, Report(w) PROVE JobChange(j)
  BY <1>4 DEF Report, Store!Finish, Store!Miss, Books, TypeOK
<1>5. ASSUME NEW w \in Workers, ReportLost(w) PROVE JobChange(j)
  BY <1>5 DEF ReportLost, Store!LetGo, Books, TypeOK
<1>6. CASE Restart
  BY <1>6 DEF Restart, Store!LetGo, Books, TypeOK, storeVars
<1>7. CASE UNCHANGED storeVars
  BY <1>7 DEF storeVars
<1>8. \/ \E d \in Deps : SendJob(d)
      \/ \E w \in Workers : EnqueueAdmitted(w) \/ Report(w) \/ ReportLost(w)
      \/ \E w \in Workers, i \in JobIds : Take(w, i)
      \/ Restart \/ UNCHANGED storeVars
  <2>1. CASE Next
    BY <2>1, Steps DEF Create, SendFails, LateHelper, KillHelper, Cancel, Exit, Claim, Reread, Dispatch,
       HelperUp, HelperFails, StepsEnd, Cleanup, Finish, InfraError, Drain,
       DrainError, Shutdown
  <2>2. CASE UNCHANGED vars
    BY <2>2 DEF vars, storeVars
  <2> QED BY <2>1, <2>2
<1> QED BY <1>1, <1>2, <1>3, <1>4, <1>5, <1>6, <1>7, <1>8

(* Only requests write `request`, and only Create makes a row.             *)
LEMMA RequestSteps ==
  ASSUME Books, Rows, [Next]_vars
  PROVE  \A d \in Deps :
           /\ status'[d] = "none" <=> request'[d] = "none"
           /\ request'[d] = "sent" => request[d] = "sent" \/ SendJob(d)
<1> SUFFICES ASSUME NEW d \in Deps
             PROVE  /\ status'[d] = "none" <=> request'[d] = "none"
                    /\ request'[d] = "sent" => request[d] = "sent" \/ SendJob(d)
  OBVIOUS
<1> USE DEF Books, TypeOK, Rows
<1>1. request[d] = "none" => status[d] = "none"
  OBVIOUS
<1>2. CASE UNCHANGED request /\ (status[d] = "none" => status'[d] = "none")
  BY <1>2, LegalStep DEF Legal, Terminal
<1>3. ASSUME NEW e \in Deps, Create(e)
      PROVE  /\ status'[d] = "none" <=> request'[d] = "none"
             /\ request'[d] = "sent" => request[d] = "sent"
  BY <1>3 DEF Create
<1>4. ASSUME NEW e \in Deps, SendJob(e)
      PROVE  /\ status'[d] = "none" <=> request'[d] = "none"
             /\ request'[d] = "sent" => request[d] = "sent" \/ SendJob(d)
  <2>1. request[e] = "created" /\ request' = [request EXCEPT ![e] = "sent"] /\ status' = status
    BY <1>4 DEF SendJob
  <2>2. CASE d = e
    BY <1>4, <2>1, <2>2
  <2>3. CASE d # e
    BY <2>1, <2>3
  <2> QED BY <2>2, <2>3
<1>5. ASSUME NEW e \in Deps, SendFails(e)
      PROVE  /\ status'[d] = "none" <=> request'[d] = "none"
             /\ request'[d] = "sent" => request[d] = "sent"
  BY <1>5 DEF SendFails
<1>6. CASE Restart
  BY <1>6 DEF Restart
<1>7. ASSUME NEW w \in Workers, Claim(w) \/ Finish(w) \/ Drain(w)
      PROVE  UNCHANGED request /\ (status[d] = "none" => status'[d] = "none")
  BY <1>7 DEF Claim, Finish, Drain, Transition, CanTransition, Admissible
<1>8. ASSUME NEW targets \in SUBSET Deps, Cancel(targets)
      PROVE  UNCHANGED request /\ (status[d] = "none" => status'[d] = "none")
  BY <1>8 DEF Cancel, CanTransition
<1>9. \/ \E e \in Deps : Create(e) \/ SendJob(e) \/ SendFails(e)
      \/ \E w \in Workers : Claim(w) \/ Finish(w) \/ Drain(w)
      \/ \E targets \in SUBSET Deps : Cancel(targets)
      \/ Restart \/ UNCHANGED <<status, request>>
  <2>1. CASE Next
    BY <2>1, Steps DEF LateHelper, KillHelper, Take, Exit, Reread, Dispatch,
       HelperUp, HelperFails, StepsEnd, Cleanup, InfraError, EnqueueAdmitted,
       DrainError, Report, ReportLost, Shutdown
  <2>2. CASE UNCHANGED vars
    BY <2>2 DEF vars
  <2> QED BY <2>1, <2>2
<1> QED BY <1>2, <1>3, <1>4, <1>5, <1>6, <1>7, <1>8, <1>9

LEMMA RowsStep == IInv /\ [Next]_vars => Rows'
<1> SUFFICES ASSUME IInv, [Next]_vars PROVE Rows'
  OBVIOUS
<1> USE JobIdParts DEF IInv
<1>1. \A d \in Deps : status'[d] = "none" <=> request'[d] = "none"
  BY RequestSteps
<1>2. ASSUME NEW j \in JobIds, jobStatus'[j] # "absent" PROVE status'[j[1]] # "none"
  <2>1. status[j[1]] # "none"
    <3>1. CASE jobStatus[j] # "absent"
      BY <3>1 DEF Rows
    <3>2. ASSUME NEW d \in Deps, j = <<d, "api">>, SendJob(d) PROVE status[j[1]] # "none"
      BY <3>2 DEF SendJob, Rows
    <3>3. ASSUME NEW w \in Workers, NEW d \in admitted[w], j = <<d, "adm">>
          PROVE  status[j[1]] # "none"
      BY <3>3 DEF Admissions
    <3> QED BY <1>2, <3>1, <3>2, <3>3, JobSteps DEF JobChange
  <2> QED BY <2>1, LegalStep DEF Legal, Terminal
<1>3. ASSUME NEW d \in Deps, request'[d] = "sent" PROVE jobStatus'[<<d, "api">>] # "absent"
  <2>1. CASE request[d] = "sent"
    <3>1. jobStatus[<<d, "api">>] # "absent" /\ JobChange(<<d, "api">>)
      BY <2>1, JobSteps DEF Rows
    <3> QED BY <3>1 DEF JobChange
  <2>2. CASE SendJob(d)
    BY <2>2, StoreSteps DEF SendJob
  <2> QED BY <1>3, <2>1, <2>2, RequestSteps
<1> QED BY <1>1, <1>2, <1>3 DEF Rows

(* Only admission and its errors write `admitted`; Drain adds a queued row.*)
LEMMA AdmittedSteps ==
  ASSUME Books, [Next]_vars
  PROVE  \A w \in Workers : \A d \in admitted'[w] :
           \/ d \in admitted[w] /\ ~EnqueueAdmitted(w)
           \/ /\ Drain(w) /\ status[d] = "queued" /\ status'[d] = "in_progress"
              /\ admitted' = [admitted EXCEPT ![w] = {d}]
<1> SUFFICES ASSUME NEW w \in Workers, NEW d \in admitted'[w]
             PROVE  \/ d \in admitted[w] /\ ~EnqueueAdmitted(w)
                    \/ /\ Drain(w) /\ status[d] = "queued" /\ status'[d] = "in_progress"
                       /\ admitted' = [admitted EXCEPT ![w] = {d}]
  OBVIOUS
<1> USE DEF Books, TypeOK
<1>1. ~EnqueueAdmitted(w)
  BY DEF EnqueueAdmitted
<1>2. ASSUME NEW v \in Workers, Drain(v)
      PROVE  \/ d \in admitted[w]
             \/ /\ Drain(w) /\ status[d] = "queued" /\ status'[d] = "in_progress"
                /\ admitted' = [admitted EXCEPT ![w] = {d}]
  BY <1>2 DEF Drain, Admissible
<1>3. ASSUME NEW v \in Workers, EnqueueAdmitted(v) \/ DrainError(v) PROVE d \in admitted[w]
  BY <1>3 DEF EnqueueAdmitted, DrainError
<1>4. CASE Restart
  BY <1>4 DEF Restart
<1>5. \/ \E v \in Workers : Drain(v) \/ EnqueueAdmitted(v) \/ DrainError(v)
      \/ Restart \/ UNCHANGED admitted
  <2>1. CASE Next
    BY <2>1, Steps DEF Create, SendJob, SendFails, LateHelper, KillHelper, Cancel, Take, Exit, Claim,
       Reread, Dispatch, HelperUp, HelperFails, StepsEnd, Cleanup, Finish, InfraError,
       Report, ReportLost, PutDown, Shutdown, engineVars
  <2>2. CASE UNCHANGED vars
    BY <2>2 DEF vars
  <2> QED BY <2>1, <2>2
<1> QED BY <1>1, <1>2, <1>3, <1>4, <1>5

LEMMA AdmissionsStep == IInv /\ [Next]_vars => Admissions'
<1> SUFFICES ASSUME IInv, [Next]_vars PROVE Admissions'
  OBVIOUS
<1> USE DEF IInv
<1>1. ASSUME NEW d \in Deps, jobStatus[<<d, "adm">>] = "absent",
             \A w \in Workers : d \in admitted[w] => ~EnqueueAdmitted(w)
      PROVE  jobStatus'[<<d, "adm">>] = "absent"
  <2>1. <<d, "adm">> \in JobIds /\ \A e \in Deps : <<d, "adm">> # <<e, "api">>
    BY JobIdParts
  <2>2. JobChange(<<d, "adm">>)
    BY <2>1, JobSteps
  <2>3. ASSUME NEW w \in Workers, NEW e \in admitted[w], <<d, "adm">> = <<e, "adm">>
        PROVE  e = d
    BY <2>3
  <2> QED BY <1>1, <2>1, <2>2, <2>3 DEF JobChange
<1>2. ASSUME NEW d \in Deps, status'[d] \in {"none", "queued"}
      PROVE  jobStatus'[<<d, "adm">>] = "absent"
  <2>1. status[d] \in {"none", "queued"}
    BY <1>2, LegalStep DEF Legal, Terminal
  <2>2. jobStatus[<<d, "adm">>] = "absent" /\ \A w \in Workers : d \notin admitted[w]
    BY <2>1 DEF Admissions
  <2> QED BY <1>1, <2>2
<1>3. ASSUME NEW w \in Workers, NEW d \in admitted'[w]
      PROVE  /\ status'[d] \notin {"none", "queued"}
             /\ jobStatus'[<<d, "adm">>] = "absent"
             /\ \A v \in Workers : d \in admitted'[v] => v = w
  <2>1. CASE d \in admitted[w] /\ ~EnqueueAdmitted(w)
    <3>1. /\ d \in Deps /\ status[d] \notin {"none", "queued"}
          /\ jobStatus[<<d, "adm">>] = "absent"
          /\ \A v \in Workers : d \in admitted[v] => v = w
      BY <2>1 DEF Admissions, Books, TypeOK
    <3>2. status'[d] \notin {"none", "queued"}
      BY <3>1, LegalStep DEF Legal, Terminal
    <3>3. jobStatus'[<<d, "adm">>] = "absent"
      BY <1>1, <2>1, <3>1
    <3>4. \A v \in Workers : d \in admitted'[v] => v = w
      BY <3>1, AdmittedSteps
    <3> QED BY <3>2, <3>3, <3>4
  <2>2. CASE /\ Drain(w) /\ status[d] = "queued" /\ status'[d] = "in_progress"
             /\ admitted' = [admitted EXCEPT ![w] = {d}]
    <3>1. d \in Deps
      BY BooksStep DEF Books, TypeOK
    <3>2. jobStatus[<<d, "adm">>] = "absent" /\ \A v \in Workers : d \notin admitted[v]
      BY <2>2, <3>1 DEF Admissions
    <3>3. jobStatus'[<<d, "adm">>] = "absent"
      BY <1>1, <3>1, <3>2
    <3>4. \A v \in Workers : d \in admitted'[v] => v = w
      BY <2>2, <3>2 DEF Books, TypeOK
    <3> QED BY <2>2, <3>3, <3>4
  <2> QED BY <2>1, <2>2, AdmittedSteps
<1> QED BY <1>2, <1>3 DEF Admissions

(* Where the engines stand: what each step of an engine finds in its row.  *)
LEMMA StagesStep == IInv /\ [Next]_vars => Stages'
<1> SUFFICES ASSUME IInv, [Next]_vars, NEW w \in Workers
             PROVE  /\ pc'[w] \in {"reread", "up", "sent", "steps", "cleanup", "finish"} =>
                         status'[job'[w][1]] \notin {"none", "queued"}
                    /\ pc'[w] \in {"drain", "enqueue", "ok"} => status'[job'[w][1]] \in Terminal
  BY DEF Stages, DepOf
<1> DEFINE Goal ==
      /\ pc'[w] \in {"reread", "up", "sent", "steps", "cleanup", "finish"} =>
           status'[job'[w][1]] \notin {"none", "queued"}
      /\ pc'[w] \in {"drain", "enqueue", "ok"} => status'[job'[w][1]] \in Terminal
      Kept == pc'[w] = pc[w] /\ job'[w] = job[w]
      Claimed == pc[w] \in {"reread", "up", "sent", "steps", "cleanup", "finish"} =>
                   status[DepOf(w)] \notin {"none", "queued"}
      Over == pc[w] \in {"drain", "enqueue", "ok"} => status[DepOf(w)] \in Terminal
<1>1. Claimed /\ Over
  BY DEF IInv, Stages
<1>2. \A d \in Deps : /\ status[d] \notin {"none", "queued"} => status'[d] \notin {"none", "queued"}
                      /\ status[d] \in Terminal => status'[d] \in Terminal
  BY LegalStep DEF IInv, Legal, Terminal
<1>3. pc[w] \in EnginePC => DepOf(w) \in Deps /\ status[DepOf(w)] # "none"
  <2>1. ASSUME pc[w] \in EnginePC
        PROVE  DepOf(w) \in Deps /\ status[DepOf(w)] # "none"
    <3>1. DepOf(w) \in Deps /\ job[w] \in JobIds /\ jobStatus[job[w]] = "held"
      BY <2>1, DepInHand DEF IInv, Books, Hands
    <3> QED BY <3>1 DEF IInv, Rows, DepOf
  <2> QED BY <2>1
<1>4. ASSUME Kept PROVE Goal
  BY <1>1, <1>2, <1>3, <1>4 DEF EnginePC, DepOf
<1> USE DEF IInv, Books, TypeOK, Goto
<1>5. ASSUME NEW v \in Workers, v # w,
             \/ (\E j \in JobIds : Take(v, j)) \/ Exit(v) \/ Claim(v) \/ Reread(v) \/ Dispatch(v)
             \/ HelperUp(v) \/ HelperFails(v) \/ StepsEnd(v) \/ Cleanup(v) \/ Finish(v)
             \/ InfraError(v) \/ Drain(v) \/ EnqueueAdmitted(v) \/ DrainError(v)
             \/ Report(v) \/ ReportLost(v)
      PROVE  Kept
  BY <1>5 DEF Take, Exit, Claim, Reread, Dispatch, HelperUp, HelperFails, StepsEnd, Cleanup,
     Finish, InfraError, Drain, EnqueueAdmitted, DrainError, Report, ReportLost, PutDown
<1>6. ASSUME NEW j \in JobIds, Take(w, j) PROVE Goal
  BY <1>6 DEF Take
<1>7. ASSUME Exit(w) \/ InfraError(w) \/ Report(w) \/ ReportLost(w) \/ Restart PROVE Goal
  BY <1>7 DEF Exit, InfraError, Report, ReportLost, PutDown, Restart
<1>8. ASSUME Claim(w) PROVE Goal
  <2>1. job' = job /\ DepOf(w) \in Deps /\ status[DepOf(w)] # "none"
    BY <1>3, <1>8 DEF Claim, EnginePC
  <2>2. pc'[w] \in {"up", "reread"} /\ status'[DepOf(w)] \notin {"none", "queued"}
    BY <1>8, <2>1 DEF Claim, Transition, CanTransition
  <2> QED BY <2>1, <2>2 DEF DepOf
<1>9. ASSUME Reread(w) PROVE Goal
  <2>1. job' = job /\ DepOf(w) \in Deps /\ status[DepOf(w)] \notin {"none", "queued"}
        /\ status' = status /\ pc'[w] = IF status[DepOf(w)] = "in_progress" THEN "up" ELSE "ok"
    BY <1>1, <1>3, <1>9 DEF Reread, EnginePC
  <2>2. status[DepOf(w)] # "in_progress" => status[DepOf(w)] \in Terminal
    BY <2>1 DEF Terminal, DeploymentStatus
  <2> QED BY <2>1, <2>2 DEF DepOf
<1>10. ASSUME Dispatch(w) \/ HelperUp(w) \/ HelperFails(w) \/ StepsEnd(w) \/ Cleanup(w)
       PROVE  Goal
  <2>1. /\ job' = job /\ pc[w] \in {"up", "sent", "steps", "cleanup"}
        /\ pc'[w] \in {"sent", "steps", "cleanup", "finish"}
    <3>1. CASE CancelSeen(w)
      BY <1>10, <3>1 DEF Dispatch, HelperUp, HelperFails, StepsEnd, Cleanup
    <3>2. CASE ~CancelSeen(w)
      BY <1>10, <3>2 DEF Dispatch, HelperUp, HelperFails, StepsEnd, Cleanup
    <3> QED BY <3>1, <3>2
  <2> QED BY <1>1, <1>2, <1>3, <2>1 DEF DepOf, EnginePC
<1>11. ASSUME Finish(w) PROVE Goal
  <2>1. job' = job /\ DepOf(w) \in Deps /\ status[DepOf(w)] \notin {"none", "queued"}
        /\ pc'[w] = "drain" /\ Transition(DepOf(w), EndOf(outcome[w]))
    BY <1>1, <1>3, <1>11 DEF Finish, EnginePC
  <2>2. EndOf(outcome[w]) \in Terminal
    BY DEF EndOf, Terminal
  <2>3. status'[DepOf(w)] \in Terminal
    BY <2>1, <2>2 DEF Transition, CanTransition, Terminal, DeploymentStatus
  <2> QED BY <2>1, <2>3 DEF DepOf
<1>12. ASSUME Drain(w) \/ EnqueueAdmitted(w) \/ DrainError(w) PROVE Goal
  <2>1. job' = job /\ pc[w] \in {"drain", "enqueue"} /\ pc'[w] \in {"enqueue", "ok"}
    BY <1>12 DEF Drain, EnqueueAdmitted, DrainError
  <2> QED BY <1>1, <1>2, <1>3, <2>1 DEF DepOf, EnginePC
<1>13. ASSUME UNCHANGED <<pc, job>> PROVE Kept
  BY <1>13
<1>14. \/ \E v \in Workers :
            \/ (\E j \in JobIds : Take(v, j)) \/ Exit(v) \/ Claim(v) \/ Reread(v) \/ Dispatch(v)
            \/ HelperUp(v) \/ HelperFails(v) \/ StepsEnd(v) \/ Cleanup(v) \/ Finish(v)
            \/ InfraError(v) \/ Drain(v) \/ EnqueueAdmitted(v) \/ DrainError(v)
            \/ Report(v) \/ ReportLost(v)
       \/ Restart \/ UNCHANGED <<pc, job>>
  <2>1. CASE Next
    BY <2>1, Steps DEF Create, SendJob, SendFails, LateHelper, KillHelper, Cancel, Shutdown, engineVars
  <2>2. CASE UNCHANGED vars
    BY <2>2 DEF vars
  <2> QED BY <2>1, <2>2
<1> HIDE DEF Goal, Kept
<1>15. Goal
  BY <1>4, <1>5, <1>6, <1>7, <1>8, <1>9, <1>10, <1>11, <1>12, <1>13, <1>14
<1> QED BY <1>15 DEF Goal

LEMMA DoneStep == IInv /\ [Next]_vars => DoneMeansOver'
<1> SUFFICES ASSUME IInv, [Next]_vars, NEW j \in JobIds, jobStatus'[j] = "done"
             PROVE  status'[j[1]] \in Terminal
  BY DEF DoneMeansOver
<1>1. JobChange(j)
  BY JobSteps DEF IInv
<1>2. status[j[1]] \in Terminal
  <2>1. CASE jobStatus[j] = "done"
    BY <2>1 DEF IInv, DoneMeansOver
  <2>2. ASSUME NEW w \in Workers, j = job[w], pc[w] = "ok" PROVE status[j[1]] \in Terminal
    BY <2>2 DEF IInv, Stages, DepOf
  <2> QED BY <1>1, <2>1, <2>2 DEF JobChange
<1> QED BY <1>2, JobIdParts, LegalStep DEF IInv, Legal, Terminal

LEMMA Invariant == Spec => []IInv
<1>1. IInv /\ [Next]_vars => IInv'
  BY BooksStep, RowsStep, AdmissionsStep, StagesStep, DoneStep DEF IInv
<1> QED BY <1>1, IInvInit, PTL DEF Spec

(* A deploy job that is gone leaves a deployment that is over, however     *)
(* many engines ran it: run_deployment reports success only past the       *)
(* terminal transition or on a row it found already over.                  *)
THEOREM SuccessIsFinal == Spec => []DoneMeansOver
<1>1. IInv => DoneMeansOver
  BY DEF IInv
<1> QED BY <1>1, Invariant, PTL

(* No deployment is left behind by cancels, double runs, crashes of the    *)
(* engine or errors of admission: while it is not over, either its request *)
(* died between its two statements or its job is still there.              *)
THEOREM NothingForgotten == Spec => []NoneForgotten
<1>1. IInv => NoneForgotten
  <2> SUFFICES ASSUME IInv, NEW d \in Deps, status[d] \in Active,
                      request[d] \notin {"created", "lost"}
               PROVE  Live(<<d, "api">>) \/ jobStatus[<<d, "api">>] = "dropped"
    BY DEF NoneForgotten
  <2> USE DEF IInv, Books, TypeOK
  <2>1. request[d] = "sent"
    BY DEF Rows, Active
  <2>2. <<d, "api">> \in JobIds /\ jobStatus[<<d, "api">>] # "absent"
    BY <2>1, JobIdParts DEF Rows
  <2>3. jobStatus[<<d, "api">>] # "done"
    BY <2>2 DEF DoneMeansOver, Active, Terminal
  <2> QED BY <2>2, <2>3 DEF Live
<1> QED BY <1>1, Invariant, PTL

(* queue_next inserts one job at most for a deployment: rows are admitted  *)
(* once, and a row that was never admitted has no such job.                *)
THEOREM AdmissionOnce == Spec => []AdmittedOnce
<1>1. IInv => AdmittedOnce
  BY DEF IInv, Admissions, AdmittedOnce
<1> QED BY <1>1, Invariant, PTL

-----------------------------------------------------------------------------
(* Helper containers: only a crash, a removal that fails or a docker run   *)
(* nobody waits for leaves one without an engine to remove it.             *)
LEMMA HelperStep == Books /\ HelperOwned /\ [Next]_vars => HelperOwned'
<1> SUFFICES ASSUME Books, HelperOwned, [Next]_vars, NEW d \in Deps,
                    budget'.restarts = MaxRestarts, d \in helper'
             PROVE  \/ \E w \in Workers : pc'[w] \in {"steps", "cleanup"} /\ job'[w][1] = d
                    \/ stray'[d] \in {"late", "kept"}
  <2>1. Books /\ [Next]_vars => helper' \subseteq Deps
    BY BooksStep DEF Books, TypeOK
  <2> QED BY <2>1 DEF HelperOwned, Owned, DepOf
<1> DEFINE Goal == \/ \E w \in Workers : pc'[w] \in {"steps", "cleanup"} /\ job'[w][1] = d
                   \/ stray'[d] \in {"late", "kept"}
           Before == \/ \E w \in Workers : pc[w] \in {"steps", "cleanup"} /\ job[w][1] = d
                     \/ stray[d] \in {"late", "kept"}
<1> USE DEF Books, TypeOK, Goto
<1>1. ASSUME budget.restarts = MaxRestarts, d \in helper PROVE Before
  BY <1>1 DEF HelperOwned, Owned, DepOf
<1>2. ASSUME Before, budget.restarts = MaxRestarts, stray' = stray,
             \A w \in Workers : pc[w] \in {"steps", "cleanup"} =>
               pc'[w] \in {"steps", "cleanup"} /\ job'[w] = job[w]
      PROVE  Goal
  BY <1>2
<1>3. ASSUME Restart PROVE Goal
  BY <1>3, PipelineAssumption DEF Restart
<1>4. ASSUME NEW e \in Deps, LateHelper(e) \/ KillHelper(e) PROVE Goal
  BY <1>1, <1>4 DEF LateHelper, KillHelper, engineVars
<1>5. ASSUME NEW w \in Workers, HelperUp(w) PROVE Goal
  BY <1>1, <1>5 DEF HelperUp, DepOf
<1>6. ASSUME NEW w \in Workers, HelperFails(w) PROVE Goal
  <2>1. pc[w] = "sent" /\ pc' = [pc EXCEPT ![w] = "cleanup"] /\ job' = job /\ helper' = helper
    BY <1>6 DEF HelperFails
  <2>2. budget.restarts = MaxRestarts
    BY <1>6, BudgetTyped DEF HelperFails
  <2>3. stray' = stray \/ stray' = [stray EXCEPT ![DepOf(w)] = "sent"]
    BY <1>6 DEF HelperFails
  <2> QED BY <1>1, <2>1, <2>2, <2>3 DEF DepOf
<1>7. ASSUME NEW w \in Workers, Cleanup(w) PROVE Goal
  <2>1. pc[w] = "cleanup" /\ pc' = [pc EXCEPT ![w] = "finish"] /\ job' = job
    BY <1>7 DEF Cleanup
  <2>2. budget.restarts = MaxRestarts
    BY <1>7, BudgetTyped DEF Cleanup
  <2>3. \/ helper' = helper \ {DepOf(w)} /\ stray' = stray
        \/ helper' = helper /\ stray' = [stray EXCEPT ![DepOf(w)] = "kept"]
    BY <1>7 DEF Cleanup
  <2> QED BY <1>1, <2>1, <2>2, <2>3 DEF DepOf
<1>8. ASSUME helper' = helper, stray' = stray, budget.restarts = MaxRestarts,
             \A w \in Workers : pc[w] \in {"steps", "cleanup"} =>
               pc'[w] \in {"steps", "cleanup"} /\ job'[w] = job[w]
      PROVE  Goal
  BY <1>1, <1>2, <1>8
<1>9. ASSUME NEW e \in Deps, Create(e) \/ SendJob(e) \/ SendFails(e) PROVE Goal
  BY <1>8, <1>9, BudgetTyped DEF Create, SendJob, SendFails, engineVars, containerVars
<1>10. ASSUME NEW targets \in SUBSET Deps, Cancel(targets) PROVE Goal
  BY <1>8, <1>10 DEF Cancel, engineVars, containerVars
<1>11. ASSUME NEW w \in Workers, NEW j \in JobIds, Take(w, j) PROVE Goal
  BY <1>8, <1>11 DEF Take, containerVars
<1>12. ASSUME NEW w \in Workers, Exit(w) \/ Claim(w) \/ Reread(w) \/ Finish(w) \/ StepsEnd(w)
       PROVE Goal
  BY <1>8, <1>12 DEF Exit, Claim, Reread, Finish, StepsEnd, containerVars
<1>13. ASSUME NEW w \in Workers, Dispatch(w) PROVE Goal
  <2>1. pc[w] = "up" /\ \A v \in Workers : v # w => pc'[v] = pc[v]
    BY <1>8, <1>13 DEF Dispatch
  <2> QED BY <1>8, <1>13, <2>1 DEF Dispatch, containerVars
<1>14. ASSUME NEW w \in Workers, InfraError(w) \/ DrainError(w) \/ ReportLost(w) PROVE Goal
  BY <1>8, <1>14, BudgetTyped DEF InfraError, DrainError, ReportLost, PutDown, containerVars
<1>15. ASSUME NEW w \in Workers, EnqueueAdmitted(w) \/ Report(w) PROVE Goal
  BY <1>8, <1>15 DEF EnqueueAdmitted, Report, PutDown, containerVars
<1>16. ASSUME NEW w \in Workers, Drain(w) PROVE Goal
  BY <1>8, <1>16 DEF Drain, containerVars
<1>17. ASSUME Shutdown PROVE Goal
  BY <1>8, <1>17 DEF Shutdown, engineVars, containerVars
<1>18. ASSUME UNCHANGED vars PROVE Goal
  BY <1>8, <1>18 DEF vars
<1> HIDE DEF Goal, Books, TypeOK
<1>19. Goal
  <2>1. CASE Next
    BY <2>1, <1>3, <1>4, <1>5, <1>6, <1>7, <1>9, <1>10, <1>11, <1>12, <1>13, <1>14, <1>15,
       <1>16, <1>17, Steps
  <2> QED BY <2>1, <1>18
<1> QED BY <1>19 DEF Goal

(* While the process lives, the helper of a deployment is up only for an   *)
(* engine that will remove it, double runs of the deployment included.     *)
THEOREM HelpersOwned == Spec => []HelperOwned
<1>1. Init => HelperOwned
  BY DEF Init, HelperOwned
<1>2. Spec => []Books
  BY BooksInit, BooksStep, PTL DEF Spec
<1> QED BY <1>1, <1>2, HelperStep, PTL DEF Spec

-----------------------------------------------------------------------------
(* A clean stop.  Whoever holds a job is at work on it; and as long as the *)
(* database has answered and the process lives, a deployment in progress   *)
(* is attended: a job of it waits, an engine is before its terminal        *)
(* transition, or admission is about to insert its job.                    *)
Attends == {"claim", "reread", "up", "sent", "steps", "cleanup", "finish"}

Holders ==
  \A j \in JobIds : jobStatus[j] = "held" => \E w \in Workers : pc[w] \in EnginePC /\ job[w] = j

OneAdmitted == \A w \in Workers : \A d, e \in admitted[w] : d = e

Attended(d) ==
  \/ \E k \in {"api", "adm"} : jobStatus[<<d, k>>] = "queued"
  \/ \E w \in Workers : pc[w] \in Attends /\ DepOf(w) = d
  \/ \E w \in Workers : pc[w] = "enqueue" /\ d \in admitted[w]

Calm ==
  budget.db = MaxDbErrors =>
    /\ \A w \in Workers : pc[w] # "err"
    /\ budget.restarts = MaxRestarts =>
         \A d \in Deps : status[d] = "in_progress" => Attended(d)

Drained == Holders /\ OneAdmitted /\ Calm

(* The statements and commands of an engine, from the claim to its report. *)
Works(w) ==
  \/ Claim(w) \/ Reread(w) \/ Dispatch(w) \/ HelperUp(w) \/ HelperFails(w)
  \/ StepsEnd(w) \/ Cleanup(w) \/ Finish(w) \/ InfraError(w)
  \/ Drain(w) \/ EnqueueAdmitted(w) \/ DrainError(w)

LEMMA WorkSteps ==
  ASSUME Books, NEW w \in Workers, Works(w)
  PROVE  /\ job' = job /\ pc[w] \in EnginePC /\ pc'[w] \in EnginePC
         /\ \A v \in Workers : v # w => pc'[v] = pc[v]
<1> USE DEF Books, TypeOK, Goto, EnginePC
<1>1. CASE Dispatch(w)
  <2>1. /\ pc[w] = "up" /\ job' = job
        /\ pc' = [pc EXCEPT ![w] = "cleanup"] \/ pc' = [pc EXCEPT ![w] = "sent"]
    BY <1>1 DEF Dispatch
  <2> QED BY <2>1
<1>2. CASE Claim(w) \/ Reread(w) \/ Finish(w) \/ InfraError(w)
  BY <1>2 DEF Claim, Reread, Finish, InfraError
<1>3. CASE HelperUp(w) \/ HelperFails(w) \/ StepsEnd(w) \/ Cleanup(w)
  BY <1>3 DEF HelperUp, HelperFails, StepsEnd, Cleanup
<1>4. CASE Drain(w) \/ EnqueueAdmitted(w) \/ DrainError(w)
  BY <1>4 DEF Drain, EnqueueAdmitted, DrainError
<1> QED BY <1>1, <1>2, <1>3, <1>4 DEF Works

(* What the steps of an engine do to the jobs: at most, insert one.        *)
LEMMA WorkJobs ==
  ASSUME Books, NEW w \in Workers, Works(w)
  PROVE  \A j \in JobIds : jobStatus'[j] = jobStatus[j] \/ jobStatus'[j] = "queued"
<1>1. CASE EnqueueAdmitted(w)
  <2>1. PICK d \in admitted[w] : Store!Submit(<<d, "adm">>)
    BY <1>1 DEF EnqueueAdmitted
  <2>2. <<d, "adm">> \in JobIds
    BY JobIdParts DEF Books, TypeOK
  <2> QED BY <2>1, <2>2, StoreSteps
<1>2. CASE ~EnqueueAdmitted(w)
  <2>1. UNCHANGED storeVars
    BY <1>2 DEF Works, Claim, Reread, Dispatch, HelperUp, HelperFails, StepsEnd, Cleanup,
       Finish, InfraError, Drain, DrainError
  <2> QED BY <2>1 DEF storeVars
<1> QED BY <1>1, <1>2

(* Every step, as far as jobs and engines are concerned.                   *)
LEMMA EngineSteps ==
  ASSUME [Next]_vars
  PROVE  \/ \E w \in Workers, j \in JobIds : Take(w, j)
         \/ \E w \in Workers : Exit(w) \/ Works(w) \/ Report(w) \/ ReportLost(w)
         \/ \E d \in Deps : SendJob(d)
         \/ Restart
         \/ UNCHANGED <<pc, job, admitted, storeVars>>
<1>1. CASE Next
  BY <1>1, Steps DEF Works, Create, SendFails, LateHelper, KillHelper, Cancel, Shutdown, engineVars
<1>2. CASE UNCHANGED vars
  BY <1>2 DEF vars, storeVars
<1> QED BY <1>1, <1>2

LEMMA HoldersStep == Books /\ Holders /\ [Next]_vars => Holders'
<1> SUFFICES ASSUME Books, Holders, [Next]_vars, NEW j \in JobIds, jobStatus'[j] = "held"
             PROVE  \E w \in Workers : pc'[w] \in EnginePC /\ job'[w] = j
  BY DEF Holders
<1> DEFINE Goal == \E w \in Workers : pc'[w] \in EnginePC /\ job'[w] = j
<1>1. ASSUME NEW w \in Workers, NEW i \in JobIds, Take(w, i) PROVE Goal
  <2>1. /\ pc[w] = "idle" /\ pc' = [pc EXCEPT ![w] = "claim"] /\ job' = [job EXCEPT ![w] = i]
        /\ jobStatus' = [jobStatus EXCEPT ![i] = "held"]
    BY <1>1 DEF Take, Goto, Store!Take
  <2>2. CASE i = j
    BY <2>1, <2>2 DEF EnginePC, Books, TypeOK
  <2>3. CASE i # j
    <3>1. PICK v \in Workers : pc[v] \in EnginePC /\ job[v] = j
      BY <2>1, <2>3 DEF Holders, Books, TypeOK
    <3>2. v # w
      BY <2>1, <3>1 DEF EnginePC
    <3>3. pc'[v] = pc[v] /\ job'[v] = job[v]
      BY <2>1, <3>2 DEF Books, TypeOK
    <3> QED BY <3>1, <3>3
  <2> QED BY <2>2, <2>3
<1>2. ASSUME NEW w \in Workers, Exit(w) PROVE Goal
  <2>1. pc[w] = "idle" /\ pc' = [pc EXCEPT ![w] = "exited"] /\ job' = job /\ jobStatus' = jobStatus
    BY <1>2 DEF Exit, Goto, storeVars
  <2>2. PICK v \in Workers : pc[v] \in EnginePC /\ job[v] = j
    BY <2>1 DEF Holders
  <2>3. pc'[v] = pc[v]
    BY <2>1, <2>2 DEF EnginePC, Books, TypeOK
  <2> QED BY <2>1, <2>2, <2>3
<1>3. ASSUME NEW w \in Workers, Works(w) PROVE Goal
  <2>1. jobStatus[j] = "held"
    BY <1>3, WorkJobs
  <2>2. PICK v \in Workers : pc[v] \in EnginePC /\ job[v] = j
    BY <2>1 DEF Holders
  <2> QED BY <1>3, <2>2, WorkSteps
<1>4. ASSUME NEW w \in Workers, Report(w) \/ ReportLost(w) PROVE Goal
  <2>1. pc[w] \in EnginePC /\ job[w] \in JobIds
    BY <1>4 DEF Report, ReportLost, EnginePC, Books, Hands
  <2>2. /\ jobStatus'[job[w]] # "held"
        /\ \A i \in JobIds : i # job[w] => jobStatus'[i] = jobStatus[i]
    <3>1. CASE Report(w)
      BY <2>1, <3>1, StoreSteps DEF Report
    <3>2. CASE ReportLost(w)
      <4>1. Store!LetGo({job[w]}) /\ {job[w]} \in SUBSET JobIds
        BY <2>1, <3>2 DEF ReportLost
      <4> QED BY <2>1, <4>1, StoreSteps
    <3> QED BY <1>4, <3>1, <3>2
  <2>3. PICK v \in Workers : pc[v] \in EnginePC /\ job[v] = j
    BY <2>2 DEF Holders
  <2>4. v # w
    BY <2>2, <2>3
  <2>5. pc'[v] = pc[v] /\ job'[v] = job[v]
    BY <1>4, <2>4 DEF Report, ReportLost, PutDown, Goto, Books, TypeOK
  <2> QED BY <2>3, <2>5
<1>5. ASSUME NEW d \in Deps, SendJob(d) PROVE Goal
  <2>1. UNCHANGED <<pc, job>> /\ Store!Submit(<<d, "api">>) /\ <<d, "api">> \in JobIds
    BY <1>5, JobIdParts DEF SendJob, engineVars
  <2>2. jobStatus[j] = "held"
    BY <2>1, StoreSteps
  <2> QED BY <2>1, <2>2 DEF Holders
<1>6. ASSUME Restart PROVE Goal
  <2>1. jobStatus'[j] # "held"
    BY <1>6 DEF Restart, Store!LetGo, storeVars
  <2> QED BY <2>1
<1>7. ASSUME UNCHANGED <<pc, job, admitted, storeVars>> PROVE Goal
  BY <1>7 DEF Holders, storeVars
<1> HIDE DEF Goal
<1>8. Goal
  BY <1>1, <1>2, <1>3, <1>4, <1>5, <1>6, <1>7, EngineSteps
<1> QED BY <1>8 DEF Goal

LEMMA OneAdmittedStep == Books /\ OneAdmitted /\ [Next]_vars => OneAdmitted'
<1> SUFFICES ASSUME Books, OneAdmitted, [Next]_vars, NEW w \in Workers,
                    NEW d \in admitted'[w], NEW e \in admitted'[w]
             PROVE  d = e
  BY DEF OneAdmitted
<1>1. CASE d \in admitted[w] /\ e \in admitted[w]
  BY <1>1 DEF OneAdmitted
<1>2. ASSUME NEW f \in Deps \cup {d, e}, admitted' = [admitted EXCEPT ![w] = {f}]
      PROVE  d = e
  BY <1>2 DEF Books, TypeOK
<1> QED BY <1>1, <1>2, AdmittedSteps

(* Errors and crashes are counted.                                         *)
LEMMA Spending ==
  ASSUME Books, [Next]_vars, budget'.db = MaxDbErrors
  PROVE  /\ budget.db = MaxDbErrors /\ ~DbError
         /\ budget'.restarts = MaxRestarts => budget.restarts = MaxRestarts /\ ~Restart
<1> USE PipelineAssumption DEF Books, TypeOK
<1>1. ~DbError
  BY DEF DbError
<1>2. CASE Restart
  <2>1. budget' = [budget EXCEPT !.restarts = @ - 1] /\ budget.restarts \in 0..MaxRestarts
    BY <1>2 DEF Restart
  <2> QED BY <1>1, <2>1
<1>3. CASE Shutdown
  BY <1>1, <1>3 DEF Shutdown, Restart
<1>4. CASE SshLoss
  BY <1>1, <1>4 DEF SshLoss, Restart
<1>5. CASE budget' = budget
  BY <1>1, <1>5 DEF Restart
<1>6. Restart \/ Shutdown \/ SshLoss \/ budget' = budget
  <2>1. CASE Next
    BY <1>1, <2>1, Steps DEF Create, SendJob, SendFails, LateHelper, KillHelper, Cancel, Take, Exit,
       Claim, Reread, Dispatch, HelperUp, HelperFails, StepsEnd, Cleanup, Finish, InfraError, Drain,
       EnqueueAdmitted, DrainError, Report, ReportLost
  <2>2. CASE UNCHANGED vars
    BY <2>2 DEF vars
  <2> QED BY <2>1, <2>2
<1> QED BY <1>2, <1>3, <1>4, <1>5, <1>6

(* The errors that an engine returns are database errors.                  *)
LEMMA NoErrorStep ==
  ASSUME Books, [Next]_vars, ~DbError, \A w \in Workers : pc[w] # "err"
  PROVE  \A w \in Workers : pc'[w] # "err"
<1> SUFFICES ASSUME NEW u \in Workers PROVE pc'[u] # "err"
  OBVIOUS
<1> USE DEF Books, TypeOK, Goto
<1>1. ASSUME NEW w \in Workers, NEW j \in JobIds, Take(w, j) PROVE pc'[u] # "err"
  BY <1>1 DEF Take
<1>2. ASSUME NEW w \in Workers, Exit(w) \/ Report(w) \/ ReportLost(w) PROVE pc'[u] # "err"
  BY <1>2 DEF Exit, Report, ReportLost, PutDown
<1>3. ASSUME NEW w \in Workers, Works(w) PROVE pc'[u] # "err"
  <2>1. CASE Dispatch(w)
    <3>1. pc' = [pc EXCEPT ![w] = "cleanup"] \/ pc' = [pc EXCEPT ![w] = "sent"]
      BY <2>1 DEF Dispatch
    <3> QED BY <3>1
  <2>2. CASE ~Dispatch(w)
    BY <1>3, <2>2 DEF Works, Claim, Reread, HelperUp, HelperFails, StepsEnd, Cleanup, Finish,
       InfraError, Drain, EnqueueAdmitted, DrainError
  <2> QED BY <2>1, <2>2
<1>4. ASSUME pc' = pc \/ Restart PROVE pc'[u] # "err"
  BY <1>4 DEF Restart
<1> QED BY <1>1, <1>2, <1>3, <1>4, EngineSteps DEF SendJob, engineVars

(* A deployment in progress stays attended: by another job of it, by the   *)
(* same engine, or by the worker that takes or admits it.                  *)
LEMMA AttendedStep ==
  ASSUME IInv, Drained, [Next]_vars, ~DbError, ~Restart, NEW d \in Deps,
         status[d] = "in_progress" => Attended(d), status'[d] = "in_progress"
  PROVE  Attended(d)'
<1> USE DEF IInv, Books, TypeOK, Goto
<1>1. <<d, "api">> \in JobIds /\ <<d, "adm">> \in JobIds
  BY JobIdParts
<1> DEFINE Waits == jobStatus'[<<d, "api">>] = "queued" \/ jobStatus'[<<d, "adm">>] = "queued"
           Engaged(w) == pc'[w] \in Attends /\ job'[w][1] = d
           Admits(w) == pc'[w] = "enqueue" /\ d \in admitted'[w]
           Goal == Waits \/ \E w \in Workers : Engaged(w) \/ Admits(w)
<1>2. Goal => Attended(d)'
  BY DEF Attended, DepOf
(* What attends it, and what no step but the worker's own disturbs.        *)
<1>3. ASSUME status[d] = "in_progress",
             \A k \in {"api", "adm"} : jobStatus[<<d, k>>] = "queued" => Goal,
             \A w \in Workers : pc[w] \in Attends /\ job[w][1] = d => Goal,
             \A w \in Workers : pc[w] = "enqueue" /\ d \in admitted[w] => Goal
      PROVE  Goal
  BY <1>3 DEF Attended, DepOf
<1>4. ASSUME NEW w \in Workers, NEW j \in JobIds, Take(w, j) PROVE Goal
  <2>1. /\ pc[w] = "idle" /\ pc' = [pc EXCEPT ![w] = "claim"] /\ job' = [job EXCEPT ![w] = j]
        /\ jobStatus' = [jobStatus EXCEPT ![j] = "held"] /\ status' = status /\ admitted' = admitted
    BY <1>4 DEF Take, Store!Take
  <2>2. CASE j[1] = d
    BY <2>1, <2>2 DEF Attends
  <2>3. CASE j[1] # d
    <3>1. \A k \in {"api", "adm"} : <<d, k>> # j
      BY <2>3
    <3>2. \A v \in Workers : pc[v] \in Attends \cup {"enqueue"} => pc'[v] = pc[v] /\ job'[v] = job[v]
      BY <2>1 DEF Attends
    <3> QED BY <1>1, <1>3, <2>1, <3>1, <3>2
  <2> QED BY <2>2, <2>3
<1>5. ASSUME NEW w \in Workers, Exit(w) \/ Report(w) PROVE Goal
  <2>1. /\ pc[w] \in {"idle", "ok", "err"} /\ status' = status /\ admitted' = admitted
        /\ \A v \in Workers : v # w => pc'[v] = pc[v] /\ job'[v] = job[v]
    BY <1>5 DEF Exit, Report, PutDown
  <2>2. \A k \in {"api", "adm"} : jobStatus[<<d, k>>] = "queued" => jobStatus'[<<d, k>>] = "queued"
    <3>1. CASE Exit(w)
      BY <3>1 DEF Exit, storeVars
    <3>2. CASE Report(w)
      <4>1. job[w] \in JobIds /\ (Store!Finish(w, job[w]) \/ Store!Miss(w, job[w]))
        BY <3>2 DEF Report, Hands, EnginePC
      <4>2. /\ jobStatus[job[w]] = "held"
            /\ \A i \in JobIds : i # job[w] => jobStatus'[i] = jobStatus[i]
        BY <4>1, StoreSteps
      <4> QED BY <1>1, <4>2
    <3> QED BY <1>5, <3>1, <3>2
  <2> QED BY <1>3, <2>1, <2>2 DEF Attends
<1>6. ASSUME NEW e \in Deps, SendJob(e) PROVE Goal
  <2>1. UNCHANGED <<status, pc, job, admitted>> /\ Store!Submit(<<e, "api">>) /\ <<e, "api">> \in JobIds
    BY <1>6, JobIdParts DEF SendJob, engineVars
  <2>2. \A k \in {"api", "adm"} : jobStatus[<<d, k>>] = "queued" => jobStatus'[<<d, k>>] = "queued"
    BY <1>1, <2>1, StoreSteps
  <2> QED BY <1>3, <2>1, <2>2
<1>7. ASSUME UNCHANGED <<pc, job, admitted, storeVars>>, status'[d] = status[d] PROVE Goal
  BY <1>3, <1>7 DEF storeVars
(* The engines.                                                            *)
<1>8. ASSUME NEW w \in Workers, Works(w) PROVE Goal
  <2>1. /\ job' = job /\ \A v \in Workers : v # w => pc'[v] = pc[v]
        /\ \A j \in JobIds : jobStatus[j] = "queued" => jobStatus'[j] = "queued"
    BY <1>8, WorkSteps, WorkJobs
  <2>2. \A v \in Workers : v # w => admitted'[v] = admitted[v]
    BY <1>8 DEF Works, Claim, Reread, Dispatch, HelperUp, HelperFails, StepsEnd, Cleanup, Finish,
       InfraError, Drain, EnqueueAdmitted, DrainError
  <2>3. ASSUME status[d] = "in_progress", pc[w] \in Attends /\ job[w][1] = d => Goal,
               pc[w] = "enqueue" /\ d \in admitted[w] => Goal
        PROVE  Goal
    BY <1>1, <1>3, <2>1, <2>2, <2>3
  <2>4. CASE Claim(w)
    <3>1. /\ pc[w] = "claim" /\ pc'[w] \in {"up", "reread"}
          /\ Transition(DepOf(w), "in_progress")
      BY <2>4 DEF Claim
    <3>2. CASE DepOf(w) = d
      BY <2>1, <3>1, <3>2 DEF Attends, DepOf
    <3>3. CASE DepOf(w) # d
      <4>1. status[d] = "in_progress"
        BY <3>1, <3>3 DEF Transition
      <4> QED BY <2>3, <3>1, <3>3, <4>1 DEF DepOf
    <3> QED BY <3>2, <3>3
  <2>5. CASE Reread(w)
    <3>1. /\ pc[w] = "reread" /\ status' = status
          /\ status[DepOf(w)] = "in_progress" => pc'[w] = "up"
      BY <2>5 DEF Reread
    <3> QED BY <2>1, <2>3, <3>1 DEF Attends, DepOf
  <2>6. CASE Dispatch(w)
    <3>1. /\ pc[w] = "up" /\ status' = status
          /\ pc' = [pc EXCEPT ![w] = "cleanup"] \/ pc' = [pc EXCEPT ![w] = "sent"]
      BY <2>6 DEF Dispatch
    <3>2. pc'[w] \in {"cleanup", "sent"}
      BY <3>1
    <3> QED BY <2>1, <2>3, <3>1, <3>2 DEF Attends
  <2>7. CASE HelperUp(w) \/ HelperFails(w) \/ StepsEnd(w) \/ Cleanup(w)
    <3>1. pc[w] # "enqueue" /\ status' = status /\ pc'[w] \in Attends
      BY <2>7 DEF HelperUp, HelperFails, StepsEnd, Cleanup, Attends
    <3> QED BY <2>1, <2>3, <3>1
  <2>8. CASE Finish(w)
    <3>1. pc[w] = "finish" /\ Transition(DepOf(w), EndOf(outcome[w])) /\ DepOf(w) \in Deps
      BY <2>8, DepInHand DEF Finish, EnginePC
    <3>2. EndOf(outcome[w]) \in Terminal
      BY DEF EndOf, Terminal
    <3>3. DepOf(w) # d /\ status'[d] = status[d]
      BY <3>1, <3>2 DEF Transition, CanTransition, Terminal
    <3> QED BY <2>3, <3>1, <3>3 DEF DepOf
  <2>9. CASE Drain(w)
    <3>1. pc[w] = "drain"
      BY <2>9 DEF Drain
    <3>2. CASE status[d] = "in_progress"
      BY <2>3, <3>1, <3>2 DEF Attends
    <3>3. CASE status[d] # "in_progress"
      <4>1. PICK e \in Deps : /\ status' = [status EXCEPT ![e] = "in_progress"]
                              /\ admitted' = [admitted EXCEPT ![w] = {e}] /\ pc'[w] = "enqueue"
        BY <2>9, <3>3 DEF Drain
      <4>2. e = d
        BY <3>3, <4>1
      <4> QED BY <4>1, <4>2
    <3> QED BY <3>2, <3>3
  <2>10. CASE EnqueueAdmitted(w)
    <3>1. /\ pc[w] = "enqueue" /\ status' = status
          /\ \E e \in admitted[w] : Store!Submit(<<e, "adm">>)
      BY <2>10 DEF EnqueueAdmitted
    <3>2. ASSUME d \in admitted[w] PROVE Waits
      <4>1. Store!Submit(<<d, "adm">>)
        BY <3>1, <3>2 DEF Drained, OneAdmitted
      <4> QED BY <1>1, <4>1, StoreSteps
    <3> QED BY <2>3, <3>1, <3>2 DEF Attends
  <2>11. CASE InfraError(w) \/ DrainError(w)
    BY <2>11 DEF InfraError, DrainError
  <2> QED BY <1>8, <2>4, <2>5, <2>6, <2>7, <2>8, <2>9, <2>10, <2>11 DEF Works
<1>9. ASSUME NEW w \in Workers, ReportLost(w) PROVE Goal
  BY <1>9 DEF ReportLost
<1>10. ASSUME UNCHANGED <<pc, job, admitted, storeVars>> PROVE status'[d] = status[d]
  <2>1. ASSUME NEW e \in Deps, Create(e) PROVE status'[d] = status[d]
    BY <2>1 DEF Create
  <2>2. ASSUME NEW targets \in SUBSET Deps, Cancel(targets) PROVE status'[d] = status[d]
    BY <2>2 DEF Cancel
  <2>3. ASSUME NEW w \in Workers, Claim(w) \/ Finish(w) \/ Drain(w) PROVE FALSE
    BY <1>10, <2>3 DEF Claim, Finish, Drain
  <2>4. \/ \E e \in Deps : Create(e)
        \/ \E targets \in SUBSET Deps : Cancel(targets)
        \/ \E w \in Workers : Claim(w) \/ Finish(w) \/ Drain(w)
        \/ UNCHANGED status
    <3>1. CASE Next
      BY <3>1, Steps DEF SendJob, SendFails, LateHelper, KillHelper, Take, Exit, Reread, Dispatch,
         HelperUp, HelperFails, StepsEnd, Cleanup, InfraError, EnqueueAdmitted,
         DrainError, Report, ReportLost, Shutdown, Restart
    <3>2. CASE UNCHANGED vars
      BY <3>2 DEF vars
    <3> QED BY <3>1, <3>2
  <2> QED BY <2>1, <2>2, <2>3, <2>4
<1> HIDE DEF Goal
<1>11. Goal
  BY <1>4, <1>5, <1>6, <1>7, <1>8, <1>9, <1>10, EngineSteps
<1> QED BY <1>2, <1>11

LEMMA CalmStep == IInv /\ Drained /\ [Next]_vars => Calm'
<1> SUFFICES ASSUME IInv, Drained, [Next]_vars, budget'.db = MaxDbErrors
             PROVE  /\ \A w \in Workers : pc'[w] # "err"
                    /\ budget'.restarts = MaxRestarts =>
                         \A d \in Deps : status'[d] = "in_progress" => Attended(d)'
  BY DEF Calm
<1>1. budget.db = MaxDbErrors /\ ~DbError
  BY Spending DEF IInv
<1>2. \A w \in Workers : pc'[w] # "err"
  BY <1>1, NoErrorStep DEF IInv, Drained, Calm
<1>3. ASSUME budget'.restarts = MaxRestarts, NEW d \in Deps, status'[d] = "in_progress"
      PROVE  Attended(d)'
  <2>1. budget.restarts = MaxRestarts /\ ~Restart
    BY <1>3, Spending DEF IInv
  <2>2. status[d] = "in_progress" => Attended(d)
    BY <1>1, <2>1 DEF Drained, Calm
  <2> QED BY <1>1, <1>3, <2>1, <2>2, AttendedStep
<1> QED BY <1>2, <1>3

(* run_loop: the token is only looked at between jobs, so a shutdown is a  *)
(* drain: when every worker has left, nothing is held, and what is in      *)
(* progress has a job that the next process will take.                     *)
THEOREM StopsClean == Spec => []StopIsClean
<1>1. Init => Drained
  <2>1. ASSUME Init PROVE Drained
    <3>1. Holders /\ OneAdmitted
      BY <2>1 DEF Init, Store!StoreInit, Holders, OneAdmitted
    <3>2. Calm
      BY <2>1 DEF Init, Calm
    <3> QED BY <3>1, <3>2 DEF Drained
  <2> QED BY <2>1
<1>2. IInv /\ Drained /\ [Next]_vars => Drained'
  BY HoldersStep, OneAdmittedStep, CalmStep DEF IInv, Drained
<1>3. Drained => StopIsClean
  <2>1. ASSUME Drained, \A w \in Workers : pc[w] = "exited"
        PROVE  /\ \A j \in JobIds : jobStatus[j] # "held"
               /\ budget.db = MaxDbErrors /\ budget.restarts = MaxRestarts =>
                    \A d \in Deps : status[d] = "in_progress" =>
                      \E k \in {"api", "adm"} : jobStatus[<<d, k>>] = "queued"
    <3>1. \A w \in Workers : pc[w] \notin EnginePC /\ pc[w] \notin Attends /\ pc[w] # "enqueue"
      BY <2>1 DEF EnginePC, Attends
    <3> QED BY <2>1, <3>1 DEF Drained, Holders, Calm, Attended
  <2> QED BY <2>1 DEF StopIsClean
<1>4. Spec => [](IInv /\ Drained)
  <2>1. IInv /\ [Next]_vars => IInv'
    BY BooksStep, RowsStep, AdmissionsStep, StagesStep, DoneStep DEF IInv
  <2> QED BY <1>1, <1>2, <2>1, IInvInit, PTL DEF Spec
<1> QED BY <1>3, <1>4, PTL

=============================================================================
