--------------------------- MODULE PreviewsProofs ---------------------------
(***************************************************************************)
(* Proofs about Previews for any deliveries, workers and bounds.           *)
(*                                                                         *)
(* The limit of the deploy queue: a handler that has looked and found room *)
(* is either overtaken by another deploy job or still has room, for        *)
(* everything else only makes the queue shorter (Looked).                  *)
(*                                                                         *)
(* The row and the comment: while no two workers were about the preview at *)
(* once, what its only worker has read of the row is still there (Alone).  *)
(***************************************************************************)
EXTENDS Previews, FiniteSetTheorems, TLAPS

(* Handlers that have looked at the queue and not added to it yet.         *)
Waits(d) == at[d] \in {"upsert", "create", "enqueue"}

(* A worker past `idle` has a job, and a job that may run has tries left.  *)
Hands == \A w \in Workers : work[w].pc # "idle" => work[w].d \in Deliveries
TriesLeft == \A d \in Deliveries : jobStatus[d] # "dropped" => tries[d] < MaxAttempts

(* A delivery has no job before its handler is through.                    *)
Fresh == \A d \in Deliveries : at[d] # "done" => jobStatus[d] = "absent"

(* There are finitely many jobs, so the queue has a length.                *)
Submitted == {d \in Deliveries : jobStatus[d] # "absent"}
Bounded == IsFiniteSet(Submitted)

Looked ==
  \A d \in Deliveries :
    what[d] \in {"push", "open"} /\ Waits(d) /\ d \notin overtaken
      => Cardinality(Pending) < Limit

Core == TypeOK /\ Hands /\ TriesLeft
Inv == Core /\ Fresh /\ Bounded /\ Looked

(* While nothing has overlapped, at most one worker is about the preview.  *)
(* Between jobs, the container has its row and the comment its id; a       *)
(* deployment has read both, and a cleanup has read what it is to remove.  *)
Busy(w) == Deploying(w) \/ CleaningUp(w)
Saving(w) == work[w].pc \in {"save", "saveEnd"}
NoFault == spent.faults = 0

Rest ==
  /\ box => row # NoRow
  /\ NoFault => comments \subseteq {row.comment}

DeployTidy(w) ==
  /\ row # NoRow /\ row.id = work[w].id
  /\ NoFault =>
       IF Saving(w) THEN comments \subseteq {work[w].comment}
       ELSE work[w].comment = row.comment /\ comments \subseteq {row.comment}

CleanTidy(w) ==
  /\ box => row # NoRow /\ work[w].pc = "remove"
  /\ work[w].pc \in {"uncomment", "drop"} => row # NoRow /\ row.id = work[w].id
  /\ NoFault =>
       /\ comments \subseteq {row.comment}
       /\ work[w].pc = "uncomment" => work[w].comment = row.comment
       /\ work[w].pc = "drop" => comments = {}

Tidy ==
  ~raced =>
    /\ \A v, w \in Workers : Busy(v) /\ Busy(w) => v = w
    /\ \A w \in Workers : Deploying(w) => DeployTidy(w)
    /\ \A w \in Workers : CleaningUp(w) => CleanTidy(w)
    /\ (\A w \in Workers : ~Busy(w)) => Rest

(* A worker holds its job, only those of previews post, and ids are given  *)
(* in their order.                                                         *)
Held ==
  \A w \in Workers : work[w].pc # "idle" =>
    jobStatus[work[w].d] = "held" /\ holder[work[w].d] = w /\ at[work[w].d] = "done"
OfPreviews ==
  \A w \in Workers : work[w].pc \in {"post", "save", "postEnd", "saveEnd"} => IsPreview(w)
Numbered == comments \subseteq 1..posted /\ (row # NoRow => row.id # 0)

Alone == Held /\ OfPreviews /\ Numbered /\ Tidy

Rows == [id: Nat, comment: Nat]
WorkStates == [pc: {"idle", "prepare", "claim", "post", "save", "up", "finish",
                    "postEnd", "saveEnd", "cancel", "remove", "read", "uncomment",
                    "drop", "ok", "err"},
               d: Deliveries \cup {NoDelivery}, id: Nat, comment: Nat]
Stages == {"none", "count", "upsert", "create", "enqueue", "done"}
Statuses == {"none", "queued", "in_progress", "finished", "failed", "cancelled"}
Troubles == [faults: 0..MaxTroubles, deletions: 0..MaxTroubles]

-----------------------------------------------------------------------------
LEMMA Typed ==
  TypeOK <=> /\ what \in [Deliveries -> Kinds \cup {"none"}]
             /\ at \in [Deliveries -> Stages]
             /\ overtaken \in SUBSET Deliveries
             /\ dep \in [Deliveries -> Statuses]
             /\ Store!StoreTypeOK
             /\ locked \in SUBSET Deliveries
             /\ row \in Rows /\ rows \in Nat
             /\ comments \in SUBSET Nat /\ posted \in Nat
             /\ box \in BOOLEAN
             /\ work \in [Workers -> WorkStates]
             /\ raced \in BOOLEAN
             /\ spent \in Troubles
BY DEF TypeOK, Rows, WorkStates, Stages, Statuses, Troubles

LEMMA TypedNext ==
  TypeOK' <=> /\ what' \in [Deliveries -> Kinds \cup {"none"}]
              /\ at' \in [Deliveries -> Stages]
              /\ overtaken' \in SUBSET Deliveries
              /\ dep' \in [Deliveries -> Statuses]
              /\ Store!StoreTypeOK'
              /\ locked' \in SUBSET Deliveries
              /\ row' \in Rows /\ rows' \in Nat
              /\ comments' \in SUBSET Nat /\ posted' \in Nat
              /\ box' \in BOOLEAN
              /\ work' \in [Workers -> WorkStates]
              /\ raced' \in BOOLEAN
              /\ spent' \in Troubles
BY DEF TypeOK, Rows, WorkStates, Stages, Statuses, Troubles

(* What may be asked of rustify.                                           *)
LEMMA Questions == Asked \subseteq Kinds \cup {"none"}
<1>1. \A m : PushAsks(m) \in {"none", "push"}
  BY DEF PushAsks
<1>2. \A e, p, a, m, public, fork, association :
        PullAsks(e, p, a, m, public, fork, association) \in {"none", "open", "close"}
  BY DEF PullAsks
<1>3. ASSUME NEW kind \in Asked PROVE kind \in Kinds \cup {"none"}
  BY <1>1, <1>2 DEF Asked, Kinds
<1> QED BY <1>3

LEMMA SpendFacts ==
  ASSUME TypeOK, NEW kind \in {"faults", "deletions"}, Spend(kind)
  PROVE  spent' \in Troubles
<1>1. spent \in Troubles /\ spent.faults + spent.deletions < MaxTroubles
  BY Typed DEF Spend
<1>2. CASE kind = "faults"
  <2>1. spent' = [spent EXCEPT !.faults = @ + 1]
    BY <1>2 DEF Spend
  <2>2. spent.faults + 1 \in 0..MaxTroubles
    BY <1>1, PreviewsAssumption DEF Troubles
  <2> QED BY <1>1, <2>1, <2>2 DEF Troubles
<1>3. CASE kind = "deletions"
  <2>1. spent' = [spent EXCEPT !.deletions = @ + 1]
    BY <1>3 DEF Spend
  <2>2. spent.deletions + 1 \in 0..MaxTroubles
    BY <1>1, PreviewsAssumption DEF Troubles
  <2> QED BY <1>1, <2>1, <2>2 DEF Troubles
<1> QED BY <1>2, <1>3

LEMMA GotoFacts ==
  ASSUME TypeOK, NEW w \in Workers,
         NEW pc \in {"save", "up", "finish", "postEnd", "saveEnd", "claim", "post", "remove",
                     "read", "uncomment", "drop", "ok", "err"},
         Goto(w, pc)
  PROVE  work' \in [Workers -> WorkStates]
<1>1. work \in [Workers -> WorkStates] /\ work[w] \in WorkStates
  BY Typed
<1>2. [Idle EXCEPT !.pc = pc, !.d = work[w].d] \in WorkStates
  BY <1>1 DEF Idle, WorkStates
<1>3. [work[w] EXCEPT !.pc = pc] \in WorkStates
  BY <1>1 DEF WorkStates
<1> QED BY <1>1, <1>2, <1>3 DEF Goto

(* A row that is made sure of.                                             *)
LEMMA UpsertFacts ==
  ASSUME TypeOK, UpsertRow
  PROVE  row' \in Rows /\ rows' \in Nat
BY Typed DEF UpsertRow, Rows

LEMMA SaveFacts ==
  ASSUME TypeOK, NEW w \in Workers,
         row' = IF row.id = work[w].id /\ row # NoRow
                  THEN [row EXCEPT !.comment = work[w].comment] ELSE row
  PROVE  row' \in Rows
BY Typed DEF Rows, WorkStates

-----------------------------------------------------------------------------
(* Types.                                                                  *)
LEMMA TypeInit == Init => TypeOK
<1> SUFFICES ASSUME Init PROVE TypeOK
  OBVIOUS
<1> USE PreviewsAssumption
<1>1. Store!StoreTypeOK
  BY DEF Init, Store!StoreInit, Store!StoreTypeOK, Store!Status
<1>2. row \in Rows /\ work \in [Workers -> WorkStates] /\ spent \in Troubles
  BY DEF Init, NoRow, Idle, Rows, WorkStates, Troubles
<1> QED BY <1>1, <1>2, Typed DEF Init, Stages, Statuses

LEMMA HandlerTypes ==
  ASSUME TypeOK, NEW d \in Deliveries, Handler(d)
  PROVE  TypeOK'
<1> USE TypedNext
<1>1. CASE Arrive(d)
  <2>1. what' \in [Deliveries -> Kinds \cup {"none"}] /\ at' \in [Deliveries -> Stages]
    <3>1. what \in [Deliveries -> Kinds \cup {"none"}] /\ at \in [Deliveries -> Stages]
      BY Typed
    <3>2. CASE \E kind \in Asked \ {"none"} :
                 /\ what' = [what EXCEPT ![d] = kind]
                 /\ GoOn(d, IF kind = "close" THEN "enqueue" ELSE "count")
      <4>1. PICK kind \in Asked \ {"none"} :
                 /\ what' = [what EXCEPT ![d] = kind]
                 /\ GoOn(d, IF kind = "close" THEN "enqueue" ELSE "count")
        BY <3>2
      <4>2. kind \in Kinds \cup {"none"}
        BY Questions
      <4> QED BY <3>1, <4>1, <4>2 DEF GoOn, Stages
    <3>3. CASE \/ what' = [what EXCEPT ![d] = "redeploy"] /\ GoOn(d, "create")
               \/ what' = [what EXCEPT ![d] = "cleanup"] /\ GoOn(d, "enqueue")
      BY <3>1, <3>3 DEF GoOn, Stages, Kinds
    <3> QED BY <1>1, <3>2, <3>3 DEF Arrive
  <2> QED BY <1>1, <2>1, Typed DEF Arrive, handlerSame, storeVars, Store!StoreTypeOK
<1>2. CASE Count(d)
  <2>1. at' \in [Deliveries -> Stages] /\ overtaken' \in SUBSET Deliveries
    BY <1>2, Typed DEF Count, GoOn, Stages
  <2>2. spent' \in Troubles
    BY <1>2, SpendFacts, Typed DEF Count
  <2> QED BY <1>2, <2>1, <2>2, Typed DEF Count, handlerSame, storeVars, Store!StoreTypeOK
<1>3. CASE Upsert(d)
  <2>1. at' \in [Deliveries -> Stages] /\ row' \in Rows /\ rows' \in Nat
    BY <1>3, Typed, UpsertFacts DEF Upsert, GoOn, Stages
  <2> QED BY <1>3, <2>1, Typed DEF Upsert, storeVars, Store!StoreTypeOK
<1>4. CASE CreateQueued(d)
  <2>1. at' \in [Deliveries -> Stages] /\ dep' \in [Deliveries -> Statuses]
    BY <1>4, Typed DEF CreateQueued, GoOn, Stages, Statuses
  <2> QED BY <1>4, <2>1, Typed DEF CreateQueued, previewVars, storeVars, Store!StoreTypeOK
<1>5. CASE Enqueue(d)
  <2>1. at' \in [Deliveries -> Stages] /\ overtaken' \in SUBSET Deliveries
    BY <1>5, Typed DEF Enqueue, GoOn, Stages, QueueGrows
  <2>2. Store!StoreTypeOK'
    BY <1>5, Typed DEF Enqueue, Store!Submit, Store!StoreTypeOK, Store!Status
  <2> QED BY <1>5, <2>1, <2>2, Typed DEF Enqueue, previewVars
<1>6. CASE HandlerFails(d)
  <2>1. at' \in [Deliveries -> Stages] /\ spent' \in Troubles
    BY <1>6, Typed, SpendFacts DEF HandlerFails, GoOn, Stages
  <2> QED BY <1>6, <2>1, Typed DEF HandlerFails, handlerSame, storeVars, Store!StoreTypeOK
<1> QED BY <1>1, <1>2, <1>3, <1>4, <1>5, <1>6 DEF Handler

LEMMA TakeTypes ==
  ASSUME TypeOK, NEW w \in Workers, NEW d \in Deliveries, Take(w, d)
  PROVE  TypeOK'
<1>1. Store!StoreTypeOK'
  BY Typed DEF Take, Store!Take, Store!StoreTypeOK, Store!Status
<1>2. work' \in [Workers -> WorkStates]
  <2>1. ASSUME NEW pc \in {"prepare", "cancel"}
        PROVE  [Idle EXCEPT !.d = d, !.pc = pc] \in WorkStates
    BY DEF Idle, WorkStates
  <2>2. (IF what[d] \in Deploys THEN "prepare" ELSE "cancel") \in {"prepare", "cancel"}
    OBVIOUS
  <2>3. work' = [work EXCEPT ![w] =
          [Idle EXCEPT !.d = d, !.pc = IF what[d] \in Deploys THEN "prepare" ELSE "cancel"]]
    BY DEF Take
  <2> QED BY <2>1, <2>2, <2>3, Typed
<1> QED BY <1>1, <1>2, Typed, TypedNext DEF Take, handlerVars, previewVars

LEMMA EngineTypes ==
  ASSUME TypeOK, NEW w \in Workers, Engine(w)
  PROVE  TypeOK'
<1> USE TypedNext
<1>1. work \in [Workers -> WorkStates] /\ work[w] \in WorkStates /\ row \in Rows
  BY Typed
<1>2. CASE Prepare(w)
  <2>1. row' \in Rows /\ rows' \in Nat
    BY <1>2, UpsertFacts, Typed DEF Prepare
  <2>2. work' \in [Workers -> WorkStates]
    <3>1. PICK i \in Nat, c \in Nat :
            work' = [work EXCEPT ![w].pc = "claim", ![w].id = i, ![w].comment = c]
      <4>1. (IF IsPreview(w) THEN row'.id ELSE 0) \in Nat
        BY <2>1 DEF Rows
      <4>2. (IF IsPreview(w) THEN row'.comment ELSE 0) \in Nat
        BY <2>1 DEF Rows
      <4> QED BY <1>2, <4>1, <4>2 DEF Prepare
    <3>2. [work[w] EXCEPT !.pc = "claim", !.id = i, !.comment = c] \in WorkStates
      BY <1>1 DEF WorkStates
    <3> QED BY <1>1, <3>1, <3>2
  <2>3. raced' \in BOOLEAN
    BY <1>2 DEF Prepare
  <2> QED BY <1>2, <2>1, <2>2, <2>3, Typed
      DEF Prepare, jobSame, handlerVars, storeVars, Store!StoreTypeOK
<1>3. CASE Claim(w)
  <2>1. dep' \in [Deliveries -> Statuses]
    BY <1>3, Typed DEF Claim, Statuses
  <2>2. work' \in [Workers -> WorkStates]
    BY <1>3, GotoFacts DEF Claim
  <2> QED BY <1>3, <2>1, <2>2, Typed
      DEF Claim, jobSame, previewVars, handlerVars, storeVars, Store!StoreTypeOK
<1>4. CASE Post(w)
  <2>1. /\ \/ UNCHANGED <<comments, posted>>
           \/ posted' = posted + 1 /\ comments' = comments \cup {posted + 1}
        /\ \/ Goto(w, "up") \/ Goto(w, "ok")
           \/ work' = [work EXCEPT ![w].pc = "save", ![w].comment = posted + 1]
           \/ work' = [work EXCEPT ![w].pc = "saveEnd", ![w].comment = posted + 1]
    BY <1>4 DEF Post
  <2>2. comments' \in SUBSET Nat /\ posted' \in Nat
    BY <2>1, Typed
  <2>3. ASSUME NEW pc \in {"save", "saveEnd"}
        PROVE  [work[w] EXCEPT !.pc = pc, !.comment = posted + 1] \in WorkStates
    <3>1. posted + 1 \in Nat
      BY Typed
    <3> QED BY <1>1, <3>1 DEF WorkStates
  <2>4. work' \in [Workers -> WorkStates]
    BY <1>1, <2>1, <2>3, GotoFacts
  <2>5. spent' \in Troubles
    BY <1>4, SpendFacts, Typed DEF Post
  <2> QED BY <1>4, <2>2, <2>4, <2>5, Typed
      DEF Post, jobSame, handlerVars, storeVars, Store!StoreTypeOK
<1>5. CASE Save(w)
  <2>1. row' \in Rows
    BY <1>5, <1>1, SaveFacts DEF Save
  <2>2. work' \in [Workers -> WorkStates]
    BY <1>5, GotoFacts DEF Save
  <2>3. spent' \in Troubles
    BY <1>5, SpendFacts, Typed DEF Save
  <2> QED BY <1>5, <2>1, <2>2, <2>3, Typed
      DEF Save, jobSame, handlerVars, storeVars, Store!StoreTypeOK
<1>6. CASE Up(w)
  <2>1. dep' \in [Deliveries -> Statuses] /\ box' \in BOOLEAN
    BY <1>6, Typed DEF Up, Statuses, IsPreview
  <2>2. work' \in [Workers -> WorkStates]
    BY <1>6, GotoFacts DEF Up
  <2>3. spent' \in Troubles
    BY <1>6, SpendFacts, Typed DEF Up
  <2> QED BY <1>6, <2>1, <2>2, <2>3, Typed
      DEF Up, jobSame, handlerVars, storeVars, Store!StoreTypeOK
<1>7. CASE Finish(w)
  <2>1. dep' \in [Deliveries -> Statuses]
    BY <1>7, Typed DEF Finish, Statuses
  <2>2. work' \in [Workers -> WorkStates]
    BY <1>7, GotoFacts DEF Finish
  <2> QED BY <1>7, <2>1, <2>2, Typed
      DEF Finish, jobSame, previewVars, handlerVars, storeVars, Store!StoreTypeOK
<1> QED BY <1>2, <1>3, <1>4, <1>5, <1>6, <1>7 DEF Engine

LEMMA CleanupTypes ==
  ASSUME TypeOK, NEW w \in Workers, Cleanup(w) \/ DbFails(w)
  PROVE  TypeOK'
<1> USE TypedNext DEF jobSame, handlerVars, storeVars, Store!StoreTypeOK
<1>1. work \in [Workers -> WorkStates] /\ work[w] \in WorkStates /\ row \in Rows
  BY Typed
<1>2. CASE CancelActive(w)
  <2>1. dep' \in [Deliveries -> Statuses]
    BY <1>2, Typed DEF CancelActive, Statuses
  <2>2. work' \in [Workers -> WorkStates] /\ raced' \in BOOLEAN
    BY <1>2, GotoFacts DEF CancelActive
  <2> QED BY <1>2, <2>1, <2>2, Typed DEF CancelActive, previewVars
<1>3. CASE RemoveBox(w)
  <2>1. box' \in BOOLEAN /\ spent' \in Troubles
    BY <1>3, SpendFacts, Typed DEF RemoveBox
  <2>2. work' \in [Workers -> WorkStates] /\ raced' \in BOOLEAN
    BY <1>3, GotoFacts DEF RemoveBox
  <2> QED BY <1>3, <2>1, <2>2, Typed DEF RemoveBox
<1>4. CASE ReadRow(w)
  <2>1. ASSUME NEW pc \in {"uncomment", "drop"}
        PROVE  [work[w] EXCEPT !.pc = pc, !.id = row.id, !.comment = row.comment] \in WorkStates
    BY <1>1 DEF WorkStates, Rows
  <2>2. \/ Goto(w, "ok")
        \/ work' = [work EXCEPT ![w].pc = "uncomment", ![w].id = row.id, ![w].comment = row.comment]
        \/ work' = [work EXCEPT ![w].pc = "drop", ![w].id = row.id, ![w].comment = row.comment]
    BY <1>4 DEF ReadRow
  <2>3. work' \in [Workers -> WorkStates]
    BY <1>1, <2>1, <2>2, GotoFacts
  <2> QED BY <1>4, <2>3, Typed DEF ReadRow, previewVars
<1>5. CASE DeleteComment(w)
  <2>1. comments' \in SUBSET Nat /\ spent' \in Troubles
    BY <1>5, SpendFacts, Typed DEF DeleteComment
  <2>2. work' \in [Workers -> WorkStates]
    BY <1>5, GotoFacts DEF DeleteComment
  <2> QED BY <1>5, <2>1, <2>2, Typed DEF DeleteComment
<1>6. CASE DropRow(w)
  <2>1. row' \in Rows
    BY <1>6, <1>1 DEF DropRow, NoRow, Rows
  <2>2. work' \in [Workers -> WorkStates]
    BY <1>6, GotoFacts DEF DropRow
  <2> QED BY <1>6, <2>1, <2>2, Typed DEF DropRow
<1>7. CASE DbFails(w)
  <2>1. work' \in [Workers -> WorkStates] /\ spent' \in Troubles
    BY <1>7, GotoFacts, SpendFacts DEF DbFails
  <2> QED BY <1>7, <2>1, Typed DEF DbFails, previewVars
<1> QED BY <1>2, <1>3, <1>4, <1>5, <1>6, <1>7 DEF Cleanup

LEMMA IdleTyped == Idle \in WorkStates
BY DEF Idle, WorkStates

LEMMA OtherTypes ==
  ASSUME Core,
         \/ Restart \/ PersonDeletes \/ UNCHANGED vars
         \/ \E w \in Workers : Report(w)
  PROVE  TypeOK'
<1> USE TypedNext DEF Core
<1>1. CASE Restart
  <2>1. Store!StoreTypeOK'
    BY <1>1, Typed DEF Restart, Store!LetGo, Store!StoreTypeOK, Store!Status
  <2>2. at' \in [Deliveries -> Stages] /\ spent' \in Troubles
    BY <1>1, SpendFacts, Typed DEF Restart, Stages
  <2>3. work' \in [Workers -> WorkStates]
    BY <1>1, IdleTyped DEF Restart
  <2>4. locked' \in SUBSET Deliveries
    BY <1>1, Typed DEF Restart
  <2> QED BY <1>1, <2>1, <2>2, <2>3, <2>4, Typed DEF Restart, previewVars
<1>2. CASE PersonDeletes
  <2>1. comments' \in SUBSET Nat /\ spent' \in Troubles
    BY <1>2, SpendFacts, Typed DEF PersonDeletes
  <2> QED BY <1>2, <2>1, Typed
      DEF PersonDeletes, jobSame, handlerVars, storeVars, Store!StoreTypeOK
<1>3. CASE UNCHANGED vars
  BY <1>3, Typed DEF vars, handlerVars, storeVars, previewVars, Store!StoreTypeOK
<1>4. ASSUME NEW w \in Workers, Report(w) PROVE TypeOK'
  <2>1. Store!StoreTypeOK'
    <3>1. CASE Store!Finish(w, Mine(w))
      BY <3>1, Typed DEF Store!Finish, Store!StoreTypeOK, Store!Status
    <3>2. CASE Store!Miss(w, Mine(w)) /\ Mine(w) \in Deliveries
      <4>1. jobStatus' \in [Deliveries -> Store!Status] /\ holder' \in [Deliveries -> Workers \cup {NoWorker}]
        BY <3>2, Typed DEF Store!Miss, Store!StoreTypeOK, Store!Status
      <4>2. tries[Mine(w)] \in 0..MaxAttempts /\ tries[Mine(w)] < MaxAttempts
        BY <3>2, Typed DEF Core, TriesLeft, Store!Miss, Store!StoreTypeOK
      <4>3. tries[Mine(w)] + 1 \in 0..MaxAttempts
        BY <4>2, PreviewsAssumption
      <4>4. tries' \in [Deliveries -> 0..MaxAttempts]
        BY <3>2, <4>3, Typed DEF Store!Miss, Store!StoreTypeOK
      <4> QED BY <4>1, <4>4 DEF Store!StoreTypeOK
    <3>3. Mine(w) \in Deliveries
      BY <1>4 DEF Report, Core, Hands, At, Mine
    <3> QED BY <1>4, <3>1, <3>2, <3>3 DEF Report
  <2>2. overtaken' \in SUBSET Deliveries
    BY <1>4, Typed DEF Report, QueueGrows
  <2>3. work' \in [Workers -> WorkStates]
    BY <1>4, Typed, IdleTyped DEF Report
  <2> QED BY <1>4, <2>1, <2>2, <2>3, Typed DEF Report, previewVars
<1> QED BY <1>1, <1>2, <1>3, <1>4

-----------------------------------------------------------------------------
(* Hands and tries.                                                        *)
LEMMA WorkerKeeps ==
  ASSUME TypeOK, NEW w \in Workers, Engine(w) \/ Cleanup(w) \/ DbFails(w)
  PROVE  /\ work'[w].d = work[w].d /\ work[w].pc # "idle"
         /\ \A v \in Workers \ {w} : work'[v] = work[v]
<1>1. work \in [Workers -> WorkStates] /\ work[w] \in WorkStates
  BY Typed
<1>2. ASSUME NEW pc, Goto(w, pc)
      PROVE  work'[w].d = work[w].d /\ \A v \in Workers \ {w} : work'[v] = work[v]
  <2>1. [Idle EXCEPT !.pc = pc, !.d = work[w].d].d = work[w].d
    BY DEF Idle
  <2>2. [work[w] EXCEPT !.pc = pc].d = work[w].d
    BY <1>1 DEF WorkStates
  <2> QED BY <1>1, <1>2, <2>1, <2>2 DEF Goto
<1>3. ASSUME NEW pc, NEW i, NEW c,
             \/ work' = [work EXCEPT ![w].pc = pc, ![w].id = i, ![w].comment = c]
             \/ work' = [work EXCEPT ![w].pc = pc, ![w].comment = c]
      PROVE  work'[w].d = work[w].d /\ \A v \in Workers \ {w} : work'[v] = work[v]
  <2>1. /\ [work[w] EXCEPT !.pc = pc, !.id = i, !.comment = c].d = work[w].d
        /\ [work[w] EXCEPT !.pc = pc, !.comment = c].d = work[w].d
    BY <1>1 DEF WorkStates
  <2> QED BY <1>1, <1>3, <2>1
<1>4. CASE Engine(w)
  <2>1. work[w].pc # "idle"
    BY <1>4 DEF Engine, Prepare, Claim, Post, Save, Up, Finish, At
  <2>2. \/ \E pc : Goto(w, pc)
        \/ \E pc, i, c : \/ work' = [work EXCEPT ![w].pc = pc, ![w].id = i, ![w].comment = c]
                         \/ work' = [work EXCEPT ![w].pc = pc, ![w].comment = c]
    <3>1. CASE Prepare(w)
      BY <3>1 DEF Prepare
    <3>2. CASE Claim(w) \/ Save(w) \/ Up(w) \/ Finish(w)
      BY <3>2 DEF Claim, Save, Up, Finish
    <3>3. CASE Post(w)
      BY <3>3 DEF Post
    <3> QED BY <1>4, <3>1, <3>2, <3>3 DEF Engine
  <2> QED BY <1>2, <1>3, <2>1, <2>2
<1>5. CASE Cleanup(w) \/ DbFails(w)
  <2>1. work[w].pc # "idle"
    BY <1>5 DEF Cleanup, CancelActive, RemoveBox, ReadRow, DeleteComment, DropRow, DbFails, At
  <2>2. \/ \E pc : Goto(w, pc)
        \/ \E pc, i, c : work' = [work EXCEPT ![w].pc = pc, ![w].id = i, ![w].comment = c]
    BY <1>5 DEF Cleanup, CancelActive, RemoveBox, ReadRow, DeleteComment, DropRow, DbFails
  <2> QED BY <1>2, <1>3, <2>1, <2>2
<1> QED BY <1>4, <1>5

LEMMA CoreNext ==
  ASSUME Core, [Next]_vars
  PROVE  Core'
<1> USE DEF Core
<1>1. TypeOK'
  BY HandlerTypes, TakeTypes, EngineTypes, CleanupTypes, OtherTypes DEF Next
<1>2. Hands'
  <2>1. ASSUME NEW w \in Workers, Engine(w) \/ Cleanup(w) \/ DbFails(w) PROVE Hands'
    BY <2>1, WorkerKeeps DEF Hands
  <2>2. ASSUME NEW w \in Workers, NEW d \in Deliveries, Take(w, d) PROVE Hands'
    <3>1. work'[w].d = d /\ \A v \in Workers \ {w} : work'[v] = work[v]
      BY <2>2, Typed DEF Take, Idle
    <3> QED BY <3>1 DEF Hands
  <2>3. ASSUME NEW w \in Workers, Report(w) PROVE Hands'
    <3>1. work'[w].pc = "idle" /\ \A v \in Workers \ {w} : work'[v] = work[v]
      BY <2>3, Typed DEF Report, Idle
    <3> QED BY <3>1 DEF Hands
  <2>4. CASE Restart
    BY <2>4 DEF Restart, Hands, Idle
  <2>5. CASE work' = work
    BY <2>5 DEF Hands
  <2>6. ASSUME NEW d \in Deliveries, Handler(d) PROVE work' = work
    BY <2>6 DEF Handler, Arrive, Count, Upsert, CreateQueued, Enqueue, HandlerFails,
                handlerSame, previewVars
  <2> QED BY <2>1, <2>2, <2>3, <2>4, <2>5, <2>6 DEF Next, PersonDeletes, vars
<1>3. TriesLeft'
  <2>1. CASE UNCHANGED storeVars
    BY <2>1 DEF TriesLeft, storeVars
  <2>2. ASSUME NEW d \in Deliveries, Store!Submit(d) PROVE TriesLeft'
    BY <2>2, Typed DEF TriesLeft, Store!Submit, Store!StoreTypeOK
  <2>3. ASSUME NEW w \in Workers, NEW d \in Deliveries, Store!Take(w, d) \/ Store!Finish(w, d)
        PROVE  TriesLeft'
    BY <2>3, Typed DEF TriesLeft, Store!Take, Store!Finish, Store!StoreTypeOK
  <2>4. ASSUME NEW w \in Workers, NEW d \in Deliveries, Store!Miss(w, d)
        PROVE  TriesLeft'
    <3>1. tries'[d] = tries[d] + 1 /\ \A e \in Deliveries \ {d} : tries'[e] = tries[e]
      BY <2>4, Typed DEF Store!Miss, Store!StoreTypeOK
    <3>2. /\ jobStatus'[d] = IF tries[d] + 1 >= MaxAttempts THEN "dropped" ELSE "queued"
          /\ \A e \in Deliveries \ {d} : jobStatus'[e] = jobStatus[e]
      BY <2>4, Typed DEF Store!Miss, Store!StoreTypeOK
    <3>3. tries[d] + 1 \in Nat /\ MaxAttempts \in Nat
      BY Typed, PreviewsAssumption DEF Store!StoreTypeOK
    <3> QED BY <3>1, <3>2, <3>3 DEF TriesLeft
  <2>5. ASSUME NEW G, Store!LetGo(G) PROVE TriesLeft'
    BY <2>5 DEF TriesLeft, Store!LetGo
  <2>6. ASSUME NEW w \in Workers, Report(w) PROVE TriesLeft'
    BY <2>3, <2>4, <2>6 DEF Report, Hands, At, Mine
  <2>7. ASSUME NEW w \in Workers, Engine(w) \/ Cleanup(w) \/ DbFails(w) PROVE UNCHANGED storeVars
    BY <2>7 DEF Engine, Prepare, Claim, Post, Save, Up, Finish, Cleanup, CancelActive, RemoveBox,
                ReadRow, DeleteComment, DropRow, DbFails, jobSame
  <2>8. ASSUME NEW d \in Deliveries, Handler(d) PROVE TriesLeft'
    BY <2>1, <2>2, <2>8 DEF Handler, Arrive, Count, Upsert, CreateQueued, Enqueue, HandlerFails,
                handlerSame
  <2>9. CASE Restart
    BY <2>5, <2>9 DEF Restart
  <2>10. CASE PersonDeletes \/ UNCHANGED vars
    BY <2>1, <2>10 DEF PersonDeletes, jobSame, vars
  <2> QED BY <2>1, <2>3, <2>6, <2>7, <2>8, <2>9, <2>10 DEF Next, Take
<1> QED BY <1>1, <1>2, <1>3

-----------------------------------------------------------------------------
(* The length of the queue.                                                *)
LEMMA QueueLength ==
  ASSUME Bounded
  PROVE  IsFiniteSet(Pending) /\ Cardinality(Pending) \in Nat
<1>1. Pending \subseteq Submitted
  BY DEF Pending, Submitted
<1> QED BY <1>1, FS_Subset, FS_CardinalityType DEF Bounded

(* A queue that gets no job is no longer than it was.                      *)
LEMMA NoLonger ==
  ASSUME Bounded, Looked, Pending' \subseteq Pending,
         \A d \in Deliveries :
           what'[d] \in {"push", "open"} /\ at'[d] \in {"upsert", "create", "enqueue"}
           /\ d \notin overtaken'
             => Waits(d) /\ what[d] \in {"push", "open"} /\ d \notin overtaken
  PROVE  Looked'
<1>1. /\ IsFiniteSet(Pending) /\ Cardinality(Pending) \in Nat
      /\ Cardinality(Pending') \in Nat /\ Cardinality(Pending') <= Cardinality(Pending)
  <2>1. IsFiniteSet(Pending) /\ Cardinality(Pending) \in Nat
    BY QueueLength
  <2>2. IsFiniteSet(Pending') /\ Cardinality(Pending') <= Cardinality(Pending)
    BY <2>1, FS_Subset
  <2> QED BY <2>1, <2>2, FS_CardinalityType
<1>2. ASSUME NEW d \in Deliveries,
             what'[d] \in {"push", "open"}, at'[d] \in {"upsert", "create", "enqueue"},
             d \notin overtaken'
      PROVE  Cardinality(Pending') < Limit
  <2>1. Cardinality(Pending) < Limit
    BY <1>2 DEF Looked
  <2> QED BY <1>1, <2>1, PreviewsAssumption
<1> QED BY <1>2 DEF Looked, Waits

(* Everybody who has looked is overtaken.                                  *)
LEMMA Overtaking ==
  ASSUME QueueGrows, \A d \in Deliveries : at'[d] = at[d] \/ at'[d] = "done"
  PROVE  Looked'
BY DEF QueueGrows, Looked, Waits

LEMMA HandlerLooks ==
  ASSUME Inv, NEW d \in Deliveries, Handler(d)
  PROVE  Fresh' /\ Bounded' /\ Looked'
<1> USE DEF Inv, Core
<1>1. /\ at \in [Deliveries -> Stages] /\ what \in [Deliveries -> Kinds \cup {"none"}]
      /\ jobStatus \in [Deliveries -> Store!Status]
  BY Typed DEF Store!StoreTypeOK
<1>2. CASE Arrive(d)
  <2>1. UNCHANGED <<jobStatus, locked, overtaken>> /\ at[d] = "none" /\ jobStatus[d] = "absent"
    BY <1>2 DEF Arrive, Fresh, handlerSame, storeVars
  <2>2. \A e \in Deliveries \ {d} : at'[e] = at[e] /\ what'[e] = what[e]
    BY <1>1, <1>2 DEF Arrive, GoOn
  <2>3. Pending' \subseteq Pending
    BY <2>1, <2>2 DEF Pending
  <2>4. what'[d] \in {"push", "open"} => at'[d] = "count"
    BY <1>1, <1>2 DEF Arrive, GoOn
  <2>5. Looked'
    BY <2>1, <2>2, <2>3, <2>4, NoLonger DEF Waits
  <2> QED BY <2>1, <2>2, <2>5 DEF Fresh, Bounded, Submitted
<1>3. CASE Count(d)
  <2>1. /\ UNCHANGED <<jobStatus, locked, what>> /\ at[d] = "count"
        /\ \A e \in Deliveries \ {d} : at'[e] = at[e]
    BY <1>1, <1>3 DEF Count, GoOn, handlerSame, storeVars
  <2>2. Pending' = Pending /\ overtaken \subseteq overtaken'
    BY <1>3, <2>1 DEF Pending, Count
  <2>3. at'[d] \in {"upsert", "create", "enqueue"} =>
          Cardinality(Pending) < Limit \/ d \in overtaken'
    <3>1. Cardinality(Pending) \in Nat
      BY QueueLength
    <3>2. ~QueueFull => Cardinality(Pending) < Limit
      BY <3>1, PreviewsAssumption DEF QueueFull
    <3>3. CASE QueueFull /\ GoOn(d, "done")
      BY <1>1, <3>3 DEF GoOn
    <3>4. CASE ~QueueFull
      BY <3>2, <3>4
    <3>5. CASE overtaken' = overtaken \cup {d}
      BY <3>5
    <3> QED BY <1>3, <3>3, <3>4, <3>5 DEF Count
  <2>4. Looked'
    BY <2>1, <2>2, <2>3 DEF Looked, Waits
  <2>5. Fresh'
    BY <2>1 DEF Fresh
  <2> QED BY <2>1, <2>4, <2>5 DEF Bounded, Submitted
<1>4. CASE Upsert(d) \/ CreateQueued(d) \/ HandlerFails(d)
  <2>1. /\ UNCHANGED <<jobStatus, locked, what, overtaken>> /\ Waits(d)
        /\ \A e \in Deliveries \ {d} : at'[e] = at[e]
    BY <1>1, <1>4 DEF Upsert, CreateQueued, HandlerFails, GoOn, handlerSame, storeVars, Waits
  <2>2. Pending' = Pending
    BY <2>1 DEF Pending
  <2>3. Looked'
    BY <2>1, <2>2, NoLonger DEF Waits
  <2>4. Fresh'
    BY <2>1 DEF Fresh, Waits
  <2> QED BY <2>1, <2>3, <2>4 DEF Bounded, Submitted
<1>5. CASE Enqueue(d)
  <2>1. /\ UNCHANGED <<locked, what>> /\ at'[d] = "done"
        /\ \A e \in Deliveries \ {d} : at'[e] = at[e] /\ jobStatus'[e] = jobStatus[e]
    BY <1>1, <1>5 DEF Enqueue, GoOn, Store!Submit
  <2>2. Looked'
    <3>1. CASE QueueGrows
      BY <2>1, <3>1, Overtaking
    <3>2. CASE what[d] \notin Deploys /\ UNCHANGED overtaken
      <4>1. Pending' \subseteq Pending
        BY <2>1, <3>2 DEF Pending
      <4> QED BY <2>1, <3>2, <4>1, NoLonger DEF Waits
    <3> QED BY <1>5, <3>1, <3>2 DEF Enqueue
  <2>3. Bounded'
    <3>1. Submitted' \subseteq Submitted \cup {d}
      BY <2>1 DEF Submitted
    <3>2. IsFiniteSet(Submitted \cup {d})
      BY FS_AddElement DEF Bounded
    <3> QED BY <3>1, <3>2, FS_Subset DEF Bounded
  <2> QED BY <2>1, <2>2, <2>3 DEF Fresh
<1> QED BY <1>2, <1>3, <1>4, <1>5 DEF Handler

LEMMA OthersLook ==
  ASSUME Inv,
         \/ Restart \/ PersonDeletes \/ UNCHANGED vars
         \/ \E w \in Workers, d \in Deliveries : Take(w, d)
         \/ \E w \in Workers : Engine(w) \/ Cleanup(w) \/ DbFails(w) \/ Report(w)
  PROVE  Fresh' /\ Bounded' /\ Looked'
<1> USE DEF Inv, Core
<1>1. /\ at \in [Deliveries -> Stages] /\ jobStatus \in [Deliveries -> Store!Status]
  BY Typed DEF Store!StoreTypeOK
<1>2. ASSUME UNCHANGED <<handlerVars, storeVars, locked>> PROVE Fresh' /\ Bounded' /\ Looked'
  <2>1. UNCHANGED <<what, at, overtaken, jobStatus, locked>>
    BY <1>2 DEF handlerVars, storeVars
  <2>2. Pending' = Pending
    BY <2>1 DEF Pending
  <2> QED BY <2>1, <2>2 DEF Fresh, Bounded, Submitted, Looked, Waits
<1>3. ASSUME NEW w \in Workers, Engine(w) \/ Cleanup(w) \/ DbFails(w)
      PROVE  UNCHANGED <<handlerVars, storeVars, locked>>
  BY <1>3 DEF Engine, Prepare, Claim, Post, Save, Up, Finish, Cleanup, CancelActive, RemoveBox,
              ReadRow, DeleteComment, DropRow, DbFails, jobSame
(* No job is new, and those that were there stay known.                    *)
<1>4. ASSUME UNCHANGED <<what, at>>, \A d \in Deliveries : jobStatus[d] = "absent" => jobStatus'[d] = "absent"
      PROVE  Fresh' /\ Bounded'
  <2>1. Submitted' \subseteq Submitted
    BY <1>4 DEF Submitted
  <2> QED BY <1>4, <2>1, FS_Subset DEF Fresh, Bounded
<1>5. ASSUME NEW w \in Workers, NEW d \in Deliveries, Take(w, d)
      PROVE  Fresh' /\ Bounded' /\ Looked'
  <2>1. /\ UNCHANGED <<what, at, overtaken>> /\ jobStatus[d] = "queued" /\ jobStatus'[d] = "held"
        /\ \A e \in Deliveries \ {d} : jobStatus'[e] = jobStatus[e]
        /\ locked' = locked \ {d}
    BY <1>1, <1>5 DEF Take, Store!Take, handlerVars
  <2>2. Pending' \subseteq Pending
    BY <2>1 DEF Pending
  <2>3. Looked'
    BY <2>1, <2>2, NoLonger DEF Waits
  <2> QED BY <1>4, <2>1, <2>3
<1>6. ASSUME NEW w \in Workers, Report(w)
      PROVE  Fresh' /\ Bounded' /\ Looked'
  <2>1. UNCHANGED <<what, at, locked>> /\ Mine(w) \in Deliveries
    BY <1>6 DEF Report, Hands, At, Mine
  <2>2. CASE Store!Finish(w, Mine(w)) /\ UNCHANGED overtaken
    <3>1. /\ jobStatus[Mine(w)] = "held" /\ jobStatus'[Mine(w)] = "done"
          /\ \A e \in Deliveries \ {Mine(w)} : jobStatus'[e] = jobStatus[e]
      BY <1>1, <2>1, <2>2 DEF Store!Finish
    <3>2. Pending' \subseteq Pending
      BY <2>1, <3>1 DEF Pending
    <3>3. Looked'
      BY <2>1, <2>2, <3>2, NoLonger DEF Waits
    <3> QED BY <1>4, <2>1, <3>1, <3>3
  <2>3. CASE Store!Miss(w, Mine(w)) /\ QueueGrows
    <3>1. /\ jobStatus[Mine(w)] = "held"
          /\ \A e \in Deliveries \ {Mine(w)} : jobStatus'[e] = jobStatus[e]
      BY <1>1, <2>1, <2>3 DEF Store!Miss
    <3>2. Looked'
      BY <2>1, <2>3, Overtaking
    <3> QED BY <1>4, <2>1, <3>1, <3>2
  <2> QED BY <1>6, <2>2, <2>3 DEF Report
<1>7. CASE Restart
  <2>1. \A e \in Deliveries : at'[e] = IF at[e] = "none" THEN "none" ELSE "done"
    BY <1>7 DEF Restart
  <2>2. \A e \in Deliveries : jobStatus[e] = "absent" => jobStatus'[e] = "absent"
    BY <1>7 DEF Restart, Store!LetGo
  <2>3. Looked'
    BY <2>1 DEF Looked, Waits
  <2>4. Submitted' \subseteq Submitted
    BY <2>2 DEF Submitted
  <2> QED BY <2>1, <2>2, <2>3, <2>4, FS_Subset DEF Fresh, Bounded
<1>8. CASE PersonDeletes \/ UNCHANGED vars
  BY <1>2, <1>8 DEF PersonDeletes, jobSame, vars
<1> QED BY <1>2, <1>3, <1>5, <1>6, <1>7, <1>8

-----------------------------------------------------------------------------
LEMMA InvInit == Init => Inv
<1> SUFFICES ASSUME Init PROVE Inv
  OBVIOUS
<1>1. Core
  BY TypeInit, PreviewsAssumption DEF Core, Init, Hands, TriesLeft, Idle, Store!StoreInit
<1>2. Fresh /\ Looked
  BY DEF Init, Fresh, Looked, Waits, Store!StoreInit
<1>3. Bounded
  <2>1. Submitted = {}
    BY DEF Init, Submitted, Store!StoreInit
  <2> QED BY <2>1, FS_EmptySet DEF Bounded
<1> QED BY <1>1, <1>2, <1>3 DEF Inv

LEMMA InvNext ==
  ASSUME Inv, [Next]_vars
  PROVE  Inv'
<1>1. Core'
  BY CoreNext DEF Inv
<1>2. Fresh' /\ Bounded' /\ Looked'
  BY HandlerLooks, OthersLook DEF Next
<1> QED BY <1>1, <1>2 DEF Inv

LEMMA Invariance == Spec => []Inv
BY InvInit, InvNext, PTL DEF Spec

-----------------------------------------------------------------------------
(* A worker holds the job it works on, and nobody else works on that one.  *)
LEMMA HeldNext ==
  ASSUME Inv, Held, [Next]_vars
  PROVE  Held'
<1> USE DEF Inv, Core
<1>1. /\ at \in [Deliveries -> Stages] /\ jobStatus \in [Deliveries -> Store!Status]
      /\ holder \in [Deliveries -> Workers \cup {NoWorker}]
  BY Typed DEF Store!StoreTypeOK
<1>2. ASSUME NEW w \in Workers, Engine(w) \/ Cleanup(w) \/ DbFails(w)
      PROVE  Held'
  <2>1. UNCHANGED <<at, jobStatus, holder>>
    BY <1>2 DEF Engine, Prepare, Claim, Post, Save, Up, Finish, Cleanup, CancelActive, RemoveBox,
                ReadRow, DeleteComment, DropRow, DbFails, jobSame, handlerVars, storeVars
  <2> QED BY <1>2, <2>1, WorkerKeeps DEF Held
<1>3. ASSUME NEW w \in Workers, NEW d \in Deliveries, Take(w, d)
      PROVE  Held'
  <2>1. work'[w].d = d /\ \A v \in Workers \ {w} : work'[v] = work[v]
    BY <1>3, Typed DEF Take, Idle
  <2>2. /\ at' = at /\ jobStatus[d] = "queued" /\ jobStatus'[d] = "held" /\ holder'[d] = w
        /\ \A e \in Deliveries \ {d} : jobStatus'[e] = jobStatus[e] /\ holder'[e] = holder[e]
    BY <1>1, <1>3 DEF Take, Store!Take, handlerVars
  <2>3. at[d] = "done"
    BY <2>2 DEF Fresh
  <2> QED BY <2>1, <2>2, <2>3 DEF Held, Hands
<1>4. ASSUME NEW w \in Workers, Report(w)
      PROVE  Held'
  <2>1. /\ work'[w].pc = "idle" /\ \A v \in Workers \ {w} : work'[v] = work[v]
        /\ at' = at /\ work[w].pc # "idle"
    BY <1>4, Typed DEF Report, Idle, At
  <2>2. \A e \in Deliveries \ {work[w].d} : jobStatus'[e] = jobStatus[e] /\ holder'[e] = holder[e]
    BY <1>1, <1>4 DEF Report, Store!Finish, Store!Miss, Mine
  <2> QED BY <2>1, <2>2 DEF Held, Hands
<1>5. CASE Restart
  BY <1>5 DEF Restart, Held, Idle
<1>6. ASSUME NEW d \in Deliveries, Handler(d)
      PROVE  Held'
  <2>1. /\ work' = work /\ holder' = holder /\ at[d] # "done"
        /\ \A e \in Deliveries \ {d} : at'[e] = at[e] /\ jobStatus'[e] = jobStatus[e]
    BY <1>1, <1>6 DEF Handler, Arrive, Count, Upsert, CreateQueued, Enqueue, HandlerFails,
                      handlerSame, previewVars, GoOn, Store!Submit, storeVars
  <2> QED BY <2>1 DEF Held, Hands
<1>7. CASE PersonDeletes \/ UNCHANGED vars
  BY <1>7 DEF PersonDeletes, jobSame, vars, handlerVars, storeVars, Held
<1> QED BY <1>2, <1>3, <1>4, <1>5, <1>6, <1>7 DEF Next

-----------------------------------------------------------------------------
(* What the steps of a worker do to where it is and what it remembers.     *)
LEMMA GotoGives ==
  ASSUME TypeOK, NEW w \in Workers, NEW pc, Goto(w, pc)
  PROVE  /\ work'[w].pc = pc /\ work'[w].d = work[w].d
         /\ pc \notin {"ok", "err"} => work'[w].id = work[w].id /\ work'[w].comment = work[w].comment
         /\ \A v \in Workers \ {w} : work'[v] = work[v]
<1>1. work \in [Workers -> WorkStates] /\ work[w] \in WorkStates
  BY Typed
<1>2. LET r == [Idle EXCEPT !.pc = pc, !.d = work[w].d] IN r.pc = pc /\ r.d = work[w].d
  BY DEF Idle
<1>3. LET r == [work[w] EXCEPT !.pc = pc] IN
        r.pc = pc /\ r.d = work[w].d /\ r.id = work[w].id /\ r.comment = work[w].comment
  BY <1>1 DEF WorkStates
<1> QED BY <1>1, <1>2, <1>3 DEF Goto

Reads(w, pc, i, c) == work' = [work EXCEPT ![w].pc = pc, ![w].id = i, ![w].comment = c]
Creates(w, pc, c) == work' = [work EXCEPT ![w].pc = pc, ![w].comment = c]

LEMMA ReadGives ==
  ASSUME TypeOK, NEW w \in Workers, NEW pc, NEW i, NEW c, Reads(w, pc, i, c)
  PROVE  /\ work'[w].pc = pc /\ work'[w].id = i /\ work'[w].comment = c
         /\ work'[w].d = work[w].d
         /\ \A v \in Workers \ {w} : work'[v] = work[v]
<1>1. work \in [Workers -> WorkStates] /\ work[w] \in WorkStates
  BY Typed
<1>2. LET r == [work[w] EXCEPT !.pc = pc, !.id = i, !.comment = c] IN
        r.pc = pc /\ r.id = i /\ r.comment = c /\ r.d = work[w].d
  BY <1>1 DEF WorkStates
<1> QED BY <1>1, <1>2 DEF Reads

LEMMA CreatedGives ==
  ASSUME TypeOK, NEW w \in Workers, NEW pc, NEW c, Creates(w, pc, c)
  PROVE  /\ work'[w].pc = pc /\ work'[w].id = work[w].id /\ work'[w].comment = c
         /\ work'[w].d = work[w].d
         /\ \A v \in Workers \ {w} : work'[v] = work[v]
<1>1. work \in [Workers -> WorkStates] /\ work[w] \in WorkStates
  BY Typed
<1>2. LET r == [work[w] EXCEPT !.pc = pc, !.comment = c] IN
        r.pc = pc /\ r.id = work[w].id /\ r.comment = c /\ r.d = work[w].d
  BY <1>1 DEF WorkStates
<1> QED BY <1>1, <1>2 DEF Creates

(* A fault is counted; the deletion of a comment is not a fault.           *)
LEMMA SpendCounts ==
  ASSUME TypeOK
  PROVE  /\ Spend("faults") => ~NoFault'
         /\ Spend("deletions") => (NoFault' <=> NoFault)
<1>1. spent \in Troubles /\ spent.faults \in Nat
  BY Typed, PreviewsAssumption DEF Troubles
<1>2. Spend("faults") => spent'.faults = spent.faults + 1
  BY <1>1 DEF Spend, Troubles
<1>3. Spend("deletions") => spent'.faults = spent.faults
  BY <1>1 DEF Spend, Troubles
<1> QED BY <1>1, <1>2, <1>3 DEF NoFault

(* Whether a worker is about the preview depends on its step and on its    *)
(* delivery, which never changes its mind.                                 *)
Same(w) == \A v \in Workers \ {w} :
  /\ work'[v] = work[v]
  /\ Deploying(v)' <=> Deploying(v)
  /\ CleaningUp(v)' <=> CleaningUp(v)

LEMMA OthersSame ==
  ASSUME NEW w \in Workers, what' = what, \A v \in Workers \ {w} : work'[v] = work[v]
  PROVE  Same(w)
BY DEF Same, Deploying, CleaningUp

(* A step of a worker about the preview, when nobody else is.              *)
LEMMA Solo ==
  ASSUME NEW w \in Workers, Same(w), \A v \in Workers \ {w} : ~Busy(v),
         Deploying(w)' => DeployTidy(w)',
         CleaningUp(w)' => CleanTidy(w)',
         ~Busy(w)' => Rest'
  PROVE  Tidy'
<1>1. \A v \in Workers : Busy(v)' => v = w
  BY DEF Same, Busy
<1> QED BY <1>1 DEF Tidy, Busy

(* A step of a worker that is about something else, before and after.      *)
LEMMA Bystander ==
  ASSUME Tidy, NEW w \in Workers, Same(w), ~Busy(w), ~Busy(w)', raced => raced',
         UNCHANGED <<row, comments, box>>, NoFault' => NoFault
  PROVE  Tidy'
<1> SUFFICES ASSUME ~raced' PROVE Tidy'
  BY DEF Tidy
<1>1. /\ \A u, v \in Workers : Busy(u) /\ Busy(v) => u = v
      /\ \A v \in Workers : Deploying(v) => DeployTidy(v)
      /\ \A v \in Workers : CleaningUp(v) => CleanTidy(v)
      /\ (\A v \in Workers : ~Busy(v)) => Rest
  BY DEF Tidy
<1>2. \A v \in Workers : Busy(v)' => v # w /\ Busy(v)
  BY DEF Same, Busy
<1>3. \A v \in Workers : Deploying(v)' => DeployTidy(v)'
  <2> SUFFICES ASSUME NEW v \in Workers, Deploying(v)' PROVE DeployTidy(v)'
    OBVIOUS
  <2>1. v # w /\ work'[v] = work[v] /\ DeployTidy(v)
    BY <1>1 DEF Same, Busy
  <2> QED BY <2>1 DEF DeployTidy, Saving
<1>4. \A v \in Workers : CleaningUp(v)' => CleanTidy(v)'
  <2> SUFFICES ASSUME NEW v \in Workers, CleaningUp(v)' PROVE CleanTidy(v)'
    OBVIOUS
  <2>1. v # w /\ work'[v] = work[v] /\ CleanTidy(v)
    BY <1>1 DEF Same, Busy
  <2> QED BY <2>1 DEF CleanTidy
<1>5. (\A v \in Workers : ~Busy(v)') => Rest'
  <2> SUFFICES ASSUME \A v \in Workers : ~Busy(v)' PROVE Rest'
    OBVIOUS
  <2>1. \A v \in Workers : ~Busy(v)
    BY DEF Same, Busy
  <2> QED BY <1>1, <2>1 DEF Rest
<1> QED BY <1>1, <1>2, <1>3, <1>4, <1>5 DEF Tidy

(* While nothing has overlapped, a worker about the preview is alone.      *)
LEMMA AloneWhenBusy ==
  ASSUME Tidy, ~raced, NEW w \in Workers, Busy(w)
  PROVE  \A v \in Workers \ {w} : ~Busy(v)
BY DEF Tidy

-----------------------------------------------------------------------------
(* No handler changes what the job in somebody's hands is for.             *)
LEMMA HandlerSpares ==
  ASSUME Inv, Held, NEW d \in Deliveries, Handler(d)
  PROVE  /\ work' = work
         /\ \A w \in Workers : work[w].pc # "idle" => what'[work[w].d] = what[work[w].d]
<1>1. what \in [Deliveries -> Kinds \cup {"none"}]
  BY Typed DEF Inv, Core
<1>2. CASE Arrive(d)
  <2>1. work' = work /\ at[d] = "none" /\ \A e \in Deliveries \ {d} : what'[e] = what[e]
    BY <1>1, <1>2 DEF Arrive, handlerSame
  <2> QED BY <2>1 DEF Held, Hands, Inv, Core
<1>3. CASE Count(d) \/ Upsert(d) \/ CreateQueued(d) \/ Enqueue(d) \/ HandlerFails(d)
  BY <1>3 DEF Count, Upsert, CreateQueued, Enqueue, HandlerFails, handlerSame, previewVars
<1> QED BY <1>2, <1>3 DEF Handler

(* Only deployments of previews post a comment.                            *)
LEMMA PostersNext ==
  ASSUME Inv, Held, OfPreviews, [Next]_vars
  PROVE  OfPreviews'
<1> USE DEF Inv, Core
<1>1. ASSUME NEW w \in Workers, Engine(w) \/ Cleanup(w) \/ DbFails(w)
      PROVE  OfPreviews'
  <2>1. UNCHANGED what
    BY <1>1 DEF Engine, Prepare, Claim, Post, Save, Up, Finish, Cleanup, CancelActive, RemoveBox,
                ReadRow, DeleteComment, DropRow, DbFails, jobSame, handlerVars
  <2>2. work'[w].d = work[w].d /\ \A v \in Workers \ {w} : work'[v] = work[v]
    BY <1>1, WorkerKeeps
  <2>3. work'[w].pc \in {"post", "save", "postEnd", "saveEnd"} => IsPreview(w)
    <3>1. CASE Prepare(w)
      <4>1. \E i, c : Reads(w, "claim", i, c)
        BY <3>1 DEF Prepare, Reads
      <4> QED BY <4>1, ReadGives
    <3>2. CASE Claim(w) \/ Up(w) \/ Finish(w)
      BY <3>2, GotoGives DEF Claim, Up, Finish
    <3>3. CASE Save(w)
      BY <3>3, GotoGives DEF Save
    <3>4. CASE Post(w)
      BY <3>4 DEF Post, OfPreviews, At
    <3>5. CASE ReadRow(w)
      <4>1. \/ Goto(w, "ok")
            \/ \E pc \in {"uncomment", "drop"} : \E i, c : Reads(w, pc, i, c)
        BY <3>5 DEF ReadRow, Reads
      <4> QED BY <4>1, GotoGives, ReadGives
    <3>6. CASE CancelActive(w) \/ RemoveBox(w) \/ DeleteComment(w) \/ DropRow(w) \/ DbFails(w)
      BY <3>6, GotoGives DEF CancelActive, RemoveBox, DeleteComment, DropRow, DbFails
    <3> QED BY <1>1, <3>1, <3>2, <3>3, <3>4, <3>5, <3>6 DEF Engine, Cleanup
  <2> QED BY <2>1, <2>2, <2>3 DEF OfPreviews, IsPreview, Mine
<1>2. ASSUME NEW w \in Workers, NEW d \in Deliveries, Take(w, d)
      PROVE  OfPreviews'
  <2>1. work'[w].pc \in {"prepare", "cancel"} /\ \A v \in Workers \ {w} : work'[v] = work[v]
    BY <1>2, Typed DEF Take, Idle
  <2> QED BY <1>2, <2>1 DEF OfPreviews, IsPreview, Mine, Take, handlerVars
<1>3. ASSUME NEW w \in Workers, Report(w)
      PROVE  OfPreviews'
  <2>1. work'[w].pc = "idle" /\ \A v \in Workers \ {w} : work'[v] = work[v]
    BY <1>3, Typed DEF Report, Idle
  <2> QED BY <1>3, <2>1 DEF OfPreviews, IsPreview, Mine, Report
<1>4. CASE Restart
  BY <1>4 DEF Restart, OfPreviews, Idle
<1>5. ASSUME NEW d \in Deliveries, Handler(d)
      PROVE  OfPreviews'
  <2>1. work' = work /\ \A w \in Workers : work[w].pc # "idle" => what'[work[w].d] = what[work[w].d]
    BY <1>5, HandlerSpares
  <2> QED BY <2>1 DEF OfPreviews, IsPreview, Mine
<1>6. CASE PersonDeletes \/ UNCHANGED vars
  BY <1>6 DEF PersonDeletes, jobSame, vars, handlerVars, OfPreviews, IsPreview, Mine
<1> QED BY <1>1, <1>2, <1>3, <1>4, <1>5, <1>6 DEF Next

(* Ids of comments and rows are given in their order.                      *)
LEMMA NumberedNext ==
  ASSUME Inv, Numbered, [Next]_vars
  PROVE  Numbered'
<1> USE DEF Inv, Core
<1>1. row \in Rows /\ rows \in Nat /\ posted \in Nat /\ comments \in SUBSET Nat
  BY Typed
<1>2. ASSUME comments' \subseteq comments \/ comments' = comments \cup {posted + 1}, 
             IF comments' \subseteq comments THEN posted' \in {posted, posted + 1} ELSE posted' = posted + 1,
             \/ UpsertRow
             \/ row' \in {row, NoRow} \/ \E c : row # NoRow /\ row' = [row EXCEPT !.comment = c]
      PROVE  Numbered'
  <2>1. comments' \subseteq 1..posted'
    BY <1>1, <1>2 DEF Numbered
  <2>2. row' # NoRow => row'.id # 0
    BY <1>1, <1>2 DEF Numbered, UpsertRow, NoRow, Rows
  <2> QED BY <2>1, <2>2 DEF Numbered
<1>3. ASSUME NEW w \in Workers, Engine(w)
      PROVE  Numbered'
  <2>1. CASE Prepare(w) \/ Claim(w) \/ Up(w) \/ Finish(w)
    BY <1>2, <2>1 DEF Prepare, Claim, Up, Finish, previewVars
  <2>2. CASE Post(w)
    BY <1>2, <2>2 DEF Post
  <2>3. CASE Save(w)
    BY <1>2, <2>3 DEF Save
  <2> QED BY <1>3, <2>1, <2>2, <2>3 DEF Engine
<1>4. ASSUME NEW w \in Workers, Cleanup(w) \/ DbFails(w) \/ Report(w)
      PROVE  Numbered'
  BY <1>2, <1>4 DEF Cleanup, CancelActive, RemoveBox, ReadRow, DeleteComment, DropRow, DbFails,
                    Report, previewVars
<1>5. ASSUME NEW d \in Deliveries, Handler(d)
      PROVE  Numbered'
  BY <1>2, <1>5 DEF Handler, Arrive, Count, Upsert, CreateQueued, Enqueue, HandlerFails,
                    handlerSame, previewVars
<1>6. CASE Restart \/ PersonDeletes \/ UNCHANGED vars
  BY <1>2, <1>6 DEF Restart, PersonDeletes, vars, previewVars
<1>7. ASSUME NEW w \in Workers, NEW d \in Deliveries, Take(w, d)
      PROVE  Numbered'
  BY <1>2, <1>7 DEF Take, previewVars
<1> QED BY <1>3, <1>4, <1>5, <1>6, <1>7 DEF Next

-----------------------------------------------------------------------------
(* The steps of a deployment.                                              *)
LEMMA EngineTidies ==
  ASSUME Inv, Alone, NEW w \in Workers, Engine(w)
  PROVE  Tidy'
<1> SUFFICES ASSUME ~raced' PROVE Tidy'
  BY DEF Tidy
<1> USE DEF Inv, Core, Alone
<1>1. /\ row \in Rows /\ rows \in Nat /\ box \in BOOLEAN
      /\ work \in [Workers -> WorkStates] /\ raced \in BOOLEAN
  BY Typed
<1>2. /\ what' = what /\ Same(w) /\ work'[w].d = work[w].d
      /\ IsPreview(w)' = IsPreview(w)
  <2>1. what' = what
    BY DEF Engine, Prepare, Claim, Post, Save, Up, Finish, jobSame, handlerVars
  <2> QED BY <2>1, WorkerKeeps, OthersSame DEF IsPreview, Mine
<1>3. ~raced
  BY <1>1 DEF Engine, Prepare, Claim, Post, Save, Up, Finish
<1>4. Spend("faults") => ~NoFault'
  BY SpendCounts
<1>5. (spent' = spent) => (NoFault' <=> NoFault)
  BY DEF NoFault
<1>6. CASE ~IsPreview(w)
  <2>1. ~Busy(w) /\ ~Busy(w)'
    <3>1. work[w].pc \notin {"remove", "read", "uncomment", "drop"}
      BY DEF Engine, Prepare, Claim, Post, Save, Up, Finish, At
    <3>2. work'[w].pc \notin {"remove", "read", "uncomment", "drop"}
      <4>1. CASE Prepare(w)
        <5>1. \E i, c : Reads(w, "claim", i, c)
          BY <4>1 DEF Prepare, Reads
        <5> QED BY <5>1, ReadGives
      <4>2. CASE Claim(w) \/ Up(w) \/ Finish(w) \/ Save(w)
        BY <4>2, GotoGives DEF Claim, Up, Finish, Save
      <4>3. CASE Post(w)
        <5>1. \/ Goto(w, "up") \/ Goto(w, "ok")
              \/ \E c : Creates(w, "save", c) \/ Creates(w, "saveEnd", c)
          BY <4>3 DEF Post, Creates
        <5> QED BY <5>1, GotoGives, CreatedGives
      <4> QED BY <4>1, <4>2, <4>3 DEF Engine
    <3> QED BY <1>2, <1>6, <3>1, <3>2 DEF Busy, Deploying, CleaningUp, IsPreview, Mine
  <2>2. UNCHANGED <<row, comments, box>> /\ (NoFault' => NoFault)
    <3>1. ~Post(w) /\ ~Save(w)
      BY <1>6 DEF OfPreviews, Post, Save, At
    <3>2. UNCHANGED <<row, comments, box>>
      BY <1>1, <1>6, <3>1 DEF Engine, Prepare, Claim, Up, Finish, previewVars
    <3>3. spent' = spent \/ Spend("faults")
      BY <3>1 DEF Engine, Prepare, Claim, Up, Finish
    <3> QED BY <1>4, <1>5, <3>2, <3>3
  <2> QED BY <1>2, <1>3, <2>1, <2>2, Bystander
<1>7. CASE IsPreview(w)
  (* From its first look at the row, the deployment is alone.              *)
  <2>1. \A v \in Workers \ {w} : ~Busy(v)
    <3>1. CASE Prepare(w)
      BY <1>1, <1>7, <3>1 DEF Prepare, Busy
    <3>2. CASE ~Prepare(w)
      <4>1. Deploying(w)
        BY <1>7, <3>2 DEF Engine, Claim, Post, Save, Up, Finish, At, Deploying, IsPreview, Mine
      <4> QED BY <1>3, <4>1, AloneWhenBusy DEF Busy
    <3> QED BY <3>1, <3>2
  <2>2. (Deploying(w)' => DeployTidy(w)') /\ ~CleaningUp(w)' /\ (~Busy(w)' => Rest')
        => Tidy'
    BY <1>2, <2>1, Solo
  <2>3. CASE Prepare(w)
    <3>1. Reads(w, "claim", row'.id, row'.comment) /\ UpsertRow
      BY <1>7, <2>3 DEF Prepare, Reads
    <3>2. /\ work'[w].pc = "claim" /\ work'[w].id = row'.id /\ work'[w].comment = row'.comment
      BY <3>1, ReadGives
    <3>3. Rest
      <4>1. ~Busy(w)
        BY <2>3 DEF Prepare, At, Busy, Deploying, CleaningUp
      <4> QED BY <1>3, <2>1, <4>1 DEF Tidy
    <3>4. row' # NoRow /\ row'.comment = row.comment
      BY <1>1, <3>1 DEF UpsertRow, NoRow, Rows
    <3>5. UNCHANGED <<comments, spent>>
      BY <2>3 DEF Prepare
    <3>6. Deploying(w)' /\ ~CleaningUp(w)'
      BY <1>2, <1>7, <3>2 DEF Deploying, CleaningUp, IsPreview, Mine
    <3>7. DeployTidy(w)'
      BY <1>5, <3>2, <3>3, <3>4, <3>5 DEF DeployTidy, Saving, Rest
    <3> QED BY <2>2, <3>6, <3>7 DEF Busy
  <2>4. CASE ~Prepare(w)
    <3>1. Deploying(w) /\ DeployTidy(w)
      <4>1. Deploying(w)
        BY <1>7, <2>4 DEF Engine, Claim, Post, Save, Up, Finish, At, Deploying, IsPreview, Mine
      <4> QED BY <1>3, <4>1 DEF Tidy
    (* It goes on, or ends, with the row and the comment as they were.     *)
    <3>2. ASSUME NEW pc \in {"post", "up", "finish", "postEnd", "ok"}, Goto(w, pc),
                 row' = row, ~Saving(w), comments' \subseteq comments \/ ~NoFault',
                 NoFault' => NoFault
          PROVE  Tidy'
      <4>1. /\ work'[w].pc = pc
            /\ pc # "ok" => work'[w].id = work[w].id /\ work'[w].comment = work[w].comment
        BY <3>2, GotoGives
      <4>2. ~CleaningUp(w)' /\ (Deploying(w)' <=> pc # "ok")
        BY <1>2, <1>7, <4>1 DEF CleaningUp, Deploying, IsPreview, Mine
      <4>3. Deploying(w)' => DeployTidy(w)'
        BY <3>1, <3>2, <4>1, <4>2 DEF DeployTidy, Saving
      <4>4. ~Busy(w)' => Rest'
        BY <3>1, <3>2, <4>2 DEF DeployTidy, Rest, Busy
      <4> QED BY <2>2, <4>2, <4>3, <4>4
    <3>3. CASE Claim(w) \/ Up(w) \/ Finish(w)
      <4>1. /\ row' = row /\ comments' = comments /\ ~Saving(w)
            /\ \E pc \in {"post", "up", "finish", "postEnd", "ok"} : Goto(w, pc)
        BY <3>3 DEF Claim, Up, Finish, previewVars, Saving, At
      <4>2. NoFault' => NoFault
        <5>1. spent' = spent \/ Spend("faults")
          BY <3>3 DEF Claim, Up, Finish
        <5> QED BY <1>4, <1>5, <5>1
      <4> QED BY <3>2, <4>1, <4>2
    <3>4. CASE Post(w)
      <4>1. /\ row' = row /\ ~Saving(w)
        BY <3>4 DEF Post, Saving, At
      <4>2. CASE /\ \E pc \in {"up", "ok"} : Goto(w, pc)
                 /\ (comments' = comments /\ spent' = spent) \/ Spend("faults")
        BY <1>4, <1>5, <3>2, <4>1, <4>2
      <4>3. CASE /\ work[w].comment \notin comments /\ spent' = spent
                 /\ comments' = comments \cup {posted + 1}
                 /\ Creates(w, "save", posted + 1) \/ Creates(w, "saveEnd", posted + 1)
        <5>1. /\ work'[w].pc \in {"save", "saveEnd"} /\ work'[w].id = work[w].id
              /\ work'[w].comment = posted + 1
          BY <4>3, CreatedGives
        <5>2. NoFault' => comments = {}
          BY <1>5, <3>1, <4>1, <4>3 DEF DeployTidy
        <5>3. DeployTidy(w)'
          BY <3>1, <4>1, <4>3, <5>1, <5>2 DEF DeployTidy, Saving
        <5>4. ~CleaningUp(w)' /\ Deploying(w)'
          BY <1>2, <1>7, <5>1 DEF CleaningUp, Deploying, IsPreview, Mine
        <5> QED BY <2>2, <5>3, <5>4 DEF Busy
      <4> QED BY <3>4, <4>2, <4>3 DEF Post, Creates
    <3>5. CASE Save(w)
      <4>1. Saving(w) /\ comments' = comments
        BY <3>5 DEF Save, Saving, At
      <4>2. PICK pc \in {"up", "ok"} : Goto(w, pc)
        BY <3>5 DEF Save
      <4>3. /\ work'[w].pc = pc
            /\ pc # "ok" => work'[w].id = work[w].id /\ work'[w].comment = work[w].comment
        BY <4>2, GotoGives
      <4>4. \/ row' = [row EXCEPT !.comment = work[w].comment] /\ spent' = spent
            \/ row' = row /\ ~NoFault'
        BY <1>4, <3>1, <3>5 DEF Save, DeployTidy
      <4>5. row.id # 0 /\ row.id = work[w].id
        BY <3>1 DEF DeployTidy, Numbered
      <4>6. /\ row' # NoRow /\ row'.id = work[w].id
            /\ NoFault' => row'.comment = work[w].comment /\ comments' \subseteq {row'.comment}
        BY <1>1, <1>5, <3>1, <4>1, <4>4, <4>5 DEF DeployTidy, Rows, NoRow
      <4>7. ~CleaningUp(w)' /\ (Deploying(w)' <=> pc = "up")
        BY <1>2, <1>7, <4>3 DEF CleaningUp, Deploying, IsPreview, Mine
      <4> QED BY <2>2, <4>3, <4>6, <4>7 DEF DeployTidy, Saving, Rest, Busy
    <3> QED BY <2>4, <3>3, <3>4, <3>5 DEF Engine
  <2> QED BY <2>3, <2>4
<1> QED BY <1>6, <1>7

(* The steps of a cleanup.                                                 *)
LEMMA CleanupTidies ==
  ASSUME Inv, Alone, NEW w \in Workers, Cleanup(w)
  PROVE  Tidy'
<1> SUFFICES ASSUME ~raced' PROVE Tidy'
  BY DEF Tidy
<1> USE DEF Inv, Core, Alone
<1>1. /\ row \in Rows /\ box \in BOOLEAN /\ raced \in BOOLEAN
      /\ work \in [Workers -> WorkStates]
  BY Typed
<1>2. what' = what /\ Same(w)
  <2>1. what' = what
    BY DEF Cleanup, CancelActive, RemoveBox, ReadRow, DeleteComment, DropRow, jobSame, handlerVars
  <2> QED BY <2>1, WorkerKeeps, OthersSame
<1>3. ~raced
  BY <1>1 DEF Cleanup, CancelActive, RemoveBox, ReadRow, DeleteComment, DropRow
<1>4. Spend("faults") => ~NoFault'
  BY SpendCounts
<1>5. (spent' = spent) => (NoFault' <=> NoFault)
  BY DEF NoFault
<1>6. \A v \in Workers \ {w} : ~Busy(v)
  <2>1. CASE CancelActive(w)
    BY <2>1 DEF CancelActive, Busy
  <2>2. CASE ~CancelActive(w)
    <3>1. CleaningUp(w)
      BY <2>2 DEF Cleanup, RemoveBox, ReadRow, DeleteComment, DropRow, At, CleaningUp
    <3> QED BY <1>3, <3>1, AloneWhenBusy DEF Busy
  <2> QED BY <2>1, <2>2
<1>7. ~Deploying(w)' /\ (CleaningUp(w)' => CleanTidy(w)') /\ (~CleaningUp(w)' => Rest') => Tidy'
  BY <1>2, <1>6, Solo DEF Busy
<1>8. CASE CancelActive(w)
  <2>1. work'[w].pc = "remove" /\ UNCHANGED <<row, comments, box, spent>>
    BY <1>8, GotoGives DEF CancelActive, previewVars
  <2>2. Rest
    <3>1. ~Busy(w)
      BY <1>8 DEF CancelActive, At, Busy, Deploying, CleaningUp
    <3> QED BY <1>3, <1>6, <3>1 DEF Tidy
  <2>3. ~Deploying(w)' /\ CleaningUp(w)'
    BY <2>1 DEF Deploying, CleaningUp
  <2>4. CleanTidy(w)'
    BY <1>5, <2>1, <2>2 DEF CleanTidy, Rest
  <2> QED BY <1>7, <2>3, <2>4
<1>9. CASE ~CancelActive(w)
  <2>1. CleaningUp(w) /\ CleanTidy(w)
    <3>1. CleaningUp(w)
      BY <1>9 DEF Cleanup, RemoveBox, ReadRow, DeleteComment, DropRow, At, CleaningUp
    <3> QED BY <1>3, <3>1 DEF Tidy
  <2>2. CASE RemoveBox(w)
    <3>1. /\ work'[w].pc = "read" /\ UNCHANGED <<row, comments>>
          /\ spent' = spent \/ Spend("faults")
      BY <2>2, GotoGives DEF RemoveBox
    <3>2. ~box'
      BY <2>2, <1>1 DEF RemoveBox
    <3>3. ~Deploying(w)' /\ CleaningUp(w)'
      BY <3>1 DEF Deploying, CleaningUp
    <3>4. CleanTidy(w)'
      BY <1>4, <1>5, <2>1, <3>1, <3>2 DEF CleanTidy
    <3> QED BY <1>7, <3>3, <3>4
  <2>3. CASE ReadRow(w)
    <3>1. UNCHANGED <<row, comments, box, spent>> /\ At(w, "read")
      BY <2>3 DEF ReadRow, previewVars
    <3>2. ~box /\ (NoFault => comments \subseteq {row.comment})
      BY <2>1, <3>1 DEF CleanTidy, At
    <3>3. CASE row = NoRow /\ Goto(w, "ok")
      <4>1. work'[w].pc = "ok"
        BY <3>3, GotoGives
      <4>2. ~Deploying(w)' /\ ~CleaningUp(w)'
        BY <4>1 DEF Deploying, CleaningUp
      <4> QED BY <1>5, <1>7, <3>1, <3>2, <4>2 DEF Rest
    <3>4. CASE row # NoRow /\ Reads(w, IF row.comment # 0 THEN "uncomment" ELSE "drop",
                                    row.id, row.comment)
      <4>1. /\ work'[w].pc = IF row.comment # 0 THEN "uncomment" ELSE "drop"
            /\ work'[w].id = row.id /\ work'[w].comment = row.comment
        BY <3>4, ReadGives
      <4>2. ~Deploying(w)' /\ CleaningUp(w)'
        BY <4>1 DEF Deploying, CleaningUp
      <4>3. row.comment = 0 /\ NoFault => comments = {}
        BY <3>2, Typed DEF Numbered
      <4>4. CleanTidy(w)'
        BY <1>5, <3>1, <3>2, <3>4, <4>1, <4>3 DEF CleanTidy
      <4> QED BY <1>7, <4>2, <4>4
    <3> QED BY <2>3, <3>3, <3>4 DEF ReadRow, Reads
  <2>4. CASE DeleteComment(w)
    <3>1. /\ work'[w].pc = "drop" /\ work'[w].id = work[w].id /\ UNCHANGED <<row, box>>
          /\ At(w, "uncomment")
          /\ \/ comments' = comments \ {work[w].comment} /\ spent' = spent
             \/ comments' = comments /\ Spend("faults")
      BY <2>4, GotoGives DEF DeleteComment
    <3>2. ~Deploying(w)' /\ CleaningUp(w)'
      BY <3>1 DEF Deploying, CleaningUp
    <3>3. NoFault' => comments' = {}
      BY <1>4, <1>5, <2>1, <3>1 DEF CleanTidy, At
    <3>4. CleanTidy(w)'
      BY <2>1, <3>1, <3>3 DEF CleanTidy, At
    <3> QED BY <1>7, <3>2, <3>4
  <2>5. CASE DropRow(w)
    <3>1. /\ work'[w].pc = "ok" /\ UNCHANGED <<comments, box, spent>> /\ At(w, "drop")
      BY <2>5, GotoGives DEF DropRow
    <3>2. ~Deploying(w)' /\ ~CleaningUp(w)'
      BY <3>1 DEF Deploying, CleaningUp
    <3>3. Rest'
      BY <1>5, <2>1, <3>1 DEF CleanTidy, Rest, At
    <3> QED BY <1>7, <3>2, <3>3
  <2> QED BY <1>9, <2>2, <2>3, <2>4, <2>5 DEF Cleanup
<1> QED BY <1>8, <1>9

(* Everything else.                                                        *)
LEMMA OthersTidy ==
  ASSUME Inv, Alone,
         \/ Restart \/ PersonDeletes \/ UNCHANGED vars
         \/ \E w \in Workers, d \in Deliveries : Take(w, d)
         \/ \E w \in Workers : DbFails(w) \/ Report(w)
         \/ \E d \in Deliveries : Handler(d)
  PROVE  Tidy'
<1> SUFFICES ASSUME ~raced' PROVE Tidy'
  BY DEF Tidy
<1> USE DEF Inv, Core, Alone
<1>1. /\ row \in Rows /\ rows \in Nat /\ work \in [Workers -> WorkStates]
  BY Typed
<1>2. ~raced
  BY DEF Restart, PersonDeletes, vars, Take, DbFails, Report, Handler, Arrive, Count, Upsert,
         CreateQueued, Enqueue, HandlerFails, handlerSame
<1>3. /\ Spend("faults") => ~NoFault'
      /\ Spend("deletions") => (NoFault' <=> NoFault)
      /\ spent' = spent => (NoFault' <=> NoFault)
  BY SpendCounts DEF NoFault
(* Nobody's step changes; the row is there as before, comments may be gone.*)
<1>4. ASSUME \A w \in Workers : (Deploying(w)' <=> Deploying(w)) /\ (CleaningUp(w)' <=> CleaningUp(w)),
             work' = work, box' = box, comments' \subseteq comments, NoFault' => NoFault,
             row # NoRow => row' = row, row'.comment = row.comment
      PROVE  Tidy'
  <2>1. \A w \in Workers : Deploying(w)' => DeployTidy(w)'
    BY <1>2, <1>4 DEF Tidy, DeployTidy, Saving
  <2>2. \A w \in Workers : CleaningUp(w)' => CleanTidy(w)'
    BY <1>2, <1>4 DEF Tidy, CleanTidy
  <2>3. (\A w \in Workers : ~Busy(w)') => Rest'
    <3> SUFFICES ASSUME \A w \in Workers : ~Busy(w)' PROVE Rest'
      OBVIOUS
    <3>1. Rest
      BY <1>2, <1>4 DEF Tidy, Busy
    <3> QED BY <1>4, <3>1 DEF Rest
  <2> QED BY <1>2, <1>4, <2>1, <2>2, <2>3 DEF Tidy, Busy
(* A worker takes a job up or puts one down.                               *)
<1>5. ASSUME NEW w \in Workers, NEW d \in Deliveries, Take(w, d) PROVE Tidy'
  <2>1. /\ work'[w].pc \in {"prepare", "cancel"} /\ \A v \in Workers \ {w} : work'[v] = work[v]
        /\ work[w].pc = "idle" /\ what' = what /\ UNCHANGED <<row, comments, box, spent, raced>>
    BY <1>1, <1>5 DEF Take, Idle, At, handlerVars, previewVars
  <2>2. ~Busy(w) /\ ~Busy(w)' /\ Same(w)
    BY <2>1, OthersSame DEF Busy, Deploying, CleaningUp
  <2> QED BY <1>3, <2>1, <2>2, Bystander
<1>6. ASSUME NEW w \in Workers, Report(w) PROVE Tidy'
  <2>1. /\ work'[w].pc = "idle" /\ \A v \in Workers \ {w} : work'[v] = work[v]
        /\ work[w].pc \in {"ok", "err"} /\ what' = what
        /\ UNCHANGED <<row, comments, box, spent, raced>>
    BY <1>1, <1>6 DEF Report, Idle, At, previewVars
  <2>2. ~Busy(w) /\ ~Busy(w)' /\ Same(w)
    BY <2>1, OthersSame DEF Busy, Deploying, CleaningUp
  <2> QED BY <1>3, <2>1, <2>2, Bystander
(* A statement that fails ends the job where it is.                        *)
<1>7. ASSUME NEW w \in Workers, DbFails(w) PROVE Tidy'
  <2>1. /\ work'[w].pc = "err" /\ \A v \in Workers \ {w} : work'[v] = work[v]
        /\ work[w].pc \notin {"save", "saveEnd"} /\ what' = what
        /\ UNCHANGED <<row, comments, box, raced>> /\ ~NoFault'
    BY <1>3, <1>7, GotoGives DEF DbFails, previewVars, jobSame, handlerVars
  <2>2. ~Busy(w)' /\ Same(w)
    BY <2>1, OthersSame DEF Busy, Deploying, CleaningUp
  <2>3. CASE ~Busy(w)
    BY <2>1, <2>2, <2>3, Bystander
  <2>4. CASE Busy(w)
    <3>1. \A v \in Workers \ {w} : ~Busy(v)
      BY <1>2, <2>4, AloneWhenBusy
    <3>2. box => row # NoRow
      BY <1>2, <2>4 DEF Tidy, Busy, DeployTidy, CleanTidy
    <3>3. Rest'
      BY <2>1, <3>2 DEF Rest
    <3> QED BY <2>2, <3>1, <3>3, Solo DEF Busy
  <2> QED BY <2>3, <2>4
(* Everybody is stopped.                                                   *)
<1>8. CASE Restart
  <2>1. /\ \A w \in Workers : ~Busy(w)'
        /\ UNCHANGED <<row, comments, box>> /\ ~NoFault'
    BY <1>3, <1>8 DEF Restart, Busy, Deploying, CleaningUp, Idle, previewVars
  <2>2. box => row # NoRow
    <3>1. CASE \E w \in Workers : Busy(w)
      BY <1>2, <3>1 DEF Tidy, Busy, DeployTidy, CleanTidy
    <3>2. CASE \A w \in Workers : ~Busy(w)
      BY <1>2, <3>2 DEF Tidy, Rest
    <3> QED BY <3>1, <3>2
  <2> QED BY <2>1, <2>2 DEF Tidy, Busy, Rest
<1>9. ASSUME NEW d \in Deliveries, Handler(d) PROVE Tidy'
  <2>1. /\ work' = work
        /\ \A w \in Workers : (Deploying(w)' <=> Deploying(w)) /\ (CleaningUp(w)' <=> CleaningUp(w))
    BY <1>9, HandlerSpares DEF Deploying, CleaningUp
  <2>2. box' = box /\ comments' = comments
    BY <1>9 DEF Handler, Arrive, Count, Upsert, CreateQueued, Enqueue, HandlerFails,
                handlerSame, previewVars
  <2>3. NoFault' => NoFault
    <3>1. spent' = spent \/ Spend("faults")
      BY <1>9 DEF Handler, Arrive, Count, Upsert, CreateQueued, Enqueue, HandlerFails
    <3> QED BY <1>3, <3>1
  <2>4. (row # NoRow => row' = row) /\ row'.comment = row.comment
    <3>1. row' = row \/ UpsertRow
      BY <1>9 DEF Handler, Arrive, Count, Upsert, CreateQueued, Enqueue, HandlerFails,
                  handlerSame, previewVars
    <3> QED BY <3>1 DEF UpsertRow, NoRow
  <2> QED BY <1>4, <2>1, <2>2, <2>3, <2>4
<1>10. CASE PersonDeletes
  <2>1. /\ UNCHANGED <<work, what, row, box>> /\ comments' \subseteq comments
    BY <1>10 DEF PersonDeletes, jobSame, handlerVars
  <2>2. NoFault' => NoFault
    BY <1>3, <1>10 DEF PersonDeletes
  <2> QED BY <1>4, <2>1, <2>2 DEF Deploying, CleaningUp
<1>11. CASE UNCHANGED vars
  <2>1. UNCHANGED <<work, what, row, box, comments, spent>>
    BY <1>11 DEF vars, handlerVars, previewVars
  <2> QED BY <1>3, <1>4, <2>1 DEF Deploying, CleaningUp
<1> QED BY <1>5, <1>6, <1>7, <1>8, <1>9, <1>10, <1>11

LEMMA AloneInit == Init => Alone
<1> SUFFICES ASSUME Init PROVE Alone
  OBVIOUS
<1>1. \A w \in Workers : work[w].pc = "idle"
  BY DEF Init, Idle
<1>2. Held /\ OfPreviews /\ Numbered
  BY <1>1 DEF Held, OfPreviews, Numbered, Init
<1>3. Tidy
  BY <1>1 DEF Tidy, Busy, Deploying, CleaningUp, Rest, Init
<1> QED BY <1>2, <1>3 DEF Alone

LEMMA AloneNext ==
  ASSUME Inv, Alone, [Next]_vars
  PROVE  Alone'
<1>1. Held' /\ OfPreviews' /\ Numbered'
  BY HeldNext, PostersNext, NumberedNext DEF Alone
<1>2. Tidy'
  BY EngineTidies, CleanupTidies, OthersTidy DEF Next
<1> QED BY <1>1, <1>2 DEF Alone

LEMMA AloneAlways == Spec => []Alone
<1>1. Inv /\ Alone /\ [Next]_vars => Alone'
  BY AloneNext
<1> QED BY <1>1, AloneInit, Invariance, PTL DEF Spec

(* Between jobs nobody is about the preview.                               *)
LEMMA RestWhenOver ==
  ASSUME Inv, Alone, AtRest, ~raced
  PROVE  Rest
<1>1. \A w \in Workers : work[w].pc = "idle"
  BY DEF AtRest, Alone, Held, Inv, Core, Hands
<1> QED BY <1>1 DEF Alone, Tidy, Busy, Deploying, CleaningUp

-----------------------------------------------------------------------------
(* Rows, comments, deployments and jobs keep their types, for any          *)
(* deliveries, workers and bounds.                                         *)
THEOREM Typing == Spec => []TypeOK
<1>1. Inv => TypeOK
  BY DEF Inv, Core
<1> QED BY <1>1, Invariance, PTL

(* deploy_queue_full: a webhook goes over the limit only if other deploy   *)
(* jobs came between its look and its insertion, or it could not look,     *)
(* however many webhooks are handled at once and whatever the limit is.    *)
THEOREM RoomWhenItLooked == Spec => LimitHolds
<1>1. Inv /\ [Next]_vars =>
        [\A d \in Deliveries :
           /\ what[d] \in {"push", "open"} /\ at[d] = "enqueue"
           /\ jobStatus[d] = "absent" /\ jobStatus'[d] = "queued"
           /\ Cardinality(Pending) >= Limit
           => d \in overtaken]_vars
  <2> SUFFICES ASSUME Inv, NEW d \in Deliveries,
                      what[d] \in {"push", "open"}, at[d] = "enqueue",
                      Cardinality(Pending) >= Limit
               PROVE  d \in overtaken
    OBVIOUS
  <2>1. Cardinality(Pending) \in Nat /\ Limit \in Nat
    BY QueueLength, PreviewsAssumption DEF Inv
  <2> QED BY <2>1 DEF Inv, Looked, Waits
<1> QED BY <1>1, Invariance, PTL DEF Spec, LimitHolds

(* A preview whose container is up can be cleaned up and redeployed: it    *)
(* has its row when all jobs are over, however many webhooks, cleanups,    *)
(* failures and restarts there were, unless a cleanup and a deployment     *)
(* overlapped or the container could not be removed.                       *)
THEOREM RowOfItsContainer == Spec => []Manageable
<1>1. Inv /\ Alone => Manageable
  <2> SUFFICES ASSUME Inv, Alone, AtRest, ~raced, box PROVE row # NoRow
    BY DEF Manageable
  <2> QED BY RestWhenOver DEF Rest
<1> QED BY <1>1, Invariance, AloneAlways, PTL

(* pr_comment::upsert, set_comment_id and the cleanup leave one comment at *)
(* most, the one the row names, however often it is redelivered, cleaned   *)
(* up and deleted by hand, when nothing overlapped and nothing failed.     *)
THEOREM OneComment == Spec => []SingleComment
<1>1. Inv /\ Alone => SingleComment
  <2> SUFFICES ASSUME Inv, Alone, AtRest, ~raced, spent.faults = 0
               PROVE  comments \subseteq {row.comment}
    BY DEF SingleComment
  <2> QED BY RestWhenOver DEF Rest, NoFault
<1> QED BY <1>1, Invariance, AloneAlways, PTL

=============================================================================
