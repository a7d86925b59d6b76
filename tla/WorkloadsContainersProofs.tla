---------------------- MODULE WorkloadsContainersProofs ----------------------
(***************************************************************************)
(* Proofs about Workloads and about AppContainers, two models that share   *)
(* no state: what the row says of a workload, and which containers of an   *)
(* application are there.                                                  *)
(*                                                                         *)
(* Workloads, for any jobs, workers and bounds: where the status and the   *)
(* container differ, a job has yet to end that will set the status right,  *)
(* or is about to write it, or a preview or the sweep has written it since *)
(* (Follows); what a deployment is about to store is signed with the key   *)
(* that is stored (Signed).                                                *)
(*                                                                         *)
(* AppContainers, for any runs, pull requests and jobs.  A run lists and   *)
(* removes its own pull request only (Apart); a run at its removal has     *)
(* listed all that others left, as long as the file is its own (ListsAll). *)
(* Rolling and checked, a run removes others while its own container serves*)
(* (Gate), and of the removals that cancelled runs have abandoned the later*)
(* ones cover what the earlier ones have left (Nested), so that one which  *)
(* lands late still spares something that serves (Kept).                   *)
(***************************************************************************)
EXTENDS Workloads, AppContainers, TLAPS

-----------------------------------------------------------------------------
(* The status and the secrets of a workload                                *)

RowStates == [life: {"new", "there", "gone"}, status: Statuses, public: BOOLEAN]
PCs == {"idle", "resolve", "list", "jwt", "anon", "write", "remove", "up", "proxy", "proxyRemove",
        "finish", "running", "exited", "gaveUp", "ok", "err"}
WorkStates == [pc: PCs, j: Jobs \cup {NoJob}, public: BOOLEAN, env: Env]
SweepStates == [pc: {"idle", "read", "inspect", "stop", "write"}, seen: [Boxes -> BoxStates],
                on: Boxes, known: Statuses, new: Statuses]
Reasons == {"overlap", "twice", "ignored", "preview", "sync"}
Lasting == {"overlap", "twice", "ignored"}
Budgets == [edits: 0..MaxEdits, crashes: 0..MaxCrashes, faults: 0..MaxFaults]

Busy(w) == work[w].pc # "idle"
OpOf(w) == op[work[w].j]

(* Every job asks for something, and one that may run has tries left.      *)
Purposes ==
  \A j \in Jobs : /\ (op[j] = "none") <=> (jobStatus[j] = "absent")
                  /\ op[j] \in {"restart", "preview", "cleanup"} => kind = "application"
TriesLeft == \A j \in Jobs : jobStatus[j] # "dropped" => tries[j] < MaxAttempts

(* A worker that is not idle holds its job.                                *)
Holds ==
  \A w \in Workers :
    IF Busy(w) THEN /\ work[w].j \in Jobs
                    /\ jobStatus[work[w].j] = "held" /\ holder[work[w].j] = w
               ELSE work[w] = Idle

(* Only applications are swept.                                            *)
Swept == sync.pc # "idle" => kind = "application"

Sound == TypeOK /\ Purposes /\ TriesLeft /\ Holds /\ Swept

(* The steps of a job are those of its kind and of what it asks for.       *)
Steps ==
  \A w \in Workers :
    /\ work[w].pc \in {"list", "jwt", "anon", "gaveUp"} => kind = "service" /\ OpOf(w) = "start"
    /\ work[w].pc = "write" => kind # "application" /\ OpOf(w) = "start"
    /\ work[w].pc = "remove" => OpOf(w) \in {"stop", "restart", "cleanup"} \/ kind = "database"
    /\ work[w].pc = "up" => OpOf(w) \in {"start", "restart", "preview"}
    /\ work[w].pc = "proxy" => kind = "database" /\ OpOf(w) = "start"
    /\ work[w].pc = "finish" => kind = "application" /\ OpOf(w) \in {"start", "preview"}
    /\ work[w].pc = "running" => OpOf(w) \in {"start", "restart", "preview"}
    /\ work[w].pc \in {"proxyRemove", "exited"} => OpOf(w) = "stop"

(* What runs at once for production asks for the same, and one deployment  *)
(* of it runs at a time, unless that is recorded.                          *)
Produces(w) == Busy(w) /\ OpOf(w) \in OfProduction
Alike ==
  "overlap" \notin excuses => \A v, w \in Workers : Produces(v) /\ Produces(w) => OpOf(v) = OpOf(w)
Single ==
  "twice" \notin excuses =>
    \A v, w \in Workers : /\ Busy(v) /\ OpOf(v) = "start"
                          /\ Busy(w) /\ OpOf(w) = "start"
                          => v = w

(* What a deployment is about to store is what is stored, if anything is.  *)
Signed ==
  "twice" \notin excuses =>
    /\ stored.anon # 0 => stored.anon = stored.jwt
    /\ \A w \in Workers :
         /\ work[w].pc \in {"jwt", "anon"} => work[w].env.jwt # 0 /\ work[w].env.anon = work[w].env.jwt
         /\ work[w].pc = "jwt" => stored.jwt \in {0, work[w].env.jwt}
         /\ work[w].pc = "anon" => stored.jwt = work[w].env.jwt

(* A job that is not past its last command, or will run again, and that    *)
(* will set the status right if it succeeds: the deployment of an          *)
(* application that fails leaves the status alone, and what is about its   *)
(* preview does nothing for production.                                    *)
Closing == {"proxy", "finish", "running", "proxyRemove", "exited"}
Open(j) ==
  \/ jobStatus[j] \in {"queued", "dropped"}
  \/ \E w \in Workers : work[w].j = j /\ work[w].pc \notin Closing \cup {"idle", "ok"}
Mends(j) == kind = "application" => op[j] \in {"stop", "restart"}
Awaited == \E j \in Jobs : Open(j) /\ Mends(j)

(* Where the row and the container differ, such a job is awaited, or one   *)
(* is about to write the row, or a preview or the sweep has written it.    *)
Plain == excuses \cap {"overlap", "ignored"} = {}
Misled == "preview" \in excuses \/ "sync" \in excuses
Agrees ==
  /\ box = "absent" /\ row.status = "running" =>
       Awaited \/ Misled \/ \E w \in Workers : work[w].pc \in {"proxyRemove", "exited"}
  /\ kind # "application" /\ box # "absent" /\ row.status # "running" =>
       Awaited \/ \E w \in Workers : work[w].pc \in {"proxy", "running"}
  /\ \A w \in Workers :
       /\ work[w].pc \in {"proxy", "finish", "running"} /\ OpOf(w) # "preview" =>
            box # "absent" \/ Awaited
       /\ work[w].pc \in {"proxyRemove", "exited"} => box = "absent"
Follows == row.life = "there" /\ Plain => Agrees

(* Before the workload is created nothing has been done about it.          *)
Unmet ==
  row.life = "new" =>
    /\ box = "absent" /\ preview = "absent" /\ row.status = "exited"
    /\ sync.pc = "idle"
    /\ \A j \in Jobs : op[j] = "none"

(* Only the containers of an application may be there without being up.    *)
Whole == kind # "application" => box \in {"absent", "up"}

-----------------------------------------------------------------------------
LEMMA Typed ==
  TypeOK <=> /\ kind \in Kinds
             /\ row \in RowStates
             /\ box \in BoxStates /\ preview \in BoxStates /\ proxy \in BOOLEAN
             /\ stored \in Env /\ dotenv \in Env /\ live \in Env /\ minted \in Nat
             /\ op \in [Jobs -> Ops \cup {"none"}]
             /\ Store!StoreTypeOK
             /\ work \in [Workers -> WorkStates]
             /\ sync \in SweepStates
             /\ excuses \subseteq Reasons
             /\ budget \in Budgets
BY DEF TypeOK, RowStates, PCs, WorkStates, SweepStates, Reasons, Budgets

LEMMA TypedNext ==
  TypeOK' <=> /\ kind' \in Kinds
              /\ row' \in RowStates
              /\ box' \in BoxStates /\ preview' \in BoxStates /\ proxy' \in BOOLEAN
              /\ stored' \in Env /\ dotenv' \in Env /\ live' \in Env /\ minted' \in Nat
              /\ op' \in [Jobs -> Ops \cup {"none"}]
              /\ Store!StoreTypeOK'
              /\ work' \in [Workers -> WorkStates]
              /\ sync' \in SweepStates
              /\ excuses' \subseteq Reasons
              /\ budget' \in Budgets
BY DEF TypeOK, RowStates, PCs, WorkStates, SweepStates, Reasons, Budgets

LEMMA SpendFacts ==
  ASSUME TypeOK, NEW what \in {"edits", "crashes", "faults"}, Spend(what)
  PROVE  budget' \in Budgets
<1>1. budget \in Budgets /\ budget[what] > 0
  BY Typed DEF Spend
<1>2. CASE what = "edits"
  <2>1. budget' = [budget EXCEPT !.edits = @ - 1]
    BY <1>2 DEF Spend
  <2>2. budget.edits - 1 \in 0..MaxEdits
    BY <1>1, <1>2, WorkloadsAssumption DEF Budgets
  <2> QED BY <1>1, <2>1, <2>2 DEF Budgets
<1>3. CASE what = "crashes"
  <2>1. budget' = [budget EXCEPT !.crashes = @ - 1]
    BY <1>3 DEF Spend
  <2>2. budget.crashes - 1 \in 0..MaxCrashes
    BY <1>1, <1>3, WorkloadsAssumption DEF Budgets
  <2> QED BY <1>1, <2>1, <2>2 DEF Budgets
<1>4. CASE what = "faults"
  <2>1. budget' = [budget EXCEPT !.faults = @ - 1]
    BY <1>4 DEF Spend
  <2>2. budget.faults - 1 \in 0..MaxFaults
    BY <1>1, <1>4, WorkloadsAssumption DEF Budgets
  <2> QED BY <1>1, <2>1, <2>2 DEF Budgets
<1> QED BY <1>2, <1>3, <1>4

LEMMA FaultTyped ==
  ASSUME TypeOK, Spend("faults") PROVE budget' \in Budgets
BY SpendFacts

(* A worker that goes on with its job.                                     *)
Stays(w) ==
  /\ work' \in [Workers -> WorkStates]
  /\ work'[w].j = work[w].j
  /\ \A v \in Workers : v # w => work'[v] = work[v]

LEMMA GotoFacts ==
  ASSUME TypeOK, NEW w \in Workers, NEW step \in PCs, Goto(w, step)
  PROVE  /\ Stays(w) /\ work'[w].pc = step
         /\ work'[w].env = work[w].env /\ work'[w].public = work[w].public
<1>1. work \in [Workers -> WorkStates] /\ work[w] \in WorkStates
  BY Typed
<1>2. /\ [work[w] EXCEPT !.pc = step] \in WorkStates
      /\ [work[w] EXCEPT !.pc = step].j = work[w].j
      /\ [work[w] EXCEPT !.pc = step].pc = step
      /\ [work[w] EXCEPT !.pc = step].env = work[w].env
      /\ [work[w] EXCEPT !.pc = step].public = work[w].public
  BY <1>1 DEF WorkStates
<1>3. work' = [work EXCEPT ![w] = [work[w] EXCEPT !.pc = step]]
  BY DEF Goto
<1> HIDE DEF WorkStates
<1> QED BY <1>1, <1>2, <1>3 DEF Stays

(* Where the steps of a worker lead.                                       *)
LEMMA StepsTo ==
  ASSUME NEW w \in Workers
  PROVE  /\ FirstStep(w) \in PCs /\ AfterRemove(w) \in PCs /\ AfterUp(w) \in PCs
         /\ AfterFailedUp(w) \in PCs
BY DEF FirstStep, AfterRemove, AfterUp, AfterFailedUp, PCs

-----------------------------------------------------------------------------
(* The steps of a worker that has a job.                                   *)
Works(w) ==
  \/ Resolve(w) \/ ListEnv(w) \/ Upsert(w) \/ Write(w) \/ Remove(w) \/ RemovePreview(w)
  \/ RemoveProxy(w) \/ Up(w) \/ UpProxy(w) \/ FinishDeployment(w) \/ SetStatus(w) \/ DbFails(w)

LEMMA ResolveFacts ==
  ASSUME TypeOK, NEW w \in Workers, Resolve(w)
  PROVE  /\ Stays(w)
         /\ work'[w].pc = (IF row.life = "gone" THEN "err" ELSE FirstStep(w))
         /\ work'[w].public = row.public /\ work'[w].env = work[w].env
<1> DEFINE step == IF row.life = "gone" THEN "err" ELSE FirstStep(w)
           to == [work[w] EXCEPT !.pc = step, !.public = row.public]
<1>1. work \in [Workers -> WorkStates] /\ work[w] \in WorkStates /\ row.public \in BOOLEAN
  BY Typed DEF RowStates
<1>2. step \in PCs
  BY StepsTo DEF PCs
<1>3. work' = [work EXCEPT ![w] = to]
  BY DEF Resolve
<1> HIDE DEF step
<1>4. to \in WorkStates /\ to.j = work[w].j /\ to.pc = step /\ to.public = row.public
      /\ to.env = work[w].env
  BY <1>1, <1>2 DEF WorkStates
<1> HIDE DEF to
<1>5. Stays(w) /\ work'[w] = to
  BY <1>1, <1>3, <1>4 DEF Stays
<1> QED BY <1>4, <1>5 DEF step

LEMMA ListEnvFacts ==
  ASSUME TypeOK, NEW w \in Workers, ListEnv(w)
  PROVE  Stays(w) /\ work'[w].pc = "jwt" /\ work'[w].env = Generate(stored)
<1> DEFINE to == [work[w] EXCEPT !.pc = "jwt", !.env = Generate(stored)]
<1>1. work \in [Workers -> WorkStates] /\ work[w] \in WorkStates
  BY Typed
<1>2. Generate(stored) \in Env
  BY Typed DEF Generate, Env
<1>3. work' = [work EXCEPT ![w] = to]
  BY DEF ListEnv
<1>4. to \in WorkStates /\ to.j = work[w].j /\ to.pc = "jwt" /\ to.env = Generate(stored)
  BY <1>1, <1>2 DEF WorkStates, PCs
<1> HIDE DEF to
<1>5. Stays(w) /\ work'[w] = to
  BY <1>1, <1>3, <1>4 DEF Stays
<1> QED BY <1>4, <1>5

LEMMA EnvFacts ==
  ASSUME TypeOK, NEW w \in Workers
  PROVE  /\ work[w].env \in Env
         /\ [stored EXCEPT !.jwt = work[w].env.jwt] \in Env
         /\ [stored EXCEPT !.anon = work[w].env.anon] \in Env
         /\ NoEnv \in Env
BY Typed DEF WorkStates, Env, NoEnv

LEMMA WorksFacts ==
  ASSUME TypeOK, NEW w \in Workers, Works(w)
  PROVE  /\ TypeOK' /\ Stays(w) /\ Busy(w)
         /\ UNCHANGED <<jobSame, storeVars>>
         /\ excuses \cap Lasting \subseteq excuses' /\ row'.life = row.life
         /\ excuses \subseteq excuses' \/ SetStatus(w)
<1> USE TypedNext, Typed DEF jobSame, storeVars, Store!StoreTypeOK, secretVars, boxVars, At, Busy
<1>1. CASE Resolve(w)
  <2>1. Stays(w)
    BY <1>1, ResolveFacts
  <2> QED BY <1>1, <2>1 DEF Resolve, Stays
<1>2. CASE ListEnv(w)
  <2>1. Stays(w)
    BY <1>2, ListEnvFacts
  <2> QED BY <1>2, <2>1 DEF ListEnv, Stays
<1>3. CASE Upsert(w)
  <2>1. Stays(w)
    BY <1>3, GotoFacts DEF Upsert, PCs
  <2>2. stored' \in Env
    BY <1>3, EnvFacts DEF Upsert
  <2> QED BY <1>3, <2>1, <2>2 DEF Upsert, Stays
<1>4. CASE Write(w)
  <2>1. Stays(w)
    BY <1>4, GotoFacts DEF Write, PCs
  <2>2. dotenv' \in Env
    BY <1>4, EnvFacts DEF Write
  <2>3. budget' \in Budgets
    BY <1>4, FaultTyped DEF Write
  <2> QED BY <1>4, <2>1, <2>2, <2>3 DEF Write, Stays
<1>5. CASE Remove(w)
  <2>1. AfterRemove(w) \in PCs /\ "err" \in PCs
    BY StepsTo DEF PCs
  <2>2. Stays(w)
    BY <1>5, <2>1, GotoFacts DEF Remove
  <2>3. box' \in BoxStates /\ live' \in Env
    BY <1>5, EnvFacts DEF Remove, BoxStates
  <2>4. budget' \in Budgets
    BY <1>5, FaultTyped DEF Remove
  <2>5. excuses' \subseteq Reasons /\ excuses \subseteq excuses'
    BY <1>5 DEF Remove, Excuse, Reasons
  <2> QED BY <1>5, <2>2, <2>3, <2>4, <2>5 DEF Remove, Stays
<1>12. CASE RemovePreview(w)
  <2>1. Stays(w)
    BY <1>12, GotoFacts DEF RemovePreview, PCs
  <2>2. budget' \in Budgets
    BY <1>12, FaultTyped DEF RemovePreview
  <2> QED BY <1>12, <2>1, <2>2 DEF RemovePreview, Stays, BoxStates
<1>6. CASE RemoveProxy(w)
  <2>1. Stays(w)
    BY <1>6, GotoFacts DEF RemoveProxy, PCs
  <2>2. budget' \in Budgets
    BY <1>6, FaultTyped DEF RemoveProxy
  <2> QED BY <1>6, <2>1, <2>2 DEF RemoveProxy, Stays
<1>7. CASE Up(w)
  <2>1. AfterUp(w) \in PCs /\ AfterFailedUp(w) \in PCs
    BY StepsTo DEF PCs
  <2>2. Stays(w)
    BY <1>7, <2>1, GotoFacts DEF Up
  <2>3. box' \in BoxStates /\ preview' \in BoxStates /\ live' \in Env
    BY <1>7 DEF Up, Started, BoxStates
  <2>4. budget' \in Budgets
    BY <1>7, FaultTyped DEF Up
  <2> QED BY <1>7, <2>2, <2>3, <2>4 DEF Up, Stays
<1>8. CASE UpProxy(w)
  <2>1. Stays(w)
    BY <1>8, GotoFacts DEF UpProxy, PCs
  <2>2. budget' \in Budgets
    BY <1>8, FaultTyped DEF UpProxy
  <2> QED BY <1>8, <2>1, <2>2 DEF UpProxy, Stays
<1>9. CASE FinishDeployment(w)
  <2>1. Stays(w)
    BY <1>9, GotoFacts DEF FinishDeployment, PCs
  <2> QED BY <1>9, <2>1 DEF FinishDeployment, Stays
<1>10. CASE SetStatus(w)
  <2>1. Stays(w)
    BY <1>10, GotoFacts DEF SetStatus, PCs
  <2>2. row' \in RowStates /\ row'.life = row.life
    BY <1>10 DEF SetStatus, RowStates, Statuses
  <2>3. excuses' \subseteq Reasons /\ excuses \cap Lasting \subseteq excuses'
    BY <1>10 DEF SetStatus, Reasons, Lasting
  <2> QED BY <1>10, <2>1, <2>2, <2>3 DEF SetStatus, Stays
<1>11. CASE DbFails(w)
  <2>1. Stays(w)
    BY <1>11, GotoFacts DEF DbFails, PCs
  <2>2. budget' \in Budgets
    BY <1>11, FaultTyped DEF DbFails
  <2> QED BY <1>11, <2>1, <2>2 DEF DbFails, Stays
<1> QED BY <1>1, <1>2, <1>3, <1>4, <1>5, <1>6, <1>7, <1>8, <1>9, <1>10, <1>11, <1>12 DEF Works

-----------------------------------------------------------------------------
(* The requests, the jobs' comings and goings, and the sweep.              *)
Untasked == <<op, storeVars, work>>

(* A request changes the row, not its status.                              *)
LEMMA EditFacts ==
  ASSUME TypeOK, Create \/ SetPublic \/ Delete
  PROVE  /\ TypeOK' /\ UNCHANGED <<kind, boxVars, secretVars, Untasked, sync, excuses>>
         /\ row.life # "gone" /\ row'.status = row.status
         /\ row'.life = "there" => row.life = "new" \/ row.life = "there"
         /\ row'.life # "new"
<1> USE TypedNext, Typed DEF Untasked, storeVars, Store!StoreTypeOK, secretVars, boxVars
<1>1. CASE Create
  <2>1. \A public \in BOOLEAN :
          /\ [row EXCEPT !.life = "there", !.public = public] \in RowStates
          /\ [row EXCEPT !.life = "there", !.public = public].status = row.status
          /\ [row EXCEPT !.life = "there", !.public = public].life = "there"
    BY DEF RowStates
  <2>2. row.life = "new" /\ \E public \in BOOLEAN : row' = [row EXCEPT !.life = "there", !.public = public]
    BY <1>1 DEF Create
  <2>3. row' \in RowStates /\ row'.status = row.status /\ row'.life = "there"
    BY <2>1, <2>2
  <2> QED BY <1>1, <2>2, <2>3 DEF Create
<1>2. CASE SetPublic \/ Delete
  <2>1. budget' \in Budgets
    BY <1>2, SpendFacts DEF SetPublic, Delete
  <2>2. row' \in RowStates /\ row'.status = row.status /\ row.life = "there" /\ row'.life # "new"
    BY <1>2 DEF SetPublic, Delete, RowStates
  <2> QED BY <1>2, <2>1, <2>2 DEF SetPublic, Delete
<1> QED BY <1>1, <1>2

LEMMA RequestFacts ==
  ASSUME Sound, NEW j \in Jobs, NEW what \in Ops, Request(j, what)
  PROVE  /\ Sound' /\ UNCHANGED <<kind, row, boxVars, secretVars, work, sync, excuses>>
         /\ row.life = "there" /\ jobStatus[j] = "absent" /\ jobStatus'[j] = "queued"
         /\ \A i \in Jobs : i # j => jobStatus'[i] = jobStatus[i] /\ op'[i] = op[i]
<1> USE DEF Sound
<1>1. /\ UNCHANGED <<kind, row, boxVars, secretVars, work, sync, excuses, budget, tries, holder>>
      /\ op[j] = "none" /\ op' = [op EXCEPT ![j] = what]
      /\ jobStatus[j] = "absent" /\ jobStatus' = [jobStatus EXCEPT ![j] = "queued"]
      /\ what \in {"restart", "preview", "cleanup"} => kind = "application"
      /\ row.life = "there" /\ what # "none"
  BY DEF Request, Store!Submit, Ops
<1>2. TypeOK'
  BY <1>1, TypedNext, Typed DEF Store!StoreTypeOK, Store!Status, secretVars, boxVars
<1>3. Purposes' /\ TriesLeft'
  BY <1>1, Typed DEF Purposes, TriesLeft, Store!StoreTypeOK
<1>4. Holds' /\ Swept'
  BY <1>1, Typed DEF Holds, Busy, Swept, Store!StoreTypeOK
<1> QED BY <1>1, <1>2, <1>3, <1>4, Typed DEF Store!StoreTypeOK

LEMMA IdleTyped == Idle \in WorkStates /\ Idle.pc = "idle"
BY DEF Idle, WorkStates, PCs, Env, NoEnv

LEMMA TakeFacts ==
  ASSUME Sound, NEW w \in Workers, NEW j \in Jobs, Take(w, j)
  PROVE  /\ Sound' /\ UNCHANGED <<kind, row, boxVars, secretVars, op, sync>>
         /\ jobStatus[j] = "queued" /\ jobStatus'[j] = "held" /\ ~Busy(w)
         /\ work'[w].pc = "resolve" /\ work'[w].j = j
         /\ \A v \in Workers : v # w => work'[v] = work[v]
         /\ \A i \in Jobs : i # j => jobStatus'[i] = jobStatus[i]
         /\ excuses \subseteq excuses'
<1> USE DEF Sound
<1> DEFINE to == [Idle EXCEPT !.pc = "resolve", !.j = j]
<1>1. /\ UNCHANGED <<kind, row, boxVars, secretVars, op, sync, budget, tries>>
      /\ work[w].pc = "idle" /\ work' = [work EXCEPT ![w] = to]
      /\ jobStatus[j] = "queued" /\ jobStatus' = [jobStatus EXCEPT ![j] = "held"]
      /\ holder' = [holder EXCEPT ![j] = w]
  BY DEF Take, Store!Take, At
<1>2. to \in WorkStates /\ to.pc = "resolve" /\ to.j = j
  BY IdleTyped DEF WorkStates, PCs
<1> HIDE DEF to
<1>3. work' \in [Workers -> WorkStates] /\ work'[w] = to /\ \A v \in Workers : v # w => work'[v] = work[v]
  BY <1>1, <1>2, Typed
<1>4. excuses \subseteq excuses' /\ excuses' \subseteq Reasons
  BY Typed DEF Take, Reasons
<1>5. TypeOK'
  BY <1>1, <1>3, <1>4, TypedNext, Typed DEF Store!StoreTypeOK, Store!Status, secretVars, boxVars
<1>6. Purposes' /\ TriesLeft' /\ Swept'
  BY <1>1, Typed DEF Purposes, TriesLeft, Swept, Store!StoreTypeOK
<1>7. \A v \in Workers : v # w /\ Busy(v) => work[v].j # j
  BY <1>1 DEF Holds
<1>8. jobStatus'[j] = "held" /\ holder'[j] = w
      /\ \A i \in Jobs : i # j => jobStatus'[i] = jobStatus[i] /\ holder'[i] = holder[i]
  BY <1>1, Typed DEF Store!StoreTypeOK
<1>9. Holds'
  <2> SUFFICES ASSUME NEW v \in Workers
               PROVE  IF Busy(v)' THEN /\ work'[v].j \in Jobs
                                       /\ jobStatus'[work'[v].j] = "held" /\ holder'[work'[v].j] = v
                                  ELSE work'[v] = Idle
    BY DEF Holds
  <2>1. CASE v = w
    BY <1>2, <1>3, <1>8, <2>1 DEF Busy
  <2>2. CASE v # w
    BY <1>3, <1>7, <1>8, <2>2 DEF Busy, Holds
  <2> QED BY <2>1, <2>2
<1> QED BY <1>1, <1>2, <1>3, <1>4, <1>5, <1>6, <1>8, <1>9 DEF Busy

LEMMA ReportFacts ==
  ASSUME Sound, NEW w \in Workers, Report(w)
  PROVE  /\ Sound' /\ UNCHANGED <<kind, row, boxVars, secretVars, op, sync, excuses>>
         /\ work[w].pc \in {"ok", "err"} /\ work'[w] = Idle
         /\ \A v \in Workers : v # w => work'[v] = work[v]
         /\ \A i \in Jobs : i # work[w].j => jobStatus'[i] = jobStatus[i]
         /\ work[w].pc = "err" => jobStatus'[work[w].j] \in {"queued", "dropped"}
<1> USE DEF Sound
<1>1. /\ UNCHANGED <<kind, row, boxVars, secretVars, op, sync, excuses, budget>>
      /\ work[w].pc \in {"ok", "err"} /\ work' = [work EXCEPT ![w] = Idle]
  BY DEF Report, At, PutDown
<1>2. work' \in [Workers -> WorkStates] /\ work'[w] = Idle /\ \A v \in Workers : v # w => work'[v] = work[v]
  BY <1>1, IdleTyped, Typed
<1>3. PICK j \in Jobs : j = work[w].j /\ jobStatus[j] = "held" /\ holder[j] = w
  BY <1>1 DEF Holds, Busy
<1>4. /\ jobStatus' \in [Jobs -> Store!Status] /\ tries' \in [Jobs -> 0..MaxAttempts]
      /\ holder' \in [Jobs -> Workers \cup {NoWorker}]
      /\ \A i \in Jobs : i # j => /\ jobStatus'[i] = jobStatus[i] /\ tries'[i] = tries[i]
                                  /\ holder'[i] = holder[i]
      /\ jobStatus'[j] # "absent"
      /\ jobStatus'[j] # "dropped" => tries'[j] < MaxAttempts
      /\ work[w].pc = "err" => jobStatus'[j] \in {"queued", "dropped"}
  <2>1. /\ jobStatus \in [Jobs -> Store!Status] /\ tries \in [Jobs -> 0..MaxAttempts]
        /\ holder \in [Jobs -> Workers \cup {NoWorker}] /\ tries[j] < MaxAttempts
    BY <1>3, Typed DEF Store!StoreTypeOK, TriesLeft
  <2>2. tries[j] + 1 \in 0..MaxAttempts /\ (tries[j] + 1 < MaxAttempts \/ tries[j] + 1 >= MaxAttempts)
    BY <2>1, WorkloadsAssumption
  <2>3. CASE At(w, "ok") /\ Store!Finish(w, work[w].j)
    BY <1>3, <2>1, <2>3 DEF Store!Finish, At, Store!Status
  <2>4. CASE At(w, "err") /\ Store!Miss(w, work[w].j)
    <3>1. /\ tries' = [tries EXCEPT ![j] = tries[j] + 1]
          /\ jobStatus' = [jobStatus EXCEPT ![j] =
               IF tries[j] + 1 >= MaxAttempts THEN "dropped" ELSE "queued"]
          /\ holder' = [holder EXCEPT ![j] = NoWorker]
      BY <1>3, <2>4 DEF Store!Miss
    <3>2. tries'[j] = tries[j] + 1
          /\ jobStatus'[j] = IF tries[j] + 1 >= MaxAttempts THEN "dropped" ELSE "queued"
      BY <2>1, <3>1
    <3>3. jobStatus'[j] # "dropped" => tries'[j] < MaxAttempts
      BY <2>1, <3>2, WorkloadsAssumption
    <3> QED BY <2>1, <2>2, <3>1, <3>2, <3>3 DEF Store!Status
  <2> QED BY <2>3, <2>4 DEF Report
<1>5. TypeOK'
  BY <1>1, <1>2, <1>4, TypedNext, Typed DEF Store!StoreTypeOK, secretVars, boxVars
<1>6. Purposes' /\ TriesLeft' /\ Swept'
  BY <1>1, <1>3, <1>4 DEF Purposes, TriesLeft, Swept
<1>7. Holds'
  BY <1>2, <1>3, <1>4, IdleTyped DEF Holds, Busy
<1> QED BY <1>1, <1>2, <1>3, <1>4, <1>5, <1>6, <1>7

LEMMA RestartFacts ==
  ASSUME Sound, Restart
  PROVE  /\ Sound' /\ UNCHANGED <<kind, row, boxVars, secretVars, op, excuses>>
         /\ \A w \in Workers : work'[w] = Idle
         /\ \A j \in Jobs : jobStatus'[j] = IF jobStatus[j] = "held" THEN "queued" ELSE jobStatus[j]
<1> USE DEF Sound
<1>1. /\ UNCHANGED <<kind, row, boxVars, secretVars, op, excuses, tries>>
      /\ work' = [w \in Workers |-> Idle] /\ sync' = Asleep
  BY DEF Restart, Store!LetGo
<1>2. /\ jobStatus' = [j \in Jobs |-> IF jobStatus[j] = "held" THEN "queued" ELSE jobStatus[j]]
      /\ holder' = [j \in Jobs |-> IF jobStatus[j] = "held" THEN NoWorker ELSE holder[j]]
  BY DEF Restart, Store!LetGo
<1>3. budget' \in Budgets
  BY FaultTyped DEF Restart
<1>4. Asleep \in SweepStates /\ Asleep.pc = "idle"
  BY DEF Asleep, SweepStates, BoxStates, Boxes, Statuses
<1>5. TypeOK'
  BY <1>1, <1>2, <1>3, <1>4, IdleTyped, TypedNext, Typed DEF Store!StoreTypeOK, Store!Status, secretVars, boxVars
<1>6. Purposes' /\ TriesLeft' /\ Swept'
  BY <1>1, <1>2, <1>4 DEF Purposes, TriesLeft, Swept
<1>7. Holds'
  BY <1>1, IdleTyped DEF Holds, Busy
<1> QED BY <1>1, <1>2, <1>5, <1>6, <1>7

(* Neither a crash nor a sweep brings a container or takes it away.        *)
LEMMA SweepFacts ==
  ASSUME TypeOK, Swept, Crash \/ Sync
  PROVE  /\ TypeOK' /\ Swept' /\ UNCHANGED syncSame /\ excuses \subseteq excuses'
         /\ kind = "application" /\ (box' = "absent" <=> box = "absent")
         /\ row'.life = row.life
         /\ \/ row'.status = row.status \/ box # "absent" \/ row'.status # "running"
            \/ "sync" \in excuses'
<1> USE TypedNext, Typed DEF syncSame, secretVars, boxVars, storeVars, Store!StoreTypeOK
<1>1. CASE Crash
  <2>1. budget' \in Budgets
    BY <1>1, SpendFacts DEF Crash
  <2> QED BY <1>1, <2>1 DEF Crash, State, Turns, BoxStates, Swept
<1>2. CASE SyncLists
  <2>1. sync' \in SweepStates
    BY <1>2 DEF SyncLists, SweepStates, State
  <2> QED BY <1>2, <2>1 DEF SyncLists, Swept
<1>3. Asleep \in SweepStates /\ Asleep.pc = "idle"
  BY DEF Asleep, SweepStates, BoxStates, Boxes, Statuses
<1>4. CASE SyncReads
  <2>1. \A b \in Boxes : [sync EXCEPT !.pc = "inspect", !.on = b, !.known = row.status] \in SweepStates
    BY DEF SweepStates, RowStates
  <2>2. sync' \in SweepStates /\ kind = "application"
    BY <1>3, <1>4, <2>1 DEF SyncReads, Swept
  <2> QED BY <1>4, <2>2 DEF SyncReads, Swept
<1>5. CASE SyncInspects
  <2>1. \A s \in Statuses : [sync EXCEPT !.pc = "write", !.new = s] \in SweepStates
    BY DEF SweepStates
  <2>2. [sync EXCEPT !.pc = "stop"] \in SweepStates
    BY DEF SweepStates
  <2>3. Desired(sync.seen[sync.on]) \subseteq Statuses
    BY DEF Desired, Statuses
  <2>4. sync.pc = "inspect" /\ kind = "application"
    BY <1>5 DEF SyncInspects, Swept
  <2>6. sync' \in SweepStates
    <3>1. CASE sync' = [sync EXCEPT !.pc = "stop"]
      BY <2>2, <3>1
    <3>2. ASSUME NEW s \in Statuses, sync' = [sync EXCEPT !.pc = "write", !.new = s]
          PROVE  sync' \in SweepStates
      BY <2>1, <3>2
    <3>3. \/ sync' = [sync EXCEPT !.pc = "stop"]
          \/ \E s \in Desired(sync.seen[sync.on]) : sync' = [sync EXCEPT !.pc = "write", !.new = s]
      BY <1>5 DEF SyncInspects
    <3> QED BY <2>3, <3>1, <3>2, <3>3
  <2>5. budget' \in Budgets
    BY <1>5, FaultTyped DEF SyncInspects
  <2> QED BY <1>5, <2>4, <2>5, <2>6 DEF SyncInspects, Swept
<1>6. CASE SyncStops
  <2>1. sync' \in SweepStates /\ kind = "application"
    BY <1>6 DEF SyncStops, Swept, SweepStates, Statuses
  <2>2. budget' \in Budgets
    BY <1>6, FaultTyped DEF SyncStops
  <2>3. box' \in BoxStates /\ preview' \in BoxStates /\ (box' = "absent" <=> box = "absent")
    BY <1>6 DEF SyncStops, State, Turns, BoxStates
  <2> QED BY <1>6, <2>1, <2>2, <2>3 DEF SyncStops, Swept
<1>7. CASE SyncWrites
  <2>1. row' \in RowStates /\ row'.life = row.life
    BY <1>7 DEF SyncWrites, RowStates, SweepStates
  <2>2. excuses' \subseteq Reasons /\ excuses \subseteq excuses'
    BY <1>7 DEF SyncWrites, Reasons
  <2>3. sync' \in SweepStates /\ kind = "application"
    <3>1. /\ sync.seen \in [Boxes -> BoxStates] /\ sync.pc = "write"
          /\ [sync.seen EXCEPT ![sync.on] = "absent"] \in [Boxes -> BoxStates]
      BY <1>7 DEF SyncWrites, SweepStates, BoxStates
    <3>2. \A rest \in [Boxes -> BoxStates] : [Asleep EXCEPT !.pc = "read", !.seen = rest] \in SweepStates
      BY <1>3 DEF SweepStates
    <3> QED BY <1>3, <1>7, <3>1, <3>2 DEF SyncWrites, GoesOn, Swept
  <2> QED BY <1>7, <2>1, <2>2, <2>3 DEF SyncWrites, Swept, Misleads
<1> QED BY <1>1, <1>2, <1>4, <1>5, <1>6, <1>7 DEF Sync

(* A worker that goes on does not put its job down.                        *)
LEMMA WorksOn ==
  ASSUME TypeOK, NEW w \in Workers, Works(w)
  PROVE  Busy(w)'
<1> USE DEF Busy
<1>1. /\ FirstStep(w) # "idle" /\ AfterRemove(w) # "idle"
      /\ AfterUp(w) # "idle" /\ AfterFailedUp(w) # "idle"
  BY DEF FirstStep, AfterRemove, AfterUp, AfterFailedUp
<1>2. CASE Resolve(w) \/ ListEnv(w)
  BY <1>1, <1>2, ResolveFacts, ListEnvFacts
<1>3. CASE ~(Resolve(w) \/ ListEnv(w))
  <2>1. \E step \in PCs \ {"idle"} : Goto(w, step)
    BY <1>1, <1>3, StepsTo DEF Works, PCs, Upsert, Write, Remove, RemovePreview, RemoveProxy, Up, UpProxy, FinishDeployment,
       SetStatus, DbFails
  <2> QED BY <2>1, GotoFacts
<1> QED BY <1>2, <1>3

LEMMA WorksSound ==
  ASSUME Sound, NEW w \in Workers, Works(w)
  PROVE  Sound'
<1> USE DEF Sound
<1>1. /\ TypeOK' /\ Stays(w) /\ Busy(w) /\ UNCHANGED <<kind, op, jobStatus, tries, holder, sync>>
  BY WorksFacts DEF jobSame, storeVars
<1>2. work[w].j \in Jobs /\ jobStatus[work[w].j] = "held" /\ holder[work[w].j] = w
  BY <1>1 DEF Holds
<1>3. Busy(w)'
  BY WorksOn
<1>4. Holds'
  BY <1>1, <1>2, <1>3 DEF Holds, Stays, Busy
<1> QED BY <1>1, <1>4 DEF Purposes, TriesLeft, Swept

-----------------------------------------------------------------------------
(* Every step, named.                                                      *)
LEMMA WorkloadsSteps ==
  ASSUME [Next]_vars
  PROVE  \/ UNCHANGED vars
         \/ Create \/ SetPublic \/ Delete
         \/ \E j \in Jobs, what \in Ops : Request(j, what)
         \/ \E w \in Workers : Works(w)
         \/ \E w \in Workers : Report(w)
         \/ \E w \in Workers, j \in Jobs : Take(w, j)
         \/ Restart
         \/ Crash \/ Sync
BY DEF Next, Handler, Works

LEMMA SoundKept ==
  ASSUME Sound, [Next]_vars
  PROVE  Sound'
<1>1. CASE UNCHANGED vars
  BY <1>1, Typed, TypedNext DEF vars, storeVars, secretVars, boxVars, Sound, Purposes, TriesLeft, Holds, Busy,
     Swept, Store!StoreTypeOK
<1>2. CASE Create \/ SetPublic \/ Delete
  BY <1>2, EditFacts DEF Untasked, storeVars, Sound, Purposes, TriesLeft, Holds, Busy, Swept
<1>3. CASE Crash \/ Sync
  BY <1>3, SweepFacts DEF syncSame, storeVars, Sound, Purposes, TriesLeft, Holds, Busy
<1> QED BY <1>1, <1>2, <1>3, WorkloadsSteps, RequestFacts, WorksSound, ReportFacts, TakeFacts, RestartFacts

(* What a step leaves of the jobs in hand.                                 *)
LEMMA HandsFacts ==
  ASSUME Sound, [Next]_vars, NEW v \in Workers, Busy(v)'
  PROVE  \/ Busy(v) /\ OpOf(v)' = OpOf(v)
         \/ ~Busy(v) /\ \E j \in Jobs : Take(v, j)
<1> USE DEF Sound, Busy, OpOf
<1>1. CASE UNCHANGED vars
  BY <1>1 DEF vars
<1>2. CASE Create \/ SetPublic \/ Delete
  BY <1>2, EditFacts DEF Untasked
<1>3. CASE Crash \/ Sync
  BY <1>3, SweepFacts DEF syncSame
<1>4. ASSUME NEW j \in Jobs, NEW what \in Ops, Request(j, what)
      PROVE  Busy(v) /\ OpOf(v)' = OpOf(v)
  BY <1>4, RequestFacts DEF Holds
<1>5. ASSUME NEW w \in Workers, Works(w) PROVE Busy(v) /\ OpOf(v)' = OpOf(v)
  BY <1>5, WorksFacts DEF jobSame, Stays
<1>6. ASSUME NEW w \in Workers, Report(w) PROVE Busy(v) /\ OpOf(v)' = OpOf(v)
  BY <1>6, ReportFacts, IdleTyped
<1>7. ASSUME NEW w \in Workers, NEW j \in Jobs, Take(w, j), v # w PROVE Busy(v) /\ OpOf(v)' = OpOf(v)
  BY <1>7, TakeFacts
<1>8. ASSUME NEW j \in Jobs, Take(v, j) PROVE ~Busy(v)
  BY <1>8, TakeFacts
<1>9. CASE Restart
  BY <1>9, RestartFacts, IdleTyped
<1> QED BY <1>1, <1>2, <1>3, <1>4, <1>5, <1>6, <1>7, <1>8, <1>9, WorkloadsSteps

(* What a write of production's own does not set right lasts.              *)
LEMMA ExcusesLast ==
  ASSUME Sound, [Next]_vars
  PROVE  excuses \cap Lasting \subseteq excuses'
<1> USE DEF Sound
<1>1. CASE UNCHANGED vars
  BY <1>1 DEF vars
<1> QED BY <1>1, WorkloadsSteps, EditFacts, RequestFacts, WorksFacts, ReportFacts, TakeFacts, RestartFacts,
   SweepFacts

(* A job that is taken up beside others.                                   *)
LEMMA TakeBeside ==
  ASSUME NEW w \in Workers, NEW j \in Jobs, Take(w, j), NEW v \in Workers, Busy(v)
  PROVE  /\ "overlap" \notin excuses' /\ OpOf(v) \in OfProduction /\ op[j] \in OfProduction =>
              OpOf(v) = op[j]
         /\ "twice" \notin excuses' => op[j] # "start" \/ OpOf(v) # "start"
BY DEF Take, OpOf, Busy, At, OfProduction

LEMMA AlikeKept ==
  ASSUME Sound, Alike, Single, [Next]_vars
  PROVE  Alike' /\ Single'
<1>1. excuses \cap Lasting \subseteq excuses'
  BY ExcusesLast
<1>2. /\ "overlap" \notin excuses' => "overlap" \notin excuses
      /\ "twice" \notin excuses' => "twice" \notin excuses
  BY <1>1 DEF Lasting
<1>3. ASSUME NEW v \in Workers, NEW w \in Workers, Busy(v)', Busy(w)'
      PROVE  /\ "overlap" \notin excuses' /\ OpOf(v)' \in OfProduction /\ OpOf(w)' \in OfProduction =>
                  OpOf(v)' = OpOf(w)'
             /\ "twice" \notin excuses' /\ OpOf(v)' = "start" /\ OpOf(w)' = "start" => v = w
  <2>1. CASE Busy(v) /\ OpOf(v)' = OpOf(v) /\ Busy(w) /\ OpOf(w)' = OpOf(w)
    BY <1>2, <2>1 DEF Alike, Single, Produces
  <2>2. ASSUME NEW x \in Workers, NEW y \in Workers, x # y, Busy(x)', NEW j \in Jobs, Take(y, j)
        PROVE  /\ "overlap" \notin excuses' /\ OpOf(x)' \in OfProduction /\ OpOf(y)' \in OfProduction =>
                    OpOf(x)' = OpOf(y)'
               /\ "twice" \notin excuses' /\ OpOf(x)' = "start" => OpOf(y)' # "start"
    <3>1. Busy(x) /\ OpOf(x)' = OpOf(x) /\ OpOf(y)' = op[j]
      BY <2>2, TakeFacts DEF Busy, OpOf
    <3> QED BY <2>2, <3>1, TakeBeside
  <2> QED BY <1>3, <2>1, <2>2, HandsFacts
<1> QED BY <1>3 DEF Alike, Single, Produces, Busy, OpOf, OfProduction

(* Where a step of a worker leads.                                         *)
LEMMA StepsKept ==
  ASSUME Sound, Steps, [Next]_vars
  PROVE  Steps'
<1> DEFINE Fits(w) ==
      /\ work[w].pc \in {"list", "jwt", "anon", "gaveUp"} => kind = "service" /\ OpOf(w) = "start"
      /\ work[w].pc = "write" => kind # "application" /\ OpOf(w) = "start"
      /\ work[w].pc = "remove" => OpOf(w) \in {"stop", "restart", "cleanup"} \/ kind = "database"
      /\ work[w].pc = "up" => OpOf(w) \in {"start", "restart", "preview"}
      /\ work[w].pc = "proxy" => kind = "database" /\ OpOf(w) = "start"
      /\ work[w].pc = "finish" => kind = "application" /\ OpOf(w) \in {"start", "preview"}
      /\ work[w].pc = "running" => OpOf(w) \in {"start", "restart", "preview"}
      /\ work[w].pc \in {"proxyRemove", "exited"} => OpOf(w) = "stop"
<1>1. SUFFICES ASSUME NEW v \in Workers PROVE Fits(v)'
  BY DEF Steps
<1>2. Fits(v)
  BY DEF Steps
<1>3. kind' = kind
  BY WorkloadsSteps, EditFacts, RequestFacts, WorksFacts, ReportFacts, TakeFacts, RestartFacts, SweepFacts
  DEF Sound, jobSame, syncSame, vars
<1>4. work'[v].pc = work[v].pc /\ (Busy(v) => OpOf(v)' = OpOf(v)) => Fits(v)'
  BY <1>2, <1>3 DEF Busy
<1>5. CASE Works(v)
  <2>1. OpOf(v)' = OpOf(v) /\ Stays(v) /\ Busy(v)
    BY <1>5, WorksFacts DEF jobSame, OpOf, Stays, Sound
  <2>2. OpOf(v) \in Ops /\ (OpOf(v) \in {"restart", "preview", "cleanup"} => kind = "application")
    BY <2>1, Typed DEF Sound, Holds, Purposes, OpOf
  <2>3. kind \in {"service", "database", "application"}
    BY Typed, WorkloadsAssumption DEF Sound
  <2>4. CASE Resolve(v)
    BY <1>3, <2>1, <2>2, <2>3, <2>4, ResolveFacts DEF Sound, FirstStep, Does, OpOf, Ops
  <2>5. CASE ListEnv(v)
    BY <1>2, <1>3, <2>1, <2>5, ListEnvFacts DEF Sound, ListEnv, At
  <2>6. CASE Upsert(v)
    <3>1. \/ work[v].pc = "jwt" /\ work'[v].pc = "anon"
          \/ work[v].pc = "anon" /\ work'[v].pc = "write"
      BY <2>6, GotoFacts DEF Sound, Upsert, At, PCs
    <3> QED BY <1>2, <1>3, <2>1, <3>1
  <2>7. CASE Write(v)
    <3>1. work[v].pc = "write" /\ work'[v].pc \in {IF kind = "service" THEN "up" ELSE "remove", "err"}
      BY <2>7, GotoFacts DEF Sound, Write, At, PCs
    <3> QED BY <1>2, <1>3, <2>1, <2>3, <3>1
  <2>8. CASE Remove(v)
    <3>1. work[v].pc = "remove" /\ work'[v].pc \in {AfterRemove(v), "err"} /\ OpOf(v) # "cleanup"
      BY <2>8, GotoFacts, StepsTo DEF Sound, Remove, At, Does, OpOf, PCs
    <3> QED BY <1>2, <1>3, <2>1, <2>2, <3>1 DEF AfterRemove, Does, OpOf, Ops
  <2>14. CASE RemovePreview(v)
    <3>1. work'[v].pc = "ok"
      BY <2>14, GotoFacts DEF Sound, RemovePreview, PCs
    <3> QED BY <3>1
  <2>9. CASE RemoveProxy(v)
    <3>1. work[v].pc = "proxyRemove" /\ work'[v].pc = "exited"
      BY <2>9, GotoFacts DEF Sound, RemoveProxy, At, PCs
    <3> QED BY <1>2, <1>3, <2>1, <3>1
  <2>10. CASE Up(v)
    <3>1. /\ work[v].pc = "up"
          /\ work'[v].pc \in {AfterUp(v), AfterFailedUp(v)}
      BY <2>10, GotoFacts, StepsTo DEF Sound, Up, At, PCs
    <3> QED BY <1>2, <1>3, <2>1, <2>2, <2>3, <3>1 DEF AfterUp, AfterFailedUp, Does, OpOf
  <2>11. CASE UpProxy(v)
    <3>1. work[v].pc = "proxy" /\ work'[v].pc \in {"running", "err"}
      BY <2>11, GotoFacts DEF Sound, UpProxy, At, PCs
    <3> QED BY <1>2, <1>3, <2>1, <3>1
  <2>12. CASE FinishDeployment(v)
    <3>1. work[v].pc = "finish" /\ work'[v].pc = "running"
      BY <2>12, GotoFacts DEF Sound, FinishDeployment, At, PCs
    <3> QED BY <1>2, <1>3, <2>1, <3>1
  <2>13. CASE SetStatus(v) \/ DbFails(v)
    <3>1. work'[v].pc \in {"ok", "err"}
      BY <2>13, GotoFacts DEF Sound, SetStatus, DbFails, PCs
    <3> QED BY <3>1
  <2> QED BY <1>5, <2>4, <2>5, <2>6, <2>7, <2>8, <2>9, <2>10, <2>11, <2>12, <2>13, <2>14 DEF Works
<1>6. ASSUME NEW w \in Workers, Works(w), w # v PROVE Fits(v)'
  BY <1>4, <1>6, WorksFacts DEF Sound, jobSame, Stays, OpOf
<1>7. ASSUME NEW w \in Workers, Report(w) PROVE Fits(v)'
  BY <1>4, <1>7, ReportFacts, IdleTyped DEF OpOf
<1>8. ASSUME NEW w \in Workers, NEW j \in Jobs, Take(w, j) PROVE Fits(v)'
  BY <1>4, <1>8, TakeFacts DEF OpOf
<1>9. CASE Restart
  BY <1>9, RestartFacts, IdleTyped
<1>10. ASSUME NEW j \in Jobs, NEW what \in Ops, Request(j, what) PROVE Fits(v)'
  BY <1>4, <1>10, RequestFacts DEF Sound, Holds, OpOf
<1>11. CASE UNCHANGED vars \/ Create \/ SetPublic \/ Delete \/ Crash \/ Sync
  BY <1>4, <1>11, EditFacts, SweepFacts DEF Sound, vars, Untasked, syncSame, OpOf
<1> QED BY <1>5, <1>6, <1>7, <1>8, <1>9, <1>10, <1>11, WorkloadsSteps

-----------------------------------------------------------------------------
(* The secrets                                                             *)

(* Who writes them, and who is about to.                                   *)
LEMMA SecretFacts ==
  ASSUME Sound, [Next]_vars
  PROVE  /\ stored' = stored \/ \E w \in Workers : Upsert(w)
         /\ \A w \in Workers : work'[w].pc \in {"jwt", "anon"} =>
              \/ work'[w].pc = work[w].pc /\ work'[w].env = work[w].env
              \/ work'[w].pc = "jwt" /\ work'[w].env = Generate(stored)
              \/ Upsert(w) /\ work'[w].pc = "anon" /\ work'[w].env = work[w].env
<1> USE DEF Sound
<1>1. CASE UNCHANGED vars
  BY <1>1 DEF vars, secretVars
<1>2. CASE Create \/ SetPublic \/ Delete \/ Crash \/ Sync
  BY <1>2, EditFacts, SweepFacts DEF secretVars, Untasked, syncSame
<1>3. CASE \E j \in Jobs, what \in Ops : Request(j, what)
  BY <1>3, RequestFacts DEF secretVars
<1>4. CASE \E w \in Workers : Report(w)
  BY <1>4, ReportFacts, IdleTyped DEF secretVars
<1>5. CASE \E w \in Workers, j \in Jobs : Take(w, j)
  BY <1>5, TakeFacts DEF secretVars
<1>6. CASE Restart
  BY <1>6, RestartFacts, IdleTyped DEF secretVars
<1>7. ASSUME NEW w \in Workers, Works(w)
      PROVE  /\ stored' = stored \/ Upsert(w)
             /\ work'[w].pc \in {"jwt", "anon"} =>
                  \/ work'[w].pc = "jwt" /\ work'[w].env = Generate(stored)
                  \/ Upsert(w) /\ work'[w].pc = "anon" /\ work'[w].env = work[w].env
             /\ \A v \in Workers : v # w => work'[v] = work[v]
  <2>1. \A v \in Workers : v # w => work'[v] = work[v]
    BY <1>7, WorksFacts DEF Stays
  <2>2. CASE Resolve(w)
    <3>1. work'[w].pc \notin {"jwt", "anon"}
      BY <2>2, ResolveFacts DEF FirstStep
    <3> QED BY <2>1, <2>2, <3>1 DEF Resolve, secretVars
  <2>3. CASE ListEnv(w)
    BY <2>1, <2>3, ListEnvFacts DEF ListEnv
  <2>4. CASE Upsert(w)
    <3>1. work'[w].pc \in {"anon", "write"} /\ work'[w].env = work[w].env
      BY <2>4, GotoFacts DEF Upsert, PCs
    <3> QED BY <2>1, <2>4, <3>1
  <2>5. CASE ~(Resolve(w) \/ ListEnv(w) \/ Upsert(w))
    <3>1. stored' = stored
      BY <1>7, <2>5 DEF Works, Write, Remove, RemovePreview, RemoveProxy, Up, UpProxy, FinishDeployment, SetStatus, DbFails,
         secretVars
    <3>2. /\ AfterRemove(w) \in PCs \ {"jwt", "anon"} /\ AfterUp(w) \in PCs \ {"jwt", "anon"}
          /\ AfterFailedUp(w) \in PCs \ {"jwt", "anon"}
      BY DEF AfterRemove, AfterUp, AfterFailedUp, PCs
    <3>3. \E step \in PCs \ {"jwt", "anon"} : Goto(w, step)
      BY <1>7, <2>5, <3>2 DEF Works, Write, Remove, RemovePreview, RemoveProxy, Up, UpProxy, FinishDeployment, SetStatus, DbFails,
         PCs
    <3> QED BY <2>1, <3>1, <3>3, GotoFacts
  <2> QED BY <2>2, <2>3, <2>4, <2>5
<1>8. CASE \E w \in Workers : Works(w)
  BY <1>7, <1>8
<1> QED BY <1>1, <1>2, <1>3, <1>4, <1>5, <1>6, <1>8, WorkloadsSteps

(* One upsert of the only deployment that runs.                            *)
LEMMA UpsertFacts ==
  ASSUME Sound, Steps, Single, Signed, "twice" \notin excuses, NEW w \in Workers, Upsert(w)
  PROVE  /\ \A v \in Workers : work[v].pc \in {"jwt", "anon"} => v = w
         /\ stored'.jwt = work[w].env.jwt /\ work[w].env.jwt # 0
         /\ stored.jwt \in {0, work[w].env.jwt}
         /\ \/ work[w].pc = "jwt" /\ stored'.anon = stored.anon
            \/ work[w].pc = "anon" /\ stored'.anon = work[w].env.jwt
         /\ stored.anon # 0 => stored.anon = work[w].env.jwt
<1> USE DEF Sound
<1>1. work[w].pc \in {"jwt", "anon"}
  BY DEF Upsert, At
<1>2. \A v \in Workers : work[v].pc \in {"jwt", "anon"} => v = w
  BY <1>1 DEF Steps, Single, Busy
<1>3. stored \in Env /\ work[w].env \in Env
  BY Typed, EnvFacts
<1>4. /\ work[w].env.jwt # 0 /\ work[w].env.anon = work[w].env.jwt
      /\ stored.jwt \in {0, work[w].env.jwt}
      /\ stored.anon # 0 => stored.anon = stored.jwt
      /\ work[w].pc = "anon" => stored.jwt = work[w].env.jwt
  BY <1>1 DEF Signed
<1>5. /\ stored'.jwt = work[w].env.jwt
      /\ \/ work[w].pc = "jwt" /\ stored'.anon = stored.anon
         \/ work[w].pc = "anon" /\ stored'.anon = work[w].env.jwt
  BY <1>3, <1>4 DEF Upsert, At, Env
<1> QED BY <1>2, <1>4, <1>5

LEMMA GenerateFacts ==
  ASSUME TypeOK, stored.anon # 0 => stored.anon = stored.jwt
  PROVE  /\ Generate(stored).jwt # 0 /\ Generate(stored).anon = Generate(stored).jwt
         /\ stored.jwt \in {0, Generate(stored).jwt}
<1>1. stored.jwt \in Nat /\ stored.anon \in Nat /\ minted \in Nat
  BY Typed DEF Env
<1>2. minted + 1 # 0
  BY <1>1
<1> QED BY <1>1, <1>2 DEF Generate

LEMMA SignedKept ==
  ASSUME Sound, Steps, Single, Signed, [Next]_vars
  PROVE  Signed'
<1> SUFFICES ASSUME "twice" \notin excuses'
             PROVE  /\ stored'.anon # 0 => stored'.anon = stored'.jwt
                    /\ \A v \in Workers :
                         /\ work'[v].pc \in {"jwt", "anon"} =>
                              work'[v].env.jwt # 0 /\ work'[v].env.anon = work'[v].env.jwt
                         /\ work'[v].pc = "jwt" => stored'.jwt \in {0, work'[v].env.jwt}
                         /\ work'[v].pc = "anon" => stored'.jwt = work'[v].env.jwt
  BY DEF Signed
<1>1. "twice" \notin excuses
  BY ExcusesLast DEF Lasting
<1>2. ASSUME NEW w \in Workers, Upsert(w)
      PROVE  /\ \A v \in Workers : work'[v].pc \in {"jwt", "anon"} => v = w
             /\ work'[w].pc # "jwt" /\ work'[w].env = work[w].env
             /\ work[w].env.anon = work[w].env.jwt
  <2>1. /\ \A v \in Workers : v # w => work'[v] = work[v]
        /\ work'[w].pc # "jwt" /\ work'[w].env = work[w].env
    BY <1>2, GotoFacts DEF Upsert, PCs, Stays, Sound
  <2>2. work[w].env.anon = work[w].env.jwt
    BY <1>1, <1>2 DEF Signed, Upsert, At
  <2> QED BY <1>1, <1>2, <2>1, <2>2, UpsertFacts
<1>3. ASSUME NEW w \in Workers, Upsert(w)
      PROVE  stored'.jwt = work[w].env.jwt /\ (stored'.anon # 0 => stored'.anon = stored'.jwt)
             /\ work[w].env.jwt # 0
  BY <1>1, <1>3, UpsertFacts
<1>4. CASE \E w \in Workers : Upsert(w)
  BY <1>2, <1>3, <1>4
<1>5. CASE stored' = stored /\ ~ \E w \in Workers : Upsert(w)
  <2>1. stored.anon # 0 => stored.anon = stored.jwt
    BY <1>1 DEF Signed
  <2>2. /\ Generate(stored).jwt # 0 /\ Generate(stored).anon = Generate(stored).jwt
        /\ stored.jwt \in {0, Generate(stored).jwt}
    BY <2>1, GenerateFacts DEF Sound
  <2>3. ASSUME NEW v \in Workers
        PROVE  /\ work'[v].pc \in {"jwt", "anon"} =>
                    work'[v].env.jwt # 0 /\ work'[v].env.anon = work'[v].env.jwt
               /\ work'[v].pc = "jwt" => stored'.jwt \in {0, work'[v].env.jwt}
               /\ work'[v].pc = "anon" => stored'.jwt = work'[v].env.jwt
    BY <1>1, <1>5, <2>2, SecretFacts DEF Signed
  <2> QED BY <1>5, <2>1, <2>3
<1> QED BY <1>4, <1>5, SecretFacts

LEMMA Persists ==
  ASSUME Sound, Steps, Single, Signed, [Next]_vars, "twice" \notin excuses
  PROVE  /\ stored.jwt # 0 => stored'.jwt = stored.jwt
         /\ stored.anon # 0 => stored'.anon = stored.anon
         /\ stored'.anon # 0 => stored'.anon = stored'.jwt
<1>1. CASE stored' = stored
  BY <1>1 DEF Signed
<1>2. ASSUME NEW w \in Workers, Upsert(w)
      PROVE  /\ stored.jwt # 0 => stored'.jwt = stored.jwt
             /\ stored.anon # 0 => stored'.anon = stored.anon
             /\ stored'.anon # 0 => stored'.anon = stored'.jwt
  BY <1>2, UpsertFacts
<1> QED BY <1>1, <1>2, SecretFacts

-----------------------------------------------------------------------------
(* The status                                                              *)

LEMMA UnmetKept ==
  ASSUME Sound, Unmet, [Next]_vars
  PROVE  Unmet'
<1> USE DEF Sound
<1>1. CASE UNCHANGED vars \/ Create \/ SetPublic \/ Delete
  BY <1>1, EditFacts DEF Unmet, vars, boxVars, Untasked
<1>2. CASE \E j \in Jobs, what \in Ops : Request(j, what)
  BY <1>2, RequestFacts DEF Unmet
<1>3. row.life = "new" => \A j \in Jobs : op[j] = "none" /\ jobStatus[j] = "absent"
  BY DEF Unmet, Purposes
<1>4. row.life = "new" => \A w \in Workers : ~Busy(w)
  BY <1>3 DEF Holds
<1>5. CASE \E w \in Workers : Works(w)
  BY <1>4, <1>5, WorksFacts DEF Unmet
<1>6. CASE \E w \in Workers : Report(w)
  BY <1>4, <1>6, ReportFacts DEF Unmet, Busy
<1>7. CASE \E w \in Workers, j \in Jobs : Take(w, j)
  BY <1>3, <1>7, TakeFacts DEF Unmet
<1>8. CASE Restart
  <2>1. row.life # "new" /\ row' = row
    BY <1>3, <1>8, RestartFacts DEF Restart
  <2> QED BY <2>1 DEF Unmet
<1>9. CASE Crash \/ Sync
  <2>1. row.life # "new"
    BY <1>9 DEF Unmet, Crash, State, Sync, SyncLists, SyncReads, SyncInspects, SyncStops, SyncWrites
  <2> QED BY <1>9, <2>1, SweepFacts DEF Unmet
<1> QED BY <1>1, <1>2, <1>5, <1>6, <1>7, <1>8, <1>9, WorkloadsSteps

LEMMA WholeKept ==
  ASSUME Sound, Whole, [Next]_vars
  PROVE  Whole'
<1> USE DEF Sound, Whole
<1>1. CASE UNCHANGED vars \/ Create \/ SetPublic \/ Delete
  BY <1>1, EditFacts DEF vars, boxVars
<1>2. ASSUME NEW w \in Workers, Works(w) PROVE Whole'
  <2>1. box' \in {box, "absent", "up"} /\ kind' = kind
    BY <1>2 DEF Works, Resolve, ListEnv, Upsert, Write, Remove, RemovePreview, RemoveProxy, Up, UpProxy, FinishDeployment,
       SetStatus, DbFails, Started, jobSame, boxVars
  <2> QED BY <2>1
<1>3. CASE Crash \/ Sync
  BY <1>3, SweepFacts DEF syncSame
<1> QED BY <1>1, <1>2, <1>3, WorkloadsSteps, RequestFacts, ReportFacts, TakeFacts, RestartFacts DEF boxVars

(* A job that is awaited goes on being awaited until it is at its last     *)
(* write, and nobody else's step ends that.                                *)
LEMMA OpenWorks ==
  ASSUME Sound, NEW w \in Workers, Works(w)
  PROVE  /\ \A j \in Jobs : j # work[w].j /\ Open(j) => Open(j)'
         /\ work'[w].pc \notin Closing \cup {"ok"} => Open(work[w].j)'
         /\ work[w].pc \in Closing => ~Open(work[w].j)
         /\ work[w].j \in Jobs
<1> USE DEF Sound
<1>1. /\ Stays(w) /\ Busy(w) /\ jobStatus' = jobStatus /\ Busy(w)'
      /\ work[w].j \in Jobs /\ jobStatus[work[w].j] = "held" /\ holder[work[w].j] = w
  BY WorksFacts, WorksOn DEF storeVars, Holds
<1>2. ASSUME NEW j \in Jobs, j # work[w].j, Open(j) PROVE Open(j)'
  BY <1>1, <1>2 DEF Open, Stays
<1>3. work'[w].pc \notin Closing \cup {"ok"} => Open(work[w].j)'
  <2>1. (work[w].j)' = work[w].j /\ work'[w].pc # "idle"
    BY <1>1 DEF Stays, Busy
  <2> QED BY <1>1, <2>1 DEF Open, Stays
<1>4. ASSUME NEW v \in Workers, Busy(v), work[v].j = work[w].j PROVE v = w
  BY <1>1, <1>4 DEF Holds
<1>5. work[w].pc \in Closing => ~Open(work[w].j)
  BY <1>1, <1>4 DEF Open, Busy
<1> QED BY <1>1, <1>2, <1>3, <1>5

LEMMA AwaitedWorks ==
  ASSUME Sound, NEW w \in Workers, Works(w)
  PROVE  /\ Awaited /\ work[w].pc \in Closing => Awaited'
         /\ Awaited /\ ~Mends(work[w].j) => Awaited'
         /\ work'[w].pc \notin Closing \cup {"ok"} /\ Mends(work[w].j) => Awaited'
         /\ work'[w].pc \notin Closing \cup {"ok"} /\ Awaited => Awaited'
<1>1. \A j \in Jobs : Mends(j)' <=> Mends(j)
  BY WorksFacts DEF Sound, Mends, jobSame
<1>2. work'[w].j = work[w].j
  BY WorksFacts DEF Sound, Stays
<1>3. ASSUME work'[w].pc \notin Closing \cup {"ok"} PROVE Open(work[w].j)' /\ work[w].j \in Jobs
  BY <1>3, OpenWorks
<1>4. \A j \in Jobs : j # work[w].j /\ Open(j) => Open(j)'
  BY OpenWorks
<1>5. work[w].pc \in Closing => ~Open(work[w].j)
  BY OpenWorks
<1>6. Awaited /\ (work[w].pc \in Closing \/ ~Mends(work[w].j)) => Awaited'
  BY <1>1, <1>4, <1>5 DEF Awaited
<1>7. work'[w].pc \notin Closing \cup {"ok"} /\ Mends(work[w].j) => Awaited'
  BY <1>1, <1>2, <1>3 DEF Awaited
<1>8. work'[w].pc \notin Closing \cup {"ok"} /\ Awaited => Awaited'
  BY <1>6, <1>7
<1> QED BY <1>6, <1>7, <1>8

(* A step that touches neither the container nor the status nor whoever is *)
(* about to write it.                                                      *)
LEMMA Quiet ==
  ASSUME Agrees, kind' = kind, box' = "absent" <=> box = "absent",
         row'.status = row.status \/ box # "absent" \/ row'.status # "running" \/ Misled',
         row'.status = row.status \/ kind = "application",
         Awaited => Awaited', Misled => Misled',
         \A v \in Workers : \/ work'[v].pc = work[v].pc /\ (work[v].pc \in Closing => OpOf(v)' = OpOf(v))
                            \/ work[v].pc \notin Closing /\ work'[v].pc \notin Closing
  PROVE  Agrees'
BY DEF Agrees, Closing

(* The steps of a worker.                                                  *)
LEMMA WorksAgree ==
  ASSUME Sound, Steps, Alike, Whole, Plain', row.life = "there", Agrees, NEW w \in Workers, Works(w)
  PROVE  Agrees'
<1> USE DEF Sound
<1>1. /\ Stays(w) /\ Busy(w) /\ kind' = kind /\ op' = op /\ Plain
      /\ SetStatus(w) \/ (Misled => Misled')
  <2>1. Stays(w) /\ Busy(w) /\ kind' = kind /\ op' = op
    BY WorksFacts DEF jobSame
  <2>2. excuses \cap Lasting \subseteq excuses' /\ (excuses \subseteq excuses' \/ SetStatus(w))
    BY WorksFacts
  <2> QED BY <2>1, <2>2 DEF Plain, Misled, Lasting
<1>2. /\ \A v \in Workers : v # w => work'[v] = work[v]
      /\ \A v \in Workers : OpOf(v)' = OpOf(v)
  BY <1>1 DEF Stays, OpOf
<1>3. OpOf(w) \in Ops /\ (OpOf(w) \in {"restart", "preview", "cleanup"} => kind = "application")
  BY <1>1, Typed DEF Holds, Purposes, OpOf
<1>4. \A v \in Workers : Produces(v) /\ Produces(w) => OpOf(v) = OpOf(w)
  BY <1>1 DEF Alike, Plain
<1>5. \A v \in Workers : v # w /\ work'[v].pc \in {"proxyRemove", "exited"} =>
                           /\ box = "absent"
                           /\ OpOf(w) \in OfProduction => OpOf(w) = "stop"
  BY <1>1, <1>2, <1>4 DEF Busy, Produces, OfProduction, Steps, Agrees
<1>6. /\ Mends(work[w].j) <=> (kind = "application" => OpOf(w) \in {"stop", "restart"})
      /\ Mends(work[w].j) => OpOf(w) \in OfProduction
  BY <1>3 DEF Mends, OpOf, OfProduction, Ops
(* Nothing but the worker has moved on.                                    *)
<1>7. ASSUME box' = box, row'.status = row.status, ~SetStatus(w),
             work[w].pc \notin Closing, work'[w].pc \notin Closing \cup {"ok"}
      PROVE  Agrees'
  BY <1>1, <1>2, <1>7, AwaitedWorks, Quiet
(* The job is to be run again, or has more to do.                          *)
<1>8. ASSUME work'[w].pc \notin Closing \cup {"ok"}, Mends(work[w].j),
             box' \in {"absent", box} \/ OpOf(w) # "stop"
      PROVE  Agrees'
  BY <1>1, <1>2, <1>5, <1>6, <1>8, AwaitedWorks DEF Agrees, Closing
<1>9. CASE Resolve(w)
  <2>1. work'[w].pc \notin Closing \cup {"ok"} /\ work[w].pc = "resolve"
    <3>1. FirstStep(w) \in {"list", "write", "up", "remove"}
      BY DEF FirstStep
    <3> QED BY <1>9, <3>1, ResolveFacts DEF Closing, Resolve, At
  <2> QED BY <1>7, <1>9, <2>1 DEF Resolve, SetStatus, At, boxVars, Closing
<1>10. CASE ListEnv(w)
  BY <1>7, <1>10, ListEnvFacts DEF ListEnv, SetStatus, At, boxVars, Closing
<1>11. CASE Upsert(w) \/ Write(w)
  <2>1. work'[w].pc \in {"anon", "write", "up", "remove", "err"}
    BY <1>11, GotoFacts DEF Upsert, Write, PCs
  <2> QED BY <1>7, <1>11, <2>1 DEF Upsert, Write, SetStatus, At, boxVars, Closing
<1>12. CASE Remove(w)
  <2>1. row' = row /\ work[w].pc = "remove" /\ Mends(work[w].j)
    BY <1>6, <1>12 DEF Remove, At, Does, OpOf, Steps
  <2>2. AfterRemove(w) \in PCs /\ "err" \in PCs
    BY StepsTo DEF PCs
  <2>3. box' \in {"absent", box}
    BY <1>12 DEF Remove
  <2>4. CASE Goto(w, "err")
    BY <1>8, <2>1, <2>2, <2>3, <2>4, GotoFacts DEF Closing
  <2>5. CASE Goto(w, AfterRemove(w)) /\ OpOf(w) # "stop"
    <3>1. work'[w].pc = "up"
      BY <2>2, <2>5, GotoFacts DEF AfterRemove, Does, OpOf
    <3> QED BY <1>8, <2>1, <2>3, <3>1 DEF Closing
  <2>6. CASE Goto(w, AfterRemove(w)) /\ OpOf(w) = "stop"
    <3>1. work'[w].pc \in {"proxyRemove", "exited"}
      BY <2>2, <2>6, GotoFacts DEF AfterRemove, Does, OpOf
    <3>2. Goto(w, AfterRemove(w)) /\ ~Goto(w, "err")
      BY <2>2, <2>6, <3>1, GotoFacts
    <3>5. Misled => Misled'
      BY <1>1, <1>12 DEF Remove, SetStatus, At
    <3>3. box' = "absent"
      BY <1>12, <2>6, <3>2 DEF Remove, Excuse, Plain, Does, OpOf
    <3>4. \A v \in Workers : work'[v].pc \in {"proxy", "finish", "running"} => OpOf(v)' = "preview"
      BY <1>1, <1>2, <1>4, <2>6, <3>1 DEF Busy, Produces, OfProduction, Steps
    <3> QED BY <2>1, <3>1, <3>3, <3>4 DEF Agrees
  <2> QED BY <1>12, <2>4, <2>5, <2>6 DEF Remove
<1>13. CASE RemoveProxy(w)
  <2>1. work'[w].pc = "exited" /\ work[w].pc = "proxyRemove" /\ box' = box /\ row' = row
    BY <1>13, GotoFacts DEF RemoveProxy, At, PCs
  <2>2. Awaited => Awaited'
    BY <2>1, AwaitedWorks DEF Closing
  <2>3. Misled => Misled'
    BY <1>1, <1>13 DEF RemoveProxy, SetStatus, At
  <2> QED BY <1>1, <1>2, <2>1, <2>2, <2>3 DEF Agrees
<1>19. CASE RemovePreview(w)
  <2>1. /\ row' = row /\ box' = box /\ work[w].pc = "remove" /\ OpOf(w) = "cleanup"
        /\ work'[w].pc = "ok"
    BY <1>19, GotoFacts DEF RemovePreview, At, Does, OpOf, PCs
  <2>2. Awaited => Awaited'
    BY <1>3, <1>6, <2>1, AwaitedWorks
  <2>3. Misled => Misled'
    BY <1>1, <1>19 DEF RemovePreview, SetStatus, At
  <2> QED BY <1>1, <1>2, <2>1, <2>2, <2>3, Quiet DEF Closing
<1>20. CASE Up(w) /\ OpOf(w) = "preview"
  <2>1. row' = row /\ box' = box /\ work[w].pc = "up" /\ kind = "application"
    BY <1>3, <1>20 DEF Up, Started, At, Does, OpOf
  <2>2. work'[w].pc \in {"finish", "ok"}
    <3>1. Goto(w, "finish") \/ Goto(w, "ok")
      BY <1>20, <2>1 DEF Up, AfterUp, AfterFailedUp, Does, OpOf
    <3> QED BY <3>1, GotoFacts DEF PCs
  <2>3. Awaited => Awaited'
    BY <1>6, <1>20, <2>1, AwaitedWorks
  <2>4. Misled => Misled'
    BY <1>1, <1>20 DEF Up, SetStatus, At
  <2> QED BY <1>1, <1>2, <1>20, <2>1, <2>2, <2>3, <2>4 DEF Agrees
<1>14. CASE Up(w) /\ OpOf(w) # "preview"
  <2>1. /\ row' = row /\ work[w].pc = "up" /\ OpOf(w) \in {"start", "restart"} /\ box' \in {"up", box}
        /\ Misled => Misled'
    BY <1>1, <1>14 DEF Up, Started, SetStatus, At, Steps
  <2>2. AfterUp(w) \in PCs /\ AfterFailedUp(w) \in PCs
    BY StepsTo
  <2>3. \/ box' = "up" /\ Goto(w, AfterUp(w))
        \/ Goto(w, AfterFailedUp(w))
    BY <1>14 DEF Up, Started, Does, OpOf
  <2>4. CASE box' = "up" /\ Goto(w, AfterUp(w))
    <3>1. /\ work'[w].pc \in {"proxy", "finish", "running"}
          /\ kind # "application" => work'[w].pc \in {"proxy", "running"}
      BY <2>2, <2>4, GotoFacts DEF AfterUp
    <3>2. \A v \in Workers : work'[v].pc \notin {"proxyRemove", "exited"}
      BY <1>5, <2>1, <3>1 DEF OfProduction
    <3> QED BY <1>1, <2>4, <3>1, <3>2 DEF Agrees
  <2>5. CASE Goto(w, AfterFailedUp(w)) /\ Mends(work[w].j)
    <3>1. work'[w].pc \in {"gaveUp", "err"}
      BY <1>6, <2>1, <2>2, <2>5, GotoFacts DEF AfterFailedUp, Does, OpOf
    <3> QED BY <1>8, <2>1, <2>5, <3>1 DEF Closing
  <2>6. CASE Goto(w, AfterFailedUp(w)) /\ ~Mends(work[w].j)
    <3>1. work'[w].pc = "ok" /\ kind = "application"
      BY <1>6, <2>1, <2>2, <2>6, GotoFacts DEF AfterFailedUp, Does, OpOf
    <3>2. Awaited => Awaited'
      BY <2>6, AwaitedWorks
    <3>3. CASE box' = box
      BY <1>1, <1>2, <2>1, <3>1, <3>2, <3>3, Quiet DEF Closing
    <3>4. CASE box' = "up"
      <4>1. \A v \in Workers : work'[v].pc \notin {"proxyRemove", "exited"}
        BY <1>5, <2>1, <3>1 DEF OfProduction
      <4> QED BY <1>1, <3>1, <3>4, <4>1 DEF Agrees
    <3> QED BY <2>1, <3>3, <3>4
  <2> QED BY <2>3, <2>4, <2>5, <2>6
<1>15. CASE UpProxy(w)
  <2>1. row' = row /\ box' = box /\ work[w].pc = "proxy" /\ kind = "database"
    BY <1>15 DEF UpProxy, At, Steps
  <2>2. CASE Goto(w, "running")
    <3>1. work'[w].pc = "running"
      BY <2>2, GotoFacts DEF PCs
    <3>2. Awaited => Awaited'
      BY <2>1, AwaitedWorks DEF Closing
    <3>3. Misled => Misled'
      BY <1>1, <1>15 DEF UpProxy, SetStatus, At
    <3> QED BY <1>1, <1>2, <2>1, <3>1, <3>2, <3>3 DEF Agrees
  <2>3. CASE Goto(w, "err")
    <3>1. work'[w].pc = "err"
      BY <2>3, GotoFacts DEF PCs
    <3> QED BY <1>6, <1>8, <2>1, <3>1 DEF Closing
  <2> QED BY <1>15, <2>2, <2>3 DEF UpProxy
<1>16. CASE FinishDeployment(w)
  <2>1. /\ row' = row /\ box' = box /\ work[w].pc = "finish" /\ kind = "application"
        /\ work'[w].pc = "running"
    BY <1>16, GotoFacts DEF FinishDeployment, At, Steps, boxVars, PCs
  <2>2. Awaited => Awaited'
    BY <2>1, AwaitedWorks DEF Closing
  <2>3. Misled => Misled'
    BY <1>1, <1>16 DEF FinishDeployment, SetStatus, At
  <2> QED BY <1>1, <1>2, <2>1, <2>2, <2>3 DEF Agrees
<1>17. CASE SetStatus(w)
  <2>1. /\ box' = box /\ work[w].pc \in {"running", "exited", "gaveUp"}
        /\ row'.status = IF work[w].pc = "running" THEN "running" ELSE "exited"
        /\ work'[w].pc = IF work[w].pc = "gaveUp" THEN "err" ELSE "ok"
    <3>1. row' = [row EXCEPT !.status = IF work[w].pc = "running" THEN "running" ELSE "exited"]
      BY <1>17 DEF SetStatus, At
    <3>2. row'.status = IF work[w].pc = "running" THEN "running" ELSE "exited"
      BY <3>1, Typed DEF RowStates
    <3> QED BY <1>17, <3>2, GotoFacts DEF SetStatus, At, boxVars, PCs
  <2>2. CASE work[w].pc = "gaveUp"
    BY <1>6, <1>8, <2>1, <2>2 DEF Closing, Steps
  <2>3. CASE work[w].pc \in {"running", "exited"}
    <3>1. Awaited => Awaited'
      BY <2>3, AwaitedWorks DEF Closing
    (* Production knows what it writes; a preview that does not is noted.  *)
    <3>2. row'.status = "running" => box # "absent" \/ Awaited \/ Misled'
      <4>1. CASE OpOf(w) # "preview"
        BY <2>1, <2>3, <4>1 DEF Agrees
      <4>2. CASE OpOf(w) = "preview"
        BY <1>17, <4>2 DEF SetStatus, Does, OpOf, Misled
      <4> QED BY <4>1, <4>2
    <3>3. kind # "application" /\ row'.status # "running" => box = "absent"
      BY <2>1, <2>3 DEF Agrees
    <3> QED BY <1>1, <1>2, <2>1, <2>3, <3>1, <3>2, <3>3 DEF Agrees
  <2> QED BY <2>1, <2>2, <2>3
<1>18. CASE DbFails(w)
  <2>1. /\ row' = row /\ box' = box
        /\ work[w].pc \in {"resolve", "list", "jwt", "anon", "finish", "running", "exited", "gaveUp"}
        /\ work'[w].pc = IF work[w].pc = "running" /\ kind = "application" /\ OpOf(w) # "restart"
                         THEN "ok" ELSE "err"
    BY <1>18, GotoFacts DEF DbFails, At, boxVars, PCs, Does, OpOf
  <2>6. excuses' = excuses
    BY <1>18 DEF DbFails
  <2>2. CASE work[w].pc \in {"resolve", "list", "jwt", "anon", "gaveUp"}
    BY <1>1, <1>2, <2>1, <2>2, <2>6, AwaitedWorks, Quiet DEF Closing, Misled
  <2>3. CASE work[w].pc \in {"running", "exited"} /\ work'[w].pc = "err"
    BY <1>3, <1>6, <1>8, <2>1, <2>3 DEF Closing, Steps, Ops
  <2>4. CASE work[w].pc \in {"finish", "running"} /\ kind = "application"
    <3>1. Awaited => Awaited'
      BY <2>4, AwaitedWorks DEF Closing
    <3> QED BY <1>1, <1>2, <2>1, <2>4, <2>6, <3>1 DEF Agrees, Misled
  <2> QED BY <2>1, <2>2, <2>3, <2>4 DEF Steps
<1> QED BY <1>9, <1>10, <1>11, <1>12, <1>13, <1>14, <1>15, <1>16, <1>17, <1>18, <1>19, <1>20 DEF Works

(* The other steps.                                                        *)
LEMMA FollowsKept ==
  ASSUME Sound, Steps, Alike, Whole, Unmet, Follows, [Next]_vars
  PROVE  Follows'
<1> SUFFICES ASSUME row'.life = "there", Plain' PROVE Agrees'
  BY DEF Follows
<1> USE DEF Sound
<1>1. Plain
  BY ExcusesLast DEF Plain, Lasting
<1>2. CASE Create \/ SetPublic \/ Delete
  <2>1. /\ box' = box /\ kind' = kind /\ row'.status = row.status /\ UNCHANGED Untasked
        /\ row.life \in {"new", "there"}
    BY <1>2, EditFacts DEF boxVars
  <2>2. Awaited' <=> Awaited
    BY <2>1 DEF Untasked, storeVars, Awaited, Open, Mends
  <2>3. CASE row.life = "there"
    BY <1>1, <1>2, <2>1, <2>2, <2>3, EditFacts, Quiet DEF Follows, Untasked, OpOf, Misled
  <2>4. CASE row.life = "new"
    <3>1. \A w \in Workers : ~Busy(w)
      BY <2>4 DEF Unmet, Holds, Purposes
    <3> QED BY <2>1, <2>4, <3>1 DEF Agrees, Unmet, Untasked, Busy
  <2> QED BY <2>1, <2>3, <2>4
<1>3. row.life = "there" /\ ~(Create \/ SetPublic \/ Delete) => Agrees
  BY <1>1 DEF Follows
<1>4. CASE UNCHANGED vars
  <2>1. Agrees' <=> Agrees
    BY <1>4 DEF vars, boxVars, storeVars, Agrees, Awaited, Misled, OpOf, Open, Mends
  <2> QED BY <1>1, <1>4, <2>1 DEF Follows, vars
<1>5. ASSUME NEW j \in Jobs, NEW what \in Ops, Request(j, what) PROVE Agrees'
  <2>1. /\ kind' = kind /\ row' = row /\ box' = box /\ work' = work /\ jobStatus[j] = "absent"
        /\ \A i \in Jobs : i # j => jobStatus'[i] = jobStatus[i] /\ op'[i] = op[i]
    BY <1>5, RequestFacts DEF boxVars
  <2>5. \A v \in Workers : work[v].pc \in Closing => OpOf(v)' = OpOf(v)
    BY <1>5, RequestFacts DEF Closing, OpOf, Holds, Busy
  <2>2. \A i \in Jobs : Open(i) => i # j
    BY <2>1 DEF Open, Holds, Busy
  <2>3. \A i \in Jobs : Open(i) => Open(i)' /\ (Mends(i) => Mends(i)')
    BY <2>1, <2>2 DEF Open, Mends
  <2>4. Awaited => Awaited'
    BY <2>3 DEF Awaited
  <2>6. excuses' = excuses /\ row.life = "there"
    BY <1>5, RequestFacts
  <2> QED BY <1>1, <2>1, <2>4, <2>5, <2>6, Quiet DEF Follows, Misled
<1>6. ASSUME NEW w \in Workers, Works(w) PROVE Agrees'
  <2>1. row.life = "there"
    BY <1>6, WorksFacts
  <2> QED BY <1>1, <1>6, <2>1, WorksAgree DEF Follows
<1>7. ASSUME NEW w \in Workers, Report(w) PROVE Agrees'
  <2>1. /\ kind' = kind /\ row' = row /\ box' = box /\ op' = op /\ work[w].pc \in {"ok", "err"}
        /\ work'[w].pc = "idle"
        /\ \A v \in Workers : v # w => work'[v] = work[v]
        /\ \A i \in Jobs : i # work[w].j => jobStatus'[i] = jobStatus[i]
        /\ work[w].pc = "err" => jobStatus'[work[w].j] \in {"queued", "dropped"}
    BY <1>7, ReportFacts, IdleTyped DEF boxVars
  <2>2. work[w].pc = "ok" => ~Open(work[w].j)
    BY <2>1 DEF Holds, Open, Busy
  <2>3. ASSUME NEW i \in Jobs, Open(i) PROVE Open(i)'
    <3>1. CASE i = work[w].j
      BY <2>1, <2>2, <2>3, <3>1 DEF Open
    <3>2. CASE i # work[w].j
      BY <2>1, <2>3, <3>2 DEF Open
    <3> QED BY <3>1, <3>2
  <2>4. Awaited => Awaited'
    BY <2>1, <2>3 DEF Awaited, Mends
  <2>5. \A v \in Workers : \/ work'[v].pc = work[v].pc /\ (work[v].pc \in Closing => OpOf(v)' = OpOf(v))
                           \/ work[v].pc \notin Closing /\ work'[v].pc \notin Closing
    BY <2>1 DEF Closing, OpOf
  <2>6. excuses' = excuses
    BY <1>7, ReportFacts
  <2> QED BY <1>1, <2>1, <2>4, <2>5, <2>6, Quiet DEF Follows, Misled
<1>8. ASSUME NEW w \in Workers, NEW j \in Jobs, Take(w, j) PROVE Agrees'
  <2>1. /\ kind' = kind /\ row' = row /\ box' = box /\ op' = op /\ ~Busy(w)
        /\ work'[w].pc = "resolve" /\ work'[w].j = j
        /\ \A v \in Workers : v # w => work'[v] = work[v]
        /\ \A i \in Jobs : i # j => jobStatus'[i] = jobStatus[i]
    BY <1>8, TakeFacts DEF boxVars
  <2>2. ASSUME NEW i \in Jobs, Open(i) PROVE Open(i)'
    <3>1. CASE i = j
      BY <2>1, <3>1 DEF Open, Closing
    <3>2. CASE i # j
      BY <2>1, <2>2, <3>2 DEF Open, Busy
    <3> QED BY <3>1, <3>2
  <2>3. Awaited => Awaited'
    BY <2>1, <2>2 DEF Awaited, Mends
  <2>4. \A v \in Workers : \/ work'[v].pc = work[v].pc /\ (work[v].pc \in Closing => OpOf(v)' = OpOf(v))
                           \/ work[v].pc \notin Closing /\ work'[v].pc \notin Closing
    BY <2>1 DEF Closing, Busy, OpOf
  <2>5. Misled => Misled'
    BY <1>8, TakeFacts DEF Misled
  <2> QED BY <1>1, <2>1, <2>3, <2>4, <2>5, Quiet DEF Follows
<1>9. CASE Restart
  <2>1. /\ kind' = kind /\ row' = row /\ box' = box /\ op' = op
        /\ \A w \in Workers : work'[w].pc = "idle"
        /\ \A j \in Jobs : jobStatus'[j] = IF jobStatus[j] = "held" THEN "queued" ELSE jobStatus[j]
    BY <1>9, RestartFacts, IdleTyped DEF boxVars
  <2>2. \A i \in Jobs : jobStatus[i] \in {"held", "queued", "dropped"} => Open(i)'
    BY <2>1 DEF Open
  <2>3. ASSUME NEW i \in Jobs, Open(i) PROVE Open(i)'
    BY <2>2, <2>3 DEF Open, Holds, Busy
  <2>4. \A w \in Workers : Busy(w) /\ Mends(work[w].j) => Awaited'
    BY <2>1, <2>2 DEF Awaited, Mends, Holds
  <2>5. Awaited => Awaited'
    BY <2>1, <2>3 DEF Awaited, Mends
  <2>6. \A w \in Workers : work[w].pc \in {"proxyRemove", "exited"} => Busy(w) /\ Mends(work[w].j)
    BY DEF Busy, Steps, Mends, OpOf
  <2>8. excuses' = excuses
    BY <1>9, RestartFacts
  <2>7. \A w \in Workers : kind # "application" /\ work[w].pc \in {"proxy", "running"} =>
                             Busy(w) /\ Mends(work[w].j)
    BY DEF Busy, Mends
  <2> QED BY <1>1, <2>1, <2>4, <2>5, <2>6, <2>7, <2>8 DEF Agrees, Follows, Misled
<1>10. CASE Crash \/ Sync
  <2>1. /\ UNCHANGED syncSame /\ kind = "application" /\ (box' = "absent" <=> box = "absent")
        /\ row'.status = row.status \/ box # "absent" \/ row'.status # "running" \/ Misled'
        /\ row.life = "there" /\ (Misled => Misled')
    BY <1>10, SweepFacts DEF Misled
  <2>2. Awaited' <=> Awaited
    BY <2>1 DEF syncSame, storeVars, Awaited, Open, Mends
  <2> QED BY <1>1, <1>10, <2>1, <2>2, SweepFacts, Quiet DEF Follows, syncSame, OpOf
<1> QED BY <1>2, <1>4, <1>5, <1>6, <1>7, <1>8, <1>9, <1>10, WorkloadsSteps

-----------------------------------------------------------------------------
Steady == Sound /\ Steps /\ Alike /\ Single /\ Signed /\ Whole /\ Unmet /\ Follows

LEMMA InitiallySteady ==
  ASSUME Init
  PROVE  Steady
<1> USE DEF Init
<1>1. \A w \in Workers : work[w] = Idle
  OBVIOUS
<1>2. Idle.pc = "idle" /\ Asleep.pc = "idle"
  BY DEF Idle, Asleep
<1>3. TypeOK
  <2>1. /\ row \in RowStates /\ Asleep \in SweepStates /\ NoEnv \in Env /\ budget \in Budgets
        /\ op \in [Jobs -> Ops \cup {"none"}] /\ work \in [Workers -> WorkStates]
    BY IdleTyped, WorkloadsAssumption
    DEF RowStates, Statuses, Asleep, SweepStates, BoxStates, Boxes, NoEnv, Env, Budgets
  <2>2. Store!StoreTypeOK
    BY WorkloadsAssumption DEF Store!StoreInit, Store!StoreTypeOK, Store!Status
  <2> QED BY <2>1, <2>2, Typed DEF BoxStates, Reasons
<1>4. Purposes /\ TriesLeft
  BY WorkloadsAssumption DEF Purposes, TriesLeft, Store!StoreInit
<1>5. Holds /\ Swept
  BY <1>1, <1>2 DEF Holds, Busy, Swept
<1>6. Steps /\ Alike /\ Single
  BY <1>1, <1>2 DEF Steps, Alike, Single, Produces, Busy
<1>7. Signed
  BY <1>1, <1>2 DEF Signed, NoEnv
<1>8. Whole /\ Unmet /\ Follows
  BY <1>1, <1>2 DEF Whole, Unmet, Follows
<1> QED BY <1>3, <1>4, <1>5, <1>6, <1>7, <1>8 DEF Steady, Sound

LEMMA AlwaysSteady == Spec => []Steady
<1>1. Steady /\ [Next]_vars => Steady'
  BY SoundKept, StepsKept, AlikeKept, SignedKept, WholeKept, UnmetKept, FollowsKept DEF Steady
<1> QED BY <1>1, InitiallySteady, PTL DEF Spec

(* The model of a workload's life is type-correct.                         *)
THEOREM WorkloadsTyping == Spec => []TypeOK
<1>1. Steady => TypeOK
  BY DEF Steady, Sound
<1> QED BY <1>1, AlwaysSteady, PTL

(* The status at rest is that of the container, whatever failed, was lost  *)
(* or crashed before, for any workload, jobs, workers and bounds.          *)
THEOREM StatusIsRight == Spec => []StatusFollows
<1>1. Steady => StatusFollows
  <2> SUFFICES ASSUME Steady, AtRest, row.life = "there", excuses \subseteq {"twice"}
               PROVE  /\ box = "absent" => row.status # "running"
                      /\ box = "up" /\ kind # "application" => row.status = "running"
    BY DEF StatusFollows
  <2>1. \A w \in Workers : work[w].pc = "idle"
    BY DEF Steady, Sound, Holds, Busy, AtRest
  <2>2. ~Awaited
    BY <2>1 DEF Awaited, Open, AtRest
  <2>3. Agrees
    BY DEF Steady, Follows, Plain
  <2>4. ~Misled
    BY DEF Misled
  <2> QED BY <2>1, <2>2, <2>3, <2>4 DEF Agrees
<1> QED BY <1>1, AlwaysSteady, PTL

(* parse_and_mutate_service and what it persists ("persist-once"), across  *)
(* redeployments, failures between two upserts, and restarts.              *)
THEOREM SecretsPersist == Spec => PersistOnce
<1>1. Steady /\ [Next]_vars =>
        [\/ "twice" \in excuses
         \/ /\ stored.jwt # 0 => stored'.jwt = stored.jwt
            /\ stored.anon # 0 => stored'.anon = stored.anon
            /\ stored'.anon # 0 => stored'.anon = stored'.jwt]_vars
  BY Persists DEF Steady
<1> QED BY <1>1, AlwaysSteady, PTL DEF PersistOnce, Spec

-----------------------------------------------------------------------------
(* The containers of an application                                        *)

(* A run that is over.                                                     *)
Past == {"ok", "failed", "cancelled"}

(* A run removes only containers of its own pull request.                  *)
Own == \A r \in Runs : \A n \in listed[r] : n[1] = PullRequest[r]

(* A container carries the name of the run it was made by.                 *)
Made == \A n \in Names : /\ Present(n) <=> maker[n] # NoRun
                         /\ maker[n] # NoRun => NameOf(maker[n]) = n

(* Nothing is there of a run that has not written its file.                *)
Unmade == \A r \in Runs : pc[r] \in {"idle", "write"} => file # r /\ \A n \in Names : maker[n] # r
Over == \A r \in Runs : late[r] # "none" => pc[r] \in Past

(* A run at its removal has listed all that must go, as long as the file on*)
(* the server is the one it wrote.                                         *)
ListsAll ==
  \A r \in Runs : PullRequest[r] = 0 /\ pc[r] = "remove" /\ file = r =>
    NamesOf(0) \subseteq listed[r] \cup {NameOf(r)}

(* Rolling, checked deployments of production, however many at a time.     *)
Rolling ==
  /\ Recreating = {}
  /\ \A r \in Runs : PullRequest[r] = 0 => r \notin Unchecked

Serves(n) == n[1] = 0 /\ state[n] = "healthy" /\ maker[n] \in gated

(* A list names production runs that are over and will not come back, and  *)
(* those that have crossed the run which made it.                          *)
OfPast ==
  \A q, r \in Runs : PullRequest[r] = 0 /\ NameOf(r) \in listed[q] =>
    r \in crossed \/ (pc[r] \in Past /\ file # r)

(* A cleanup removes no production.                                        *)
Cleans ==
  /\ life \notin {"stopping", "restarting", "cleaning"} => lifeListed = {}
  /\ life = "cleaning" => \A n \in lifeListed : n[1] # 0

(* A run does not list its own container.                                  *)
Others == \A r \in Runs : NameOf(r) \notin listed[r]

(* A run that has passed its gate serves, if it has not been stopped nor   *)
(* crossed by another; one whose container is to be dropped has not passed *)
(* it.                                                                     *)
Gate ==
  \A r \in Runs : PullRequest[r] = 0 /\ pc[r] \in {"list", "remove"} =>
    NameOf(r) \in taken \/ r \in crossed \/ Serves(NameOf(r))
Ungated ==
  \A r \in Runs :
    pc[r] \in {"idle", "write", "up", "wait", "logs", "drop"} \/ late[r] = "drop" => r \notin gated

(* What a later run has listed covers what an earlier one has and is left. *)
Covers(p, q) == \A n \in listed[q] : Present(n) => n \in listed[p]
Nested ==
  \A p, q \in Runs : PullRequest[p] = 0 /\ PullRequest[q] = 0 => Covers(p, q) \/ Covers(q, p)

(* When the removal of an abandoned run lands, either there is nothing     *)
(* left of what it has listed, or something else serves: its own container *)
(* or that of a later run which failed to remove all of that.              *)
Excused == \E r \in spared : NameOf(r) \in taken
Spares(q) == \E r \in spared : NameOf(r) \notin listed[q] /\ Serves(NameOf(r))
Safe(q) ==
  \/ NameOf(q) \in taken
  \/ Excused
  \/ \A n \in listed[q] : ~Present(n)
  \/ Serves(NameOf(q))
  \/ Spares(q)
Kept == \A q \in Runs : PullRequest[q] = 0 /\ late[q] = "remove" => Safe(q)

-----------------------------------------------------------------------------
(* Names, of production runs in particular.                                *)
LEMMA NameFacts ==
  /\ \A r \in Runs : /\ NameOf(r) \in Names /\ NameOf(r)[1] = PullRequest[r]
                     /\ PullRequest[r] \in Nat /\ r # NoRun
  /\ \A q, r \in Runs : PullRequest[r] = 0 /\ NameOf(q) = NameOf(r) => q = r
  /\ \A n \in Names : \E r \in Runs : n = NameOf(r)
  /\ \A n \in Names : n[1] \in Nat
<1>1. \A r \in Runs : /\ NameOf(r)[1] = PullRequest[r] /\ PullRequest[r] \in Nat /\ r # NoRun
                      /\ NameOf(r)[2] \in {r, NoRun}
                      /\ PullRequest[r] = 0 => NameOf(r)[2] = r
  BY ContainersAssumption DEF NameOf
<1>2. \A q, r \in Runs : PullRequest[r] = 0 /\ NameOf(q) = NameOf(r) => q = r
  BY <1>1
<1>3. \A r \in Runs : NameOf(r) \in Names
  BY DEF Names
<1>4. \A n \in Names : \E r \in Runs : n = NameOf(r)
  BY DEF Names
<1> QED BY <1>1, <1>2, <1>3, <1>4

(* What the commands of docker do to one name.                             *)
LEMMA RemoveFacts ==
  ASSUME ContainersTypeOK, NEW S, RemoveAll(S)
  PROVE  /\ state' \in [Names -> {"absent", "starting", "healthy", "sick"}]
         /\ maker' \in [Names -> Runs \cup {NoRun}]
         /\ \A n \in Names : IF n \in S THEN state'[n] = "absent" /\ maker'[n] = NoRun
                             ELSE state'[n] = state[n] /\ maker'[n] = maker[n]
BY DEF RemoveAll, ContainersTypeOK

LEMMA UpTypes ==
  ASSUME ContainersTypeOK, NEW orphans \in BOOLEAN, ComposeUp(orphans)
  PROVE  /\ state' \in [Names -> {"absent", "starting", "healthy", "sick"}]
         /\ maker' \in [Names -> Runs \cup {NoRun}]
<1>1. CASE file = NoRun
  BY <1>1 DEF ComposeUp, dockerVars, ContainersTypeOK
<1>2. CASE file # NoRun
  <2> DEFINE up(m) == IF m = NameOf(file) THEN IF maker[m] = file THEN state[m] ELSE "starting"
                      ELSE IF m # NameOf(file) /\ ~orphans THEN state[m] ELSE "absent"
             of(m) == IF m = NameOf(file) THEN file
                      ELSE IF m # NameOf(file) /\ ~orphans THEN maker[m] ELSE NoRun
  <2>1. state' = [m \in Names |-> up(m)] /\ maker' = [m \in Names |-> of(m)]
    BY <1>2 DEF ComposeUp
  <2>2. \A m \in Names : up(m) \in {"absent", "starting", "healthy", "sick"}
                         /\ of(m) \in Runs \cup {NoRun}
    BY DEF ContainersTypeOK
  <2> HIDE DEF up, of
  <2> QED BY <2>1, <2>2
<1> QED BY <1>1, <1>2

LEMMA UpFacts ==
  ASSUME ContainersTypeOK, NEW orphans \in BOOLEAN, ComposeUp(orphans)
  PROVE  \A n \in Names :
           \/ state'[n] = state[n] /\ maker'[n] = maker[n]
           \/ /\ file # NoRun /\ n = NameOf(file) /\ maker'[n] = file
              /\ maker[n] # file /\ state'[n] = "starting"
           \/ orphans /\ n # NameOf(file) /\ state'[n] = "absent" /\ maker'[n] = NoRun
BY DEF ComposeUp, dockerVars, ContainersTypeOK

(* Nothing of a recreation remains.                                        *)
LEMMA RecreateFacts ==
  ASSUME ContainersTypeOK, ComposeUp(TRUE), file # NoRun
  PROVE  \A n \in Names : n # NameOf(file) => state'[n] = "absent"
BY DEF ComposeUp, ContainersTypeOK

(* Every step, named.                                                      *)
LEMMA ContainersSteps ==
  ASSUME ContainersNext
  PROVE  \/ \E r \in Runs : Run(r)
         \/ \E n \in Names : Warm(n)
         \/ \E n \in Names : LifeRemoves(n)
         \/ StopOrRestart \/ CleanupStarts \/ LifeLists \/ LifeMovesOn \/ LifeUp \/ LifeFails
BY DEF ContainersNext

LEMMA Bool == \A r \in Runs : (r \in Recreating) \in BOOLEAN
OBVIOUS

LEMMA ContainersTyped ==
  ASSUME ContainersTypeOK, [ContainersNext]_containerVars
  PROVE  ContainersTypeOK'
<1> USE DEF ContainersTypeOK
<1>1. CASE UNCHANGED containerVars
  BY <1>1 DEF containerVars
<1>2. ASSUME NEW r \in Runs, Run(r) PROVE ContainersTypeOK'
  <2> USE DEF Proceed, lifeVars, dockerVars
  <2>1. CASE Begin(r) \/ Cancel(r) \/ WriteConfig(r) \/ HealthCheck(r) \/ Logs(r)
    BY <2>1 DEF Begin, Cancel, WriteConfig, HealthCheck, Logs, InFlight
  <2>2. CASE Abandon(r)
    BY <2>2 DEF Abandon
  <2>3. CASE Fails(r)
    <3>1. /\ state' \in [Names -> {"absent", "starting", "healthy", "sick"}]
          /\ maker' \in [Names -> Runs \cup {NoRun}]
      BY <2>3, Bool, UpTypes, RemoveFacts DEF Fails, RemoveListed
    <3>2. file' \in Runs \cup {NoRun} /\ spared' \in SUBSET Runs
      BY <2>3 DEF Fails, RemoveListed
    <3> QED BY <2>3, <3>1, <3>2 DEF Fails
  <2>4. CASE Start(r)
    <3>1. /\ state' \in [Names -> {"absent", "starting", "healthy", "sick"}]
          /\ maker' \in [Names -> Runs \cup {NoRun}]
      BY <2>4, Bool, UpTypes DEF Start
    <3> QED BY <2>4, <3>1 DEF Start
  <2>5. CASE ListOthers(r)
    BY <2>5 DEF ListOthers, NamesOf, Cross, InFlight
  <2>6. CASE RemoveOthers(r)
    <3>1. /\ state' \in [Names -> {"absent", "starting", "healthy", "sick"}]
          /\ maker' \in [Names -> Runs \cup {NoRun}]
          /\ spared' \in SUBSET Runs
      BY <2>6, RemoveFacts DEF RemoveOthers, RemoveListed
    <3> QED BY <2>6, <3>1 DEF RemoveOthers
  <2>7. CASE DropNew(r)
    <3>1. /\ state' \in [Names -> {"absent", "starting", "healthy", "sick"}]
          /\ maker' \in [Names -> Runs \cup {NoRun}]
      BY <2>7, RemoveFacts DEF DropNew
    <3> QED BY <2>7, <3>1 DEF DropNew
  <2>8. CASE Land(r)
    <3>1. /\ state' \in [Names -> {"absent", "starting", "healthy", "sick"}]
          /\ maker' \in [Names -> Runs \cup {NoRun}]
          /\ spared' \in SUBSET Runs
      BY <2>8, Bool, UpTypes, RemoveFacts DEF Land, RemoveListed
    <3> QED BY <2>8, <3>1 DEF Land
  <2> QED BY <1>2, <2>1, <2>2, <2>3, <2>4, <2>5, <2>6, <2>7, <2>8 DEF Run
<1>3. ASSUME NEW n \in Names, Warm(n) PROVE ContainersTypeOK'
  BY <1>3 DEF Warm, runVars, lifeVars
<1>4. ASSUME NEW n \in Names, LifeRemoves(n) PROVE ContainersTypeOK'
  <2>1. /\ state' \in [Names -> {"absent", "starting", "healthy", "sick"}]
        /\ maker' \in [Names -> Runs \cup {NoRun}]
        /\ taken' \in SUBSET Names
    BY <1>4, RemoveFacts DEF LifeRemoves, dockerVars
  <2> QED BY <1>4, <2>1 DEF LifeRemoves, runVars
<1>5. CASE StopOrRestart \/ CleanupStarts
  <2>1. jobs > 0 => jobs - 1 \in 0..MaxJobs
    BY ContainersAssumption
  <2> QED BY <1>5, <2>1 DEF StopOrRestart, CleanupStarts, LifeStarts, dockerVars, runVars, InFlight
<1>6. CASE LifeLists
  <2>1. NamesOf(0) \subseteq Names /\ NameFilter(lifePr) \subseteq Names
    BY DEF NamesOf, NameFilter
  <2> QED BY <1>6, <2>1 DEF LifeLists, dockerVars, runVars
<1>7. CASE LifeMovesOn \/ LifeFails
  BY <1>7 DEF LifeMovesOn, LifeFails, dockerVars, runVars
<1>8. CASE LifeUp
  <2>1. /\ state' \in [Names -> {"absent", "starting", "healthy", "sick"}]
        /\ maker' \in [Names -> Runs \cup {NoRun}]
    BY <1>8, UpTypes DEF LifeUp
  <2> QED BY <1>8, <2>1 DEF LifeUp, runVars
<1> QED BY <1>1, <1>2, <1>3, <1>4, <1>5, <1>6, <1>7, <1>8, ContainersSteps

(* What a step of run r leaves alone, and where it leads.                  *)
Stages(from, to) ==
  \/ from = to
  \/ from = "idle" /\ to = "write"
  \/ from = "write" /\ to \in {"list", "up"}
  \/ from = "up" /\ to \in {"wait", "ok"}
  \/ from = "wait" /\ to \in {"list", "logs"}
  \/ from = "list" /\ to \in {"remove", "up", "ok"}
  \/ from = "remove" /\ to \in {"up", "ok"}
  \/ from = "logs" /\ to = "drop"
  \/ from \notin Past \cup {"idle"} /\ to \in {"failed", "cancelled"}

LEMMA RunFacts ==
  ASSUME ContainersTypeOK, NEW r \in Runs, Run(r)
  PROVE  /\ \A q \in Runs : q # r => /\ pc'[q] = pc[q] /\ listed'[q] = listed[q]
                                     /\ late'[q] = late[q]
                                     /\ q \in gated' <=> q \in gated
         /\ Stages(pc[r], pc'[r])
         /\ \/ file' = file
            \/ pc[r] = "write" /\ file' = r /\ pc'[r] \notin {"idle", "write"}
         /\ gated \subseteq gated' /\ spared \subseteq spared' /\ crossed \subseteq crossed'
         /\ lifeListed' = lifeListed /\ life' = life /\ taken' = taken
<1> USE DEF ContainersTypeOK, Proceed, lifeVars, dockerVars, Stages, Past
<1>1. CASE Begin(r)
  BY <1>1 DEF Begin
<1>2. CASE Cancel(r)
  BY <1>2 DEF Cancel
<1>3. CASE WriteConfig(r)
  BY <1>3 DEF WriteConfig
<1>4. CASE HealthCheck(r)
  BY <1>4 DEF HealthCheck
<1>5. CASE Logs(r) \/ DropNew(r)
  BY <1>5 DEF Logs, DropNew
<1>6. CASE Abandon(r)
  BY <1>6 DEF Abandon, InFlight
<1>7. CASE Fails(r)
  BY <1>7 DEF Fails, RemoveListed
<1>8. CASE Start(r)
  BY <1>8 DEF Start
<1>9. CASE ListOthers(r)
  BY <1>9 DEF ListOthers, Cross
<1>10. CASE RemoveOthers(r)
  BY <1>10 DEF RemoveOthers, RemoveListed
<1>11. CASE Land(r)
  BY <1>11 DEF Land, RemoveListed
<1> QED BY <1>1, <1>2, <1>3, <1>4, <1>5, <1>6, <1>7, <1>8, <1>9, <1>10, <1>11 DEF Run

(* What the other steps leave alone.                                       *)
LEMMA RestFacts ==
  ASSUME [ContainersNext]_containerVars, ~ \E r \in Runs : Run(r)
  PROVE  /\ UNCHANGED <<file, pc, listed, gated, crossed, spared, late>>
         /\ taken \subseteq taken'
<1> USE DEF runVars, dockerVars, lifeVars
<1>1. CASE UNCHANGED containerVars
  BY <1>1 DEF containerVars
<1>2. CASE \E n \in Names : Warm(n) \/ LifeRemoves(n)
  BY <1>2 DEF Warm, LifeRemoves
<1>3. CASE StopOrRestart \/ CleanupStarts
  BY <1>3 DEF StopOrRestart, CleanupStarts, LifeStarts
<1>4. CASE LifeLists
  <2>1. UNCHANGED <<dockerVars, file, runVars, lifePr, taken, jobs>>
    BY <1>4 DEF LifeLists
  <2> QED BY <2>1
<1>5. CASE LifeMovesOn \/ LifeUp \/ LifeFails
  BY <1>5 DEF LifeMovesOn, LifeUp, LifeFails
<1> QED BY <1>1, <1>2, <1>3, <1>4, <1>5, ContainersSteps

(* What any step does to the containers.                                   *)
LEMMA DockerFacts ==
  ASSUME ContainersTypeOK, [ContainersNext]_containerVars
  PROVE  \/ UNCHANGED dockerVars
         \/ file' = file /\ \E orphans \in BOOLEAN : ComposeUp(orphans) /\ (orphans => Recreating # {})
         \/ \E S : RemoveAll(S)
         \/ \E n \in Names : Warm(n)
<1> USE DEF dockerVars
<1>1. ASSUME NEW r \in Runs, Run(r)
      PROVE  \/ UNCHANGED dockerVars
             \/ file' = file /\ \E orphans \in BOOLEAN : ComposeUp(orphans) /\ (orphans => Recreating # {})
             \/ \E S : RemoveAll(S)
  <2>1. CASE Begin(r) \/ Cancel(r) \/ WriteConfig(r) \/ HealthCheck(r) \/ Logs(r) \/ Abandon(r) \/ ListOthers(r)
    BY <2>1 DEF Begin, Cancel, WriteConfig, HealthCheck, Logs, Abandon, ListOthers
  <2>2. CASE Start(r)
    BY <2>2, Bool DEF Start
  <2>3. CASE DropNew(r) \/ RemoveOthers(r)
    BY <2>3 DEF DropNew, RemoveOthers, RemoveListed
  <2>4. CASE Fails(r)
    BY <2>4, Bool DEF Fails, RemoveListed
  <2>5. CASE Land(r)
    BY <2>5, Bool DEF Land, RemoveListed
  <2> QED BY <1>1, <2>1, <2>2, <2>3, <2>4, <2>5 DEF Run
<1>2. CASE LifeUp
  BY <1>2 DEF LifeUp
<1>3. CASE \E n \in Names : LifeRemoves(n)
  BY <1>3 DEF LifeRemoves
<1>4. CASE StopOrRestart \/ CleanupStarts \/ LifeLists \/ LifeMovesOn \/ LifeFails
  BY <1>4 DEF StopOrRestart, CleanupStarts, LifeLists, LifeMovesOn, LifeFails
<1>5. CASE UNCHANGED containerVars
  BY <1>5 DEF containerVars
<1> QED BY <1>1, <1>2, <1>3, <1>4, <1>5, ContainersSteps

(* Lists are made by ListOthers only.                                      *)
LEMMA ListFacts ==
  ASSUME ContainersTypeOK, [ContainersNext]_containerVars, NEW r \in Runs
  PROVE  listed'[r] = listed[r] \/ listed'[r] = {} \/ ListOthers(r)
<1>1. ASSUME Run(r) PROVE listed'[r] = listed[r] \/ listed'[r] = {} \/ ListOthers(r)
  BY <1>1 DEF Run, Begin, Cancel, WriteConfig, HealthCheck, Logs, Abandon, Start, DropNew, RemoveOthers,
     Fails, Land, ContainersTypeOK
<1> QED BY <1>1, RunFacts, RestFacts

LEMMA OwnKept ==
  ASSUME ContainersTypeOK, Own, [ContainersNext]_containerVars
  PROVE  Own'
<1> SUFFICES ASSUME NEW r \in Runs, NEW n \in listed'[r] PROVE n[1] = PullRequest[r]
  BY DEF Own
<1>1. CASE ListOthers(r)
  BY <1>1 DEF ListOthers, NamesOf, ContainersTypeOK
<1> QED BY <1>1, ListFacts DEF Own

LEMMA MadeKept ==
  ASSUME ContainersTypeOK, Made, [ContainersNext]_containerVars
  PROVE  Made'
<1> USE DEF Made, Present
<1>1. CASE UNCHANGED dockerVars
  BY <1>1 DEF dockerVars
<1>2. ASSUME NEW orphans \in BOOLEAN, ComposeUp(orphans) PROVE Made'
  <2> SUFFICES ASSUME NEW n \in Names
               PROVE  /\ state'[n] # "absent" <=> maker'[n] # NoRun
                      /\ maker'[n] # NoRun => NameOf(maker'[n]) = n
    OBVIOUS
  <2> QED BY <1>2, UpFacts
<1>3. ASSUME NEW S, RemoveAll(S) PROVE Made'
  BY <1>3, RemoveFacts
<1>4. ASSUME NEW n \in Names, Warm(n) PROVE Made'
  BY <1>4 DEF Warm, ContainersTypeOK
<1> QED BY <1>1, <1>2, <1>3, <1>4, DockerFacts

LEMMA OverKept ==
  ASSUME ContainersTypeOK, Over, [ContainersNext]_containerVars
  PROVE  Over'
<1>1. CASE ~ \E r \in Runs : Run(r)
  BY <1>1, RestFacts DEF Over
<1>2. ASSUME NEW r \in Runs, Run(r) PROVE Over'
  <2>1. late'[r] # "none" => pc'[r] \in Past
    <3>1. CASE Abandon(r)
      BY <3>1 DEF Abandon, Proceed, ContainersTypeOK, Past
    <3>2. CASE Land(r)
      BY <3>2 DEF Land, ContainersTypeOK
    <3>3. CASE ~Abandon(r) /\ ~Land(r)
      <4>1. late' = late
        BY <1>2, <3>3 DEF Run, Begin, Cancel, WriteConfig, HealthCheck, Logs, Start, DropNew,
           RemoveOthers, ListOthers, Fails
      <4> QED BY <1>2, <4>1, RunFacts DEF Over, Stages, Past
    <3> QED BY <3>1, <3>2, <3>3
  <2> QED BY <1>2, <2>1, RunFacts DEF Over
<1> QED BY <1>1, <1>2

LEMMA UnmadeKept ==
  ASSUME ContainersTypeOK, Unmade, [ContainersNext]_containerVars
  PROVE  Unmade'
<1>1. \A r \in Runs : pc'[r] \in {"idle", "write"} => pc[r] \in {"idle", "write"} /\ file' # r
  <2>1. CASE ~ \E r \in Runs : Run(r)
    BY <2>1, RestFacts DEF Unmade
  <2>2. ASSUME NEW r \in Runs, Run(r)
        PROVE  \A q \in Runs : pc'[q] \in {"idle", "write"} => pc[q] \in {"idle", "write"} /\ file' # q
    BY <2>2, RunFacts DEF Unmade, Stages, Past
  <2> QED BY <2>1, <2>2
<1>2. \A n \in Names : maker'[n] \in {maker[n], NoRun, file, file'}
  <2>1. CASE UNCHANGED dockerVars
    BY <2>1 DEF dockerVars
  <2>2. ASSUME NEW orphans \in BOOLEAN, ComposeUp(orphans)
        PROVE  \A n \in Names : maker'[n] \in {maker[n], NoRun, file}
    BY <2>2, UpFacts
  <2>3. ASSUME NEW S, RemoveAll(S) PROVE \A n \in Names : maker'[n] \in {maker[n], NoRun}
    BY <2>3, RemoveFacts
  <2>4. CASE \E n \in Names : Warm(n)
    BY <2>4 DEF Warm
  <2> QED BY <2>1, <2>2, <2>3, <2>4, DockerFacts
<1> QED BY <1>1, <1>2, NameFacts DEF Unmade

(* Between the listing and the removal only the container of the run can   *)
(* come, unless another run writes the file.                               *)
LEMMA ListsAllKept ==
  ASSUME ContainersTypeOK, Over, ListsAll, [ContainersNext]_containerVars
  PROVE  ListsAll'
<1> SUFFICES ASSUME NEW r \in Runs, PullRequest[r] = 0, pc'[r] = "remove", file' = r,
                    NEW n \in Names, n[1] = 0, Present(n)', n # NameOf(r)
             PROVE  n \in listed'[r]
  BY DEF ListsAll, NamesOf
<1>1. CASE ListOthers(r)
  BY <1>1 DEF ListOthers, NamesOf, Present, dockerVars, ContainersTypeOK
<1>2. CASE ~ListOthers(r)
  <2>1. pc[r] = "remove" /\ listed'[r] = listed[r]
    <3>1. ASSUME Run(r) PROVE pc[r] = "remove" /\ listed'[r] = listed[r]
      BY <1>2, <3>1 DEF Run, Begin, Cancel, WriteConfig, HealthCheck, Logs, Abandon, Start, DropNew,
         RemoveOthers, Fails, Land, Proceed, ContainersTypeOK, InFlight, Over, Past
    <3> QED BY <3>1, RunFacts, RestFacts
  <2>2. file = r
    BY <2>1, RunFacts, RestFacts
  <2>3. Present(n)
    <3>2. CASE UNCHANGED dockerVars
      BY <3>2 DEF dockerVars, Present
    <3>3. ASSUME NEW orphans \in BOOLEAN, ComposeUp(orphans) PROVE Present(n)
      BY <2>2, <3>3, UpFacts DEF Present
    <3>4. ASSUME NEW S, RemoveAll(S) PROVE Present(n)
      BY <3>4, RemoveFacts DEF Present
    <3>5. ASSUME NEW m \in Names, Warm(m) PROVE Present(n)
      BY <3>5 DEF Warm, Present, ContainersTypeOK
    <3> QED BY <3>2, <3>3, <3>4, <3>5, DockerFacts
  <2> QED BY <2>1, <2>2, <2>3 DEF ListsAll, NamesOf
<1> QED BY <1>1, <1>2

-----------------------------------------------------------------------------
(* What holds whatever runs at once.                                       *)
Apart == ContainersTypeOK /\ Own /\ Made
Clean == Unmade /\ Over /\ ListsAll

LEMMA ContainersInitially ==
  ASSUME ContainersInit
  PROVE  Apart /\ Clean
<1> USE DEF ContainersInit
<1>1. ContainersTypeOK
  BY ContainersAssumption DEF ContainersTypeOK
<1>2. Own /\ Made
  BY DEF Own, Made, Present
<1>3. Unmade /\ Over /\ ListsAll
  BY NameFacts DEF Unmade, Over, ListsAll
<1> QED BY <1>1, <1>2, <1>3 DEF Apart, Clean

LEMMA AlwaysApart == ContainersSpec => []Apart
<1>1. Apart /\ [ContainersNext]_containerVars => Apart'
  BY ContainersTyped, OwnKept, MadeKept DEF Apart
<1> QED BY <1>1, ContainersInitially, PTL DEF ContainersSpec

LEMMA AlwaysClean == ContainersSpec => [](Apart /\ Clean)
<1>1. Apart /\ Clean /\ [ContainersNext]_containerVars => (Apart /\ Clean)'
  BY ContainersTyped, OwnKept, MadeKept, OverKept, UnmadeKept, ListsAllKept DEF Apart, Clean
<1> QED BY <1>1, ContainersInitially, PTL DEF ContainersSpec

(* The containers' model is type-correct.                                  *)
THEOREM ContainersTyping == ContainersSpec => []ContainersTypeOK
<1>1. Apart => ContainersTypeOK
  BY DEF Apart
<1> QED BY <1>1, AlwaysApart, PTL

(* stop_other_containers, compose up without --remove-orphans and the      *)
(* removal of a failed container, of rolling runs, even of several at once *)
(* and when they land late: none touches a container of another pull       *)
(* request.                                                                *)
LEMMA RunsTouchTheirOwn ==
  ASSUME Recreating = {}, Apart, NEW r \in Runs, Run(r),
         NEW n \in Names, n[1] # PullRequest[r], Present(n)
  PROVE  Present(n)'
<1> USE DEF Present, dockerVars
<1>1. ASSUME ComposeUp(FALSE) PROVE Present(n)'
  BY <1>1, UpFacts DEF Apart
<1>2. ASSUME NEW S, RemoveAll(S), n \notin S PROVE Present(n)'
  BY <1>2, RemoveFacts DEF Apart
<1>3. ASSUME RemoveListed(r) PROVE Present(n)'
  BY <1>2, <1>3 DEF RemoveListed, Apart, Own
<1>4. n # NameOf(r)
  BY NameFacts
<1>5. (r \in Recreating) = FALSE
  OBVIOUS
<1>6. CASE Begin(r) \/ Cancel(r) \/ WriteConfig(r) \/ HealthCheck(r) \/ Logs(r) \/ Abandon(r) \/ ListOthers(r)
  BY <1>6 DEF Begin, Cancel, WriteConfig, HealthCheck, Logs, Abandon, ListOthers
<1>7. CASE Start(r)
  BY <1>1, <1>5, <1>7 DEF Start
<1>8. CASE DropNew(r)
  BY <1>2, <1>4, <1>8 DEF DropNew
<1>9. CASE RemoveOthers(r)
  BY <1>3, <1>9 DEF RemoveOthers
<1>10. CASE Fails(r)
  BY <1>1, <1>3, <1>5, <1>10 DEF Fails
<1>11. CASE Land(r)
  BY <1>1, <1>2, <1>3, <1>4, <1>5, <1>11 DEF Land
<1> QED BY <1>6, <1>7, <1>8, <1>9, <1>10, <1>11 DEF Run

(* stop_other_containers says: "a preview deploy never tears down the      *)
(* production containers (pr=0) and vice-versa".                           *)
THEOREM OwnContainersOnly ==
  ASSUME Recreating = {}
  PROVE  ContainersSpec => PreviewsApart
<1>1. ASSUME Apart, [ContainersNext]_containerVars, NEW r \in Runs,
             pc'[r] # pc[r] \/ late'[r] # late[r]
      PROVE  \A n \in Names : n[1] # PullRequest[r] /\ Present(n) => Present(n)'
  <2>1. Run(r)
    BY <1>1, RunFacts, RestFacts DEF Apart
  <2> QED BY <1>1, <2>1, RunsTouchTheirOwn
<1>2. Apart /\ [ContainersNext]_containerVars =>
        [\A r \in Runs : pc'[r] # pc[r] \/ late'[r] # late[r] =>
           \A n \in Names : n[1] # PullRequest[r] /\ Present(n) => Present(n)']_containerVars
  BY <1>1
<1> QED BY <1>2, AlwaysApart, PTL DEF PreviewsApart, ContainersSpec

(* The run of a successful deployment, rolling or recreated, has listed    *)
(* all that was there, and nothing else has come since, if the file is its *)
(* own.                                                                    *)
LEMMA SuccessLeavesOne ==
  ASSUME Apart, Clean, NEW r \in Runs, Run(r), PullRequest[r] = 0,
         pc[r] # "ok", pc'[r] = "ok", r \notin spared', file = r
  PROVE  NamesOf(0)' \subseteq {NameOf(r)}
<1> USE DEF Apart, ContainersTypeOK, Proceed
<1>1. CASE Start(r)
  <2>1. ComposeUp(TRUE) /\ file = r
    BY <1>1 DEF Start
  <2> QED BY <2>1, RecreateFacts, NameFacts DEF NamesOf, Present
<1>2. CASE ListOthers(r)
  <2>1. NamesOf(0) \subseteq {NameOf(r)} /\ UNCHANGED dockerVars
    BY <1>2 DEF ListOthers
  <2> QED BY <2>1 DEF NamesOf, Present, dockerVars
<1>3. CASE RemoveOthers(r)
  <2>1. RemoveAll(listed[r] \ {})
    BY <1>3 DEF RemoveOthers, RemoveListed
  <2>2. \A n \in Names : IF n \in listed[r] THEN ~Present(n)' ELSE Present(n)' => Present(n)
    BY <2>1, RemoveFacts DEF Present
  <2>3. NamesOf(0) \subseteq listed[r] \cup {NameOf(r)}
    BY <1>3 DEF RemoveOthers, Clean, ListsAll
  <2> QED BY <2>2, <2>3 DEF NamesOf
<1> QED BY <1>1, <1>2, <1>3 DEF Run, Begin, Cancel, WriteConfig, HealthCheck, Logs, Abandon, DropNew, Fails, Land

(* For deployments rolling or not and however many at a time: one that     *)
(* succeeds leaves no other production container, whatever runs before it  *)
(* or beside it left behind, if the file is still its own.                 *)
THEOREM SuccessIsClean == ContainersSpec => NothingStale
<1> DEFINE Succeeds(r) ==
      PullRequest[r] = 0 /\ pc[r] # "ok" /\ pc'[r] = "ok" /\ r \notin spared' /\ file = r
<1>1. ASSUME Apart, Clean, [ContainersNext]_containerVars, NEW r \in Runs, Succeeds(r)
      PROVE  NamesOf(0)' \subseteq {NameOf(r)}
  <2>1. Run(r)
    BY <1>1, RunFacts, RestFacts DEF Apart
  <2> QED BY <1>1, <2>1, SuccessLeavesOne
<1>2. Apart /\ Clean /\ [ContainersNext]_containerVars =>
        [\A r \in Runs : Succeeds(r) => NamesOf(0)' \subseteq {NameOf(r)}]_containerVars
  BY <1>1
<1> QED BY <1>2, AlwaysClean, PTL DEF NothingStale, ContainersSpec

-----------------------------------------------------------------------------
(* Zero downtime                                                           *)

(* What the starts of containers and the health checks disturb.            *)
LEMMA UpServes ==
  ASSUME Apart, NEW orphans \in BOOLEAN, ComposeUp(orphans), ~orphans,
         \A r \in Runs : r \in gated => r \in gated'
  PROVE  \A n \in Names : Serves(n) => Serves(n)'
<1> SUFFICES ASSUME NEW n \in Names, Serves(n) PROVE Serves(n)'
  OBVIOUS
<1> USE DEF Apart, Serves
<1>1. maker[n] \in Runs \cup {NoRun}
  BY DEF ContainersTypeOK
<1>2. maker[n] \in Runs
  BY <1>1, NameFacts, ContainersAssumption DEF ContainersTypeOK
<1>3. NameOf(maker[n]) = n /\ PullRequest[maker[n]] = 0
  BY <1>2, NameFacts DEF Made
<1>4. file # NoRun /\ n = NameOf(file) => maker[n] = file
  BY <1>2, <1>3, NameFacts DEF ContainersTypeOK
<1> QED BY <1>2, <1>4, UpFacts

LEMMA ServesPresent ==
  ASSUME NEW n, Serves(n) PROVE Present(n)
BY DEF Serves, Present

LEMMA OfPastKept ==
  ASSUME Apart, Unmade, OfPast, [ContainersNext]_containerVars, Recreating = {}
  PROVE  OfPast'
<1> SUFFICES ASSUME NEW q \in Runs, NEW r \in Runs, PullRequest[r] = 0, NameOf(r) \in listed'[q],
                    r \notin crossed'
             PROVE  pc'[r] \in Past /\ file' # r
  BY DEF OfPast
<1>1. /\ r \notin crossed
      /\ pc[r] \in Past => pc'[r] \in Past /\ (file # r => file' # r)
  <2>1. CASE \E p \in Runs : Run(p)
    BY <2>1, RunFacts DEF Apart, Stages, Past
  <2> QED BY <2>1, RestFacts
<1>2. pc[r] \in Past /\ file # r
  <2>1. CASE ListOthers(q)
    <3>1. /\ NameOf(r) # NameOf(q) /\ Present(NameOf(r)) /\ r # q
      BY <2>1 DEF ListOthers, NamesOf, Apart, ContainersTypeOK
    <3>2. maker[NameOf(r)] = r
      BY <3>1, NameFacts DEF Apart, Made, ContainersTypeOK
    <3>3. pc[r] \notin {"idle", "write"}
      BY <3>2, NameFacts DEF Unmade
    <3>4. r \notin InFlight /\ file # r
      BY <2>1, <3>1 DEF ListOthers, Cross
    <3> QED BY <3>3, <3>4 DEF InFlight, Past
  <2>2. CASE ~ListOthers(q)
    BY <1>1, <2>2, ListFacts DEF OfPast, Apart
  <2> QED BY <2>1, <2>2
<1> QED BY <1>1, <1>2

LEMMA CleansKept ==
  ASSUME ContainersTypeOK, Cleans, [ContainersNext]_containerVars
  PROVE  Cleans'
<1> USE DEF Cleans
<1>1. CASE \E r \in Runs : Run(r)
  BY <1>1, RunFacts
<1>2. CASE UNCHANGED containerVars
  BY <1>2 DEF containerVars
<1>3. CASE \E n \in Names : Warm(n)
  BY <1>3 DEF Warm, lifeVars
<1>4. CASE \E n \in Names : LifeRemoves(n)
  BY <1>4 DEF LifeRemoves
<1>5. CASE StopOrRestart \/ CleanupStarts
  BY <1>5 DEF StopOrRestart, CleanupStarts, LifeStarts
<1>6. CASE LifeLists
  <2>1. /\ life \in {"stop", "restart", "clean"}
        /\ life = "stop" => life' = "stopping"
        /\ life = "restart" => life' = "restarting"
        /\ life = "clean" => life' = "cleaning" /\ \A n \in lifeListed' : n[1] # 0
    BY <1>6 DEF LifeLists, NameFilter
  <2> QED BY <2>1
<1>7. CASE LifeMovesOn \/ LifeUp \/ LifeFails
  BY <1>7 DEF LifeMovesOn, LifeUp, LifeFails
<1> QED BY <1>1, <1>2, <1>3, <1>4, <1>5, <1>6, <1>7, ContainersSteps

LEMMA UngatedKept ==
  ASSUME Rolling, ContainersTypeOK, Over, Ungated, [ContainersNext]_containerVars
  PROVE  Ungated'
<1>1. CASE ~ \E r \in Runs : Run(r)
  BY <1>1, RestFacts DEF Ungated
<1>2. ASSUME NEW r \in Runs, Run(r) PROVE Ungated'
  <2>1. CASE HealthCheck(r)
    BY <2>1, <1>2, RunFacts DEF HealthCheck, Ungated, Proceed, ContainersTypeOK, Over, Past
  <2>2. CASE Abandon(r)
    BY <2>2, <1>2, RunFacts DEF Abandon, Ungated, Proceed, ContainersTypeOK
  <2>3. CASE ~HealthCheck(r) /\ ~Abandon(r)
    <3>1. gated' = gated /\ late'[r] \in {late[r], "none"}
      BY <1>2, <2>3 DEF Run, Begin, Cancel, WriteConfig, Logs, Start, DropNew,
         RemoveOthers, ListOthers, Fails, Land, ContainersTypeOK
    <3>2. pc'[r] \in {"idle", "write", "up", "wait", "logs", "drop"} =>
            pc[r] \in {"idle", "write", "up", "wait", "logs", "drop"}
      BY <1>2, <2>3 DEF Run, Begin, Cancel, WriteConfig, Logs, Start, DropNew, InFlight, Rolling,
         RemoveOthers, ListOthers, Fails, Land, ContainersTypeOK, Proceed
    <3> QED BY <1>2, <3>1, <3>2, RunFacts DEF Ungated
  <2> QED BY <2>1, <2>2, <2>3
<1> QED BY <1>1, <1>2

(* A run does not remove its own container.                                *)
LEMMA OthersKept ==
  ASSUME Recreating = {}, ContainersTypeOK, Others, [ContainersNext]_containerVars
  PROVE  Others'
<1> SUFFICES ASSUME NEW r \in Runs PROVE NameOf(r) \notin listed'[r]
  BY DEF Others
<1>1. CASE ListOthers(r)
  BY <1>1 DEF ListOthers, ContainersTypeOK
<1> QED BY <1>1, ListFacts DEF Others

(* What has been listed and is gone does not come back.                    *)
LEMMA StaysGone ==
  ASSUME Apart, OfPast, crossed = {}, [ContainersNext]_containerVars,
         NEW q \in Runs, PullRequest[q] = 0, NEW n \in listed[q], Present(n)'
  PROVE  Present(n)
<1> USE DEF Present
<1>1. n \in Names /\ n[1] = 0
  BY DEF Apart, Own, ContainersTypeOK
<1>2. CASE UNCHANGED dockerVars
  BY <1>2 DEF dockerVars
<1>3. ASSUME NEW orphans \in BOOLEAN, ComposeUp(orphans) PROVE Present(n)
  <2>1. file # NoRun => n # NameOf(file)
    BY <1>1, NameFacts DEF OfPast, Apart, ContainersTypeOK
  <2> QED BY <1>1, <1>3, <2>1, UpFacts DEF Apart
<1>4. ASSUME NEW S, RemoveAll(S) PROVE Present(n)
  BY <1>1, <1>4, RemoveFacts DEF Apart
<1>5. ASSUME NEW m \in Names, Warm(m) PROVE Present(n)
  BY <1>1, <1>5 DEF Warm, Apart, ContainersTypeOK
<1> QED BY <1>2, <1>3, <1>4, <1>5, DockerFacts DEF Apart

(* A removal of what run r has listed: its last step or one that lands.    *)
Removes(r) ==
  /\ RemoveListed(r) /\ listed'[r] = {}
  /\ \/ pc[r] = "remove"
     \/ late[r] = "remove" /\ late' # late

Taken(n) ==
  /\ life \in {"stopping", "restarting"} /\ lifeListed' # lifeListed
  /\ n \in taken'

(* What serves is removed by a stop, a restart or a removal of a           *)
(* production run and by nothing else.                                     *)
LEMMA Unserved ==
  ASSUME Rolling, Apart, Ungated, Cleans, [ContainersNext]_containerVars,
         NEW n \in Names, Serves(n), ~Serves(n)'
  PROVE  \/ Taken(n)
         \/ \E r \in Runs : PullRequest[r] = 0 /\ n \in listed[r] /\ Removes(r)
<1> USE DEF Apart
<1>1. \A r \in Runs : r \in gated => r \in gated'
  BY RunFacts, RestFacts
<1>2. maker[n] \in Runs /\ n = NameOf(maker[n]) /\ n[1] = 0 /\ state[n] = "healthy"
  BY NameFacts DEF Serves, Made, ContainersTypeOK
<1>3. ~UNCHANGED dockerVars
  BY <1>1, <1>2 DEF Serves, dockerVars
<1>4. ~ComposeUp(FALSE)
  BY <1>1, UpServes
<1>5. \A S : RemoveAll(S) => n \in S
  BY <1>1, <1>2, RemoveFacts DEF Serves
<1>6. ASSUME NEW r \in Runs, Run(r)
      PROVE  PullRequest[r] = 0 /\ n \in listed[r] /\ Removes(r)
  <2>1. (r \in Recreating) = FALSE
    BY DEF Rolling
  <2>2. ~RemoveAll({NameOf(r)}) \/ r \in gated
    BY <1>2, <1>5, NameFacts DEF Serves
  <2>3. RemoveListed(r) => n \in listed[r] /\ PullRequest[r] = 0
    BY <1>2, <1>5 DEF RemoveListed, Own
  <2>4. CASE Begin(r) \/ Cancel(r) \/ WriteConfig(r) \/ HealthCheck(r) \/ Logs(r) \/ Abandon(r) \/ ListOthers(r)
    BY <1>3, <2>4 DEF Begin, Cancel, WriteConfig, HealthCheck, Logs, Abandon, ListOthers
  <2>5. CASE Start(r)
    BY <1>4, <2>1, <2>5 DEF Start
  <2>6. CASE DropNew(r)
    BY <1>3, <2>2, <2>6 DEF DropNew, Ungated
  <2>7. CASE RemoveOthers(r)
    BY <2>3, <2>7 DEF RemoveOthers, Removes, ContainersTypeOK
  <2>8. CASE Fails(r)
    BY <1>3, <1>4, <2>1, <2>3, <2>8 DEF Fails, Removes, ContainersTypeOK, dockerVars
  <2>9. CASE Land(r)
    <3>1. late[r] = "remove" /\ RemoveListed(r)
      BY <1>4, <2>1, <2>2, <2>9 DEF Land, Ungated
    <3> QED BY <2>3, <2>9, <3>1 DEF Land, Removes, ContainersTypeOK
  <2> QED BY <1>6, <2>4, <2>5, <2>6, <2>7, <2>8, <2>9 DEF Run
<1>7. ASSUME NEW m \in Names, Warm(m) PROVE FALSE
  <2>1. state'[n] = state[n] /\ maker' = maker
    BY <1>2, <1>7 DEF Warm, ContainersTypeOK
  <2> QED BY <1>1, <1>2, <2>1 DEF Serves
<1>8. ASSUME NEW m \in Names, LifeRemoves(m) PROVE Taken(n)
  <2>1. m = n /\ n \in lifeListed /\ lifeListed' = lifeListed \ {n}
    BY <1>3, <1>5, <1>8 DEF LifeRemoves, dockerVars
  <2>2. life \in {"stopping", "restarting"}
    BY <1>2, <2>1 DEF Cleans
  <2> QED BY <1>3, <1>8, <2>1, <2>2 DEF LifeRemoves, Taken, dockerVars
<1>9. ~LifeUp
  BY <1>4 DEF LifeUp
<1>10. ~(StopOrRestart \/ CleanupStarts \/ LifeLists \/ LifeMovesOn \/ LifeFails)
  BY <1>3 DEF StopOrRestart, CleanupStarts, LifeLists, LifeMovesOn, LifeFails
<1>11. ~UNCHANGED containerVars
  BY <1>3 DEF containerVars, dockerVars
<1> QED BY <1>6, <1>7, <1>8, <1>9, <1>10, <1>11, ContainersSteps

(* The conditions of a zero-downtime rolling update.                       *)
Watched == OfPast /\ Others /\ Cleans /\ Ungated /\ Gate

LEMMA GateKept ==
  ASSUME Rolling, Apart, Watched, [ContainersNext]_containerVars
  PROVE  Gate'
<1> SUFFICES ASSUME NEW r \in Runs, PullRequest[r] = 0, pc'[r] \in {"list", "remove"},
                    NameOf(r) \notin taken', r \notin crossed'
             PROVE  Serves(NameOf(r))'
  BY DEF Gate
<1> USE DEF Apart, Watched
<1>1. CASE HealthCheck(r)
  <2>1. state[NameOf(r)] = "healthy" /\ r \in gated' /\ UNCHANGED dockerVars
    BY <1>1 DEF HealthCheck, Proceed, ContainersTypeOK, Rolling
  <2>2. maker[NameOf(r)] = r
    BY <2>1, NameFacts DEF Made, Present, ContainersTypeOK
  <2> QED BY <2>1, <2>2, NameFacts DEF Serves, dockerVars
<1>2. CASE ~HealthCheck(r)
  <2>1. pc[r] \in {"list", "remove"}
    <3>1. Run(r) => pc[r] \in {"list", "remove"}
      BY <1>2 DEF Run, Begin, Cancel, WriteConfig, Logs, Abandon, Start, DropNew, RemoveOthers,
         ListOthers, Fails, Land, Proceed, ContainersTypeOK, Rolling
    <3> QED BY <3>1, RunFacts, RestFacts
  <2>2. NameOf(r) \notin taken /\ r \notin crossed
    BY RunFacts, RestFacts
  <2>3. Serves(NameOf(r))
    BY <2>1, <2>2 DEF Gate
  <2>4. \A q \in Runs : NameOf(r) \notin listed[q]
    BY <2>1, <2>2 DEF OfPast, Past
  <2> QED BY <2>3, <2>4, Unserved, NameFacts DEF Taken
<1> QED BY <1>1, <1>2

LEMMA NestedKept ==
  ASSUME Rolling, Apart, Watched, crossed = {}, Nested, [ContainersNext]_containerVars
  PROVE  Nested'
<1> SUFFICES ASSUME NEW p \in Runs, NEW q \in Runs, PullRequest[p] = 0, PullRequest[q] = 0,
                    Covers(p, q), p # q
             PROVE  (Covers(p, q) \/ Covers(q, p))'
  <2>1. \A p \in Runs : Covers(p, p)'
    BY DEF Covers
  <2> QED BY <2>1 DEF Nested
<1> USE DEF Apart, Watched
(* Whoever lists now lists all that others still have.                     *)
<1>1. ASSUME NEW r \in Runs, ListOthers(r), PullRequest[r] = 0,
             NEW s \in Runs, s # r, PullRequest[s] = 0
      PROVE  Covers(r, s)'
  <2> SUFFICES ASSUME NEW n \in listed'[s], Present(n)' PROVE n \in listed'[r]
    BY DEF Covers
  <2>1. listed'[s] = listed[s] /\ Present(n) /\ pc[r] = "list"
    BY <1>1 DEF ListOthers, ContainersTypeOK, Present, dockerVars
  <2>2. n \in Names /\ n[1] = 0 /\ n # NameOf(r)
    BY <1>1, <2>1 DEF Own, OfPast, Past, ContainersTypeOK
  <2> QED BY <1>1, <2>1, <2>2 DEF ListOthers, NamesOf, ContainersTypeOK
<1>2. CASE ~ListOthers(p) /\ ~ListOthers(q)
  <2>1. listed'[p] = {} => Covers(q, p)'
    BY DEF Covers
  <2>2. listed'[q] \subseteq listed[q] /\ listed'[p] \in {listed[p], {}}
    BY <1>2, ListFacts
  <2>3. listed'[p] = listed[p] => Covers(p, q)'
    BY <2>2, StaysGone DEF Covers
  <2> QED BY <2>1, <2>2, <2>3
<1> QED BY <1>1, <1>2

(* A production run that removes what serves leaves something that does.   *)
LEMMA LeavesOne ==
  ASSUME Rolling, Apart, Watched, crossed = {} => Kept, [ContainersNext]_containerVars,
         NEW r \in Runs, PullRequest[r] = 0, Removes(r), NEW n \in listed[r], Serves(n)
  PROVE  \/ NameOf(r) \in taken \/ r \in crossed
         \/ late' # late /\ (crossed # {} \/ Excused)
         \/ \E s \in Runs : /\ s = r \/ s \in spared
                            /\ NameOf(s) \notin listed[r] /\ Serves(NameOf(s)) /\ Serves(NameOf(s))'
<1> USE DEF Apart, Watched
<1>1. /\ \A m \in Names : m \notin listed[r] => state'[m] = state[m] /\ maker'[m] = maker[m]
      /\ \A q \in Runs : q \in gated => q \in gated'
  <2>1. \A m \in Names : m \notin listed[r] => state'[m] = state[m] /\ maker'[m] = maker[m]
    BY RemoveFacts DEF Removes, RemoveListed
  <2> QED BY <2>1, RunFacts, RestFacts
<1>2. \A s \in Runs : NameOf(s) \notin listed[r] /\ Serves(NameOf(s)) => Serves(NameOf(s))'
  BY <1>1, NameFacts DEF Serves, ContainersTypeOK
<1>3. CASE pc[r] = "remove"
  BY <1>2, <1>3 DEF Gate, Others
<1>4. CASE late[r] = "remove" /\ late' # late
  <2>1. Present(n)
    BY ServesPresent
  <2> SUFFICES ASSUME crossed = {}
               PROVE  \/ Excused \/ NameOf(r) \in taken
                      \/ \E s \in Runs : /\ s = r \/ s \in spared
                                         /\ NameOf(s) \notin listed[r]
                                         /\ Serves(NameOf(s)) /\ Serves(NameOf(s))'
    BY <1>4
  <2>2. Safe(r)
    BY <1>4 DEF Kept
  <2>3. Serves(NameOf(r)) => NameOf(r) \notin listed[r]
    BY DEF Others
  <2>4. spared \subseteq Runs
    BY DEF ContainersTypeOK
  <2> QED BY <1>2, <1>4, <2>1, <2>2, <2>3, <2>4 DEF Safe, Spares
<1> QED BY <1>3, <1>4 DEF Removes

(* If what serves beside an abandoned list goes, all on that list is gone, *)
(* or the run which took it has failed to remove something of its own.     *)
LEMMA Displaced ==
  ASSUME Rolling, Apart, Watched, crossed = {}, Nested, Kept, [ContainersNext]_containerVars,
         NEW q \in Runs, PullRequest[q] = 0, listed'[q] = listed[q],
         NEW n \in Names, n \notin listed[q], Serves(n),
         NEW r \in Runs, PullRequest[r] = 0, n \in listed[r], Removes(r)
  PROVE  Safe(q)'
<1> USE DEF Apart, Watched
<1>1. Covers(r, q)
  BY ServesPresent DEF Nested, Covers
<1>2. PICK failed \in SUBSET listed[r] :
        /\ RemoveAll(listed[r] \ failed)
        /\ spared' = IF failed = {} THEN spared ELSE spared \cup {r}
  BY DEF Removes, RemoveListed
<1>3. CASE failed = {}
  <2>1. \A m \in listed[r] : ~Present(m)'
    BY <1>2, <1>3, RemoveFacts DEF Present, ContainersTypeOK
  <2>2. \A m \in listed[q] : ~Present(m)'
    BY <1>1, <2>1, StaysGone DEF Covers
  <2> QED BY <2>2 DEF Safe
<1>4. CASE failed # {}
  <2>1. spared' = spared \cup {r} /\ taken \subseteq taken'
    BY <1>2, <1>4, RunFacts, RestFacts
  <2>2. NameOf(r) \in taken \/ Excused => Safe(q)'
    BY <2>1 DEF Safe, Excused
  <2>3. ASSUME NEW s \in Runs, s = r \/ s \in spared,
               NameOf(s) \notin listed[r], Serves(NameOf(s)), Serves(NameOf(s))'
        PROVE  Safe(q)'
    <3>1. NameOf(s) \notin listed[q]
      BY <1>1, <2>3, ServesPresent DEF Covers
    <3>2. s \in spared'
      BY <2>1, <2>3
    <3> QED BY <2>3, <3>1, <3>2 DEF Safe, Spares
  <2> QED BY <2>2, <2>3, LeavesOne
<1> QED BY <1>3, <1>4

LEMMA KeptKept ==
  ASSUME Rolling, Apart, Over, Watched, crossed = {}, Nested, Kept, [ContainersNext]_containerVars
  PROVE  Kept'
<1> SUFFICES ASSUME NEW q \in Runs, PullRequest[q] = 0, late'[q] = "remove"
             PROVE  Safe(q)'
  BY DEF Kept
<1> USE DEF Apart, Watched
<1>1. CASE late[q] # "remove"
  <2>1. Abandon(q)
    <3>1. Run(q)
      BY <1>1, RunFacts, RestFacts
    <3> QED BY <1>1, <3>1 DEF Run, Begin, Cancel, WriteConfig, HealthCheck, Logs, Start, DropNew,
         RemoveOthers, ListOthers, Fails, Land, ContainersTypeOK
  <2>2. pc[q] = "remove" /\ UNCHANGED <<dockerVars, gated, taken>>
    BY <1>1, <2>1 DEF Abandon, ContainersTypeOK, lifeVars
  <2>3. NameOf(q) \in taken' \/ Serves(NameOf(q))'
    BY <2>2 DEF Gate, Serves, dockerVars
  <2> QED BY <2>3 DEF Safe
<1>2. CASE late[q] = "remove"
  <2>1. pc[q] \in Past
    BY <1>2 DEF Over
  <2>2. listed'[q] = listed[q]
    <3>1. Run(q) => listed'[q] = listed[q]
      BY <1>2, <2>1 DEF Run, Begin, Cancel, WriteConfig, HealthCheck, Logs, Start, DropNew, Abandon,
         RemoveOthers, ListOthers, Fails, Land, ContainersTypeOK, Past, InFlight
    <3> QED BY <3>1, RunFacts, RestFacts
  <2>3. taken \subseteq taken' /\ spared \subseteq spared'
    BY RunFacts, RestFacts
  <2>4. ASSUME NEW n \in Names, n \notin listed[q], Serves(n), ~Serves(n)'
        PROVE  Taken(n) \/ Safe(q)'
    BY <2>2, <2>4, Unserved, Displaced
  <2>5. Safe(q)
    BY <1>2 DEF Kept
  <2>6. CASE NameOf(q) \in taken \/ Excused
    BY <2>3, <2>6 DEF Safe, Excused
  <2>7. CASE \A n \in listed[q] : ~Present(n)
    BY <2>2, <2>7, StaysGone DEF Safe
  <2>8. CASE Serves(NameOf(q))
    BY <2>4, <2>8, NameFacts DEF Safe, Taken, Others
  <2>9. ASSUME NEW s \in spared, NameOf(s) \notin listed[q], Serves(NameOf(s)) PROVE Safe(q)'
    <3>1. s \in Runs /\ s \in spared' /\ NameOf(s) \in Names
      BY <2>3, NameFacts DEF ContainersTypeOK
    <3>2. Serves(NameOf(s))' => Safe(q)'
      BY <2>2, <2>9, <3>1 DEF Safe, Spares
    <3>3. NameOf(s) \in taken' => Safe(q)'
      BY <3>1 DEF Safe, Excused
    <3> QED BY <2>4, <2>9, <3>1, <3>2, <3>3 DEF Taken
  <2> QED BY <2>5, <2>6, <2>7, <2>8, <2>9 DEF Safe, Spares
<1> QED BY <1>1, <1>2

Rolls == Watched /\ (crossed = {} => Nested /\ Kept)

LEMMA RollsInitially ==
  ASSUME ContainersInit
  PROVE  Rolls
<1> USE DEF ContainersInit
<1>1. OfPast /\ Others /\ Cleans /\ Ungated /\ Gate
  BY DEF OfPast, Others, Cleans, Ungated, Gate
<1>2. Nested /\ Kept
  BY DEF Nested, Covers, Kept
<1> QED BY <1>1, <1>2 DEF Rolls, Watched

LEMMA AlwaysRolls ==
  ASSUME Rolling
  PROVE  ContainersSpec => [](Apart /\ Unmade /\ Over /\ Rolls)
<1>1. ASSUME Apart, Unmade, Over, Rolls, [ContainersNext]_containerVars
      PROVE  (Apart /\ Unmade /\ Over /\ Rolls)'
  <2>1. Apart' /\ Unmade' /\ Over'
    BY <1>1, ContainersTyped, OwnKept, MadeKept, UnmadeKept, OverKept DEF Apart
  <2>2. OfPast' /\ Others' /\ Cleans' /\ Ungated'
    BY <1>1, OfPastKept, OthersKept, CleansKept, UngatedKept DEF Rolls, Watched, Apart, Rolling
  <2>3. Gate'
    BY <1>1, GateKept DEF Rolls
  <2>4. crossed' = {} => crossed = {}
    BY <1>1, RunFacts, RestFacts DEF Apart
  <2>5. crossed' = {} => Nested' /\ Kept'
    BY <1>1, <2>4, NestedKept, KeptKept DEF Rolls
  <2> QED BY <2>1, <2>2, <2>3, <2>5 DEF Rolls, Watched
<1> QED BY <1>1, ContainersInitially, RollsInitially, PTL DEF ContainersSpec, Clean

(* Rolling, checked deployments of production, of however many runs at a   *)
(* time and jobs: once production is served it goes on being served,       *)
(* whatever fails, is cancelled or lands late, until a stop or a restart,  *)
(* or until a run whose container another one has listed removes the       *)
(* others.                                                                 *)
THEOREM NoDowntime ==
  ASSUME Rolling
  PROVE  ContainersSpec => ZeroDowntime
<1> DEFINE Interrupted ==
      \/ life \in {"stopping", "restarting"} /\ lifeListed' # lifeListed
      \/ \E r \in Runs : (NameOf(r) \in taken \/ r \in crossed) /\ listed'[r] # listed[r]
      \/ late' # late /\ (crossed # {} \/ \E r \in spared : NameOf(r) \in taken)
<1>1. ASSUME Apart, Rolls, [ContainersNext]_containerVars, Serving, ~Serving'
      PROVE  Interrupted
  <2>1. PICK n \in Names : Serves(n)
    BY <1>1 DEF Serving, Serves
  <2>2. \A m \in Names : ~Serves(m)'
    BY <1>1 DEF Serving, Serves
  <2>3. CASE Taken(n)
    BY <2>3 DEF Taken
  <2>4. ASSUME NEW r \in Runs, PullRequest[r] = 0, n \in listed[r], Removes(r)
        PROVE  Interrupted
    <3>1. NameOf(r) \in taken \/ r \in crossed \/ (late' # late /\ (crossed # {} \/ Excused))
      BY <1>1, <2>1, <2>2, <2>4, LeavesOne, NameFacts DEF Rolls
    <3>2. listed'[r] # listed[r]
      BY <2>4 DEF Removes
    <3> QED BY <3>1, <3>2 DEF Excused
  <2> QED BY <1>1, <2>1, <2>2, <2>3, <2>4, Unserved DEF Rolls, Watched
<1>2. Apart /\ Unmade /\ Over /\ Rolls /\ [ContainersNext]_containerVars =>
        [Serving /\ ~Serving' => Interrupted]_containerVars
  BY <1>1
<1> QED BY <1>2, AlwaysRolls, PTL DEF ZeroDowntime, ContainersSpec

=============================================================================
