------------------------- MODULE CloudServersProofs -------------------------
(***************************************************************************)
(* Proofs about CloudServers for any requests, orders, numbers of machines *)
(* and bounds: its types, what an answer promises, and the roles of the    *)
(* machines of a swarm.  A request writes the machines and the rows that   *)
(* bear its own name and no others; so `Order`, what one request has done  *)
(* at each of its steps, is kept by the steps of all the others, by people *)
(* and by the sweep.                                                       *)
(***************************************************************************)
EXTENDS CloudServers, FiniteSetTheorems, WellFoundedInduction, TLAPS

VmStates == [power: Powers, public: BOOLEAN, private: BOOLEAN,
             swarm: {"none", "manager", "worker"}]
RowStates == [life: {"none", "there", "gone"}, job: BOOLEAN, token: BOOLEAN,
              role: {"none", "manager", "worker"}, cache: Powers]
Answers == {"none", "created", "error", "lost"}
ReqStates == [kind: Kinds, pc: Steps, k: 1..Count, nodes: SUBSET (1..Count),
              partial: BOOLEAN, answer: Answers]
SyncStates == [pc: {"rest", "look", "write", "poweron"}, todo: SUBSET Nodes,
               at: Nodes \cup {NoNode}, live: Powers]
Budgets == [edits: 0..MaxEdits, faults: 0..MaxFaults]

Numbers == 1..Count
Before == {"none", "network", "subnet", "route", "group", "ingress", "key", "launch"}
Buying == {"wait", "row", "enqueue"}
Forming == {"init", "manager", "joinToken", "join", "worker"}

(* A request on its way to an answer, or with one, that is not an error.   *)
Alive(r) == req[r].pc \in Buying \cup Forming \/ req[r].answer = "created"

(* Before it buys a request has done nothing.                              *)
Untouched(r) ==
  req[r].pc \in Before =>
    /\ req[r].k = 1 /\ req[r].nodes = {} /\ ~req[r].partial /\ r \notin doubled
    /\ \A i \in Numbers : vm[<<r, i>>].power = "none"

(* The machines it has bought.                                             *)
BoughtAll(r) ==
  Alive(r) /\ r \notin doubled =>
    \A i \in Numbers : vm[<<r, i>>].power # "none" <=> i \in Bought(r)

(* The machines it has written down, in the order of their numbers.        *)
Listed(r) ==
  /\ Alive(r) => \A i \in req[r].nodes : row[<<r, i>>].life # "none" /\ row[<<r, i>>].job
  /\ req[r].pc \in Buying => req[r].nodes \subseteq 1..(req[r].k - 1)
  /\ req[r].pc \in Buying /\ ~req[r].partial /\ r \notin doubled =>
       req[r].nodes = 1..(req[r].k - 1)
  /\ req[r].pc = "enqueue" => row[<<r, req[r].k>>].life # "none"
  /\ req[r].pc = "wait" => req[r].k = 1
  /\ (req[r].pc \in Forming \/ req[r].answer = "created") /\ ~req[r].partial /\ r \notin doubled =>
       req[r].nodes = Bought(r)

(* Whether it buys one machine or many.                                    *)
Ordered(r) ==
  /\ req[r].answer # "none" => req[r].pc = "over"
  /\ r \in doubled => Kind(r) = "hetzner"
  /\ Kind(r) # "many" /\ r \notin doubled => req[r].k = 1
  /\ req[r].pc \in Forming => Kind(r) = "many" /\ Cardinality(req[r].nodes) > 1

(* The swarm it forms: the manager first, then the workers one by one.     *)
Formed(r) ==
  /\ req[r].pc \in Before \cup Buying \cup {"init"} =>
       \A i \in Numbers : row[<<r, i>>].role = "none"
  /\ req[r].pc \in {"manager", "joinToken", "join", "worker"} =>
       vm[<<r, Manager(r)>>].swarm = "manager"
  /\ req[r].pc \in {"manager", "joinToken"} =>
       \A i \in Numbers \ {Manager(r)} : row[<<r, i>>].role = "none"
  /\ req[r].pc = "join" =>
       /\ Manager(r) < req[r].k
       /\ \A i \in Numbers : req[r].k <= i => row[<<r, i>>].role = "none"
  /\ req[r].pc = "worker" =>
       /\ Manager(r) < req[r].k /\ vm[<<r, req[r].k>>].swarm = "worker"
       /\ \A i \in Numbers : req[r].k < i => row[<<r, i>>].role = "none"

(* What a request that has met no failure has joined.                      *)
Joined(r) ==
  ~req[r].partial /\ r \notin doubled /\ Kind(r) = "many" =>
    /\ req[r].pc = "join" => \A i \in 2..(req[r].k - 1) : vm[<<r, i>>].swarm = "worker"
    /\ req[r].pc = "worker" => \A i \in 2..req[r].k : vm[<<r, i>>].swarm = "worker"
    /\ req[r].answer = "created" =>
         \A i \in Numbers : vm[<<r, i>>].swarm = (IF i = 1 THEN "manager" ELSE "worker")

Order(r) == Untouched(r) /\ BoughtAll(r) /\ Listed(r) /\ Ordered(r) /\ Formed(r) /\ Joined(r)

(* RolesAreReal, request by request.                                       *)
Roles(r) ==
  \A i \in Numbers :
    /\ row[<<r, i>>].role # "none" => vm[<<r, i>>].swarm = row[<<r, i>>].role
    /\ row[<<r, i>>].role = "worker" => \E j \in Numbers : vm[<<r, j>>].swarm = "manager"

(* The sweep turns on what was there when it looked.                       *)
Swept == sync.pc \in {"write", "poweron"} =>
           /\ sync.at \in Nodes
           /\ sync.live # "none" => vm[sync.at].power # "none"
           /\ sync.pc = "poweron" => sync.live # "none"

Inv == TypeOK /\ Swept /\ \A r \in Requests : Order(r) /\ Roles(r)

-----------------------------------------------------------------------------
LEMMA Typed ==
  TypeOK <=> /\ token \in BOOLEAN
             /\ network \in {"default", "none", "vpc", "subnet", "routed"}
             /\ group \in {"none", "closed", "web", "swarm"}
             /\ vm \in [Nodes -> VmStates]
             /\ row \in [Nodes -> RowStates]
             /\ req \in [Requests -> ReqStates]
             /\ sync \in SyncStates
             /\ doubled \subseteq Requests
             /\ budget \in Budgets
BY DEF TypeOK, VmStates, RowStates, ReqStates, Answers, SyncStates, Budgets

LEMMA TypedNext ==
  TypeOK' <=> /\ token' \in BOOLEAN
              /\ network' \in {"default", "none", "vpc", "subnet", "routed"}
              /\ group' \in {"none", "closed", "web", "swarm"}
              /\ vm' \in [Nodes -> VmStates]
              /\ row' \in [Nodes -> RowStates]
              /\ req' \in [Requests -> ReqStates]
              /\ sync' \in SyncStates
              /\ doubled' \subseteq Requests
              /\ budget' \in Budgets
BY DEF TypeOK, VmStates, RowStates, ReqStates, Answers, SyncStates, Budgets

LEMMA SpendFacts ==
  ASSUME TypeOK, NEW kind \in {"edits", "faults"}, Spend(kind)
  PROVE  budget' \in Budgets
<1>1. budget \in Budgets /\ budget[kind] > 0
  BY Typed DEF Spend
<1>2. CASE kind = "edits"
  <2>1. budget' = [budget EXCEPT !.edits = @ - 1]
    BY <1>2 DEF Spend
  <2>2. budget.edits - 1 \in 0..MaxEdits
    BY <1>1, <1>2, CloudAssumption DEF Budgets
  <2> QED BY <1>1, <2>1, <2>2 DEF Budgets
<1>3. CASE kind = "faults"
  <2>1. budget' = [budget EXCEPT !.faults = @ - 1]
    BY <1>3 DEF Spend
  <2>2. budget.faults - 1 \in 0..MaxFaults
    BY <1>1, <1>3, CloudAssumption DEF Budgets
  <2> QED BY <1>1, <2>1, <2>2 DEF Budgets
<1> QED BY <1>2, <1>3

LEMMA NodesAre == \A r \in Requests, i \in Numbers : <<r, i>> \in Nodes
BY DEF Nodes, Numbers

(* The manager is the first of the nodes; with a second one there is room  *)
(* for a worker after it.                                                  *)
LEMMA ManagerIsFirst ==
  ASSUME TypeOK, NEW r \in Requests, Cardinality(req[r].nodes) > 1
  PROVE  /\ Manager(r) \in req[r].nodes /\ Manager(r) \in Numbers
         /\ \A i \in req[r].nodes : Manager(r) <= i
         /\ Manager(r) + 1 \in Numbers
<1> DEFINE N == req[r].nodes
<1>1. N \subseteq Numbers /\ N \subseteq Nat
  BY Typed DEF ReqStates, Numbers
<1>2. PICK a \in N, b \in N : a # b
  <2>1. N # {}
    BY FS_EmptySet
  <2>2. PICK a \in N : TRUE
    BY <2>1
  <2>3. N # {a}
    <3>1. Cardinality({a}) = 1
      BY FS_Singleton
    <3> QED BY <3>1
  <2> QED BY <2>2, <2>3
<1>3. PICK m \in N : \A i \in N : <<i, m>> \notin OpToRel(<, Nat)
  BY <1>1, <1>2, NatLessThanWellFounded, WFMin
<1>4. \A i \in N : i < m => <<i, m>> \in OpToRel(<, Nat)
  BY <1>1 DEF OpToRel
<1>5. \A i \in N : ~(i < m)
  BY <1>3, <1>4, Zenon
<1>6. \A i \in N : m <= i
  BY <1>1, <1>5
<1>7. Manager(r) \in N /\ \A i \in N : Manager(r) <= i
  BY <1>6 DEF Manager
<1>8. Manager(r) < a \/ Manager(r) < b
  BY <1>1, <1>2, <1>7
<1> QED BY <1>1, <1>2, <1>7, <1>8, CloudAssumption DEF Numbers

-----------------------------------------------------------------------------
(* How a request goes on.                                                  *)
Others(r) == \A q \in Requests \ {r} : req'[q] = req[q]

LEMMA GotoFacts ==
  ASSUME TypeOK, NEW r \in Requests, NEW pc \in Steps, Goto(r, pc)
  PROVE  /\ req' \in [Requests -> ReqStates] /\ Others(r)
         /\ req'[r].pc = pc /\ req'[r].kind = req[r].kind /\ req'[r].k = req[r].k
         /\ req'[r].nodes = req[r].nodes /\ req'[r].partial = req[r].partial
         /\ req'[r].answer = req[r].answer
<1>1. req \in [Requests -> ReqStates] /\ req[r] \in ReqStates
  BY Typed
<1> DEFINE s == [req[r] EXCEPT !.pc = pc]
<1>2. /\ s \in ReqStates /\ s.pc = pc /\ s.kind = req[r].kind /\ s.k = req[r].k
      /\ s.nodes = req[r].nodes /\ s.partial = req[r].partial /\ s.answer = req[r].answer
  BY <1>1 DEF ReqStates
<1>3. req' = [req EXCEPT ![r] = s]
  BY DEF Goto
<1> HIDE DEF s
<1> QED BY <1>1, <1>2, <1>3 DEF Others

LEMMA AnswerFacts ==
  ASSUME TypeOK, NEW r \in Requests, NEW what \in Answers, Answer(r, what)
  PROVE  /\ req' \in [Requests -> ReqStates] /\ Others(r)
         /\ req'[r].pc = "over" /\ req'[r].kind = req[r].kind /\ req'[r].k = req[r].k
         /\ req'[r].nodes = req[r].nodes /\ req'[r].partial = req[r].partial
         /\ req'[r].answer = what
<1>1. req \in [Requests -> ReqStates] /\ req[r] \in ReqStates
  BY Typed
<1> DEFINE s == [req[r] EXCEPT !.pc = "over", !.answer = what]
<1>2. /\ s \in ReqStates /\ s.pc = "over" /\ s.kind = req[r].kind /\ s.k = req[r].k
      /\ s.nodes = req[r].nodes /\ s.partial = req[r].partial /\ s.answer = what
  BY <1>1 DEF ReqStates, Steps
<1>3. req' = [req EXCEPT ![r] = s]
  BY DEF Answer
<1> HIDE DEF s
<1> QED BY <1>1, <1>2, <1>3 DEF Others

LEMMA GiveUpFacts ==
  ASSUME TypeOK, NEW r \in Requests, GiveUp(r)
  PROVE  /\ req' \in [Requests -> ReqStates] /\ Others(r)
         /\ req'[r].pc = "over" /\ req'[r].kind = req[r].kind /\ req'[r].k = req[r].k
         /\ req'[r].nodes = req[r].nodes /\ req'[r].partial
         /\ req'[r].answer = "created"
<1>1. req \in [Requests -> ReqStates] /\ req[r] \in ReqStates
  BY Typed
<1> DEFINE s == [req[r] EXCEPT !.partial = TRUE, !.pc = "over", !.answer = "created"]
<1>2. /\ s \in ReqStates /\ s.pc = "over" /\ s.kind = req[r].kind /\ s.k = req[r].k
      /\ s.nodes = req[r].nodes /\ s.partial /\ s.answer = "created"
  BY <1>1 DEF ReqStates, Steps, Answers
<1>3. req' = [req EXCEPT ![r] = s]
  BY DEF GiveUp
<1> HIDE DEF s
<1> QED BY <1>1, <1>2, <1>3 DEF Others

(* A request for one machine has no next one, unless it bought it twice.   *)
LEMMA AfterNodeFacts ==
  ASSUME TypeOK, NEW r \in Requests, NEW nodes \in SUBSET Numbers, NEW partial \in BOOLEAN,
         AfterNode(r, nodes, partial)
  PROVE  /\ req' \in [Requests -> ReqStates] /\ Others(r)
         /\ req'[r].kind = req[r].kind /\ req'[r].nodes = nodes /\ req'[r].partial = partial
         /\ CASE Kind(r) = "many" /\ req[r].k < Count ->
                   /\ req'[r].pc = "row" /\ req'[r].k = req[r].k + 1
                   /\ req'[r].answer = req[r].answer
              [] Kind(r) = "many" /\ ~(req[r].k < Count) /\ Cardinality(nodes) > 1 ->
                   /\ req'[r].pc = "init" /\ req'[r].k = req[r].k
                   /\ req'[r].answer = req[r].answer
              [] OTHER ->
                   req'[r].pc = "over" /\ req'[r].k = req[r].k /\ req'[r].answer = "created"
<1>1. req \in [Requests -> ReqStates] /\ req[r] \in ReqStates
  BY Typed
<1>2. /\ Count \in Nat /\ req[r].k \in Nat
      /\ req[r].k < Last(r) <=> Kind(r) = "many" /\ req[r].k < Count
  BY <1>1, CloudAssumption DEF ReqStates, Last, Kind
<1>3. req[r].k < Last(r) => req[r].k + 1 \in 1..Count
  BY <1>2
<1> DEFINE more == req[r].k < Last(r)
           swarm == Kind(r) = "many" /\ Cardinality(nodes) > 1
           pc == IF more THEN "row" ELSE IF swarm THEN "init" ELSE "over"
           k == IF more THEN req[r].k + 1 ELSE req[r].k
           answer == IF more \/ swarm THEN req[r].answer ELSE "created"
           s == [req[r] EXCEPT !.nodes = nodes, !.partial = partial, !.pc = pc, !.k = k,
                               !.answer = answer]
<1>4. req' = [req EXCEPT ![r] = s]
  BY <1>1 DEF AfterNode
<1>5. /\ pc \in Steps /\ k \in 1..Count /\ answer \in Answers
  BY <1>1, <1>3 DEF Steps, ReqStates, Answers
<1>6. /\ more <=> Kind(r) = "many" /\ req[r].k < Count
      /\ more => pc = "row" /\ k = req[r].k + 1 /\ answer = req[r].answer
      /\ ~more /\ swarm => pc = "init" /\ k = req[r].k /\ answer = req[r].answer
      /\ ~more /\ ~swarm => pc = "over" /\ k = req[r].k /\ answer = "created"
  BY <1>2
<1>7. swarm <=> Kind(r) = "many" /\ Cardinality(nodes) > 1
  OBVIOUS
<1> HIDE DEF more, swarm, pc, k, answer
<1>8. /\ s \in ReqStates /\ s.kind = req[r].kind /\ s.nodes = nodes /\ s.partial = partial
      /\ s.pc = pc /\ s.k = k /\ s.answer = answer
  BY <1>1, <1>5 DEF ReqStates, Numbers
<1> HIDE DEF s
<1>9. /\ req' \in [Requests -> ReqStates] /\ Others(r) /\ req'[r] = s
  BY <1>1, <1>4, <1>8 DEF Others
<1> QED BY <1>6, <1>7, <1>8, <1>9

LEMMA AfterWorkerFacts ==
  ASSUME TypeOK, NEW r \in Requests, NEW partial \in BOOLEAN, AfterWorker(r, partial)
  PROVE  /\ req' \in [Requests -> ReqStates] /\ Others(r)
         /\ req'[r].kind = req[r].kind /\ req'[r].nodes = req[r].nodes
         /\ req'[r].partial = partial
         /\ IF req[r].k < Count
              THEN /\ req'[r].pc = "join" /\ req'[r].k = req[r].k + 1
                   /\ req'[r].answer = req[r].answer
              ELSE req'[r].pc = "over" /\ req'[r].k = req[r].k /\ req'[r].answer = "created"
<1>1. req \in [Requests -> ReqStates] /\ req[r] \in ReqStates
  BY Typed
<1>2. req[r].k < Count => req[r].k + 1 \in 1..Count
  BY <1>1, CloudAssumption DEF ReqStates
<1> DEFINE more == req[r].k < Count
           pc == IF more THEN "join" ELSE "over"
           k == IF more THEN req[r].k + 1 ELSE req[r].k
           answer == IF more THEN req[r].answer ELSE "created"
           s == [req[r] EXCEPT !.partial = partial, !.pc = pc, !.k = k, !.answer = answer]
<1>3. req' = [req EXCEPT ![r] = s]
  BY <1>1 DEF AfterWorker
<1>4. /\ pc \in Steps /\ k \in 1..Count /\ answer \in Answers
  BY <1>1, <1>2 DEF Steps, ReqStates, Answers
<1>5. /\ more <=> req[r].k < Count
      /\ more => pc = "join" /\ k = req[r].k + 1 /\ answer = req[r].answer
      /\ ~more => pc = "over" /\ k = req[r].k /\ answer = "created"
  OBVIOUS
<1> HIDE DEF more, pc, k, answer
<1>6. /\ s \in ReqStates /\ s.kind = req[r].kind /\ s.nodes = req[r].nodes /\ s.partial = partial
      /\ s.pc = pc /\ s.k = k /\ s.answer = answer
  BY <1>1, <1>4 DEF ReqStates
<1> HIDE DEF s
<1>7. /\ req' \in [Requests -> ReqStates] /\ Others(r) /\ req'[r] = s
  BY <1>1, <1>3, <1>6 DEF Others
<1> QED BY <1>5, <1>6, <1>7

-----------------------------------------------------------------------------
(* What happens to machines and rows.                                      *)
LEMMA SwarmFacts ==
  ASSUME TypeOK, NEW n \in Nodes, NEW role \in {"manager", "worker"},
         vm' = [vm EXCEPT ![n].swarm = role]
  PROVE  /\ vm' \in [Nodes -> VmStates]
         /\ vm'[n].swarm = role /\ vm'[n].power = vm[n].power
         /\ \A m \in Nodes \ {n} : vm'[m] = vm[m]
<1>1. vm \in [Nodes -> VmStates] /\ vm[n] \in VmStates
  BY Typed
<1>2. /\ [vm[n] EXCEPT !.swarm = role] \in VmStates
      /\ [vm[n] EXCEPT !.swarm = role].swarm = role
      /\ [vm[n] EXCEPT !.swarm = role].power = vm[n].power
  BY <1>1 DEF VmStates
<1> QED BY <1>1, <1>2

LEMMA PowerFacts ==
  ASSUME TypeOK, NEW n \in Nodes, NEW power \in Powers,
         vm' = [vm EXCEPT ![n].power = power]
  PROVE  /\ vm' \in [Nodes -> VmStates]
         /\ vm'[n].power = power /\ vm'[n].swarm = vm[n].swarm
         /\ \A m \in Nodes \ {n} : vm'[m] = vm[m]
<1>1. vm \in [Nodes -> VmStates] /\ vm[n] \in VmStates
  BY Typed
<1>2. /\ [vm[n] EXCEPT !.power = power] \in VmStates
      /\ [vm[n] EXCEPT !.power = power].power = power
      /\ [vm[n] EXCEPT !.power = power].swarm = vm[n].swarm
  BY <1>1 DEF VmStates
<1> QED BY <1>1, <1>2

LEMMA NewVm ==
  ASSUME NEW public \in BOOLEAN, NEW private \in BOOLEAN
  PROVE  /\ [NoVm EXCEPT !.power = "on", !.public = public, !.private = private] \in VmStates
         /\ [NoVm EXCEPT !.power = "on", !.public = public, !.private = private].power = "on"
BY DEF NoVm, VmStates, Powers

NewAre(r, ks, k, first, rest) ==
  vm' = [n \in Nodes |-> CASE n = <<r, k>> -> first
                           [] n \in {r} \X (ks \ {k}) -> rest
                           [] OTHER -> vm[n]]

LEMMA NewVms ==
  ASSUME TypeOK, NEW r \in Requests, NEW ks \in SUBSET Numbers, NEW k \in ks,
         NEW first \in VmStates, NEW rest \in VmStates,
         first.power = "on", rest.power = "on", NewAre(r, ks, k, first, rest)
  PROVE  /\ vm' \in [Nodes -> VmStates]
         /\ \A i \in ks : vm'[<<r, i>>].power = "on"
         /\ \A n \in Nodes : n \notin {r} \X ks => vm'[n] = vm[n]
<1> USE DEF NewAre
<1>1. vm \in [Nodes -> VmStates]
  BY Typed
<1>2. ASSUME NEW n \in Nodes
      PROVE  /\ vm'[n] \in VmStates
             /\ n \notin {r} \X ks => vm'[n] = vm[n]
             /\ n \in {r} \X ks => vm'[n].power = "on"
  <2>1. CASE n = <<r, k>>
    BY <2>1
  <2>2. CASE n # <<r, k>> /\ n \in {r} \X (ks \ {k})
    BY <2>2
  <2>3. CASE n # <<r, k>> /\ n \notin {r} \X (ks \ {k})
    <3>1. vm'[n] = vm[n]
      BY <2>3
    <3>2. n \notin {r} \X ks
      BY <2>3
    <3> QED BY <1>1, <3>1, <3>2
  <2> QED BY <2>1, <2>2, <2>3
<1>3. vm' \in [Nodes -> VmStates]
  <2>1. vm' = [n \in Nodes |-> vm'[n]]
    OBVIOUS
  <2> QED BY <1>2, <2>1
<1>4. \A i \in ks : vm'[<<r, i>>].power = "on"
  <2>1. \A i \in ks : <<r, i>> \in Nodes /\ <<r, i>> \in {r} \X ks
    BY NodesAre
  <2> QED BY <1>2, <2>1
<1> QED BY <1>2, <1>3, <1>4

LEMMA LaunchedFacts ==
  ASSUME TypeOK, NEW r \in Requests, NEW ks \in SUBSET Numbers, NEW addressed \in BOOLEAN,
         Launched(r, ks, addressed)
  PROVE  /\ vm' \in [Nodes -> VmStates] /\ budget' \in Budgets
         /\ \A i \in ks : vm'[<<r, i>>].power = "on"
         /\ \A n \in Nodes : n \notin {r} \X ks => vm'[n] = vm[n]
<1>1. vm \in [Nodes -> VmStates] /\ budget \in Budgets
  BY Typed
<1>2. \A i \in ks : <<r, i>> \in Nodes /\ <<r, i>> \in {r} \X ks
  BY NodesAre
<1> DEFINE full == [NoVm EXCEPT !.power = "on", !.public = addressed, !.private = TRUE]
           bare(b) == [full EXCEPT !.public = b, !.private = ~b]
<1>3. full \in VmStates /\ full.power = "on"
  BY NewVm
<1>4. CASE /\ vm' = [n \in Nodes |-> IF n \in {r} \X ks THEN full ELSE vm[n]]
           /\ UNCHANGED budget
  <2> HIDE DEF full
  <2> QED BY <1>1, <1>2, <1>3, <1>4
<1>5. ASSUME NEW k \in ks, NEW public \in {FALSE, addressed}, Spend("faults"),
             vm' = [n \in Nodes |->
                      CASE n = <<r, k>> -> bare(public)
                        [] n \in {r} \X (ks \ {k}) -> full
                        [] OTHER -> vm[n]]
      PROVE  /\ vm' \in [Nodes -> VmStates] /\ budget' \in Budgets
             /\ \A i \in ks : vm'[<<r, i>>].power = "on"
             /\ \A n \in Nodes : n \notin {r} \X ks => vm'[n] = vm[n]
  <2> DEFINE first == bare(public)
  <2>1. first \in VmStates /\ first.power = "on"
    BY <1>3 DEF VmStates
  <2>2. budget' \in Budgets
    BY <1>5, SpendFacts
  <2>3. NewAre(r, ks, k, first, full)
    BY <1>5 DEF NewAre
  <2> HIDE DEF first, full
  <2>4. /\ vm' \in [Nodes -> VmStates]
        /\ \A i \in ks : vm'[<<r, i>>].power = "on"
        /\ \A n \in Nodes : n \notin {r} \X ks => vm'[n] = vm[n]
    BY <1>3, <2>1, <2>3, NewVms
  <2> QED BY <2>2, <2>4
<1> QED BY <1>4, <1>5 DEF Launched

(* A role is written, or the row stays.                                    *)
LEMMA RoleFacts ==
  ASSUME TypeOK, NEW n \in Nodes, NEW role \in {"manager", "worker"}, Role(n, role)
  PROVE  /\ row' \in [Nodes -> RowStates] /\ budget' \in Budgets
         /\ row'[n].life = row[n].life /\ row'[n].job = row[n].job
         /\ row'[n].role \in {row[n].role, role}
         /\ \A m \in Nodes \ {n} : row'[m] = row[m]
<1>1. row \in [Nodes -> RowStates] /\ row[n] \in RowStates
  BY Typed
<1>2. /\ [row[n] EXCEPT !.role = role] \in RowStates
      /\ [row[n] EXCEPT !.role = role].role = role
      /\ [row[n] EXCEPT !.role = role].life = row[n].life
      /\ [row[n] EXCEPT !.role = role].job = row[n].job
  BY <1>1 DEF RowStates
<1>3. budget' \in Budgets
  BY SpendFacts, Typed DEF Role
<1>4. row' = row \/ row' = [row EXCEPT ![n].role = role]
  BY DEF Role
<1> QED BY <1>1, <1>2, <1>3, <1>4

-----------------------------------------------------------------------------
(* What does not concern a request.                                        *)
World(r) ==
  /\ r \in doubled' <=> r \in doubled
  /\ \A i \in Numbers :
       /\ vm'[<<r, i>>].power = "none" <=> vm[<<r, i>>].power = "none"
       /\ vm'[<<r, i>>].swarm = vm[<<r, i>>].swarm
       /\ row'[<<r, i>>].life = "none" <=> row[<<r, i>>].life = "none"
       /\ row'[<<r, i>>].job = row[<<r, i>>].job
       /\ row'[<<r, i>>].role = row[<<r, i>>].role

Elsewhere(r) == \A q \in Requests \ {r} : req'[q] = req[q] /\ World(q)

First(N) == CHOOSE k \in N : \A i \in N : k <= i

LEMMA SameManager ==
  ASSUME NEW r \in Requests, req'[r].nodes = req[r].nodes
  PROVE  Manager(r)' = Manager(r)
<1>1. Manager(r) = First(req[r].nodes) /\ Manager(r)' = First(req'[r].nodes)
  BY DEF Manager, First
<1> QED BY <1>1

LEMMA RolesStay ==
  ASSUME NEW r \in Requests, Roles(r), World(r)
  PROVE  Roles(r)'
BY DEF Roles, World

LEMMA OrderStays ==
  ASSUME TypeOK, NEW r \in Requests, Order(r), World(r), req'[r] = req[r]
  PROVE  Order(r)'
<1> USE DEF Order
<1>1. Manager(r)' = Manager(r)
  BY SameManager
<1>2. Kind(r)' = Kind(r) /\ Bought(r)' = Bought(r) /\ (Alive(r)' <=> Alive(r))
  BY DEF Kind, Bought, Alive
<1>3. req[r].k \in Numbers /\ req[r].nodes \subseteq Numbers
  BY Typed DEF ReqStates, Numbers
<1>4. Untouched(r)'
  BY DEF Untouched, World
<1>5. BoughtAll(r)'
  BY <1>2 DEF BoughtAll, World
<1>6. Listed(r)'
  BY <1>2, <1>3 DEF Listed, World
<1>7. Ordered(r)'
  BY <1>2 DEF Ordered, World
<1>8. Formed(r)'
  <2>1. req[r].pc \in Forming => Manager(r) \in Numbers
    BY ManagerIsFirst DEF Ordered
  <2> QED BY <1>1, <1>3, <2>1 DEF Formed, World, Forming
<1>9. Joined(r)'
  <2>1. \A i \in 2..(req[r].k - 1) : i \in Numbers
    BY <1>3, CloudAssumption DEF Numbers
  <2>2. \A i \in 2..req[r].k : i \in Numbers
    BY <1>3, CloudAssumption DEF Numbers
  <2> QED BY <1>2, <2>1, <2>2 DEF Joined, World
<1> QED BY <1>4, <1>5, <1>6, <1>7, <1>8, <1>9

(* A request that ends with an error, or without an answer, owes nothing.  *)
LEMMA ErrorOrder ==
  ASSUME TypeOK, NEW r \in Requests, Ordered(r), r \in doubled' <=> r \in doubled,
         req'[r].pc = "over", req'[r].answer \in {"error", "lost"},
         req'[r].kind = req[r].kind, req'[r].k = req[r].k
  PROVE  Order(r)'
<1>1. Untouched(r)' /\ BoughtAll(r)' /\ Listed(r)'
  BY DEF Untouched, BoughtAll, Listed, Alive, Before, Buying, Forming
<1>2. Ordered(r)'
  BY DEF Ordered, Kind, Forming
<1>3. Formed(r)' /\ Joined(r)'
  BY DEF Formed, Joined, Before, Buying
<1> QED BY <1>1, <1>2, <1>3 DEF Order

(* Nothing that was bought is lost or forgotten.                           *)
Kept(r) ==
  /\ r \in doubled' <=> r \in doubled
  /\ \A i \in Numbers :
       /\ vm'[<<r, i>>].power = "none" <=> vm[<<r, i>>].power = "none"
       /\ row'[<<r, i>>].life = "none" <=> row[<<r, i>>].life = "none"
       /\ row'[<<r, i>>].job = row[<<r, i>>].job

(* A swarm that is given up: partial, but everything bought is on record.  *)
LEMMA GaveUpOrder ==
  ASSUME TypeOK, NEW r \in Requests, Order(r), req[r].pc \in Forming, Kept(r),
         req'[r].pc = "over", req'[r].answer = "created", req'[r].partial,
         req'[r].kind = req[r].kind, req'[r].k = req[r].k, req'[r].nodes = req[r].nodes
  PROVE  Order(r)'
<1> USE DEF Order
<1>1. Kind(r)' = Kind(r) /\ Bought(r)' = Bought(r) /\ Alive(r)
  BY DEF Kind, Bought, Alive
<1>2. req[r].nodes \subseteq Numbers
  BY Typed DEF ReqStates, Numbers
<1>3. Untouched(r)'
  BY DEF Untouched, Before
<1>7. BoughtAll(r)'
  BY <1>1 DEF BoughtAll, Kept
<1>4. Listed(r)'
  BY <1>1, <1>2 DEF Listed, Buying, Kept
<1>5. Ordered(r)'
  BY <1>1 DEF Ordered, Forming, Kept
<1>6. Formed(r)' /\ Joined(r)'
  BY DEF Formed, Joined, Before, Buying
<1> QED BY <1>3, <1>4, <1>5, <1>6, <1>7

-----------------------------------------------------------------------------
(* The steps of a request: what each leaves in order.                      *)
Good(r) == TypeOK' /\ Elsewhere(r) /\ Order(r)' /\ Roles(r)' /\ Swept'

LEMMA WorldFacts ==
  ASSUME NEW q \in Requests, q \in doubled' <=> q \in doubled,
         NEW r \in Requests \ {q},
         \A n \in Nodes : n[1] # r => vm'[n] = vm[n] /\ row'[n] = row[n]
  PROVE  World(q)
<1>1. \A i \in Numbers : <<q, i>> \in Nodes /\ <<q, i>>[1] # r
  BY NodesAre
<1> QED BY <1>1 DEF World

LEMMA ElsewhereFacts ==
  ASSUME NEW r \in Requests, Others(r), doubled' \in {doubled, doubled \cup {r}},
         \A n \in Nodes : n[1] # r => vm'[n] = vm[n] /\ row'[n] = row[n]
  PROVE  Elsewhere(r)
<1> SUFFICES ASSUME NEW q \in Requests \ {r} PROVE req'[q] = req[q] /\ World(q)
  BY DEF Elsewhere
<1>1. q \in doubled' <=> q \in doubled
  OBVIOUS
<1>2. World(q)
  BY <1>1, WorldFacts
<1> QED BY <1>2 DEF Others

(* Nothing changes but the request and what is not its own.                *)
LEMMA Still ==
  ASSUME Inv, NEW r \in Requests, Others(r), UNCHANGED <<vm, row, doubled, sync>>
  PROVE  Elsewhere(r) /\ World(r) /\ Roles(r)' /\ Swept'
<1>1. Elsewhere(r)
  BY ElsewhereFacts
<1>2. World(r)
  BY DEF World
<1>3. Roles(r)'
  BY <1>2, RolesStay DEF Inv
<1>4. Swept'
  BY DEF Inv, Swept
<1> QED BY <1>1, <1>2, <1>3, <1>4

LEMMA BeforeOrder ==
  ASSUME NEW r \in Requests, Order(r), World(r),
         req[r].pc \in Before, req'[r].pc \in Before,
         req'[r].k = req[r].k, req'[r].nodes = req[r].nodes, req'[r].partial = req[r].partial,
         req'[r].kind = req[r].kind, req'[r].answer = req[r].answer
  PROVE  Order(r)'
<1> USE DEF Order
<1>1. req[r].answer = "none" /\ ~Alive(r)' /\ Kind(r)' = Kind(r)
  BY DEF Ordered, Alive, Before, Buying, Forming, Kind
<1>2. Untouched(r)' /\ BoughtAll(r)' /\ Listed(r)'
  BY <1>1 DEF Untouched, BoughtAll, Listed, World, Before, Buying, Forming
<1>3. Ordered(r)'
  BY <1>1 DEF Ordered, World, Before, Forming
<1>4. Formed(r)' /\ Joined(r)'
  BY <1>1 DEF Formed, Joined, World, Before
<1> QED BY <1>2, <1>3, <1>4

LEMMA EarlySteps ==
  ASSUME Inv, NEW r \in Requests,
         Ask(r) \/ EnsureNetwork(r) \/ EnsureGroup(r) \/ EnsureKey(r)
  PROVE  Good(r)
<1> USE DEF Inv
<1>1. /\ UNCHANGED <<token, vm, row, sync, doubled, budget>>
      /\ network' \in {"default", "none", "vpc", "subnet", "routed"}
      /\ group' \in {"none", "closed", "web", "swarm"}
      /\ req[r].pc \in Before
  BY Typed DEF Ask, EnsureNetwork, EnsureGroup, EnsureKey, region, At, Before
<1>2. \/ \E pc \in Before \ {"none"} : Goto(r, pc)
      \/ Answer(r, "error")
  BY DEF Ask, EnsureNetwork, EnsureGroup, EnsureKey, Before
<1>3. CASE \E pc \in Before \ {"none"} : Goto(r, pc)
  <2>1. PICK pc \in Before \ {"none"} : Goto(r, pc)
    BY <1>3
  <2>2. pc \in Steps
    BY DEF Before, Steps
  <2>3. TypeOK' /\ Others(r)
    BY <1>1, <2>1, <2>2, GotoFacts, Typed, TypedNext
  <2>4. Order(r)'
    BY <1>1, <2>1, <2>2, <2>3, GotoFacts, Still, BeforeOrder
  <2> QED BY <1>1, <2>3, <2>4, Still DEF Good
<1>4. CASE Answer(r, "error")
  <2>1. TypeOK' /\ Others(r)
    BY <1>1, <1>4, AnswerFacts, Typed, TypedNext DEF Answers
  <2>2. Order(r)'
    BY <1>1, <1>4, AnswerFacts, ErrorOrder DEF Answers, Order
  <2> QED BY <1>1, <2>1, <2>2, Still DEF Good
<1> QED BY <1>2, <1>3, <1>4

LEMMA LaunchSteps ==
  ASSUME Inv, NEW r \in Requests, LaunchAws(r) \/ LaunchHetzner(r) \/ LaunchTwice(r)
  PROVE  Good(r)
<1> USE DEF Inv
<1>1. /\ UNCHANGED <<token, network, group, row, sync>> /\ req[r].pc = "launch"
  BY DEF LaunchAws, LaunchHetzner, LaunchTwice, region, At
<1>2. /\ req[r].k = 1 /\ req[r].nodes = {} /\ ~req[r].partial /\ r \notin doubled
      /\ req[r].answer = "none" /\ req[r] \in ReqStates
      /\ \A i \in Numbers : row[<<r, i>>].role = "none"
  BY <1>1, Typed DEF Order, Untouched, Ordered, Formed, Before
<1>3. /\ Bought(r) \subseteq Numbers /\ {1} \subseteq Numbers /\ 2 \in Numbers /\ 1 \in Numbers
      /\ \A i \in Numbers : <<r, i>> \in Nodes
  BY NodesAre, CloudAssumption DEF Bought, Numbers
<1>4. Roles(r)'
  BY <1>1, <1>2 DEF Roles
<1>5. ASSUME vm' \in [Nodes -> VmStates], \A n \in Nodes : n[1] # r => vm'[n] = vm[n],
             NEW ks \in SUBSET Numbers, \A i \in ks : vm'[<<r, i>>].power = "on",
             \A i \in Numbers \ ks : vm'[<<r, i>>] = vm[<<r, i>>]
      PROVE  /\ Swept'
             /\ \A i \in Numbers : vm'[<<r, i>>].power # "none" <=> i \in ks
  <2>1. \A i \in Numbers : vm[<<r, i>>].power = "none"
    BY <1>1 DEF Order, Untouched, Before
  <2>2. \A n \in Nodes : vm[n].power # "none" => vm'[n].power # "none"
    BY <1>5, <2>1 DEF Nodes, Numbers
  <2>3. Swept'
    BY <1>1, <2>2 DEF Swept
  <2> QED BY <1>5, <2>1, <2>3
(* Machines are there; the rest of the request begins.                     *)
<1>6. ASSUME req'[r].pc \in {"wait", "row"}, req'[r].answer = "none", req'[r].nodes = {},
             ~req'[r].partial, req'[r].kind = req[r].kind,
             \/ /\ req'[r].k = 1 /\ r \notin doubled'
                /\ \A i \in Numbers : vm'[<<r, i>>].power # "none" <=> i \in Bought(r)
             \/ r \in doubled' /\ Kind(r) = "hetzner" /\ req'[r].pc = "row" /\ req'[r].k \in Numbers
      PROVE  Order(r)'
  <2>1. Kind(r)' = Kind(r) /\ Bought(r)' = Bought(r)
    BY <1>6 DEF Kind, Bought
  <2>2. Untouched(r)' /\ BoughtAll(r)'
    BY <1>6, <2>1 DEF Untouched, BoughtAll, Before
  <2>3. Listed(r)'
    <3>1. r \notin doubled' => 1..(req'[r].k - 1) = {}
      BY <1>6
    <3> QED BY <1>6, <3>1 DEF Listed, Buying, Forming
  <2>4. Ordered(r)'
    BY <1>6, <2>1 DEF Ordered, Forming
  <2>5. Formed(r)' /\ Joined(r)'
    BY <1>1, <1>2, <1>6 DEF Formed, Joined
  <2> QED BY <2>2, <2>3, <2>4, <2>5 DEF Order
<1>7. CASE LaunchAws(r)
  <2>1. /\ vm' \in [Nodes -> VmStates] /\ budget' \in Budgets /\ doubled' = doubled
        /\ \A i \in Bought(r) : vm'[<<r, i>>].power = "on"
        /\ \A n \in Nodes : n \notin {r} \X Bought(r) => vm'[n] = vm[n]
        /\ Goto(r, "wait")
    <3>1. (network = "default") \in BOOLEAN
      OBVIOUS
    <3> QED BY <1>3, <1>7, <3>1, LaunchedFacts DEF LaunchAws
  <2>2. /\ \A n \in Nodes : n[1] # r => vm'[n] = vm[n]
        /\ \A i \in Numbers \ Bought(r) : vm'[<<r, i>>] = vm[<<r, i>>]
    BY <1>3, <2>1
  <2>3. Swept' /\ \A i \in Numbers : vm'[<<r, i>>].power # "none" <=> i \in Bought(r)
    BY <1>3, <1>5, <2>1, <2>2
  <2>4. /\ req' \in [Requests -> ReqStates] /\ Others(r) /\ req'[r].pc = "wait"
        /\ req'[r].kind = req[r].kind /\ req'[r].k = 1 /\ req'[r].nodes = {} /\ ~req'[r].partial
        /\ req'[r].answer = "none"
    BY <1>2, <2>1, GotoFacts DEF Steps
  <2>5. TypeOK'
    BY <1>1, <2>1, <2>4, Typed, TypedNext
  <2>6. Order(r)'
    BY <1>2, <1>6, <2>1, <2>3, <2>4
  <2>7. Elsewhere(r)
    BY <1>1, <2>1, <2>2, <2>4, ElsewhereFacts
  <2> QED BY <1>4, <2>3, <2>5, <2>6, <2>7 DEF Good
<1>8. CASE LaunchHetzner(r)
  <2>1. /\ vm' \in [Nodes -> VmStates] /\ budget' \in Budgets /\ doubled' = doubled
        /\ \A i \in {1} : vm'[<<r, i>>].power = "on"
        /\ \A n \in Nodes : n \notin {r} \X {1} => vm'[n] = vm[n]
        /\ Kind(r) = "hetzner" /\ Bought(r) = {1}
    BY <1>3, <1>8, LaunchedFacts DEF LaunchHetzner, Bought
  <2>2. /\ \A n \in Nodes : n[1] # r => vm'[n] = vm[n]
        /\ \A i \in Numbers \ {1} : vm'[<<r, i>>] = vm[<<r, i>>]
    BY <1>3, <2>1
  <2>3. Swept' /\ \A i \in Numbers : vm'[<<r, i>>].power # "none" <=> i \in Bought(r)
    BY <1>3, <1>5, <2>1, <2>2
  <2>4. CASE Goto(r, "row")
    <3>1. /\ req' \in [Requests -> ReqStates] /\ Others(r) /\ req'[r].pc = "row"
          /\ req'[r].kind = req[r].kind /\ req'[r].k = 1 /\ req'[r].nodes = {} /\ ~req'[r].partial
          /\ req'[r].answer = "none"
      BY <1>2, <2>4, GotoFacts DEF Steps
    <3>2. TypeOK'
      BY <1>1, <2>1, <3>1, Typed, TypedNext
    <3>3. Order(r)'
      BY <1>2, <1>6, <2>1, <2>3, <3>1
    <3>4. Elsewhere(r)
      BY <1>1, <2>1, <2>2, <3>1, ElsewhereFacts
    <3> QED BY <1>4, <2>3, <3>2, <3>3, <3>4 DEF Good
  <2>5. CASE Answer(r, "error")
    <3>1. /\ req' \in [Requests -> ReqStates] /\ Others(r) /\ req'[r].pc = "over"
          /\ req'[r].kind = req[r].kind /\ req'[r].k = req[r].k /\ req'[r].answer = "error"
      BY <2>5, AnswerFacts DEF Answers
    <3>2. TypeOK'
      BY <1>1, <2>1, <3>1, Typed, TypedNext
    <3>3. Order(r)'
      BY <2>1, <3>1, ErrorOrder DEF Order
    <3>4. Elsewhere(r)
      BY <1>1, <2>1, <2>2, <3>1, ElsewhereFacts
    <3> QED BY <1>4, <2>3, <3>2, <3>3, <3>4 DEF Good
  <2> QED BY <1>8, <2>4, <2>5 DEF LaunchHetzner
<1>9. CASE LaunchTwice(r)
  <2> DEFINE up == [NoVm EXCEPT !.power = "on", !.public = TRUE, !.private = TRUE]
  <2>1. up \in VmStates /\ up.power = "on"
    BY NewVm
  <2>2. budget' \in Budgets /\ Kind(r) = "hetzner" /\ vm \in [Nodes -> VmStates]
    BY <1>9, SpendFacts, Typed DEF LaunchTwice
  <2>3. CASE /\ vm' = [vm EXCEPT ![<<r, 1>>] = up, ![<<r, 2>>] = up]
             /\ doubled' = doubled \cup {r}
             /\ req' = [req EXCEPT ![r].pc = "row", ![r].k = 2]
    <3> HIDE DEF up
    <3>1. /\ vm' \in [Nodes -> VmStates]
          /\ \A i \in {1, 2} : vm'[<<r, i>>].power = "on"
          /\ \A n \in Nodes : n[1] # r => vm'[n] = vm[n]
          /\ \A i \in Numbers \ {1, 2} : vm'[<<r, i>>] = vm[<<r, i>>]
      BY <1>3, <2>1, <2>2, <2>3
    <3>2. Swept'
      <4> DEFINE ks == {1, 2}
      <4>1. /\ ks \in SUBSET Numbers
            /\ \A i \in ks : vm'[<<r, i>>].power = "on"
            /\ \A i \in Numbers \ ks : vm'[<<r, i>>] = vm[<<r, i>>]
        BY <1>3, <3>1
      <4> HIDE DEF ks
      <4> QED BY <1>5, <3>1, <4>1
    <3>3. /\ req' \in [Requests -> ReqStates] /\ Others(r) /\ req'[r].pc = "row"
          /\ req'[r].kind = req[r].kind /\ req'[r].k = 2 /\ req'[r].nodes = {} /\ ~req'[r].partial
          /\ req'[r].answer = "none"
      <4> DEFINE s == [req[r] EXCEPT !.pc = "row", !.k = 2]
      <4>1. /\ s \in ReqStates /\ s.pc = "row" /\ s.k = 2 /\ s.kind = req[r].kind
            /\ s.nodes = {} /\ ~s.partial /\ s.answer = "none"
        BY <1>2, <1>3 DEF ReqStates, Steps, Numbers
      <4>2. req' = [req EXCEPT ![r] = s]
        BY <2>3
      <4> HIDE DEF s
      <4> QED BY <4>1, <4>2, Typed DEF Others
    <3>4. TypeOK'
      BY <1>1, <2>2, <2>3, <3>1, <3>3, Typed, TypedNext
    <3>5. Order(r)'
      BY <1>3, <1>6, <2>2, <2>3, <3>3
    <3>6. Elsewhere(r)
      BY <1>1, <2>3, <3>1, <3>3, ElsewhereFacts
    <3> QED BY <1>4, <3>2, <3>4, <3>5, <3>6 DEF Good
  <2>4. CASE /\ vm' = [vm EXCEPT ![<<r, 1>>] = up]
             /\ Answer(r, "error") /\ UNCHANGED doubled
    <3> HIDE DEF up
    <3>1. /\ vm' \in [Nodes -> VmStates]
          /\ \A i \in {1} : vm'[<<r, i>>].power = "on"
          /\ \A n \in Nodes : n[1] # r => vm'[n] = vm[n]
          /\ \A i \in Numbers \ {1} : vm'[<<r, i>>] = vm[<<r, i>>]
      BY <1>3, <2>1, <2>2, <2>4
    <3>2. Swept'
      <4> DEFINE ks == {1}
      <4>1. /\ ks \in SUBSET Numbers
            /\ \A i \in ks : vm'[<<r, i>>].power = "on"
            /\ \A i \in Numbers \ ks : vm'[<<r, i>>] = vm[<<r, i>>]
        BY <1>3, <3>1
      <4> HIDE DEF ks
      <4> QED BY <1>5, <3>1, <4>1
    <3>3. /\ req' \in [Requests -> ReqStates] /\ Others(r) /\ req'[r].pc = "over"
          /\ req'[r].kind = req[r].kind /\ req'[r].k = req[r].k /\ req'[r].answer = "error"
      BY <2>4, AnswerFacts DEF Answers
    <3>4. TypeOK'
      BY <1>1, <2>2, <2>4, <3>1, <3>3, Typed, TypedNext
    <3>5. Order(r)'
      BY <2>4, <3>3, ErrorOrder DEF Order
    <3>6. Elsewhere(r)
      BY <1>1, <2>4, <3>1, <3>3, ElsewhereFacts
    <3> QED BY <1>4, <3>2, <3>4, <3>5, <3>6 DEF Good
  <2> QED BY <1>9, <2>3, <2>4 DEF LaunchTwice
<1> QED BY <1>7, <1>8, <1>9

LEMMA CountOfAll == Cardinality(1..Count) = Count
<1>1. Count \in Int /\ 1 \in Int /\ ~(1 > Count)
  BY CloudAssumption
<1>2. Cardinality(1..Count) = IF 1 > Count THEN 0 ELSE Count - 1 + 1
  BY <1>1, FS_Interval
<1> QED BY <1>1, <1>2

(* The next machine, the swarm, or the answer.                             *)
LEMMA NodeOrder ==
  ASSUME TypeOK, NEW r \in Requests, Order(r), req[r].pc \in {"row", "enqueue"},
         NEW nodes \in SUBSET Numbers, NEW partial \in BOOLEAN, AfterNode(r, nodes, partial),
         vm' = vm, doubled' = doubled,
         nodes \subseteq 1..req[r].k, ~partial /\ r \notin doubled => nodes = 1..req[r].k,
         \A i \in nodes : row'[<<r, i>>].life # "none" /\ row'[<<r, i>>].job,
         \A i \in Numbers : row'[<<r, i>>].role = "none"
  PROVE  Order(r)'
<1> USE DEF Order
<1>1. /\ req'[r].kind = req[r].kind /\ req'[r].nodes = nodes /\ req'[r].partial = partial
      /\ req[r].k \in Nat /\ req[r].k <= Count /\ Count \in Nat /\ Count > 1
  <2>1. req'[r].kind = req[r].kind /\ req'[r].nodes = nodes /\ req'[r].partial = partial
    BY AfterNodeFacts
  <2>2. req[r].k \in 1..Count
    BY Typed DEF ReqStates
  <2> QED BY <2>1, <2>2, CloudAssumption
<1>2. Kind(r)' = Kind(r) /\ Bought(r)' = Bought(r) /\ Kind(r) \in Kinds /\ req[r].answer = "none"
  BY <1>1, Typed DEF Kind, Bought, ReqStates, Ordered
<1>3. r \notin doubled => \A i \in Numbers : vm'[<<r, i>>].power # "none" <=> i \in Bought(r)
  BY DEF BoughtAll, Alive, Buying
<1>4. /\ r \in doubled => Kind(r) = "hetzner"
      /\ Kind(r) # "many" /\ r \notin doubled => req[r].k = 1
  BY DEF Ordered
<1>5. BoughtAll(r)'
  BY <1>2, <1>3 DEF BoughtAll
<1>6. CASE Kind(r) = "many" /\ req[r].k < Count
  <2>1. req'[r].pc = "row" /\ req'[r].k = req[r].k + 1 /\ req'[r].answer = "none"
    BY <1>2, <1>6, AfterNodeFacts
  <2>2. 1..(req'[r].k - 1) = 1..req[r].k
    BY <1>1, <2>1
  <2>3. Listed(r)'
    BY <1>1, <2>1, <2>2 DEF Listed, Buying, Forming
  <2>4. Untouched(r)' /\ Ordered(r)' /\ Formed(r)' /\ Joined(r)'
    BY <1>2, <1>4, <1>6, <2>1 DEF Untouched, Ordered, Formed, Joined, Before, Forming
  <2> QED BY <1>5, <2>3, <2>4
<1>7. CASE Kind(r) = "many" /\ ~(req[r].k < Count) /\ Cardinality(nodes) > 1
  <2>1. req'[r].pc = "init" /\ req'[r].k = req[r].k /\ req'[r].answer = "none"
    BY <1>2, <1>7, AfterNodeFacts
  <2>2. Bought(r) = 1..req[r].k
    BY <1>1, <1>7 DEF Bought
  <2>3. Listed(r)'
    BY <1>1, <1>2, <2>1, <2>2 DEF Listed, Buying, Forming
  <2>4. Untouched(r)' /\ Ordered(r)' /\ Formed(r)' /\ Joined(r)'
    BY <1>1, <1>2, <1>4, <1>7, <2>1 DEF Untouched, Ordered, Formed, Joined, Before, Forming
  <2> QED BY <1>5, <2>3, <2>4
<1>8. CASE /\ ~(Kind(r) = "many" /\ req[r].k < Count)
           /\ ~(Kind(r) = "many" /\ ~(req[r].k < Count) /\ Cardinality(nodes) > 1)
  <2>1. req'[r].pc = "over" /\ req'[r].k = req[r].k /\ req'[r].answer = "created"
    BY <1>8, AfterNodeFacts
  <2>2. ~partial /\ r \notin doubled => nodes = Bought(r) /\ Kind(r) # "many"
    <3>1. ASSUME Kind(r) = "many", ~partial, r \notin doubled PROVE FALSE
      <4>1. nodes = 1..Count
        BY <1>1, <1>8, <3>1
      <4>2. Cardinality(1..Count) = Count
        BY CountOfAll
      <4> QED BY <1>1, <1>8, <3>1, <4>1, <4>2
    <3>2. 1..1 = {1}
      OBVIOUS
    <3> QED BY <1>4, <3>1, <3>2 DEF Bought
  <2>3. Listed(r)'
    BY <1>1, <1>2, <2>1, <2>2 DEF Listed, Buying
  <2>4. Untouched(r)' /\ Ordered(r)' /\ Formed(r)'
    BY <1>1, <1>2, <1>4, <2>1 DEF Untouched, Ordered, Formed, Before, Buying, Forming
  <2>5. Joined(r)'
    BY <1>1, <1>2, <1>4, <2>1, <2>2 DEF Joined
  <2> QED BY <1>5, <2>3, <2>4, <2>5
<1> QED BY <1>6, <1>7, <1>8

LEMMA RowSteps ==
  ASSUME Inv, NEW r \in Requests,
         WaitRunning(r) \/ PassOver(r) \/ CreateRow(r) \/ Enqueue(r)
  PROVE  Good(r)
<1> USE DEF Inv
<1> DEFINE k == req[r].k
           n == <<r, k>>
<1>1. /\ k \in Numbers /\ n \in Nodes /\ req[r] \in ReqStates /\ row \in [Nodes -> RowStates]
      /\ req[r].nodes \subseteq Numbers /\ req[r].partial \in BOOLEAN
      /\ \A i \in Numbers : <<r, i>> \in Nodes
  BY Typed, NodesAre DEF ReqStates, Numbers
<1>2. UNCHANGED <<token, network, group, vm, sync, doubled, budget>>
  BY DEF WaitRunning, PassOver, CreateRow, Enqueue, region
<1>3. /\ req[r].pc \in {"wait", "row", "enqueue"} /\ Alive(r)
      /\ req[r].answer = "none" /\ req[r].nodes \subseteq 1..(k - 1)
      /\ ~req[r].partial /\ r \notin doubled => req[r].nodes = 1..(k - 1)
      /\ \A i \in Numbers : row[<<r, i>>].role = "none"
      /\ \A i \in req[r].nodes : row[<<r, i>>].life # "none" /\ row[<<r, i>>].job
  BY DEF WaitRunning, PassOver, CreateRow, Enqueue, At, Order, Listed, Ordered, Formed, Alive, Buying
<1>4. Swept'
  BY <1>2 DEF Swept
<1>5. CASE WaitRunning(r)
  <2>1. /\ req' \in [Requests -> ReqStates] /\ Others(r) /\ req'[r].pc = "row"
        /\ req'[r].kind = req[r].kind /\ req'[r].k = k /\ req'[r].nodes = req[r].nodes
        /\ req'[r].partial = req[r].partial /\ req'[r].answer = req[r].answer
    BY <1>5, GotoFacts DEF WaitRunning, Steps
  <2>2. row' = row /\ req[r].pc = "wait"
    BY <1>5 DEF WaitRunning, At
  <2>3. TypeOK'
    BY <1>2, <2>1, <2>2, Typed, TypedNext
  <2>4. Kind(r)' = Kind(r) /\ Bought(r)' = Bought(r)
    BY <2>1 DEF Kind, Bought
  <2>5. Order(r)'
    <3>1. Untouched(r)' /\ BoughtAll(r)'
      BY <1>2, <1>3, <2>1, <2>4 DEF Untouched, BoughtAll, Order, Before
    <3>2. Listed(r)'
      BY <1>2, <1>3, <2>1, <2>2 DEF Listed, Buying, Forming
    <3>3. Ordered(r)'
      BY <1>2, <1>3, <2>1, <2>4 DEF Ordered, Order, Forming
    <3>4. Formed(r)' /\ Joined(r)'
      BY <1>2, <1>3, <2>1, <2>2 DEF Formed, Joined
    <3> QED BY <3>1, <3>2, <3>3, <3>4 DEF Order
  <2> QED BY <1>2, <2>1, <2>2, <2>3, <2>5, Still DEF Good
<1>6. CASE PassOver(r)
  <2>1. AfterNode(r, req[r].nodes, TRUE) /\ row' = row /\ req[r].pc = "row"
    BY <1>6 DEF PassOver, At
  <2>2. req' \in [Requests -> ReqStates] /\ Others(r)
    BY <1>1, <2>1, AfterNodeFacts
  <2>3. TypeOK'
    BY <1>2, <2>1, <2>2, Typed, TypedNext
  <2>4. req[r].nodes \subseteq 1..req[r].k
    BY <1>1, <1>3 DEF Numbers
  <2>5. Order(r)'
    BY <1>1, <1>2, <1>3, <2>1, <2>4, NodeOrder
  <2> QED BY <1>2, <2>1, <2>2, <2>3, <2>5, Still DEF Good
<1>7. ASSUME row' \in [Nodes -> RowStates], Others(r),
             \A m \in Nodes \ {n} : row'[m] = row[m], row'[n].role = "none"
      PROVE  /\ \A i \in Numbers : row'[<<r, i>>].role = "none"
             /\ \A i \in req[r].nodes : row'[<<r, i>>] = row[<<r, i>>]
             /\ Roles(r)' /\ Elsewhere(r)
  <2>1. \A i \in Numbers : row'[<<r, i>>].role = "none"
    BY <1>1, <1>3, <1>7
  <2>2. \A i \in req[r].nodes : i # k /\ <<r, i>> \in Nodes
    BY <1>1, <1>3 DEF Numbers
  <2>3. \A i \in req[r].nodes : row'[<<r, i>>] = row[<<r, i>>]
    BY <1>7, <2>2
  <2>4. \A m \in Nodes : m[1] # r => vm'[m] = vm[m] /\ row'[m] = row[m]
    BY <1>2, <1>7
  <2>5. Elsewhere(r)
    BY <1>2, <1>7, <2>4, ElsewhereFacts
  <2> QED BY <2>1, <2>3, <2>5 DEF Roles
<1>8. CASE CreateRow(r)
  <2>1. CASE token
    <3> DEFINE s == [NoRow EXCEPT !.life = "there", !.token = TRUE]
    <3>1. row' = [row EXCEPT ![n] = s] /\ Goto(r, "enqueue")
      BY <1>8, <2>1 DEF CreateRow
    <3>2. s \in RowStates /\ s.life = "there" /\ s.role = "none"
      BY DEF NoRow, RowStates, Powers
    <3> HIDE DEF s
    <3>3. /\ row' \in [Nodes -> RowStates] /\ row'[n].life = "there" /\ row'[n].role = "none"
          /\ \A m \in Nodes \ {n} : row'[m] = row[m]
      BY <1>1, <3>1, <3>2
    <3>4. /\ req' \in [Requests -> ReqStates] /\ Others(r) /\ req'[r].pc = "enqueue"
          /\ req'[r].kind = req[r].kind /\ req'[r].k = k /\ req'[r].nodes = req[r].nodes
          /\ req'[r].partial = req[r].partial /\ req'[r].answer = req[r].answer
      BY <3>1, GotoFacts DEF Steps
    <3>5. TypeOK'
      BY <1>2, <3>3, <3>4, Typed, TypedNext
    <3>6. Kind(r)' = Kind(r) /\ Bought(r)' = Bought(r)
      BY <3>4 DEF Kind, Bought
    <3>7. /\ \A i \in Numbers : row'[<<r, i>>].role = "none"
          /\ \A i \in req[r].nodes : row'[<<r, i>>] = row[<<r, i>>]
          /\ Roles(r)' /\ Elsewhere(r)
      BY <1>7, <3>3, <3>4
    <3>8. Order(r)'
      <4>1. Untouched(r)' /\ BoughtAll(r)'
        BY <1>2, <1>3, <3>4, <3>6 DEF Untouched, BoughtAll, Order, Before
      <4>2. Listed(r)'
        BY <1>2, <1>3, <3>3, <3>4, <3>7 DEF Listed, Buying, Forming
      <4>3. Ordered(r)'
        BY <1>2, <1>3, <3>4, <3>6 DEF Ordered, Order, Forming
      <4>4. Formed(r)' /\ Joined(r)'
        BY <1>2, <1>3, <3>4, <3>7 DEF Formed, Joined
      <4> QED BY <4>1, <4>2, <4>3, <4>4 DEF Order
    <3> QED BY <1>4, <3>5, <3>7, <3>8 DEF Good
  <2>2. CASE ~token
    <3>1. row' = row /\ Answer(r, "error")
      BY <1>8, <2>2 DEF CreateRow
    <3>2. TypeOK' /\ Others(r)
      BY <1>2, <3>1, AnswerFacts, Typed, TypedNext DEF Answers
    <3>3. Order(r)'
      BY <1>2, <3>1, AnswerFacts, ErrorOrder DEF Answers, Order
    <3> QED BY <1>2, <3>1, <3>2, <3>3, Still DEF Good
  <2> QED BY <2>1, <2>2
<1>9. CASE Enqueue(r)
  <2>1. /\ row' = [row EXCEPT ![n].job = TRUE]
        /\ AfterNode(r, req[r].nodes \cup {k}, req[r].partial)
        /\ req[r].pc = "enqueue" /\ row[n].life # "none"
    BY <1>9 DEF Enqueue, At, Order, Listed
  <2>2. /\ row' \in [Nodes -> RowStates] /\ row'[n].job /\ row'[n].life # "none"
        /\ row'[n].role = "none"
        /\ \A m \in Nodes \ {n} : row'[m] = row[m]
    <3> DEFINE s == [row[n] EXCEPT !.job = TRUE]
    <3>1. row[n] \in RowStates /\ row[n].role = "none"
      BY <1>1, <1>3
    <3>2. s \in RowStates /\ s.job /\ s.life = row[n].life /\ s.role = "none"
      BY <3>1 DEF RowStates
    <3>3. row' = [row EXCEPT ![n] = s]
      BY <2>1
    <3> HIDE DEF s
    <3> QED BY <1>1, <2>1, <3>2, <3>3
  <2>3. req[r].nodes \cup {k} \in SUBSET Numbers
    BY <1>1
  <2>4. req' \in [Requests -> ReqStates] /\ Others(r)
    BY <1>1, <2>1, <2>3, AfterNodeFacts
  <2>5. TypeOK'
    BY <1>2, <2>2, <2>4, Typed, TypedNext
  <2>6. /\ \A i \in Numbers : row'[<<r, i>>].role = "none"
        /\ \A i \in req[r].nodes : row'[<<r, i>>] = row[<<r, i>>]
        /\ Roles(r)' /\ Elsewhere(r)
    BY <1>7, <2>2, <2>4
  <2>7. /\ req[r].nodes \cup {k} \subseteq 1..k
        /\ ~req[r].partial /\ r \notin doubled => req[r].nodes \cup {k} = 1..k
    BY <1>1, <1>3 DEF Numbers
  <2>8. \A i \in req[r].nodes \cup {k} : row'[<<r, i>>].life # "none" /\ row'[<<r, i>>].job
    BY <1>3, <2>2, <2>6
  <2>9. Order(r)'
    <3> DEFINE nodes == req[r].nodes \cup {k}
    <3>1. /\ nodes \in SUBSET Numbers /\ nodes \subseteq 1..req[r].k
          /\ AfterNode(r, nodes, req[r].partial)
          /\ ~req[r].partial /\ r \notin doubled => nodes = 1..req[r].k
          /\ \A i \in nodes : row'[<<r, i>>].life # "none" /\ row'[<<r, i>>].job
      BY <2>1, <2>3, <2>7, <2>8
    <3>2. vm' = vm /\ doubled' = doubled
      BY <1>2
    <3> HIDE DEF nodes
    <3> QED BY <1>1, <2>1, <2>6, <3>1, <3>2, NodeOrder
  <2> QED BY <1>4, <2>5, <2>6, <2>9 DEF Good
<1> QED BY <1>5, <1>6, <1>8, <1>9

-----------------------------------------------------------------------------
(* The swarm.                                                              *)
LEMMA ManagerIsOne ==
  ASSUME TypeOK, NEW r \in Requests, Order(r), req[r].pc \in Forming, ~req[r].partial
  PROVE  Manager(r) = 1 /\ req[r].nodes = Numbers /\ r \notin doubled
<1>1. Kind(r) = "many" /\ r \notin doubled /\ Cardinality(req[r].nodes) > 1
  BY DEF Order, Ordered
<1>2. req[r].nodes = 1..Count
  BY <1>1 DEF Order, Listed, Bought
<1>3. 1 \in 1..Count
  BY CloudAssumption
<1>4. Manager(r) \in Numbers /\ Manager(r) <= 1
  BY <1>1, <1>2, <1>3, ManagerIsFirst
<1> QED BY <1>1, <1>2, <1>4 DEF Numbers

LaterRest(r) == \A i \in Numbers : req[r].k < i => row'[<<r, i>>].role = "none"
HaveJoined(r) == \A i \in 2..req[r].k : vm'[<<r, i>>].swarm = "worker"
RolesHold(r) ==
  /\ vm'[<<r, Manager(r)>>].swarm = "manager"
  /\ \A i \in Numbers : row'[<<r, i>>].role # "none" => vm'[<<r, i>>].swarm = row'[<<r, i>>].role

LEMMA WorkerOrder ==
  ASSUME TypeOK, NEW r \in Requests, Order(r), req[r].pc \in {"join", "worker"},
         NEW partial \in BOOLEAN, AfterWorker(r, partial), Kept(r), LaterRest(r), RolesHold(r),
         ~partial => ~req[r].partial /\ HaveJoined(r)
  PROVE  Order(r)' /\ Roles(r)'
<1> USE DEF Order
<1>1. /\ req'[r].kind = req[r].kind /\ req'[r].nodes = req[r].nodes
      /\ req'[r].partial = partial
  BY AfterWorkerFacts
<1>2. /\ Kind(r)' = Kind(r) /\ Bought(r)' = Bought(r) /\ Manager(r)' = Manager(r)
      /\ Alive(r) /\ Kind(r) = "many" /\ r \notin doubled /\ req[r].answer = "none"
      /\ Cardinality(req[r].nodes) > 1 /\ r \notin doubled'
  BY <1>1, SameManager DEF Kind, Bought, Alive, Forming, Ordered, Kept
<1>3. /\ Manager(r) \in Numbers /\ Manager(r) < req[r].k
      /\ req[r].k \in Nat /\ req[r].k <= Count /\ Count \in Nat
  <2>1. req[r].k \in 1..Count
    BY Typed DEF ReqStates
  <2> QED BY <1>2, <2>1, ManagerIsFirst, CloudAssumption DEF Formed
<1>4. req[r].nodes \subseteq Numbers
  BY Typed DEF ReqStates, Numbers
<1>5. BoughtAll(r)'
  BY <1>2 DEF BoughtAll, Kept
<1>6. Roles(r)'
  BY <1>3 DEF Roles, RolesHold
<1>7. CASE req[r].k < Count
  <2>1. req'[r].pc = "join" /\ req'[r].k = req[r].k + 1 /\ req'[r].answer = "none"
    BY <1>2, <1>7, AfterWorkerFacts
  <2>2. Untouched(r)' /\ Ordered(r)'
    BY <1>1, <1>2, <2>1 DEF Untouched, Ordered, Before
  <2>3. Listed(r)'
    BY <1>1, <1>2, <1>4, <2>1 DEF Listed, Kept, Buying, Forming
  <2>4. Formed(r)'
    <3>1. \A i \in Numbers : req[r].k + 1 <= i => req[r].k < i
      BY <1>3 DEF Numbers
    <3>2. /\ Manager(r)' < req'[r].k
          /\ \A i \in Numbers : req'[r].k <= i => row'[<<r, i>>].role = "none"
      <4>1. Manager(r) < req[r].k + 1
        BY <1>3 DEF Numbers
      <4> QED BY <1>2, <2>1, <3>1, <4>1 DEF LaterRest
    <3>3. vm'[<<r, Manager(r)'>>].swarm = "manager"
      BY <1>2 DEF RolesHold
    <3> QED BY <2>1, <3>2, <3>3 DEF Formed, Before, Buying
  <2>5. Joined(r)'
    <3>1. req[r].k + 1 - 1 = req[r].k
      BY <1>3
    <3>2. ~partial => \A i \in 2..(req'[r].k - 1) : vm'[<<r, i>>].swarm = "worker"
      <4>1. req'[r].k - 1 = req[r].k
        BY <1>3, <2>1
      <4> QED BY <4>1 DEF HaveJoined
    <3> QED BY <1>1, <2>1, <3>2 DEF Joined
  <2> QED BY <1>5, <1>6, <2>2, <2>3, <2>4, <2>5
<1>8. CASE ~(req[r].k < Count)
  <2>1. req'[r].pc = "over" /\ req'[r].k = req[r].k /\ req'[r].answer = "created"
    BY <1>8, AfterWorkerFacts
  <2>2. req[r].k = Count
    BY <1>3, <1>8
  <2>3. Untouched(r)' /\ Ordered(r)' /\ Formed(r)'
    BY <1>1, <1>2, <2>1 DEF Untouched, Ordered, Formed, Before, Buying, Forming
  <2>4. Listed(r)'
    <3>1. ~partial => req[r].nodes = Bought(r)
      BY <1>2 DEF Listed, Forming
    <3> QED BY <1>1, <1>2, <1>4, <2>1, <3>1 DEF Listed, Kept, Buying
  <2>5. Joined(r)'
    <3>1. ASSUME ~partial, NEW i \in Numbers
          PROVE  vm'[<<r, i>>].swarm = (IF i = 1 THEN "manager" ELSE "worker")
      <4>1. Manager(r) = 1
        BY <3>1, ManagerIsOne DEF Forming
      <4>2. CASE i = 1
        BY <4>1, <4>2 DEF RolesHold
      <4>3. CASE i # 1
        <5>1. i \in 2..req[r].k
          BY <1>3, <2>2, <4>3 DEF Numbers
        <5> QED BY <3>1, <4>3, <5>1 DEF HaveJoined
      <4> QED BY <4>2, <4>3
    <3> QED BY <1>1, <2>1, <3>1 DEF Joined
  <2> QED BY <1>5, <1>6, <2>3, <2>4, <2>5
<1> QED BY <1>7, <1>8

(* A machine of the request takes a place in the swarm.                    *)
LEMMA SwarmStep ==
  ASSUME Inv, NEW r \in Requests, NEW k \in Numbers, NEW role \in {"manager", "worker"},
         vm' = [vm EXCEPT ![<<r, k>>].swarm = role],
         UNCHANGED <<row, sync, doubled>>, Others(r)
  PROVE  /\ vm' \in [Nodes -> VmStates] /\ vm'[<<r, k>>].swarm = role
         /\ \A i \in Numbers \ {k} : vm'[<<r, i>>] = vm[<<r, i>>]
         /\ Kept(r) /\ Elsewhere(r) /\ Swept'
<1> USE DEF Inv
<1>1. <<r, k>> \in Nodes /\ \A i \in Numbers : <<r, i>> \in Nodes
  BY NodesAre
<1>2. /\ vm' \in [Nodes -> VmStates] /\ vm'[<<r, k>>].swarm = role
      /\ vm'[<<r, k>>].power = vm[<<r, k>>].power
      /\ \A m \in Nodes \ {<<r, k>>} : vm'[m] = vm[m]
  BY <1>1, SwarmFacts
<1>3. \A m \in Nodes : vm'[m].power = vm[m].power
  BY <1>2
<1>4. Kept(r)
  BY <1>1, <1>3 DEF Kept
<1>5. Elsewhere(r)
  BY <1>2, ElsewhereFacts
<1>6. Swept'
  BY <1>3 DEF Swept
<1>7. \A i \in Numbers \ {k} : vm'[<<r, i>>] = vm[<<r, i>>]
  BY <1>1, <1>2
<1> QED BY <1>2, <1>4, <1>5, <1>6, <1>7

(* Nothing moves but the request.                                          *)
LEMMA StillKept ==
  ASSUME UNCHANGED <<vm, row, doubled>>, NEW r \in Requests
  PROVE  Kept(r)
BY DEF Kept

LEMMA GiveUpStep ==
  ASSUME Inv, NEW r \in Requests, req[r].pc \in Forming, GiveUp(r), Kept(r)
  PROVE  Order(r)' /\ req' \in [Requests -> ReqStates] /\ Others(r)
BY GiveUpFacts, GaveUpOrder DEF Inv

(* The request goes on to a step of the forming, and forgets nothing.      *)
LEMMA GoesOn ==
  ASSUME TypeOK, NEW r \in Requests, Order(r), req[r].pc \in Forming, req'[r].pc \in Forming,
         req'[r].kind = req[r].kind, req'[r].nodes = req[r].nodes,
         req'[r].partial = req[r].partial, req'[r].answer = req[r].answer, Kept(r)
  PROVE  /\ Untouched(r)' /\ BoughtAll(r)' /\ Listed(r)' /\ Ordered(r)'
         /\ Manager(r)' = Manager(r) /\ Kind(r)' = Kind(r)
<1>1. /\ Cardinality(req[r].nodes) > 1 /\ Kind(r) = "many" /\ r \notin doubled
      /\ req[r].answer = "none" /\ Alive(r) /\ req[r].nodes \subseteq Numbers
  BY Typed DEF Order, Ordered, Alive, ReqStates, Numbers, Forming
<1>2. Kind(r)' = Kind(r) /\ Bought(r)' = Bought(r)
  BY DEF Kind, Bought
<1>3. Manager(r)' = Manager(r)
  BY SameManager
<1>4. Untouched(r)'
  BY DEF Untouched, Before, Forming
<1>5. BoughtAll(r)'
  BY <1>1, <1>2 DEF BoughtAll, Kept, Order
<1>6. Listed(r)'
  BY <1>1, <1>2 DEF Listed, Kept, Order, Buying, Forming
<1>7. Ordered(r)'
  BY <1>1, <1>2 DEF Ordered, Kept
<1> QED BY <1>2, <1>3, <1>4, <1>5, <1>6, <1>7

LEMMA FormSteps ==
  ASSUME Inv, NEW r \in Requests, SwarmInit(r) \/ SetManager(r) \/ JoinToken(r)
  PROVE  Good(r)
<1> USE DEF Inv
<1>1. /\ req[r].pc \in {"init", "manager", "joinToken"} /\ req[r].pc \in Forming
      /\ UNCHANGED <<token, network, group, sync, doubled>>
  BY DEF SwarmInit, SetManager, JoinToken, At, region, Forming
<1>2. /\ Cardinality(req[r].nodes) > 1 /\ Kind(r) = "many" /\ r \notin doubled
      /\ req[r].answer = "none" /\ Alive(r) /\ req[r].nodes \subseteq Numbers
      /\ req[r] \in ReqStates
  BY <1>1, Typed DEF Order, Ordered, Alive, ReqStates, Numbers
<1> DEFINE k == Manager(r)
           n == <<r, k>>
<1>3. /\ k \in Numbers /\ k + 1 \in Numbers /\ n \in Nodes
      /\ \A i \in Numbers : <<r, i>> \in Nodes
  BY <1>2, ManagerIsFirst, NodesAre
<1>4. ASSUME req'[r].pc \in Forming, req'[r].kind = req[r].kind, req'[r].nodes = req[r].nodes,
             req'[r].partial = req[r].partial, req'[r].answer = req[r].answer, Kept(r)
      PROVE  /\ Untouched(r)' /\ BoughtAll(r)' /\ Listed(r)' /\ Ordered(r)'
             /\ Manager(r)' = k /\ Kind(r)' = Kind(r)
  BY <1>1, <1>4, GoesOn
<1>5. CASE SwarmInit(r)
  <2>1. \A i \in Numbers : row[<<r, i>>].role = "none"
    BY <1>5 DEF SwarmInit, At, Order, Formed
  <2>2. row' = row /\ budget' = budget /\ req[r].pc = "init"
    BY <1>5 DEF SwarmInit, At
  <2>3. Roles(r)'
    BY <2>1, <2>2 DEF Roles
  <2>4. CASE vm' = [vm EXCEPT ![n].swarm = "manager"] /\ Goto(r, "manager")
    <3>1. /\ req' \in [Requests -> ReqStates] /\ Others(r) /\ req'[r].pc = "manager"
          /\ req'[r].kind = req[r].kind /\ req'[r].nodes = req[r].nodes
          /\ req'[r].partial = req[r].partial /\ req'[r].answer = req[r].answer
      BY <2>4, GotoFacts DEF Steps
    <3>2. /\ vm' \in [Nodes -> VmStates] /\ vm'[n].swarm = "manager"
          /\ Kept(r) /\ Elsewhere(r) /\ Swept'
      BY <1>1, <1>3, <2>2, <2>4, <3>1, SwarmStep
    <3>3. TypeOK'
      BY <1>1, <2>2, <3>1, <3>2, Typed, TypedNext
    <3>4. /\ Untouched(r)' /\ BoughtAll(r)' /\ Listed(r)' /\ Ordered(r)' /\ Manager(r)' = k
      BY <1>4, <3>1, <3>2 DEF Forming
    <3>5. Formed(r)'
      BY <2>1, <2>2, <3>1, <3>2, <3>4 DEF Formed, Before, Buying
    <3>6. Joined(r)'
      BY <1>2, <3>1 DEF Joined
    <3> QED BY <2>3, <3>2, <3>3, <3>4, <3>5, <3>6 DEF Good, Order
  <2>5. CASE vm' = vm /\ GiveUp(r)
    <3>1. Order(r)' /\ req' \in [Requests -> ReqStates] /\ Others(r)
      BY <1>1, <2>2, <2>5, StillKept, GiveUpStep
    <3>2. TypeOK'
      BY <1>1, <2>2, <2>5, <3>1, Typed, TypedNext
    <3> QED BY <1>1, <2>2, <2>5, <3>1, <3>2, Still DEF Good
  <2> QED BY <1>5, <2>4, <2>5 DEF SwarmInit
<1>6. CASE SetManager(r)
  <2>1. Role(n, "manager") /\ Goto(r, "joinToken") /\ vm' = vm /\ req[r].pc = "manager"
    BY <1>6 DEF SetManager, At
  <2>2. /\ row' \in [Nodes -> RowStates] /\ budget' \in Budgets
        /\ row'[n].life = row[n].life /\ row'[n].job = row[n].job
        /\ row'[n].role \in {row[n].role, "manager"}
        /\ \A m \in Nodes \ {n} : row'[m] = row[m]
    BY <1>3, <2>1, RoleFacts
  <2>3. /\ req' \in [Requests -> ReqStates] /\ Others(r) /\ req'[r].pc = "joinToken"
        /\ req'[r].kind = req[r].kind /\ req'[r].nodes = req[r].nodes
        /\ req'[r].partial = req[r].partial /\ req'[r].answer = req[r].answer
    BY <2>1, GotoFacts DEF Steps
  <2>4. TypeOK'
    BY <1>1, <2>1, <2>2, <2>3, Typed, TypedNext
  <2>5. Kept(r)
    <3>1. \A m \in Nodes : row'[m].life = row[m].life /\ row'[m].job = row[m].job
      BY <2>2
    <3> QED BY <1>1, <1>3, <2>1, <3>1 DEF Kept
  <2>6. /\ Untouched(r)' /\ BoughtAll(r)' /\ Listed(r)' /\ Ordered(r)' /\ Manager(r)' = k
    BY <1>4, <2>3, <2>5 DEF Forming
  <2>7. /\ vm[n].swarm = "manager"
        /\ \A i \in Numbers \ {k} : row[<<r, i>>].role = "none" /\ row'[<<r, i>>].role = "none"
    <3>1. /\ vm[n].swarm = "manager"
          /\ \A i \in Numbers \ {k} : row[<<r, i>>].role = "none"
      BY <2>1 DEF Order, Formed
    <3>2. \A i \in Numbers \ {k} : <<r, i>> \in Nodes \ {n}
      <4> HIDE DEF k
      <4> QED BY <1>3
    <3> HIDE DEF n
    <3>3. \A i \in Numbers \ {k} : row'[<<r, i>>] = row[<<r, i>>]
      BY <2>2, <3>2
    <3> QED BY <3>1, <3>3
  <2>8. Formed(r)'
    BY <2>1, <2>3, <2>6, <2>7 DEF Formed, Before, Buying
  <2>9. Joined(r)'
    BY <1>2, <2>3 DEF Joined
  <2>10. Roles(r)'
    <3>1. row[n].role # "none" => vm[n].swarm = row[n].role
      BY <1>3 DEF Roles
    <3>2. row'[n].role \in {"none", "manager"}
      BY <2>2, <2>7, <3>1
    <3> QED BY <1>3, <2>1, <2>7, <3>2 DEF Roles
  <2>11. Elsewhere(r)
    BY <1>1, <2>1, <2>2, <2>3, ElsewhereFacts
  <2>12. Swept'
    BY <1>1, <2>1 DEF Swept
  <2> QED BY <2>4, <2>6, <2>8, <2>9, <2>10, <2>11, <2>12 DEF Good, Order
<1>7. CASE JoinToken(r)
  <2>1. vm' = vm /\ row' = row /\ budget' = budget /\ req[r].pc = "joinToken"
    BY <1>7 DEF JoinToken, At
  <2>2. CASE req' = [req EXCEPT ![r].pc = "join", ![r].k = k + 1]
    <3>1. /\ req' \in [Requests -> ReqStates] /\ Others(r) /\ req'[r].pc = "join"
          /\ req'[r].kind = req[r].kind /\ req'[r].nodes = req[r].nodes /\ req'[r].k = k + 1
          /\ req'[r].partial = req[r].partial /\ req'[r].answer = req[r].answer
      <4> DEFINE s == [req[r] EXCEPT !.pc = "join", !.k = k + 1]
      <4>1. /\ s \in ReqStates /\ s.pc = "join" /\ s.k = k + 1 /\ s.kind = req[r].kind
            /\ s.nodes = req[r].nodes /\ s.partial = req[r].partial /\ s.answer = req[r].answer
        <5> HIDE DEF k
        <5> QED BY <1>2, <1>3 DEF ReqStates, Steps, Numbers
      <4>2. req' = [req EXCEPT ![r] = s]
        BY <2>2
      <4> HIDE DEF s, k
      <4> QED BY <4>1, <4>2, Typed DEF Others
    <3>2. TypeOK'
      BY <1>1, <2>1, <3>1, Typed, TypedNext
    <3>3. Elsewhere(r) /\ Roles(r)' /\ Swept' /\ Kept(r)
      BY <1>1, <2>1, <3>1, Still, StillKept
    <3>4. /\ Untouched(r)' /\ BoughtAll(r)' /\ Listed(r)' /\ Ordered(r)' /\ Manager(r)' = k
      BY <1>4, <3>1, <3>3 DEF Forming
    <3>5. /\ vm[n].swarm = "manager"
          /\ \A i \in Numbers \ {k} : row[<<r, i>>].role = "none"
      BY <2>1 DEF Order, Formed
    <3>6. k < k + 1 /\ \A i \in Numbers : k + 1 <= i => i # k
      <4> HIDE DEF k
      <4> QED BY <1>3 DEF Numbers
    <3>7. Formed(r)'
      BY <2>1, <3>1, <3>4, <3>5, <3>6 DEF Formed, Before, Buying
    <3>8. Joined(r)'
      <4>1. ~req[r].partial => 2..(req'[r].k - 1) = {}
        <5>1. ~req[r].partial => k = 1
          BY <1>1, ManagerIsOne
        <5> HIDE DEF k
        <5> QED BY <3>1, <5>1
      <4> QED BY <1>2, <3>1, <4>1 DEF Joined
    <3> QED BY <3>2, <3>3, <3>4, <3>7, <3>8 DEF Good, Order
  <2>3. CASE GiveUp(r)
    <3>1. Order(r)' /\ req' \in [Requests -> ReqStates] /\ Others(r)
      BY <1>1, <2>1, <2>3, StillKept, GiveUpStep
    <3>2. TypeOK'
      BY <1>1, <2>1, <3>1, Typed, TypedNext
    <3> QED BY <1>1, <2>1, <3>1, <3>2, Still DEF Good
  <2> QED BY <1>7, <2>2, <2>3 DEF JoinToken
<1> QED BY <1>5, <1>6, <1>7

(* A worker joins and its role is written, or the request passes over it.  *)
LEMMA JoinSteps ==
  ASSUME Inv, NEW r \in Requests, Join(r) \/ SetWorker(r)
  PROVE  Good(r)
<1> USE DEF Inv
<1> DEFINE k == req[r].k
           n == <<r, k>>
<1>1. /\ req[r].pc \in {"join", "worker"} /\ req[r].pc \in Forming
      /\ UNCHANGED <<token, network, group, sync, doubled>>
  BY DEF Join, SetWorker, At, region, Forming
<1>2. /\ Cardinality(req[r].nodes) > 1 /\ Kind(r) = "many" /\ r \notin doubled
      /\ req[r] \in ReqStates /\ k \in Numbers /\ req[r].partial \in BOOLEAN
  BY <1>1, Typed DEF Order, Ordered, ReqStates, Numbers
<1>3. /\ Manager(r) \in Numbers /\ Manager(r) < k /\ Manager(r) # k
      /\ vm[<<r, Manager(r)>>].swarm = "manager"
      /\ n \in Nodes /\ \A i \in Numbers : <<r, i>> \in Nodes
  <2>1. Manager(r) < k /\ vm[<<r, Manager(r)>>].swarm = "manager"
    BY <1>1 DEF Order, Formed
  <2>2. Manager(r) \in Numbers
    BY <1>2, ManagerIsFirst
  <2> QED BY <1>2, <2>1, <2>2, NodesAre DEF Numbers
<1>4. \A i \in Numbers : row[<<r, i>>].role # "none" => vm[<<r, i>>].swarm = row[<<r, i>>].role
  BY DEF Roles
<1>5. CASE Join(r) /\ vm' = vm /\ \E partial \in BOOLEAN :
             AfterWorker(r, partial) /\ (partial \/ (partial = req[r].partial /\ k \notin req[r].nodes))
  <2>1. PICK partial \in BOOLEAN :
          AfterWorker(r, partial) /\ (partial \/ (partial = req[r].partial /\ k \notin req[r].nodes))
    BY <1>5
  <2>2. partial
    BY <1>1, <1>2, <2>1, ManagerIsOne
  <2>3. row' = row /\ budget' = budget /\ vm' = vm /\ req[r].pc = "join"
    BY <1>5 DEF Join, At
  <2>4. req' \in [Requests -> ReqStates] /\ Others(r)
    BY <2>1, AfterWorkerFacts
  <2>5. TypeOK'
    BY <1>1, <2>3, <2>4, Typed, TypedNext
  <2>6. Elsewhere(r) /\ Swept' /\ Kept(r)
    BY <1>1, <2>3, <2>4, Still, StillKept
  <2>7. LaterRest(r)
    <3>1. \A i \in Numbers : k <= i => row[<<r, i>>].role = "none"
      BY <2>3 DEF Order, Formed
    <3>2. \A i \in Numbers : k < i => k <= i
      BY <1>2 DEF Numbers
    <3> QED BY <2>3, <3>1, <3>2 DEF LaterRest
  <2>8. RolesHold(r)
    BY <1>3, <1>4, <2>3 DEF RolesHold
  <2>9. Order(r)' /\ Roles(r)'
    BY <1>1, <2>1, <2>2, <2>6, <2>7, <2>8, WorkerOrder
  <2> QED BY <2>5, <2>6, <2>9 DEF Good
<1>6. CASE Join(r) /\ vm' = [vm EXCEPT ![n].swarm = "worker"] /\ Goto(r, "worker")
  <2>1. row' = row /\ budget' = budget /\ req[r].pc = "join"
    BY <1>6 DEF Join, At
  <2>2. /\ req' \in [Requests -> ReqStates] /\ Others(r) /\ req'[r].pc = "worker"
        /\ req'[r].kind = req[r].kind /\ req'[r].nodes = req[r].nodes /\ req'[r].k = k
        /\ req'[r].partial = req[r].partial /\ req'[r].answer = req[r].answer
    BY <1>6, GotoFacts DEF Steps
  <2>3. /\ vm' \in [Nodes -> VmStates] /\ vm'[n].swarm = "worker"
        /\ \A i \in Numbers \ {k} : vm'[<<r, i>>] = vm[<<r, i>>]
        /\ Kept(r) /\ Elsewhere(r) /\ Swept'
    BY <1>1, <1>2, <1>6, <2>1, <2>2, SwarmStep
  <2>4. TypeOK'
    BY <1>1, <2>1, <2>2, <2>3, Typed, TypedNext
  <2>5. /\ Untouched(r)' /\ BoughtAll(r)' /\ Listed(r)' /\ Ordered(r)'
        /\ Manager(r)' = Manager(r)
    BY <1>1, <2>2, <2>3, GoesOn DEF Forming
  <2>6. \A i \in Numbers : k <= i => row'[<<r, i>>].role = "none"
    BY <2>1 DEF Order, Formed
  <2>7. vm'[<<r, Manager(r)>>].swarm = "manager"
    BY <1>3, <2>3
  <2>8. Formed(r)'
    <3>1. \A i \in Numbers : k < i => k <= i
      BY <1>2 DEF Numbers
    <3>2. Manager(r)' < req'[r].k
      BY <1>3, <2>2, <2>5
    <3>3. vm'[<<r, req'[r].k>>].swarm = "worker"
      BY <2>2, <2>3
    <3>4. \A i \in Numbers : req'[r].k < i => row'[<<r, i>>].role = "none"
      BY <2>2, <2>6, <3>1
    <3>5. vm'[<<r, Manager(r)'>>].swarm = "manager"
      BY <2>5, <2>7
    <3> QED BY <2>2, <3>2, <3>3, <3>4, <3>5 DEF Formed, Before, Buying
  <2>9. Joined(r)'
    <3>1. ASSUME ~req[r].partial, NEW i \in 2..k PROVE vm'[<<r, i>>].swarm = "worker"
      <4>1. \A j \in 2..(k - 1) : vm[<<r, j>>].swarm = "worker"
        BY <1>2, <2>1, <3>1 DEF Order, Joined
      <4>2. CASE i = k
        BY <2>3, <4>2
      <4>3. CASE i # k
        <5>1. i \in 2..(k - 1) /\ i \in Numbers \ {k}
          BY <1>2, <4>3, CloudAssumption DEF Numbers
        <5> QED BY <2>3, <4>1, <5>1
      <4> QED BY <4>2, <4>3
    <3>2. r \in doubled' <=> r \in doubled
      BY <1>1
    <3>3. req'[r].answer # "created"
      BY <1>1, <2>2 DEF Order, Ordered
    <3>4. ~req'[r].partial => \A i \in 2..req'[r].k : vm'[<<r, i>>].swarm = "worker"
      BY <2>2, <3>1
    <3> QED BY <2>2, <3>3, <3>4 DEF Joined
  <2>10. Roles(r)'
    <3>1. row[n].role = "none"
      BY <1>2, <2>1, <2>6 DEF Numbers
    <3>2. ASSUME NEW i \in Numbers
          PROVE  row'[<<r, i>>].role # "none" => vm'[<<r, i>>].swarm = row'[<<r, i>>].role
      <4>1. CASE i = k
        BY <2>1, <3>1, <4>1
      <4>2. CASE i # k
        BY <1>4, <2>1, <2>3, <4>2
      <4> QED BY <4>1, <4>2
    <3> QED BY <1>3, <2>7, <3>2 DEF Roles
  <2> QED BY <2>3, <2>4, <2>5, <2>8, <2>9, <2>10 DEF Good, Order
<1>7. CASE SetWorker(r)
  <2>1. /\ Role(n, "worker") /\ AfterWorker(r, req[r].partial) /\ vm' = vm
        /\ req[r].pc = "worker"
    BY <1>7 DEF SetWorker, At
  <2>2. /\ row' \in [Nodes -> RowStates] /\ budget' \in Budgets
        /\ row'[n].life = row[n].life /\ row'[n].job = row[n].job
        /\ row'[n].role \in {row[n].role, "worker"}
        /\ \A m \in Nodes \ {n} : row'[m] = row[m]
    BY <1>3, <2>1, RoleFacts
  <2>3. req' \in [Requests -> ReqStates] /\ Others(r)
    BY <1>2, <2>1, AfterWorkerFacts
  <2>4. TypeOK'
    BY <1>1, <2>1, <2>2, <2>3, Typed, TypedNext
  <2>5. Kept(r)
    <3>1. \A m \in Nodes : row'[m].life = row[m].life /\ row'[m].job = row[m].job
      BY <2>2
    <3> QED BY <1>1, <1>3, <2>1, <3>1 DEF Kept
  <2>6. Elsewhere(r)
    BY <1>1, <2>1, <2>2, <2>3, ElsewhereFacts
  <2>7. Swept'
    BY <1>1, <2>1 DEF Swept
  <2>8. \A i \in Numbers \ {k} : row'[<<r, i>>] = row[<<r, i>>]
    <3>1. \A i \in Numbers \ {k} : <<r, i>> \in Nodes \ {n}
      <4> HIDE DEF k
      <4> QED BY <1>3
    <3> HIDE DEF n
    <3> QED BY <2>2, <3>1
  <2>9. LaterRest(r)
    <3>1. \A i \in Numbers : k < i => row[<<r, i>>].role = "none"
      BY <2>1 DEF Order, Formed
    <3>2. \A i \in Numbers : k < i => i \in Numbers \ {k}
      BY <1>2 DEF Numbers
    <3> QED BY <2>8, <3>1, <3>2 DEF LaterRest
  <2>10. RolesHold(r)
    <3>1. vm[n].swarm = "worker"
      BY <2>1 DEF Order, Formed
    <3>2. ASSUME NEW i \in Numbers, row'[<<r, i>>].role # "none"
          PROVE  vm[<<r, i>>].swarm = row'[<<r, i>>].role
      <4>1. CASE i = k
        BY <1>2, <1>4, <2>2, <3>1, <3>2, <4>1
      <4>2. CASE i # k
        BY <1>4, <2>8, <3>2, <4>2
      <4> QED BY <4>1, <4>2
    <3> QED BY <1>3, <2>1, <3>2 DEF RolesHold
  <2>11. ~req[r].partial => HaveJoined(r)
    BY <1>2, <2>1 DEF Order, Joined, HaveJoined
  <2>12. Order(r)' /\ Roles(r)'
    BY <1>1, <1>2, <2>1, <2>5, <2>9, <2>10, <2>11, WorkerOrder
  <2> QED BY <2>4, <2>6, <2>7, <2>12 DEF Good
<1> QED
  <2>1. CASE Join(r) /\ k \notin req[r].nodes
    BY <1>2, <1>5, <2>1 DEF Join
  <2>2. CASE Join(r) /\ k \in req[r].nodes /\ Reachable(r, k)
    BY <1>6, <2>2 DEF Join
  <2>3. CASE Join(r) /\ k \in req[r].nodes /\ ~Reachable(r, k)
    <3>1. vm' = vm /\ AfterWorker(r, TRUE)
      BY <2>3 DEF Join
    <3>2. \E partial \in BOOLEAN :
            AfterWorker(r, partial) /\ (partial \/ (partial = req[r].partial /\ k \notin req[r].nodes))
      <4> WITNESS TRUE \in BOOLEAN
      <4> QED BY <3>1, Zenon
    <3> QED BY <1>5, <2>3, <3>1, <3>2
  <2> QED BY <1>7, <2>1, <2>2, <2>3

(* A failing step.                                                         *)
LEMMA FailSteps ==
  ASSUME Inv, NEW r \in Requests, Fails(r)
  PROVE  Good(r)
<1> USE DEF Inv
<1>1. /\ UNCHANGED <<token, network, group, row, sync, doubled>> /\ budget' \in Budgets
      /\ req[r].pc \notin {"none", "over", "manager", "worker"}
  BY SpendFacts DEF Fails, region
<1>2. req[r] \in ReqStates /\ req[r].k \in Numbers
  BY Typed DEF ReqStates, Numbers
<1>3. ASSUME vm' = vm, Answer(r, "error") PROVE Good(r)
  <2>1. TypeOK' /\ Others(r)
    BY <1>1, <1>3, AnswerFacts, Typed, TypedNext DEF Answers
  <2>2. Order(r)'
    BY <1>1, <1>3, AnswerFacts, ErrorOrder DEF Answers, Order
  <2> QED BY <1>1, <1>3, <2>1, <2>2, Still DEF Good
<1>4. CASE req[r].pc = "join"
  <2> DEFINE k == req[r].k
             n == <<r, k>>
  <2>1. AfterWorker(r, TRUE) /\ (vm' = vm \/ vm' = [vm EXCEPT ![n].swarm = "worker"])
    BY <1>4 DEF Fails, At
  <2>2. /\ Manager(r) < k /\ vm[<<r, Manager(r)>>].swarm = "manager"
        /\ \A i \in Numbers : k <= i => row[<<r, i>>].role = "none"
    BY <1>4 DEF Order, Formed
  <2>3. /\ Cardinality(req[r].nodes) > 1 /\ req[r].pc \in Forming
    BY <1>4 DEF Order, Ordered, Forming
  <2>4. Manager(r) \in Numbers \ {k}
    BY <1>2, <2>2, <2>3, ManagerIsFirst DEF Numbers
  <2>5. req' \in [Requests -> ReqStates] /\ Others(r)
    BY <2>1, AfterWorkerFacts
  <2>6. /\ vm' \in [Nodes -> VmStates] /\ Kept(r) /\ Elsewhere(r) /\ Swept'
        /\ \A i \in Numbers \ {k} : vm'[<<r, i>>] = vm[<<r, i>>]
    <3>1. CASE vm' = vm
      BY <1>1, <2>5, <3>1, Still, StillKept, Typed
    <3>2. CASE vm' = [vm EXCEPT ![n].swarm = "worker"]
      BY <1>1, <1>2, <2>5, <3>2, SwarmStep
    <3> QED BY <2>1, <3>1, <3>2
  <2>7. TypeOK'
    BY <1>1, <2>5, <2>6, Typed, TypedNext
  <2>8. LaterRest(r)
    <3>1. \A i \in Numbers : k < i => k <= i
      BY <1>2 DEF Numbers
    <3> QED BY <1>1, <2>2, <3>1 DEF LaterRest
  <2>9. RolesHold(r)
    <3>1. row[n].role = "none"
      BY <1>2, <2>2 DEF Numbers
    <3>2. ASSUME NEW i \in Numbers, row'[<<r, i>>].role # "none"
          PROVE  vm'[<<r, i>>].swarm = row'[<<r, i>>].role
      <4>1. i \in Numbers \ {k}
        BY <1>1, <3>1, <3>2
      <4> QED BY <1>1, <2>6, <3>2, <4>1 DEF Roles
    <3> QED BY <2>2, <2>4, <2>6, <3>2 DEF RolesHold
  <2>10. Order(r)' /\ Roles(r)'
    BY <1>4, <2>1, <2>6, <2>8, <2>9, WorkerOrder
  <2> QED BY <2>6, <2>7, <2>10 DEF Good
<1>5. CASE req[r].pc \in {"init", "joinToken"}
  <2>1. GiveUp(r) /\ req[r].pc \in Forming
    BY <1>5 DEF Fails, At, Forming
  <2>2. \/ vm' = vm
        \/ req[r].pc = "init" /\ vm' = [vm EXCEPT ![<<r, Manager(r)>>].swarm = "manager"]
    BY <1>5 DEF Fails, At
  <2>3. Others(r)
    BY <2>1, GiveUpFacts
  <2>4. CASE vm' = vm
    <3>1. Order(r)' /\ req' \in [Requests -> ReqStates]
      BY <1>1, <2>1, <2>4, StillKept, GiveUpStep
    <3>2. TypeOK'
      BY <1>1, <2>4, <3>1, Typed, TypedNext
    <3> QED BY <1>1, <2>3, <2>4, <3>1, <3>2, Still DEF Good
  <2>5. CASE req[r].pc = "init" /\ vm' = [vm EXCEPT ![<<r, Manager(r)>>].swarm = "manager"]
    <3>1. Manager(r) \in Numbers
      BY <2>1, ManagerIsFirst DEF Order, Ordered
    <3>2. vm' \in [Nodes -> VmStates] /\ Kept(r) /\ Elsewhere(r) /\ Swept'
      BY <1>1, <2>3, <2>5, <3>1, SwarmStep
    <3>3. Order(r)' /\ req' \in [Requests -> ReqStates]
      BY <2>1, <3>2, GiveUpStep
    <3>4. TypeOK'
      BY <1>1, <3>2, <3>3, Typed, TypedNext
    <3>5. Roles(r)'
      BY <1>1, <2>5 DEF Roles, Order, Formed
    <3> QED BY <3>2, <3>3, <3>4, <3>5 DEF Good
  <2> QED BY <2>2, <2>4, <2>5
<1>6. CASE req[r].pc \notin {"init", "joinToken", "join"}
  BY <1>3, <1>6 DEF Fails, At
<1> QED BY <1>4, <1>5, <1>6

-----------------------------------------------------------------------------
(* What is not a step of a request.                                        *)
LEMMA RequestSteps ==
  ASSUME Inv, NEW r \in Requests, Ask(r) \/ Provision(r)
  PROVE  Inv'
<1>1. Good(r)
  BY EarlySteps, LaunchSteps, RowSteps, FormSteps, JoinSteps, FailSteps DEF Provision
<1>2. ASSUME NEW q \in Requests PROVE Order(q)' /\ Roles(q)'
  <2>1. CASE q = r
    BY <1>1, <2>1 DEF Good
  <2>2. CASE q # r
    <3>1. req'[q] = req[q] /\ World(q)
      BY <1>1, <2>2 DEF Good, Elsewhere
    <3> QED BY <3>1, OrderStays, RolesStay DEF Inv
  <2> QED BY <2>1, <2>2
<1> QED BY <1>1, <1>2 DEF Good, Inv

LEMMA WorldSteps ==
  ASSUME Inv, TypeOK', Swept', \A r \in Requests : World(r), UNCHANGED req
  PROVE  Inv'
<1>1. ASSUME NEW r \in Requests PROVE Order(r)' /\ Roles(r)'
  <2>1. World(r) /\ req'[r] = req[r]
    OBVIOUS
  <2> QED BY <2>1, OrderStays, RolesStay DEF Inv
<1> QED BY <1>1 DEF Inv

(* Where power, the cached state, or the life of a row that was there      *)
(* change.                                                                 *)
Harmless ==
  /\ doubled' = doubled /\ req' = req
  /\ \A n \in Nodes :
       /\ vm'[n].power = "none" <=> vm[n].power = "none"
       /\ vm'[n].swarm = vm[n].swarm
       /\ row'[n].life = "none" <=> row[n].life = "none"
       /\ row'[n].job = row[n].job /\ row'[n].role = row[n].role

LEMMA HarmlessSteps ==
  ASSUME Inv, TypeOK', Swept', Harmless
  PROVE  Inv'
<1>1. \A r \in Requests : World(r)
  BY NodesAre DEF Harmless, World
<1> QED BY <1>1, WorldSteps DEF Harmless

LEMMA PeopleSteps ==
  ASSUME Inv, DeleteToken \/ (\E n \in Nodes : PowerOff(n) \/ DeleteRow(n))
  PROVE  Inv'
<1> USE DEF Inv
<1>1. CASE DeleteToken
  <2>1. /\ token' = FALSE /\ UNCHANGED <<network, group, vm, req, sync, doubled>>
        /\ row' = [n \in Nodes |-> [row[n] EXCEPT !.token = FALSE]] /\ budget' \in Budgets
    BY <1>1, SpendFacts DEF DeleteToken, region
  <2>2. ASSUME NEW n \in Nodes
        PROVE  /\ row'[n] \in RowStates /\ row'[n].life = row[n].life
               /\ row'[n].job = row[n].job /\ row'[n].role = row[n].role
    <3>1. row[n] \in RowStates
      BY Typed
    <3>2. row'[n] = [row[n] EXCEPT !.token = FALSE]
      BY <2>1
    <3> QED BY <3>1, <3>2 DEF RowStates
  <2>3. row' \in [Nodes -> RowStates]
    <3>1. row' = [n \in Nodes |-> row'[n]]
      BY <2>1
    <3> QED BY <2>2, <3>1
  <2>4. TypeOK'
    BY <2>1, <2>3, Typed, TypedNext
  <2>5. Swept'
    BY <2>1 DEF Swept
  <2>6. Harmless
    BY <2>1, <2>2 DEF Harmless
  <2> QED BY <2>4, <2>5, <2>6, HarmlessSteps
<1>2. ASSUME NEW n \in Nodes, PowerOff(n) PROVE Inv'
  <2>1. /\ UNCHANGED <<token, network, group, row, req, sync, doubled>> /\ budget' \in Budgets
        /\ vm[n].power = "on" /\ vm' = [vm EXCEPT ![n].power = "off"]
    BY <1>2, SpendFacts DEF PowerOff, region
  <2>2. /\ vm' \in [Nodes -> VmStates] /\ vm'[n].power = "off" /\ vm'[n].swarm = vm[n].swarm
        /\ \A m \in Nodes \ {n} : vm'[m] = vm[m]
    BY <2>1, PowerFacts DEF Powers
  <2>3. TypeOK'
    BY <2>1, <2>2, Typed, TypedNext
  <2>4. Harmless
    BY <2>1, <2>2 DEF Harmless
  <2>5. Swept'
    BY <2>1, <2>4 DEF Swept, Harmless
  <2> QED BY <2>3, <2>4, <2>5, HarmlessSteps
<1>3. ASSUME NEW n \in Nodes, DeleteRow(n) PROVE Inv'
  <2>1. /\ UNCHANGED <<token, network, group, vm, req, sync, doubled>> /\ budget' \in Budgets
        /\ row[n].life = "there" /\ row' = [row EXCEPT ![n].life = "gone"]
    BY <1>3, SpendFacts DEF DeleteRow, region
  <2> DEFINE s == [row[n] EXCEPT !.life = "gone"]
  <2>2. row \in [Nodes -> RowStates] /\ row[n] \in RowStates
    BY Typed
  <2>3. s \in RowStates /\ s.life = "gone" /\ s.job = row[n].job /\ s.role = row[n].role
    BY <2>2 DEF RowStates
  <2>4. row' = [row EXCEPT ![n] = s]
    BY <2>1
  <2> HIDE DEF s
  <2>5. /\ row' \in [Nodes -> RowStates] /\ row'[n] = s
        /\ \A m \in Nodes \ {n} : row'[m] = row[m]
    BY <2>2, <2>3, <2>4
  <2>6. TypeOK'
    BY <2>1, <2>5, Typed, TypedNext
  <2>7. Harmless
    BY <2>1, <2>3, <2>5 DEF Harmless
  <2>8. Swept'
    BY <2>1 DEF Swept
  <2> QED BY <2>6, <2>7, <2>8, HarmlessSteps
<1> QED BY <1>1, <1>2, <1>3

LEMMA RestartStep ==
  ASSUME Inv, Restart
  PROVE  Inv'
<1> USE DEF Inv
<1>1. /\ UNCHANGED <<token, network, group, vm, row, doubled>> /\ budget' \in Budgets
      /\ sync' = Resting
  BY SpendFacts DEF Restart, region
<1> DEFINE cut(q) == [req[q] EXCEPT !.pc = "over", !.answer = "lost"]
<1>2. req' = [q \in Requests |-> IF req[q].pc \in {"none", "over"} THEN req[q] ELSE cut(q)]
  BY DEF Restart
<1>3. ASSUME NEW q \in Requests
      PROVE  /\ cut(q) \in ReqStates /\ cut(q).pc = "over" /\ cut(q).answer = "lost"
             /\ cut(q).kind = req[q].kind /\ cut(q).k = req[q].k
  <2>1. req[q] \in ReqStates
    BY Typed
  <2> QED BY <2>1 DEF ReqStates, Steps, Answers
<1> HIDE DEF cut
<1>4. req' \in [Requests -> ReqStates]
  <2>1. \A q \in Requests : (IF req[q].pc \in {"none", "over"} THEN req[q] ELSE cut(q)) \in ReqStates
    BY <1>3, Typed
  <2> QED BY <1>2, <2>1
<1>5. Resting \in SyncStates
  BY DEF Resting, SyncStates, Powers
<1>6. TypeOK'
  BY <1>1, <1>4, <1>5, Typed, TypedNext
<1>7. Swept'
  BY <1>1 DEF Swept, Resting
<1>8. ASSUME NEW q \in Requests PROVE Order(q)' /\ Roles(q)'
  <2>1. World(q)
    BY <1>1 DEF World
  <2>2. CASE req[q].pc \in {"none", "over"}
    <3>1. req'[q] = req[q]
      BY <1>2, <2>2
    <3> QED BY <2>1, <3>1, OrderStays, RolesStay
  <2>3. CASE req[q].pc \notin {"none", "over"}
    <3>1. req'[q] = cut(q)
      BY <1>2, <2>3
    <3>2. Order(q)'
      BY <1>1, <1>3, <3>1, ErrorOrder DEF Order
    <3> QED BY <2>1, <3>2, RolesStay
  <2> QED BY <2>2, <2>3
<1> QED BY <1>6, <1>7, <1>8

LEMMA OnwardFacts ==
  ASSUME TypeOK
  PROVE  Onward \in SyncStates /\ Onward.pc \in {"rest", "look"}
<1>1. sync \in SyncStates
  BY Typed
<1>2. Resting \in SyncStates /\ Resting.pc = "rest"
  BY DEF Resting, SyncStates, Powers
<1> DEFINE s == [sync EXCEPT !.pc = "look", !.at = NoNode, !.live = "none"]
<1>3. s \in SyncStates /\ s.pc = "look"
  BY <1>1 DEF SyncStates, Powers
<1>4. Onward \in {Resting, s}
  BY DEF Onward
<1> HIDE DEF s
<1> QED BY <1>2, <1>3, <1>4

LEMMA SyncSteps ==
  ASSUME Inv, Sync
  PROVE  Inv'
<1> USE DEF Inv
<1>1. sync \in SyncStates /\ UNCHANGED <<token, network, group, req, doubled>>
  BY Typed DEF Sync, SyncLists, SyncLooks, SyncWrites, SyncPowersOn, syncSame, region
<1>2. CASE SyncLists
  <2>1. UNCHANGED <<vm, row, budget>>
    BY <1>2 DEF SyncLists
  <2> DEFINE listed == {n \in Nodes : row[n].life = "there" /\ row[n].token}
  <2>2. sync' = [Resting EXCEPT !.pc = "look", !.todo = listed]
    BY <1>2 DEF SyncLists
  <2>3. listed \in SUBSET Nodes
    OBVIOUS
  <2> HIDE DEF listed
  <2>4. sync' \in SyncStates /\ sync'.pc = "look"
    BY <2>2, <2>3 DEF Resting, SyncStates, Powers
  <2>5. TypeOK'
    BY <1>1, <2>1, <2>4, Typed, TypedNext
  <2>6. Swept' /\ Harmless
    BY <1>1, <2>1, <2>4 DEF Swept, Harmless
  <2> QED BY <2>5, <2>6, HarmlessSteps
<1>3. ASSUME NEW n \in Nodes, SyncLooks(n) PROVE Inv'
  <2> DEFINE rest == sync.todo \ {n}
             onto == [sync EXCEPT !.todo = rest]
             skip == IF rest = {} THEN Resting ELSE onto
             found == [pc |-> "write", todo |-> rest, at |-> n, live |-> vm[n].power]
  <2>1. UNCHANGED <<vm, row>> /\ sync.pc = "look" /\ budget' \in Budgets
    BY <1>3, SpendFacts, Typed DEF SyncLooks
  <2>2. sync' \in {skip, Resting, found}
    BY <1>3 DEF SyncLooks
  <2>3. rest \in SUBSET Nodes /\ vm[n].power \in Powers
    BY <1>1, Typed DEF SyncStates, VmStates
  <2> HIDE DEF rest
  <2>4. Resting \in SyncStates /\ Resting.pc = "rest"
    BY DEF Resting, SyncStates, Powers
  <2>5. onto \in SyncStates /\ onto.pc = "look"
    BY <1>1, <2>1, <2>3 DEF SyncStates
  <2>6. found \in SyncStates /\ found.at = n /\ found.live = vm[n].power /\ found.pc = "write"
    BY <2>3 DEF SyncStates
  <2> HIDE DEF onto, found
  <2>7. sync' \in SyncStates /\ (sync' = found \/ sync'.pc \in {"rest", "look"})
    BY <2>2, <2>4, <2>5, <2>6
  <2>8. TypeOK'
    BY <1>1, <2>1, <2>7, Typed, TypedNext
  <2>9. Swept'
    BY <2>1, <2>6, <2>7 DEF Swept
  <2>10. Harmless
    BY <1>1, <2>1 DEF Harmless
  <2> QED BY <2>8, <2>9, <2>10, HarmlessSteps
<1>4. CASE SyncWrites
  <2>1. /\ vm' = vm /\ budget' \in Budgets /\ sync.pc = "write"
        /\ row' = row \/ row' = [row EXCEPT ![sync.at].cache = sync.live]
    BY <1>4, SpendFacts, Typed DEF SyncWrites
  <2>2. sync.at \in Nodes /\ sync.live \in Powers
    BY <1>1, <2>1 DEF Swept, SyncStates
  <2> DEFINE s == [row[sync.at] EXCEPT !.cache = sync.live]
  <2>3. row \in [Nodes -> RowStates] /\ row[sync.at] \in RowStates
    BY <2>2, Typed
  <2>4. /\ s \in RowStates /\ s.life = row[sync.at].life /\ s.job = row[sync.at].job
        /\ s.role = row[sync.at].role
    BY <2>2, <2>3 DEF RowStates
  <2>5. row' = row \/ row' = [row EXCEPT ![sync.at] = s]
    BY <2>1
  <2> HIDE DEF s
  <2>6. row' \in [Nodes -> RowStates] /\ Harmless
    BY <1>1, <2>1, <2>2, <2>3, <2>4, <2>5 DEF Harmless
  <2> DEFINE on == [sync EXCEPT !.pc = "poweron"]
  <2>7. /\ on \in SyncStates /\ on.pc = "poweron" /\ on.at = sync.at /\ on.live = sync.live
    BY <1>1 DEF SyncStates
  <2>8. sync' = Onward \/ (sync.live = "off" /\ sync' = on)
    BY <1>4 DEF SyncWrites
  <2> HIDE DEF on
  <2>9. TypeOK'
    BY <1>1, <2>1, <2>6, <2>7, <2>8, OnwardFacts, Typed, TypedNext
  <2>10. Swept'
    BY <2>1, <2>2, <2>7, <2>8, OnwardFacts DEF Swept
  <2> QED BY <2>6, <2>9, <2>10, HarmlessSteps
<1>5. CASE SyncPowersOn
  <2>1. /\ row' = row /\ budget' \in Budgets /\ sync.pc = "poweron" /\ sync' = Onward
        /\ vm' = vm \/ vm' = [vm EXCEPT ![sync.at].power = "on"]
    BY <1>5, SpendFacts, Typed DEF SyncPowersOn
  <2>2. sync.at \in Nodes /\ vm[sync.at].power # "none"
    BY <2>1 DEF Swept
  <2>3. /\ vm' \in [Nodes -> VmStates]
        /\ vm'[sync.at].power # "none" /\ vm'[sync.at].swarm = vm[sync.at].swarm
        /\ \A m \in Nodes \ {sync.at} : vm'[m] = vm[m]
    BY <2>1, <2>2, PowerFacts, Typed DEF Powers
  <2>4. TypeOK'
    BY <1>1, <2>1, <2>3, OnwardFacts, Typed, TypedNext
  <2>5. Swept'
    BY <2>1, OnwardFacts DEF Swept
  <2>6. Harmless
    BY <1>1, <2>1, <2>2, <2>3 DEF Harmless
  <2> QED BY <2>4, <2>5, <2>6, HarmlessSteps
<1> QED BY <1>2, <1>3, <1>4, <1>5 DEF Sync

-----------------------------------------------------------------------------
LEMMA InvInit == Init => Inv
<1> SUFFICES ASSUME Init PROVE Inv
  OBVIOUS
<1>1. PICK order \in Orders :
        req = [r \in Requests |-> [kind |-> order[r], pc |-> "none", k |-> 1, nodes |-> {},
                                   partial |-> FALSE, answer |-> "none"]]
  BY DEF Init
<1>2. \A r \in Requests : order[r] \in Kinds
  BY CloudAssumption
<1>3. /\ \A n \in Nodes : vm[n] = NoVm /\ row[n] = NoRow
      /\ sync = Resting /\ doubled = {}
  BY DEF Init
<1>4. TypeOK
  <2>1. NoVm \in VmStates /\ NoRow \in RowStates
    BY DEF NoVm, NoRow, VmStates, RowStates, Powers
  <2>2. Resting \in SyncStates
    BY DEF Resting, SyncStates, Powers
  <2>3. [edits |-> MaxEdits, faults |-> MaxFaults] \in Budgets
    BY CloudAssumption DEF Budgets
  <2>4. 1 \in 1..Count
    BY CloudAssumption
  <2>5. req \in [Requests -> ReqStates]
    BY <1>1, <1>2, <2>4 DEF ReqStates, Steps, Answers
  <2>6. vm \in [Nodes -> VmStates] /\ row \in [Nodes -> RowStates]
    BY <2>1 DEF Init
  <2> QED BY <2>2, <2>3, <2>5, <2>6, Typed DEF Init
<1>5. Swept
  BY <1>3 DEF Swept, Resting
<1>6. ASSUME NEW r \in Requests PROVE Order(r) /\ Roles(r)
  <2>1. /\ req[r].pc = "none" /\ req[r].k = 1 /\ req[r].nodes = {} /\ ~req[r].partial
        /\ req[r].answer = "none"
    BY <1>1
  <2>2. /\ \A i \in Numbers : vm[<<r, i>>].power = "none" /\ row[<<r, i>>].role = "none"
        /\ r \notin doubled
    BY <1>3, NodesAre DEF NoVm, NoRow
  <2>3. Untouched(r) /\ BoughtAll(r) /\ Listed(r)
    BY <2>1, <2>2 DEF Untouched, BoughtAll, Listed, Alive, Buying, Forming
  <2>4. Ordered(r) /\ Formed(r) /\ Joined(r)
    BY <2>1, <2>2 DEF Ordered, Formed, Joined, Forming
  <2> QED BY <2>2, <2>3, <2>4 DEF Order, Roles
<1> QED BY <1>4, <1>5, <1>6 DEF Inv

LEMMA InvNext == Inv /\ [Next]_vars => Inv'
<1> SUFFICES ASSUME Inv, [Next]_vars PROVE Inv'
  OBVIOUS
<1>1. CASE Next
  BY <1>1, RequestSteps, PeopleSteps, RestartStep, SyncSteps DEF Next
<1>2. CASE UNCHANGED vars
  <2>1. UNCHANGED <<token, network, group, vm, row, req, sync, doubled, budget>>
    BY <1>2 DEF vars, region
  <2>2. TypeOK' /\ Swept'
    BY <2>1 DEF Inv, TypeOK, Swept
  <2>3. Harmless
    BY <2>1 DEF Harmless
  <2> QED BY <2>2, <2>3, HarmlessSteps
<1> QED BY <1>1, <1>2

LEMMA Invariance == Spec => []Inv
BY InvInit, InvNext, PTL DEF Spec

(* The variables of CloudServers keep their types.                         *)
THEOREM Typing == Spec => []TypeOK
<1>1. Inv => TypeOK
  BY DEF Inv
<1> QED BY <1>1, Invariance, PTL

(* Of a swarm that create_aws buys, a role in server_settings is one that  *)
(* `swarm init` or `swarm join` gave the machine, and a worker on record   *)
(* has a manager, however many requests run and whatever fails.            *)
THEOREM RealRoles == Spec => []RolesAreReal
<1>1. Inv => RolesAreReal
  <2> SUFFICES ASSUME Inv, NEW n \in Nodes
               PROVE  /\ row[n].role # "none" => vm[n].swarm = row[n].role
                      /\ row[n].role = "worker" => \E m \in Nodes : m[1] = n[1] /\ vm[m].swarm = "manager"
    BY DEF RolesAreReal
  <2>1. PICK r \in Requests, i \in Numbers : n = <<r, i>>
    BY DEF Nodes, Numbers
  <2>2. Roles(r)
    BY DEF Inv
  <2>3. \A j \in Numbers : <<r, j>> \in Nodes /\ <<r, j>>[1] = n[1]
    BY <2>1, NodesAre
  <2> QED BY <2>1, <2>2, <2>3 DEF Roles
<1> QED BY <1>1, Invariance, PTL

(* An answer of POST /servers/provision that does not say "partial" tells  *)
(* the truth about what was bought, recorded and joined, for any number of *)
(* requests, machines and failures.                                        *)
THEOREM Truth == Spec => []TruthfulAnswer
<1> DEFINE bought(r) == {n \in Nodes : n[1] = r /\ vm[n].power # "none"}
<1>1. ASSUME Inv, NEW r \in Requests,
             req[r].answer = "created", ~req[r].partial, r \notin doubled
      PROVE  /\ bought(r) = {r} \X Bought(r)
             /\ \A n \in bought(r) : row[n].life # "none" /\ row[n].job
             /\ Kind(r) = "many" =>
                  /\ \E m \in bought(r) : \A n \in bought(r) :
                       vm[n].swarm = (IF n = m THEN "manager" ELSE "worker")
  <2>1. /\ \A i \in Numbers : vm[<<r, i>>].power # "none" <=> i \in Bought(r)
        /\ req[r].nodes = Bought(r)
        /\ \A i \in Bought(r) : row[<<r, i>>].life # "none" /\ row[<<r, i>>].job
    BY <1>1 DEF Inv, Order, BoughtAll, Listed, Alive
  <2>2. Bought(r) \subseteq Numbers /\ 1 \in Bought(r)
    BY CloudAssumption DEF Bought, Numbers
  <2>3. \A n \in Nodes : n[1] = r <=> \E i \in Numbers : n = <<r, i>>
    BY DEF Nodes, Numbers
  <2>4. bought(r) = {r} \X Bought(r)
    <3>1. ASSUME NEW n \in bought(r) PROVE n \in {r} \X Bought(r)
      <4>1. n \in Nodes /\ n[1] = r /\ vm[n].power # "none"
        BY <1>1
      <4>2. PICK i \in Numbers : n = <<r, i>>
        BY <2>3, <4>1
      <4> QED BY <2>1, <4>1, <4>2
    <3>2. ASSUME NEW i \in Bought(r) PROVE <<r, i>> \in bought(r)
      BY <1>1, <2>1, <2>2, NodesAre
    <3> QED BY <3>1, <3>2
  <2>5. \A n \in bought(r) : row[n].life # "none" /\ row[n].job
    BY <2>1, <2>4
  <2>6. ASSUME Kind(r) = "many"
        PROVE  \E m \in bought(r) : \A n \in bought(r) :
                 vm[n].swarm = (IF n = m THEN "manager" ELSE "worker")
    <3>1. \A i \in Numbers : vm[<<r, i>>].swarm = (IF i = 1 THEN "manager" ELSE "worker")
      BY <1>1, <2>6 DEF Inv, Order, Joined
    <3>2. <<r, 1>> \in bought(r)
      BY <2>2, <2>4
    <3>3. ASSUME NEW n \in bought(r)
          PROVE  vm[n].swarm = (IF n = <<r, 1>> THEN "manager" ELSE "worker")
      <4>1. PICK i \in Bought(r) : n = <<r, i>>
        BY <2>4
      <4> QED BY <2>2, <3>1, <4>1
    <3> QED BY <3>2, <3>3
  <2> QED BY <2>4, <2>5, <2>6
<1>2. Inv => TruthfulAnswer
  BY <1>1 DEF TruthfulAnswer
<1> QED BY <1>2, Invariance, PTL

=============================================================================
