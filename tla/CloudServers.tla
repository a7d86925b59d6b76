---------------------------- MODULE CloudServers ----------------------------
(***************************************************************************)
(* Servers that rustify buys: POST /servers/provision/hetzner and /aws     *)
(* (crates/rustify-server: routes/cloud.rs, hetzner.rs, routes/aws.rs,     *)
(* aws.rs), the swarm formed of what one request bought, and the sweeps    *)
(* that keep the cached power state of the machines and turn those of      *)
(* Hetzner on again.                                                       *)
(*                                                                         *)
(* A request is answered when all of it is done: one action is one call of *)
(* a provider, one remote command or one SQL statement of it.  A machine   *)
(* is named by the request that bought it and a number.  All requests use  *)
(* the same token; those for AWS share a region and its security group.    *)
(***************************************************************************)
EXTENDS Naturals, FiniteSets

CONSTANTS
  Requests,
  Orders,         \* what the requests may ask for
  Count,          \* machines of a request for many
  NoNode,
  MaxEdits,       \* bounds on what people turn off and delete
  MaxFaults       \* and on failing calls, statements and restarts

Kinds == {"hetzner", "one", "many"}

ASSUME CloudAssumption ==
  /\ Orders \subseteq [Requests -> Kinds]
  /\ Count \in Nat /\ Count > 1
  /\ MaxEdits \in Nat /\ MaxFaults \in Nat
  /\ NoNode \notin Requests \X (1..Count)

Nodes == Requests \X (1..Count)

VARIABLES
  token,      \* whether the token is stored
  network,    \* the VPC of the region: its default, or how far create_network has come
  group,      \* the security group, and the ports it opens
  vm,         \* machines at the provider
  row,        \* servers and server_settings
  req,        \* the requests in progress, and their answers
  sync,       \* where the sweep is
  doubled,    \* requests that launched a machine more than once (history)
  budget

region == <<network, group>>
vars == <<token, region, vm, row, req, sync, doubled, budget>>

NoVm == [power |-> "none", public |-> FALSE, private |-> FALSE, swarm |-> "none"]
NoRow == [life |-> "none", job |-> FALSE, token |-> FALSE, role |-> "none", cache |-> "none"]
Steps == {"none", "network", "subnet", "route", "group", "ingress", "key",
          "launch", "wait", "row", "enqueue", "init", "manager", "joinToken", "join", "worker", "over"}
Resting == [pc |-> "rest", todo |-> {}, at |-> NoNode, live |-> "none"]
Powers == {"none", "on", "off"}

TypeOK ==
  /\ token \in BOOLEAN
  /\ network \in {"default", "none", "vpc", "subnet", "routed"}
  /\ group \in {"none", "closed", "web", "swarm"}
  /\ vm \in [Nodes -> [power: Powers, public: BOOLEAN, private: BOOLEAN,
                       swarm: {"none", "manager", "worker"}]]
  /\ row \in [Nodes -> [life: {"none", "there", "gone"}, job: BOOLEAN, token: BOOLEAN,
                        role: {"none", "manager", "worker"}, cache: Powers]]
  /\ req \in [Requests -> [kind: Kinds, pc: Steps, k: 1..Count, nodes: SUBSET (1..Count),
                           partial: BOOLEAN, answer: {"none", "created", "error", "lost"}]]
  /\ sync \in [pc: {"rest", "look", "write", "poweron"}, todo: SUBSET Nodes,
               at: Nodes \cup {NoNode}, live: Powers]
  /\ doubled \subseteq Requests
  /\ budget \in [edits: 0..MaxEdits, faults: 0..MaxFaults]

(* A region has its default VPC, one that was made before, or none.        *)
Init ==
  /\ token = TRUE
  /\ network \in {"default", "none", "routed"} /\ group = "none"
  /\ vm = [n \in Nodes |-> NoVm] /\ row = [n \in Nodes |-> NoRow]
  /\ \E order \in Orders :
       req = [r \in Requests |-> [kind |-> order[r], pc |-> "none", k |-> 1, nodes |-> {},
                                  partial |-> FALSE, answer |-> "none"]]
  /\ sync = Resting
  /\ doubled = {}
  /\ budget = [edits |-> MaxEdits, faults |-> MaxFaults]

Spend(what) == budget[what] > 0 /\ budget' = [budget EXCEPT ![what] = @ - 1]

-----------------------------------------------------------------------------
(* Steps of request r                                                      *)
At(r, pc) == req[r].pc = pc
Goto(r, pc) == req' = [req EXCEPT ![r].pc = pc]
Answer(r, what) == req' = [req EXCEPT ![r].pc = "over", ![r].answer = what]
Kind(r) == req[r].kind

(* The token is read and decrypted once.                                   *)
Ask(r) ==
  /\ At(r, "none")
  /\ IF ~token THEN Answer(r, "error")
     ELSE Goto(r, IF Kind(r) = "hetzner" THEN "key" ELSE "network")
  /\ UNCHANGED <<token, region, vm, row, sync, doubled, budget>>

(* ensure_network: the VPC there is, if it has a subnet, or a new one,     *)
(* made of it step by step.                                                *)
EnsureNetwork(r) ==
  /\ \/ At(r, "network") /\ network = "none" /\ network' = "vpc" /\ Goto(r, "subnet")
     \/ At(r, "network") /\ network = "vpc" /\ UNCHANGED network /\ Answer(r, "error")
     \/ At(r, "network") /\ network \in {"default", "subnet", "routed"} /\ UNCHANGED network
          /\ Goto(r, "group")
     \/ At(r, "subnet") /\ network' = "subnet" /\ Goto(r, "route")
     \/ At(r, "route") /\ network' = "routed" /\ Goto(r, "group")
  /\ UNCHANGED <<token, group, vm, row, sync, doubled, budget>>

(* ensure_security_group and authorize_ingress.  A group that is there is  *)
(* taken as it is.                                                         *)
EnsureGroup(r) ==
  /\ \/ At(r, "group") /\ group = "none" /\ group' = "closed" /\ Goto(r, "ingress")
     \/ At(r, "group") /\ group # "none" /\ UNCHANGED group /\ Goto(r, "launch")
     \/ /\ At(r, "ingress")
        /\ group' = IF Kind(r) = "many" THEN "swarm" ELSE "web"
        /\ Goto(r, "launch")
  /\ UNCHANGED <<token, network, vm, row, sync, doubled, budget>>

(* ensure_ssh_key: the key of this fingerprint that is there, on whichever *)
(* page of the list, or a new one; its name taken by another is an error.  *)
EnsureKey(r) ==
  /\ At(r, "key")
  /\ Goto(r, "launch")
  /\ UNCHANGED <<token, region, vm, row, sync, doubled, budget>>

Bought(r) == IF Kind(r) = "many" THEN 1..Count ELSE {1}

(* Machines come up, with a public address if they are given one; that an  *)
(* address is missing for another reason costs a fault.                    *)
Launched(r, ks, addressed) ==
  LET up == [NoVm EXCEPT !.power = "on", !.public = addressed, !.private = TRUE] IN
  \/ /\ vm' = [n \in Nodes |-> IF n \in {r} \X ks THEN up ELSE vm[n]]
     /\ UNCHANGED budget
  \/ /\ Spend("faults")
     /\ \E k \in ks, public \in {FALSE, addressed} :
          vm' = [n \in Nodes |->
                   CASE n = <<r, k>> -> [up EXCEPT !.public = public, !.private = ~public]
                     [] n \in {r} \X (ks \ {k}) -> up
                     [] OTHER -> vm[n]]

(* run_instances, with the key pair and the image.  The subnet of a VPC    *)
(* that create_network made maps no public address on launch.              *)
LaunchAws(r) ==
  /\ At(r, "launch") /\ Kind(r) # "hetzner"
  /\ Launched(r, Bought(r), network = "default")
  /\ Goto(r, "wait")
  /\ UNCHANGED <<token, region, row, sync, doubled>>

(* create_server.  No public address is an error, with the machine left.   *)
LaunchHetzner(r) ==
  /\ At(r, "launch") /\ Kind(r) = "hetzner"
  /\ Launched(r, {1}, TRUE)
  /\ IF vm'[<<r, 1>>].public THEN Goto(r, "row") ELSE Answer(r, "error")
  /\ UNCHANGED <<token, region, row, sync, doubled>>

(* request: a call whose answer does not come is made again.  The provider *)
(* refuses the second machine of a name, or makes it.                      *)
LaunchTwice(r) ==
  /\ At(r, "launch") /\ Kind(r) = "hetzner"
  /\ Spend("faults")
  /\ \E again \in BOOLEAN :
       LET up == [NoVm EXCEPT !.power = "on", !.public = TRUE, !.private = TRUE] IN
       IF again THEN /\ vm' = [vm EXCEPT ![<<r, 1>>] = up, ![<<r, 2>>] = up]
                     /\ doubled' = doubled \cup {r}
                     /\ req' = [req EXCEPT ![r].pc = "row", ![r].k = 2]
                ELSE /\ vm' = [vm EXCEPT ![<<r, 1>>] = up]
                     /\ Answer(r, "error")
                     /\ UNCHANGED doubled
  /\ UNCHANGED <<token, region, row, sync>>

(* wait_running: every machine runs and passes its checks.                 *)
WaitRunning(r) ==
  /\ At(r, "wait")
  /\ \A k \in Bought(r) : vm[<<r, k>>].power = "on"
  /\ Goto(r, "row")
  /\ UNCHANGED <<token, region, vm, row, sync, doubled, budget>>

Last(r) == IF Kind(r) = "many" THEN Count ELSE req[r].k

(* What follows machine number k: the next one, the swarm or the answer.   *)
AfterNode(r, nodes, partial) ==
  req' = [req EXCEPT ![r].nodes = nodes, ![r].partial = partial,
            ![r].pc = IF req[r].k < Last(r) THEN "row"
                      ELSE IF Kind(r) = "many" /\ Cardinality(nodes) > 1 THEN "init" ELSE "over",
            ![r].k = IF req[r].k < Last(r) THEN @ + 1 ELSE @,
            ![r].answer = IF req[r].k < Last(r) \/ (Kind(r) = "many" /\ Cardinality(nodes) > 1)
                            THEN @ ELSE "created"]

(* A machine without a public address is passed over.                      *)
PassOver(r) ==
  /\ At(r, "row") /\ ~vm[<<r, req[r].k>>].public
  /\ AfterNode(r, req[r].nodes, TRUE)
  /\ UNCHANGED <<token, region, vm, row, sync, doubled, budget>>

(* create_hetzner, create_aws: the row refers to the token.                *)
CreateRow(r) ==
  LET n == <<r, req[r].k>> IN
  /\ At(r, "row") /\ vm[n].public
  /\ IF token
       THEN /\ row' = [row EXCEPT ![n] = [NoRow EXCEPT !.life = "there", !.token = TRUE]]
            /\ Goto(r, "enqueue")
       ELSE UNCHANGED row /\ Answer(r, "error")
  /\ UNCHANGED <<token, region, vm, sync, doubled, budget>>

(* The validation of the server.                                           *)
Enqueue(r) ==
  /\ At(r, "enqueue")
  /\ row' = [row EXCEPT ![<<r, req[r].k>>].job = TRUE]
  /\ AfterNode(r, req[r].nodes \cup {req[r].k}, req[r].partial)
  /\ UNCHANGED <<token, region, vm, sync, doubled, budget>>

Manager(r) == CHOOSE k \in req[r].nodes : \A i \in req[r].nodes : k <= i

GiveUp(r) == req' = [req EXCEPT ![r].partial = TRUE, ![r].pc = "over", ![r].answer = "created"]

(* form_swarm: docker and `swarm init` on the first node, at its private   *)
(* address.                                                                *)
SwarmInit(r) ==
  LET n == <<r, Manager(r)>> IN
  /\ At(r, "init")
  /\ IF vm[n].private /\ vm[n].power = "on"
       THEN vm' = [vm EXCEPT ![n].swarm = "manager"] /\ Goto(r, "manager")
       ELSE UNCHANGED vm /\ GiveUp(r)
  /\ UNCHANGED <<token, region, row, sync, doubled, budget>>

(* The role is written, or not: the error is ignored.                      *)
Role(n, role) ==
  \/ /\ row' = IF row[n].life = "there" THEN [row EXCEPT ![n].role = role] ELSE row
     /\ UNCHANGED budget
  \/ Spend("faults") /\ UNCHANGED row

SetManager(r) ==
  /\ At(r, "manager")
  /\ Role(<<r, Manager(r)>>, "manager")
  /\ Goto(r, "joinToken")
  /\ UNCHANGED <<token, region, vm, sync, doubled>>

JoinToken(r) ==
  /\ At(r, "joinToken")
  /\ IF vm[<<r, Manager(r)>>].power = "on"
       THEN req' = [req EXCEPT ![r].pc = "join", ![r].k = Manager(r) + 1]
       ELSE GiveUp(r)
  /\ UNCHANGED <<token, region, vm, row, sync, doubled, budget>>

(* The next worker, or the answer.                                         *)
AfterWorker(r, partial) ==
  req' = [req EXCEPT ![r].partial = partial,
            ![r].pc = IF req[r].k < Count THEN "join" ELSE "over",
            ![r].k = IF req[r].k < Count THEN @ + 1 ELSE @,
            ![r].answer = IF req[r].k < Count THEN @ ELSE "created"]

Reachable(r, k) ==
  /\ vm[<<r, k>>].power = "on" /\ vm[<<r, Manager(r)>>].power = "on"
  /\ group = "swarm"

(* Mutant: a worker that fails to join is passed over without a word.      *)
JoinQuietly(r) ==
  LET n == <<r, req[r].k>> IN
  /\ At(r, "join")
  /\ IF req[r].k \in req[r].nodes /\ Reachable(r, req[r].k)
       THEN vm' = [vm EXCEPT ![n].swarm = "worker"] /\ Goto(r, "worker")
       ELSE UNCHANGED vm /\ AfterWorker(r, req[r].partial)
  /\ UNCHANGED <<token, region, row, sync, doubled, budget>>

(* Mutant: the role is written whatever `swarm join` says.                 *)
JoinAnyway(r) ==
  LET n == <<r, req[r].k>> IN
  /\ At(r, "join")
  /\ vm' = IF Reachable(r, req[r].k) THEN [vm EXCEPT ![n].swarm = "worker"] ELSE vm
  /\ Goto(r, "worker")
  /\ UNCHANGED <<token, region, row, sync, doubled, budget>>

(* `swarm join` on a worker: it reaches the manager only through the ports *)
(* of the group.                                                           *)
Join(r) ==
  LET n == <<r, req[r].k>> IN
  /\ At(r, "join")
  /\ IF req[r].k \notin req[r].nodes THEN UNCHANGED vm /\ AfterWorker(r, req[r].partial)
     ELSE IF Reachable(r, req[r].k)
       THEN vm' = [vm EXCEPT ![n].swarm = "worker"] /\ Goto(r, "worker")
       ELSE UNCHANGED vm /\ AfterWorker(r, TRUE)
  /\ UNCHANGED <<token, region, row, sync, doubled, budget>>

SetWorker(r) ==
  /\ At(r, "worker")
  /\ Role(<<r, req[r].k>>, "worker")
  /\ AfterWorker(r, req[r].partial)
  /\ UNCHANGED <<token, region, vm, sync, doubled>>

(* A call, a statement or a command fails, the command perhaps only after  *)
(* the machine carried it out.  Of the swarm, that is a partial answer;    *)
(* of all else an error.                                                   *)
Fails(r) ==
  /\ req[r].pc \notin {"none", "over", "manager", "worker"}
  /\ Spend("faults")
  /\ CASE At(r, "join") /\ req[r].k \in req[r].nodes -> AfterWorker(r, TRUE)
       [] req[r].pc \in {"init", "joinToken"} -> GiveUp(r)
       [] At(r, "join") -> FALSE
       [] OTHER -> Answer(r, "error")
  /\ vm' \in {vm} \cup (CASE At(r, "init") -> {[vm EXCEPT ![<<r, Manager(r)>>].swarm = "manager"]}
                          [] At(r, "join") -> {[vm EXCEPT ![<<r, req[r].k>>].swarm = "worker"]}
                          [] OTHER -> {})
  /\ UNCHANGED <<token, region, row, sync, doubled>>

-----------------------------------------------------------------------------
(* People                                                                  *)
PowerOff(n) ==
  /\ vm[n].power = "on"
  /\ Spend("edits")
  /\ vm' = [vm EXCEPT ![n].power = "off"]
  /\ UNCHANGED <<token, region, row, req, sync, doubled>>

(* delete of a server: its machine stays.                                  *)
DeleteRow(n) ==
  /\ row[n].life = "there"
  /\ Spend("edits")
  /\ row' = [row EXCEPT ![n].life = "gone"]
  /\ UNCHANGED <<token, region, vm, req, sync, doubled>>

(* delete_token: rows lose their reference to it.                          *)
DeleteToken ==
  /\ token
  /\ Spend("edits")
  /\ token' = FALSE
  /\ row' = [n \in Nodes |-> [row[n] EXCEPT !.token = FALSE]]
  /\ UNCHANGED <<region, vm, req, sync, doubled>>

(* The process dies: requests in progress are never answered.              *)
Restart ==
  /\ Spend("faults")
  /\ req' = [r \in Requests |-> IF req[r].pc \in {"none", "over"} THEN req[r]
                                ELSE [req[r] EXCEPT !.pc = "over", !.answer = "lost"]]
  /\ sync' = Resting
  /\ UNCHANGED <<token, region, vm, row, doubled>>

-----------------------------------------------------------------------------
(* sync_hetzner_all and sync_aws_all, as one sweep: they share no row.     *)
Hetzner(n) == req[n[1]].kind = "hetzner"

syncSame == <<token, region, req, doubled>>

SyncLists ==
  /\ sync.pc = "rest"
  /\ LET listed == {n \in Nodes : row[n].life = "there" /\ row[n].token} IN
       listed # {} /\ sync' = [Resting EXCEPT !.pc = "look", !.todo = listed]
  /\ UNCHANGED <<syncSame, vm, row, budget>>

(* The token of the listed row, and the machine.  No token, or an error of *)
(* the provider: the next row; an error of the database ends the sweep.    *)
SyncLooks(n) ==
  /\ sync.pc = "look" /\ n \in sync.todo
  /\ LET rest == sync.todo \ {n}
         skip == IF rest = {} THEN Resting ELSE [sync EXCEPT !.todo = rest] IN
     \/ /\ sync' = IF ~token THEN skip
                   ELSE [pc |-> "write", todo |-> rest, at |-> n, live |-> vm[n].power]
        /\ UNCHANGED budget
     \/ Spend("faults") /\ sync' \in {skip, Resting}
  /\ UNCHANGED <<syncSame, vm, row>>

Onward == IF sync.todo = {} THEN Resting ELSE [sync EXCEPT !.pc = "look", !.at = NoNode,
                                                           !.live = "none"]

(* Mutant: only a machine that was not known to be off is turned on.       *)
SyncWritesNews ==
  /\ sync.pc = "write"
  /\ row' = IF row[sync.at].life = "there" THEN [row EXCEPT ![sync.at].cache = sync.live] ELSE row
  /\ sync' = IF Hetzner(sync.at) /\ sync.live = "off" /\ row[sync.at].cache # "off"
               THEN [sync EXCEPT !.pc = "poweron"] ELSE Onward
  /\ UNCHANGED <<syncSame, vm, budget>>

(* set_hetzner_status, set_aws_status, errors ignored.                     *)
SyncWrites ==
  /\ sync.pc = "write"
  /\ \/ /\ row' = IF row[sync.at].life = "there" THEN [row EXCEPT ![sync.at].cache = sync.live]
                  ELSE row
        /\ UNCHANGED budget
     \/ Spend("faults") /\ UNCHANGED row
  /\ sync' = IF Hetzner(sync.at) /\ sync.live = "off" THEN [sync EXCEPT !.pc = "poweron"]
             ELSE Onward
  /\ UNCHANGED <<syncSame, vm>>

(* power_on_server, errors ignored.                                        *)
SyncPowersOn ==
  /\ sync.pc = "poweron"
  /\ \/ vm' = [vm EXCEPT ![sync.at].power = "on"] /\ UNCHANGED budget
     \/ Spend("faults") /\ UNCHANGED vm
  /\ sync' = Onward
  /\ UNCHANGED <<syncSame, row>>

Sync == SyncLists \/ (\E n \in Nodes : SyncLooks(n)) \/ SyncWrites \/ SyncPowersOn

Provision(r) ==
  \/ EnsureNetwork(r) \/ EnsureGroup(r)
  \/ LaunchAws(r) \/ EnsureKey(r) \/ LaunchHetzner(r) \/ LaunchTwice(r) \/ WaitRunning(r)
  \/ PassOver(r) \/ CreateRow(r) \/ Enqueue(r)
  \/ SwarmInit(r) \/ SetManager(r) \/ JoinToken(r) \/ Join(r) \/ SetWorker(r) \/ Fails(r)

Next ==
  \/ DeleteToken \/ Restart \/ Sync
  \/ \E n \in Nodes : PowerOff(n) \/ DeleteRow(n)
  \/ \E r \in Requests : Ask(r) \/ Provision(r)

Spec == Init /\ [][Next]_vars

(* The scheduler runs the sweeps again and again, and a sweep ends: calls  *)
(* of the providers have a time limit.                                     *)
FairSpec == Spec /\ WF_vars(Sync)

-----------------------------------------------------------------------------
(* An answer that does not say "partial" is the whole truth: every machine *)
(* that the request bought has its row and its validation, or had, and     *)
(* those of a request for many are one swarm with one manager; whatever    *)
(* failed meanwhile, and whoever else used the region.  Except for a call  *)
(* that was made again and bought a second machine.                        *)
TruthfulAnswer ==
  \A r \in Requests :
    req[r].answer = "created" /\ ~req[r].partial /\ r \notin doubled =>
      LET bought == {n \in Nodes : n[1] = r /\ vm[n].power # "none"} IN
      /\ bought = {r} \X Bought(r)
      /\ \A n \in bought : row[n].life # "none" /\ row[n].job
      /\ Kind(r) = "many" =>
           /\ \E m \in bought : \A n \in bought : vm[n].swarm = (IF n = m THEN "manager" ELSE "worker")

(* A role that is recorded is one the machine has, and nobody is a worker  *)
(* on record without a manager among the machines bought with it.          *)
RolesAreReal ==
  \A n \in Nodes :
    /\ row[n].role # "none" => vm[n].swarm = row[n].role
    /\ row[n].role = "worker" => \E m \in Nodes : m[1] = n[1] /\ vm[m].swarm = "manager"

(* The cached state becomes the real one, and a machine of Hetzner that    *)
(* was turned off is on again, as long as its row and the token are there. *)
PowerConverges ==
  <>[](\A n \in Nodes : row[n].life = "there" /\ row[n].token =>
         row[n].cache = vm[n].power /\ (Hetzner(n) => vm[n].power = "on"))

=============================================================================
