---------------------------- MODULE ServersProofs ----------------------------
(***************************************************************************)
(* Proofs about Servers for any machines, jobs, workers and bounds.        *)
(*                                                                         *)
(* The address: only a person and the end of a configuration or a removal  *)
(* of the tunnel write it; the two are undone by each other, and no job    *)
(* runs before the server is there (Unborn, Given).                        *)
(*                                                                         *)
(* The row and the machine: where they differ, a job has yet to end that   *)
(* will set one of them right (Orderly).                                   *)
(*                                                                         *)
(* The SSH master: one that leads to a former address is no younger than   *)
(* the last use of that address, by the entry the workers have for it,     *)
(* whoever opened it (Ages).                                               *)
(***************************************************************************)
EXTENDS Servers, TLAPS

Hosts == Machines \cup {Hostname, Nowhere}
RowStates == [life: {"new", "there", "gone"}, ip: Hosts, prev: Hosts, tunnel: BOOLEAN,
              usable: BOOLEAN, status: {"exited", "running"}]
MachineStates == [docker: BOOLEAN, proxy: BOOLEAN, agent: BOOLEAN]
Masters == [to: Machines \cup {Nowhere}, via: BOOLEAN, adopted: BOOLEAN]
Visitors == [host: Hosts, via: BOOLEAN]
PCs == Commands \cup Statements \cup {"idle", "ok", "err"}
WorkStates == [pc: PCs, j: Jobs \cup {NoJob}, host: Hosts, via: BOOLEAN]
Reasons == {"overlap", "ignored", "undocked", "unreached", "moved", "again", "patchedOn"}
Budgets == [edits: 0..MaxEdits, faults: 0..MaxFaults, visits: 0..MaxVisits]

(* A worker past `idle` has a job, every job does something, and one that  *)
(* may run has tries left.                                                 *)
Hands == \A w \in Workers : work[w].pc # "idle" => work[w].j \in Jobs /\ op[work[w].j] \in Kinds
Purposes == \A j \in Jobs : jobStatus[j] # "absent" => op[j] \in Kinds
TriesLeft == \A j \in Jobs : jobStatus[j] # "dropped" => tries[j] < MaxAttempts
Core == TypeOK /\ Hands /\ Purposes /\ TriesLeft

(* Before the server is created nothing is asked of it.                    *)
Unborn ==
  row.life = "new" =>
    /\ row.prev = Nowhere /\ ~row.tunnel
    /\ \A j \in Jobs : jobStatus[j] = "absent"
    /\ \A w \in Workers : work[w].pc = "idle"

(* Afterwards a person has given an address.                               *)
Given == row.life # "new" => given \in Machines

Inv == Core /\ Unborn /\ Given /\ AddressKept

-----------------------------------------------------------------------------
(* What a worker holds and where it is.  A worker at rest has forgotten its*)
(* connection, and the steps of a job are those of its kind.               *)
Held ==
  \A w \in Workers :
    IF work[w].pc = "idle" THEN work[w] = Idle
    ELSE jobStatus[work[w].j] = "held" /\ holder[work[w].j] = w

OpOf(w) == op[work[w].j]

Steps ==
  \A w \in Workers :
    /\ work[w].pc \in {"uptime", "docker", "usable", "unreachable"} => OpOf(w) = "validate"
    /\ work[w].pc = "up" => OpOf(w) \in {"validate", "start"}
    /\ work[w].pc = "running" => OpOf(w) \in {"validate", "start", "restart"}
    /\ work[w].pc = "down" => OpOf(w) \in {"stop", "restart"}
    /\ work[w].pc = "exited" => OpOf(w) = "stop"
    /\ work[w].pc \in {"stopped", "reresolve", "reflag", "upAgain"} => OpOf(w) = "restart"
    /\ work[w].pc \in {"agent", "health", "on"} => OpOf(w) = "configure"
    /\ work[w].pc \in {"unagent", "off"} => OpOf(w) = "disable"

(* Jobs that undo each other do not run at once, unless that is recorded.  *)
Apart ==
  "overlap" \notin excuses =>
    \A v, w \in Workers :
      work[v].pc # "idle" /\ work[w].pc # "idle" => ~Undoes(OpOf(v), OpOf(w))

(* Before the server is created nothing has been done to any machine.      *)
Untouched ==
  row.life = "new" =>
    /\ ~row.usable /\ row.status = "exited" /\ master.to = Nowhere /\ visitor = Nobody
    /\ \A m \in Machines : ~machine[m].proxy /\ ~machine[m].agent

(* An agent is a container.                                                *)
Agents == \A m \in Machines : machine[m].agent => machine[m].docker

(* The row has an address, and a connection one that it had.               *)
Addressed ==
  /\ row.life # "new" => row.ip # Nowhere
  /\ \A w \in Workers : work[w].pc \in Commands \cup {"flag", "reflag", "usable"} =>
                           work[w].host # Nowhere

(* Until the address is changed, all that jobs do they do to one machine.  *)
OneMachine ==
  row.life # "new" /\ "moved" \notin excuses =>
    /\ row.ip \in {given, Hostname} /\ row.prev \in {given, Hostname, Nowhere}
    /\ master.to \in {given, Nowhere} /\ visitor.host \in {given, Hostname, Nowhere}
    /\ \A w \in Workers : work[w].host \in {given, Hostname, Nowhere}
    /\ \A m \in Machines \ {given} : ~machine[m].agent

(* A job that is not at its last statement or past it, or will run again.  *)
Settled == {"idle", "running", "exited", "on", "off", "ok"}
Open(j) ==
  \/ jobStatus[j] \in {"queued", "dropped"}
  \/ \E w \in Workers : work[w].j = j /\ work[w].pc \notin Settled

ProxyKinds == {"validate", "start", "stop", "restart"}
TunnelKinds == {"configure", "disable"}
Awaited(kinds) == \E j \in Jobs : op[j] \in kinds /\ Open(j)

Docked == machine[given].docker \/ "undocked" \in excuses
UsableFollows ==
  /\ row.usable => Docked
  /\ \A w \in Workers : work[w].pc = "usable" => Docked

ProxyFollows ==
  /\ \/ (row.status = "running") <=> machine[given].proxy
     \/ Awaited(ProxyKinds)
     \/ \E w \in Workers : work[w].pc \in {"running", "exited"}
  /\ \A w \in Workers : work[w].pc = "running" => machine[given].proxy \/ Awaited(ProxyKinds)
  /\ \A w \in Workers : work[w].pc = "exited" => ~machine[given].proxy

TunnelFollows ==
  /\ \/ row.tunnel => machine[given].agent
     \/ Awaited(TunnelKinds)
     \/ \E w \in Workers : work[w].pc = "off"
  /\ \A w \in Workers : work[w].pc = "on" => machine[given].agent

(* The row agrees with the machine, or somebody is about to see to it.     *)
Plain == excuses \subseteq {"again", "undocked"}
Follows == row.life = "there" /\ Plain => UsableFollows /\ ProxyFollows /\ TunnelFollows

Orderly == Held /\ Steps /\ Apart /\ Untouched /\ Agents /\ Addressed /\ OneMachine /\ Follows

(* Somebody who holds a former address keeps `since` at zero, and a master *)
(* of a former address that was not taken for a new one is at least as old *)
(* as the last of them, by the entry that the workers find for it.         *)
Former(w) == work[w].host \notin {Nowhere, row.ip}
FormerVisitor == visitor.host \notin {Nowhere, row.ip}
Ages ==
  /\ FormerVisitor \/ (\E w \in Workers : Former(w)) => since = 0
  /\ master.to # Nowhere /\ ~master.adopted /\ age # Untracked =>
       master.to \in Named(row.ip) \/ since <= age

-----------------------------------------------------------------------------
LEMMA Typed ==
  TypeOK <=> /\ row \in RowStates
             /\ machine \in [Machines -> MachineStates]
             /\ master \in Masters
             /\ age \in 0..Untracked
             /\ visitor \in Visitors
             /\ op \in [Jobs -> Kinds \cup {"none"}]
             /\ Store!StoreTypeOK
             /\ work \in [Workers -> WorkStates]
             /\ given \in Machines \cup {Nowhere}
             /\ since \in 0..MaxAge + 1
             /\ excuses \subseteq Reasons
             /\ budget \in Budgets
BY DEF TypeOK, Hosts, RowStates, MachineStates, Masters, Visitors, PCs, WorkStates, Reasons, Budgets

LEMMA TypedNext ==
  TypeOK' <=> /\ row' \in RowStates
              /\ machine' \in [Machines -> MachineStates]
              /\ master' \in Masters
              /\ age' \in 0..Untracked
              /\ visitor' \in Visitors
              /\ op' \in [Jobs -> Kinds \cup {"none"}]
              /\ Store!StoreTypeOK'
              /\ work' \in [Workers -> WorkStates]
              /\ given' \in Machines \cup {Nowhere}
              /\ since' \in 0..MaxAge + 1
              /\ excuses' \subseteq Reasons
              /\ budget' \in Budgets
BY DEF TypeOK, Hosts, RowStates, MachineStates, Masters, Visitors, PCs, WorkStates, Reasons, Budgets

LEMMA SpendFacts ==
  ASSUME TypeOK, NEW kind \in {"edits", "faults", "visits"}, Spend(kind)
  PROVE  budget' \in Budgets
<1>1. budget \in Budgets /\ budget[kind] > 0
  BY Typed DEF Spend
<1>2. CASE kind = "edits"
  <2>1. budget' = [budget EXCEPT !.edits = @ - 1]
    BY <1>2 DEF Spend
  <2>2. budget.edits - 1 \in 0..MaxEdits
    BY <1>1, <1>2, ServersAssumption DEF Budgets
  <2> QED BY <1>1, <2>1, <2>2 DEF Budgets
<1>3. CASE kind = "faults"
  <2>1. budget' = [budget EXCEPT !.faults = @ - 1]
    BY <1>3 DEF Spend
  <2>2. budget.faults - 1 \in 0..MaxFaults
    BY <1>1, <1>3, ServersAssumption DEF Budgets
  <2> QED BY <1>1, <2>1, <2>2 DEF Budgets
<1>4. CASE kind = "visits"
  <2>1. budget' = [budget EXCEPT !.visits = @ - 1]
    BY <1>4 DEF Spend
  <2>2. budget.visits - 1 \in 0..MaxVisits
    BY <1>1, <1>4, ServersAssumption DEF Budgets
  <2> QED BY <1>1, <2>1, <2>2 DEF Budgets
<1> QED BY <1>2, <1>3, <1>4

LEMMA GotoFacts ==
  ASSUME TypeOK, NEW w \in Workers, NEW pc \in PCs, Goto(w, pc)
  PROVE  /\ work' \in [Workers -> WorkStates]
         /\ work'[w].j = work[w].j
         /\ \A v \in Workers \ {w} : work'[v] = work[v]
<1>1. work \in [Workers -> WorkStates] /\ work[w] \in WorkStates
  BY Typed
<1>2. /\ [Idle EXCEPT !.pc = pc, !.j = work[w].j] \in WorkStates
      /\ [Idle EXCEPT !.pc = pc, !.j = work[w].j].j = work[w].j
  BY <1>1 DEF Idle, WorkStates, Hosts
<1>3. /\ [work[w] EXCEPT !.pc = pc] \in WorkStates
      /\ [work[w] EXCEPT !.pc = pc].j = work[w].j
  BY <1>1 DEF WorkStates
<1> QED BY <1>1, <1>2, <1>3 DEF Goto

LEMMA ExcuseFacts ==
  ASSUME TypeOK, NEW why \in SUBSET Reasons, Excuse(why)
  PROVE  excuses' \subseteq Reasons /\ excuses \subseteq excuses'
BY Typed DEF Excuse

LEMMA IdleTyped == Idle \in WorkStates
BY DEF Idle, WorkStates, PCs, Hosts

(* What a command may do to a machine.                                     *)
LEMMA EffectFacts ==
  ASSUME TypeOK, NEW w \in Workers, NEW m \in Machines
  PROVE  Effect(w, m) \in [Machines -> MachineStates]
<1>1. machine \in [Machines -> MachineStates] /\ machine[m] \in MachineStates
  BY Typed
<1>2. /\ [machine[m] EXCEPT !.docker = TRUE] \in MachineStates
      /\ [machine[m] EXCEPT !.proxy = machine[m].docker] \in MachineStates
      /\ [machine[m] EXCEPT !.proxy = FALSE] \in MachineStates
      /\ [machine[m] EXCEPT !.agent = machine[m].docker] \in MachineStates
      /\ [machine[m] EXCEPT !.agent = FALSE] \in MachineStates
  BY <1>1 DEF MachineStates
<1> QED BY <1>1, <1>2 DEF Effect

LEMMA TravelFacts ==
  ASSUME TypeOK, NEW w \in Workers, NEW m \in Machines, Travel(w, m)
  PROVE  master' \in Masters /\ age' \in 0..Untracked /\ visitor' = visitor
<1>1. master \in Masters /\ age \in 0..Untracked /\ work[w].via \in BOOLEAN
  BY Typed DEF WorkStates
<1>2. 0 \in 0..Untracked
  BY ServersAssumption DEF Untracked
<1>3. (master.adopted \/ age = Untracked) \in BOOLEAN
  OBVIOUS
<1>4. CASE Reusable
  <2>1. master' = [master EXCEPT !.adopted = master.adopted \/ age = Untracked]
    BY <1>4 DEF Travel
  <2>2. master' \in Masters
    BY <1>1, <1>3, <2>1 DEF Masters
  <2> QED BY <1>1, <1>2, <1>4, <2>2 DEF Travel
<1>5. CASE ~Reusable
  <2>1. [to |-> m, via |-> work[w].via, adopted |-> FALSE] \in Masters
    BY <1>1 DEF Masters
  <2> QED BY <1>2, <1>5, <2>1 DEF Travel
<1> QED BY <1>4, <1>5

LEMMA CutOffFacts ==
  ASSUME TypeOK, NEW w \in Workers, CutOff(w)
  PROVE  master' \in Masters /\ age' \in 0..Untracked /\ visitor' = visitor
<1>1. Untracked \in 0..Untracked
  BY ServersAssumption DEF Untracked
<1> QED BY <1>1, Typed DEF CutOff, NoMaster, Masters

(* Where a command leads to is a step of the program.                      *)
LEMMA NextSteps ==
  ASSUME NEW w \in Workers, work[w].pc \in Commands
  PROVE  NextPC(w) \in PCs
BY DEF NextPC, PCs, Commands, Statements, At

(* What the steps of a worker that holds a job leave alone, and where it   *)
(* goes on.                                                                *)
Stays(w) ==
  /\ UNCHANGED <<op, storeVars, given>>
  /\ work' \in [Workers -> WorkStates]
  /\ work'[w].j = work[w].j
  /\ \A v \in Workers \ {w} : work'[v] = work[v]

LEMMA FirstSteps ==
  ASSUME NEW what \in Kinds
  PROVE  FirstCommand(what) \in PCs
BY DEF FirstCommand, Kinds, PCs, Commands

-----------------------------------------------------------------------------
(* The commands and statements of a job.                                   *)
LEMMA ResolveFacts ==
  ASSUME Core, NEW w \in Workers, Resolve(w) \/ ReadFlag(w) \/ DbFails(w) \/ FlagFails(w)
  PROVE  /\ TypeOK' /\ Stays(w) /\ work[w].pc # "idle"
         /\ UNCHANGED <<row, excuses>>
<1> USE TypedNext, Typed DEF Core, jobSame, muxVars, storeVars, Store!StoreTypeOK
<1>1. work \in [Workers -> WorkStates] /\ work[w] \in WorkStates /\ row \in RowStates
  OBVIOUS
<1>2. CASE Resolve(w)
  <2>1. work[w].pc # "idle"
    BY <1>2 DEF Resolve
  <2>2. ASSUME NEW pc \in {"flag", "reflag"}
        PROVE  /\ [work[w] EXCEPT !.host = row.ip, !.pc = pc] \in WorkStates
               /\ [work[w] EXCEPT !.host = row.ip, !.pc = pc].j = work[w].j
    BY <1>1 DEF WorkStates, RowStates, PCs, Statements
  <2>3. CASE Goto(w, "err")
    <3>1. Stays(w)
      BY <1>2, <2>3, GotoFacts DEF Stays, Resolve, PCs
    <3> QED BY <1>2, <2>1, <3>1 DEF Resolve, Stays
  <2>4. CASE work' = [work EXCEPT ![w].host = row.ip,
                                  ![w].pc = IF @ = "resolve" THEN "flag" ELSE "reflag"]
    <3>1. (IF work[w].pc = "resolve" THEN "flag" ELSE "reflag") \in {"flag", "reflag"}
      OBVIOUS
    <3>2. Stays(w)
      BY <1>1, <1>2, <2>2, <2>4, <3>1 DEF Stays, Resolve
    <3> QED BY <1>2, <2>1, <3>2 DEF Resolve, Stays
  <2> QED BY <1>2, <2>3, <2>4 DEF Resolve
<1>3. CASE ReadFlag(w)
  <2>1. work[w].pc # "idle"
    BY <1>3 DEF ReadFlag
  <2>2. FirstCommand(op[work[w].j]) \in PCs /\ "upAgain" \in PCs
    BY <2>1, FirstSteps DEF Hands, PCs, Commands
  <2>3. ASSUME NEW pc \in PCs
        PROVE  /\ [work[w] EXCEPT !.via = row.tunnel, !.pc = pc] \in WorkStates
               /\ [work[w] EXCEPT !.via = row.tunnel, !.pc = pc].j = work[w].j
    BY <1>1 DEF WorkStates, RowStates
  <2>4. Stays(w)
    BY <1>1, <1>3, <2>2, <2>3 DEF Stays, ReadFlag
  <2> QED BY <1>3, <2>1, <2>4 DEF ReadFlag, Stays
<1>4. CASE DbFails(w)
  <2>1. work[w].pc # "idle" /\ Stays(w)
    BY <1>4, GotoFacts DEF DbFails, Stays, PCs, Statements
  <2>2. budget' \in Budgets
    BY <1>4, SpendFacts DEF DbFails
  <2> QED BY <1>4, <2>1, <2>2 DEF DbFails, Stays
<1>5. CASE FlagFails(w)
  <2>1. work[w].pc # "idle"
    BY <1>5 DEF FlagFails
  <2>2. FirstCommand(op[work[w].j]) \in PCs /\ "upAgain" \in PCs
    BY <2>1, FirstSteps DEF Hands, PCs, Commands
  <2>3. Stays(w)
    BY <1>5, <2>2, GotoFacts DEF FlagFails, Stays
  <2>4. budget' \in Budgets
    BY <1>5, SpendFacts DEF FlagFails
  <2> QED BY <1>5, <2>1, <2>3, <2>4 DEF FlagFails, Stays
<1> QED BY <1>2, <1>3, <1>4, <1>5

LEMMA RunFacts ==
  ASSUME Core, NEW w \in Workers, Run(w)
  PROVE  /\ TypeOK' /\ Stays(w) /\ work[w].pc # "idle"
         /\ row' = row /\ excuses \subseteq excuses'
<1> USE DEF Core
<1>1. /\ UNCHANGED <<row, op, storeVars, given, since>> /\ work[w].pc \in Commands
  BY DEF Run, jobSame
<1>2. NextPC(w) \in PCs /\ "unreachable" \in PCs /\ "err" \in PCs
  BY <1>1, NextSteps DEF PCs, Statements
<1>3. \E pc \in PCs : Goto(w, pc)
  BY <1>2 DEF Run, Fails
<1>4. Stays(w)
  BY <1>1, <1>3, GotoFacts DEF Stays
<1>5. master' \in Masters /\ age' \in 0..Untracked /\ visitor' = visitor
  BY TravelFacts, CutOffFacts DEF Run
<1>6. machine' \in [Machines -> MachineStates]
  BY EffectFacts, Typed DEF Run
<1>7. excuses' \subseteq Reasons /\ excuses \subseteq excuses'
  BY ExcuseFacts, Typed DEF Run, Reasons
<1>8. budget' \in Budgets
  BY SpendFacts, Typed DEF Run
<1>9. TypeOK'
  BY <1>1, <1>4, <1>5, <1>6, <1>7, <1>8, Typed, TypedNext DEF Stays, storeVars, Store!StoreTypeOK
<1>10. work[w].pc # "idle"
  BY <1>1 DEF Commands
<1> QED BY <1>1, <1>4, <1>7, <1>9, <1>10

LEMMA StatusFacts ==
  ASSUME Core, NEW w \in Workers, SetStatus(w)
  PROVE  /\ TypeOK' /\ Stays(w) /\ work[w].pc # "idle"
         /\ row'.life = row.life /\ row'.ip = row.ip /\ row'.prev = row.prev
         /\ row'.tunnel = row.tunnel /\ excuses \subseteq excuses'
<1> USE DEF Core
<1>1. row \in RowStates
  BY Typed
<1>2. /\ [row EXCEPT !.usable = FALSE] \in RowStates /\ [row EXCEPT !.usable = TRUE] \in RowStates
      /\ [row EXCEPT !.status = "running"] \in RowStates /\ [row EXCEPT !.status = "exited"] \in RowStates
  BY <1>1 DEF RowStates
<1>3. /\ row' \in RowStates
      /\ row'.life = row.life /\ row'.ip = row.ip /\ row'.prev = row.prev /\ row'.tunnel = row.tunnel
  <2>1. row' \in {row, [row EXCEPT !.usable = FALSE], [row EXCEPT !.usable = TRUE],
                  [row EXCEPT !.status = "running"], [row EXCEPT !.status = "exited"]}
    BY DEF SetStatus, Written
  <2> QED BY <1>1, <1>2, <2>1 DEF RowStates
<1>4. UNCHANGED <<op, storeVars, given, since, machine, muxVars, budget>>
  BY DEF SetStatus, jobSame
<1>5. \E pc \in PCs : Goto(w, pc)
  BY DEF SetStatus, PCs, Commands, Statements
<1>6. Stays(w)
  BY <1>4, <1>5, GotoFacts DEF Stays
<1>7. excuses' \subseteq Reasons /\ excuses \subseteq excuses'
  BY ExcuseFacts, Typed DEF SetStatus, Reasons
<1>8. TypeOK'
  BY <1>3, <1>4, <1>6, <1>7, Typed, TypedNext
  DEF Stays, muxVars, storeVars, Store!StoreTypeOK
<1>9. work[w].pc # "idle"
  BY DEF SetStatus, At
<1> QED BY <1>3, <1>6, <1>7, <1>8, <1>9

(* The tunnel: either way the row and the address a person gave agree.     *)
LEMMA TunnelFacts ==
  ASSUME Core, Given, AddressKept, NEW w \in Workers, SetTunnel(w)
  PROVE  /\ TypeOK' /\ Stays(w) /\ work[w].pc # "idle"
         /\ row'.life = row.life /\ AddressKept'
<1> USE DEF Core
<1>1. row \in RowStates
  BY Typed
<1>2. TunnelOn \in RowStates /\ TunnelOff \in RowStates
  BY <1>1 DEF TunnelOn, TunnelOff, RowStates, Hosts
<1>3. row' \in RowStates /\ row'.life = row.life
  BY <1>1, <1>2 DEF SetTunnel, Written, TunnelOn, TunnelOff, RowStates
<1>4. UNCHANGED <<op, storeVars, given, machine, muxVars, budget>>
  BY DEF SetTunnel
<1>5. since' \in 0..MaxAge + 1
  BY Typed, ServersAssumption DEF SetTunnel
<1>6. Stays(w)
  BY <1>4, GotoFacts DEF Stays, SetTunnel, PCs
<1>7. excuses' \subseteq Reasons /\ excuses \subseteq excuses'
  BY ExcuseFacts, Typed DEF SetTunnel, Reasons
<1>8. TypeOK'
  BY <1>3, <1>4, <1>5, <1>6, <1>7, Typed, TypedNext
  DEF Stays, muxVars, storeVars, Store!StoreTypeOK
<1>9. AddressKept'
  <2> SUFFICES ASSUME row'.life = "there", excuses' \cap {"again", "patchedOn"} = {}
               PROVE  IF row'.tunnel THEN row'.ip = Hostname /\ row'.prev = given'
                                     ELSE row'.ip = given' /\ row'.prev = Nowhere
    BY DEF AddressKept
  <2>1. /\ IF row.tunnel THEN row.ip = Hostname /\ row.prev = given
                         ELSE row.ip = given /\ row.prev = Nowhere
        /\ given \in Machines /\ Nowhere \notin Machines
    BY <1>3, <1>7, ServersAssumption DEF AddressKept, Given
  <2>2. CASE At(w, "on")
    <3>1. ~row.tunnel
      BY <2>2 DEF SetTunnel, Excuse
    <3>2. row' = TunnelOn
      BY <1>3, <2>2 DEF SetTunnel, Written
    <3> QED BY <1>1, <1>4, <2>1, <3>1, <3>2 DEF TunnelOn, RowStates
  <2>3. CASE ~At(w, "on")
    <3>1. row' = TunnelOff
      BY <1>3, <2>3 DEF SetTunnel, Written
    <3> QED BY <1>1, <1>4, <2>1, <3>1 DEF TunnelOff, RowStates
  <2> QED BY <2>2, <2>3
<1>10. work[w].pc # "idle"
  BY DEF SetTunnel
<1> QED BY <1>3, <1>6, <1>8, <1>9, <1>10

LEMMA HandlerKeeps ==
  ASSUME Inv, NEW w \in Workers,
         Resolve(w) \/ ReadFlag(w) \/ Run(w) \/ SetStatus(w) \/ SetTunnel(w)
         \/ DbFails(w) \/ FlagFails(w)
  PROVE  Inv'
<1> USE DEF Inv
<1>1. /\ TypeOK' /\ Stays(w) /\ work[w].pc # "idle"
      /\ row'.life = row.life
  BY ResolveFacts, RunFacts, StatusFacts, TunnelFacts
<1>2. AddressKept'
  <2>1. CASE SetTunnel(w)
    BY <2>1, TunnelFacts
  <2>2. CASE ~SetTunnel(w)
    <3>1. /\ row'.ip = row.ip /\ row'.prev = row.prev /\ row'.tunnel = row.tunnel
          /\ excuses \subseteq excuses'
      BY <2>2, ResolveFacts, RunFacts, StatusFacts
    <3>2. given' = given
      BY <1>1 DEF Stays
    <3> QED BY <1>1, <3>1, <3>2 DEF AddressKept
  <2> QED BY <2>1, <2>2
<1>3. Hands' /\ Purposes' /\ TriesLeft'
  <2>1. \A v \in Workers : v # w => work'[v] = work[v]
    BY <1>1 DEF Stays
  <2>2. work'[w].j = work[w].j /\ UNCHANGED <<op, jobStatus, tries>>
    BY <1>1 DEF Stays, storeVars
  <2> QED BY <1>1, <2>1, <2>2 DEF Core, Hands, Purposes, TriesLeft
<1>4. Unborn' /\ Given'
  BY <1>1 DEF Unborn, Given, Stays
<1> QED BY <1>1, <1>2, <1>3, <1>4 DEF Core

-----------------------------------------------------------------------------
(* What people ask, the queue, the process and time.                       *)
LEMMA RequestKeeps ==
  ASSUME Inv,
         \/ Delete \/ \E m \in Machines : Create(m) \/ Patch(m)
         \/ \E j \in Jobs, what \in Kinds : Request(j, what)
  PROVE  Inv'
<1> USE DEF Inv
<1> USE DEF Core
<1>1. row \in RowStates /\ Machines \subseteq Hosts
  BY Typed DEF Hosts
<1>2. ASSUME NEW m \in Machines, Create(m) PROVE Inv'
  <2>1. /\ row.life = "new" /\ given' = m
        /\ row' = [row EXCEPT !.life = "there", !.ip = m]
        /\ UNCHANGED <<machine, muxVars, op, storeVars, work, since, excuses, budget>>
    BY <1>2 DEF Create
  <2>2. /\ row' \in RowStates /\ row'.life = "there" /\ row'.ip = m /\ row'.prev = row.prev
        /\ row'.tunnel = row.tunnel
    BY <1>1, <2>1 DEF RowStates
  <2>3. TypeOK'
    BY <2>1, <2>2, Typed, TypedNext DEF muxVars, storeVars, Store!StoreTypeOK
  <2>4. Hands' /\ Purposes' /\ TriesLeft'
    BY <2>1 DEF storeVars, Hands, Purposes, TriesLeft
  <2> QED BY <2>1, <2>2, <2>3, <2>4 DEF Unborn, Given, AddressKept
<1>3. ASSUME NEW m \in Machines, Patch(m) PROVE Inv'
  <2>1. /\ row.life = "there" /\ given' = m
        /\ row' = [row EXCEPT !.ip = m]
        /\ since' = 0
        /\ UNCHANGED <<machine, muxVars, op, storeVars, work>>
    BY <1>3 DEF Patch
  <2>2. /\ row' \in RowStates /\ row'.life = "there" /\ row'.ip = m /\ row'.prev = row.prev
        /\ row'.tunnel = row.tunnel
    BY <1>1, <2>1 DEF RowStates
  <2>3. /\ budget' \in Budgets /\ excuses' \subseteq Reasons /\ excuses \subseteq excuses'
        /\ row.tunnel => "patchedOn" \in excuses'
    BY <1>3, SpendFacts, Typed DEF Patch, Excuse, Reasons
  <2>4. since' \in 0..MaxAge + 1
    BY <2>1, ServersAssumption
  <2>5. TypeOK'
    BY <2>1, <2>2, <2>3, <2>4, Typed, TypedNext DEF muxVars, storeVars, Store!StoreTypeOK
  <2>6. Hands' /\ Purposes' /\ TriesLeft'
    BY <2>1 DEF storeVars, Hands, Purposes, TriesLeft
  <2>7. AddressKept'
    BY <2>1, <2>2, <2>3 DEF AddressKept
  <2> QED BY <2>1, <2>2, <2>5, <2>6, <2>7 DEF Unborn, Given
<1>4. CASE Delete
  <2>1. /\ row.life = "there" /\ row' = [row EXCEPT !.life = "gone"]
        /\ UNCHANGED <<machine, muxVars, op, storeVars, work, given, since, excuses>>
    BY <1>4 DEF Delete
  <2>2. row' \in RowStates /\ row'.life = "gone"
    BY <1>1, <2>1 DEF RowStates
  <2>3. budget' \in Budgets
    BY <1>4, SpendFacts DEF Delete
  <2>4. TypeOK'
    BY <2>1, <2>2, <2>3, Typed, TypedNext DEF muxVars, storeVars, Store!StoreTypeOK
  <2>5. Hands' /\ Purposes' /\ TriesLeft'
    BY <2>1 DEF storeVars, Hands, Purposes, TriesLeft
  <2> QED BY <2>1, <2>2, <2>4, <2>5 DEF Unborn, Given, AddressKept
<1>5. ASSUME NEW j \in Jobs, NEW what \in Kinds, Request(j, what) PROVE Inv'
  <2>1. /\ row.life = "there" /\ op[j] = "none" /\ op' = [op EXCEPT ![j] = what]
        /\ Store!Submit(j)
        /\ UNCHANGED <<row, machine, muxVars, work, given, since, excuses, budget>>
    BY <1>5 DEF Request
  <2>2. op' \in [Jobs -> Kinds \cup {"none"}] /\ op'[j] \in Kinds
        /\ \A i \in Jobs \ {j} : op'[i] = op[i]
    BY <2>1, Typed
  <2>3. /\ Store!StoreTypeOK' /\ tries' = tries /\ jobStatus'[j] = "queued" /\ jobStatus[j] = "absent"
        /\ \A i \in Jobs \ {j} : jobStatus'[i] = jobStatus[i]
    BY <2>1, Typed DEF Store!Submit, Store!StoreTypeOK, Store!Status
  <2>4. TypeOK'
    BY <2>1, <2>2, <2>3, Typed, TypedNext DEF muxVars
  <2>5. Hands' /\ Purposes' /\ TriesLeft'
    BY <2>1, <2>2, <2>3 DEF Hands, Purposes, TriesLeft
  <2> QED BY <2>1, <2>4, <2>5 DEF Unborn, Given, AddressKept
<1> QED BY <1>2, <1>3, <1>4, <1>5

LEMMA QueueKeeps ==
  ASSUME Inv, NEW w \in Workers,
         Report(w) \/ \E j \in Jobs : Take(w, j)
  PROVE  Inv'
<1> USE DEF Inv
<1> USE DEF Core
<1>1. ASSUME NEW j \in Jobs, Take(w, j) PROVE Inv'
  <2>1. /\ Store!Take(w, j) /\ jobStatus[j] = "queued"
        /\ work' = [work EXCEPT ![w] = [Idle EXCEPT !.pc = "resolve", !.j = j]]
        /\ UNCHANGED <<row, machine, muxVars, op, given, since, budget>>
    BY <1>1 DEF Take, Store!Take
  <2>2. /\ work' \in [Workers -> WorkStates] /\ work'[w].j = j
        /\ \A v \in Workers \ {w} : work'[v] = work[v]
    <3>1. /\ [Idle EXCEPT !.pc = "resolve", !.j = j] \in WorkStates
          /\ [Idle EXCEPT !.pc = "resolve", !.j = j].j = j
      BY DEF Idle, WorkStates, PCs, Statements, Hosts
    <3> QED BY <2>1, <3>1, Typed
  <2>3. /\ Store!StoreTypeOK' /\ tries' = tries /\ jobStatus'[j] = "held"
        /\ \A i \in Jobs \ {j} : jobStatus'[i] = jobStatus[i]
    BY <2>1, Typed DEF Store!Take, Store!StoreTypeOK, Store!Status
  <2>4. excuses' \subseteq Reasons /\ excuses \subseteq excuses'
    BY <1>1, Typed DEF Take, Excuse, Reasons
  <2>5. TypeOK'
    BY <2>1, <2>2, <2>3, <2>4, Typed, TypedNext DEF muxVars
  <2>6. Hands' /\ Purposes' /\ TriesLeft'
    BY <2>1, <2>2, <2>3 DEF Hands, Purposes, TriesLeft
  <2>7. row.life # "new"
    BY <2>1 DEF Unborn
  <2> QED BY <2>1, <2>4, <2>5, <2>6, <2>7 DEF Unborn, Given, AddressKept
<1>2. CASE Report(w)
  <2> DEFINE j == work[w].j
  <2>1. /\ j \in Jobs /\ work[w].pc # "idle"
        /\ Store!Finish(w, j) \/ Store!Miss(w, j)
        /\ work' = [work EXCEPT ![w] = Idle]
        /\ UNCHANGED <<row, machine, muxVars, op, given, since, excuses, budget>>
    BY <1>2 DEF Report, PutDown, Hands, At
  <2>2. /\ work' \in [Workers -> WorkStates] /\ work'[w].pc = "idle"
        /\ \A v \in Workers \ {w} : work'[v] = work[v]
    BY <2>1, IdleTyped, Typed DEF Idle
  <2>3. j \in Jobs
    BY <2>1
  <2> HIDE DEF j
  <2>4. /\ Store!StoreTypeOK' /\ jobStatus[j] # "absent"
        /\ jobStatus'[j] = "dropped" \/ tries'[j] < MaxAttempts
        /\ \A i \in Jobs \ {j} : jobStatus'[i] = jobStatus[i] /\ tries'[i] = tries[i]
    <3>1. CASE Store!Finish(w, j)
      BY <2>3, <3>1, Typed DEF Store!Finish, Store!StoreTypeOK, Store!Status, TriesLeft
    <3>2. CASE Store!Miss(w, j)
      <4>1. tries[j] \in 0..MaxAttempts /\ tries[j] < MaxAttempts
        BY <2>3, <3>2, Typed DEF Store!Miss, Store!StoreTypeOK, TriesLeft
      <4>2. tries[j] + 1 \in 0..MaxAttempts
        BY <4>1, ServersAssumption
      <4>3. /\ tries' \in [Jobs -> 0..MaxAttempts] /\ tries'[j] = tries[j] + 1
            /\ \A i \in Jobs \ {j} : tries'[i] = tries[i]
        BY <2>3, <3>2, <4>2, Typed DEF Store!Miss, Store!StoreTypeOK
      <4>4. /\ jobStatus' \in [Jobs -> Store!Status]
            /\ holder' \in [Jobs -> Workers \cup {NoWorker}]
            /\ jobStatus'[j] = IF tries[j] + 1 >= MaxAttempts THEN "dropped" ELSE "queued"
            /\ \A i \in Jobs \ {j} : jobStatus'[i] = jobStatus[i]
            /\ jobStatus[j] = "held"
        BY <2>3, <3>2, Typed DEF Store!Miss, Store!StoreTypeOK, Store!Status
      <4>5. jobStatus'[j] = "dropped" \/ tries'[j] < MaxAttempts
        BY <4>2, <4>3, <4>4, ServersAssumption
      <4> QED BY <4>3, <4>4, <4>5 DEF Store!StoreTypeOK
    <3> QED BY <2>1, <3>1, <3>2
  <2>5. TypeOK'
    BY <2>1, <2>2, <2>4, Typed, TypedNext DEF muxVars
  <2>6. Hands' /\ Purposes' /\ TriesLeft'
    <3>1. op' = op
      BY <2>1
    <3> QED BY <2>2, <2>3, <2>4, <3>1 DEF Hands, Purposes, TriesLeft
  <2>7. row.life # "new"
    BY <2>1 DEF Unborn
  <2> QED BY <2>1, <2>5, <2>6, <2>7 DEF Unborn, Given, AddressKept
<1> QED BY <1>1, <1>2

LEMMA OthersKeep ==
  ASSUME Inv, Restart \/ MasterEnds \/ Tick \/ Visit \/ Leave \/ UNCHANGED vars
  PROVE  Inv'
<1> USE DEF Inv
<1> USE DEF Core
<1>1. CASE Restart
  <2>1. /\ UNCHANGED <<row, machine, master, op, given, since, excuses>>
        /\ age' = Untracked /\ visitor' = Nobody /\ work' = [w \in Workers |-> Idle]
    BY <1>1 DEF Restart
  <2>2. /\ Store!StoreTypeOK' /\ tries' = tries
        /\ \A j \in Jobs : jobStatus'[j] = jobStatus[j] \/ (jobStatus[j] = "held" /\ jobStatus'[j] = "queued")
    BY <1>1, Typed DEF Restart, storeVars, Store!LetGo, Store!StoreTypeOK, Store!Status
  <2>3. budget' \in Budgets
    BY <1>1, SpendFacts DEF Restart
  <2>4. work' \in [Workers -> WorkStates] /\ \A w \in Workers : work'[w].pc = "idle"
    BY <2>1, IdleTyped DEF Idle
  <2>5. age' \in 0..Untracked /\ visitor' \in Visitors
    BY <2>1, ServersAssumption DEF Untracked, Nobody, Visitors, Hosts
  <2>6. TypeOK'
    BY <2>1, <2>2, <2>3, <2>4, <2>5, Typed, TypedNext
  <2>7. Hands' /\ Purposes' /\ TriesLeft'
    BY <2>1, <2>2, <2>4 DEF Hands, Purposes, TriesLeft
  <2> QED BY <2>1, <2>2, <2>3, <2>4, <2>6, <2>7 DEF Unborn, Given, AddressKept
<1>2. CASE MasterEnds \/ Tick \/ Visit \/ Leave \/ UNCHANGED vars
  <2>1. UNCHANGED <<row, machine, op, storeVars, work, given, excuses>>
    BY <1>2 DEF MasterEnds, Tick, Visit, Leave, vars
  <2>2. /\ master' \in Masters /\ age' \in 0..Untracked /\ visitor' \in Visitors
        /\ budget' \in Budgets
    <3>1. CASE MasterEnds
      BY <3>1, Typed DEF MasterEnds, NoMaster, Masters
    <3>2. CASE Tick
      BY <3>2, Typed, ServersAssumption DEF Tick, Untracked
    <3>3. CASE UNCHANGED vars
      BY <3>3, Typed DEF vars, muxVars
    <3>4. CASE Visit
      <4>1. visitor' \in Visitors
        BY <3>4, Typed DEF Visit, Visitors, RowStates
      <4> QED BY <3>4, <4>1, SpendFacts, Typed DEF Visit
    <3>5. CASE Leave
      <4>1. visitor.via \in BOOLEAN /\ Reached(visitor.host, visitor.via) \subseteq Machines
        BY Typed DEF Visitors, Reached
      <4>2. \A m \in Machines :
              [to |-> m, via |-> visitor.via, adopted |-> FALSE] \in Masters
        BY <4>1 DEF Masters
      <4>3. Nobody \in Visitors
        BY DEF Nobody, Visitors, Hosts
      <4> QED BY <3>5, <4>1, <4>2, <4>3, Typed DEF Leave
    <3> QED BY <1>2, <3>1, <3>2, <3>3, <3>4, <3>5
  <2>3. since' \in 0..MaxAge + 1
    <3>1. CASE Tick
      BY <3>1, Typed, ServersAssumption DEF Tick
    <3>2. CASE since' = since
      BY <3>2, Typed
    <3> QED BY <1>2, <3>1, <3>2 DEF MasterEnds, Visit, Leave, vars
  <2>4. TypeOK'
    BY <2>1, <2>2, <2>3, Typed, TypedNext DEF storeVars, Store!StoreTypeOK
  <2> QED BY <2>1, <2>4 DEF storeVars, Hands, Purposes, TriesLeft, Unborn, Given, AddressKept
<1> QED BY <1>1, <1>2

-----------------------------------------------------------------------------
LEMMA InvInit == Init => Inv
<1> SUFFICES ASSUME Init PROVE Inv
  OBVIOUS
<1> USE ServersAssumption
<1>1. /\ row \in RowStates /\ master \in Masters /\ age \in 0..Untracked /\ visitor \in Visitors
      /\ budget \in Budgets
  BY DEF Init, RowStates, Hosts, Masters, NoMaster, Untracked, Budgets, Visitors, Nobody
<1>2. machine \in [Machines -> MachineStates]
  BY DEF Init, MachineStates
<1>3. Store!StoreTypeOK
  BY DEF Init, Store!StoreInit, Store!StoreTypeOK, Store!Status
<1>4. work \in [Workers -> WorkStates]
  BY IdleTyped DEF Init
<1>5. TypeOK
  <2>1. op \in [Jobs -> Kinds \cup {"none"}] /\ given \in Machines \cup {Nowhere}
        /\ since \in 0..MaxAge + 1 /\ excuses \subseteq Reasons
    BY DEF Init
  <2> QED BY <1>1, <1>2, <1>3, <1>4, <2>1, Typed
<1>6. Hands /\ Purposes /\ TriesLeft /\ Unborn /\ Given /\ AddressKept
  BY DEF Init, Idle, Store!StoreInit, Hands, Purposes, TriesLeft, Unborn, Given, AddressKept
<1> QED BY <1>5, <1>6 DEF Inv, Core

LEMMA InvNext ==
  ASSUME Inv, [Next]_vars
  PROVE  Inv'
BY HandlerKeeps, RequestKeeps, QueueKeeps, OthersKeep DEF Next, Handler

LEMMA Invariance == Spec => []Inv
BY InvInit, InvNext, PTL DEF Spec

-----------------------------------------------------------------------------
(* The steps of a job: what the worker remembers, and what its kind allows.*)
HandlerStep(w) ==
  Resolve(w) \/ ReadFlag(w) \/ Run(w) \/ SetStatus(w) \/ SetTunnel(w) \/ DbFails(w) \/ FlagFails(w)

LEMMA GotoGives ==
  ASSUME TypeOK, NEW w \in Workers, NEW pc, Goto(w, pc)
  PROVE  /\ work'[w].pc = pc
         /\ work'[w].host \in {work[w].host, Nowhere}
         /\ pc \notin {"ok", "err", "reresolve"} => work'[w].host = work[w].host
<1>1. work \in [Workers -> WorkStates] /\ work[w] \in WorkStates
  BY Typed
<1>2. LET r == [Idle EXCEPT !.pc = pc, !.j = work[w].j] IN r.pc = pc /\ r.host = Nowhere
  BY DEF Idle
<1>3. LET r == [work[w] EXCEPT !.pc = pc] IN r.pc = pc /\ r.host = work[w].host
  BY <1>1 DEF WorkStates
<1> QED BY <1>1, <1>2, <1>3 DEF Goto

(* The worker has read the row.                                            *)
LEMMA ReadGives ==
  ASSUME TypeOK, NEW w \in Workers, Resolve(w) \/ ReadFlag(w)
  PROVE  \/ Resolve(w) /\ Goto(w, "err")
         \/ /\ Resolve(w) /\ row.life # "gone" /\ work'[w].host = row.ip
            /\ work'[w].pc = IF work[w].pc = "resolve" THEN "flag" ELSE "reflag"
         \/ /\ ReadFlag(w) /\ work'[w].host = work[w].host
            /\ work'[w].pc = IF work[w].pc = "flag" THEN FirstCommand(OpOf(w)) ELSE "upAgain"
<1>1. work \in [Workers -> WorkStates] /\ work[w] \in WorkStates
  BY Typed
<1>2. CASE Resolve(w) /\ ~Goto(w, "err")
  <2>1. /\ row.life # "gone"
        /\ work' = [work EXCEPT ![w].host = row.ip,
                                ![w].pc = IF @ = "resolve" THEN "flag" ELSE "reflag"]
    BY <1>2 DEF Resolve
  <2>2. work'[w] = [work[w] EXCEPT !.host = row.ip,
                                   !.pc = IF work[w].pc = "resolve" THEN "flag" ELSE "reflag"]
    BY <1>1, <2>1
  <2>3. /\ work'[w].host = row.ip
        /\ work'[w].pc = IF work[w].pc = "resolve" THEN "flag" ELSE "reflag"
    BY <1>1, <2>2 DEF WorkStates
  <2> QED BY <1>2, <2>1, <2>3
<1>3. CASE ReadFlag(w)
  <2>1. work'[w] = [work[w] EXCEPT !.via = row.tunnel,
                      !.pc = IF work[w].pc = "flag" THEN FirstCommand(OpOf(w)) ELSE "upAgain"]
    BY <1>1, <1>3 DEF ReadFlag, OpOf
  <2>2. /\ work'[w].host = work[w].host
        /\ work'[w].pc = IF work[w].pc = "flag" THEN FirstCommand(OpOf(w)) ELSE "upAgain"
    BY <1>1, <2>1 DEF WorkStates
  <2> QED BY <1>3, <2>2
<1> QED BY <1>2, <1>3

LEMMA HandlerStays ==
  ASSUME Inv, NEW w \in Workers, HandlerStep(w)
  PROVE  /\ Stays(w) /\ work[w].pc # "idle" /\ work'[w].pc # "idle"
         /\ row'.life = row.life /\ excuses \subseteq excuses'
         /\ work'[w].host \in {work[w].host, Nowhere, row.ip}
<1> USE DEF Inv, Core
<1>1. /\ Stays(w) /\ work[w].pc # "idle" /\ row'.life = row.life
  BY ResolveFacts, RunFacts, StatusFacts, TunnelFacts DEF HandlerStep
<1>2. excuses \subseteq excuses'
  BY ResolveFacts, RunFacts, StatusFacts, ExcuseFacts DEF HandlerStep, SetTunnel, Reasons, Excuse
<1>3. work'[w].pc # "idle" /\ work'[w].host \in {work[w].host, Nowhere, row.ip}
  <2>1. OpOf(w) \in Kinds
    BY <1>1 DEF Hands, OpOf
  <2>2. FirstCommand(OpOf(w)) # "idle"
    BY <2>1 DEF FirstCommand, Kinds
  <2>3. ASSUME NEW pc, pc # "idle", Goto(w, pc)
        PROVE  work'[w].pc # "idle" /\ work'[w].host \in {work[w].host, Nowhere, row.ip}
    BY <2>3, GotoGives
  <2>4. CASE Resolve(w) \/ ReadFlag(w)
    BY <2>2, <2>3, <2>4, ReadGives
  <2>5. CASE Run(w)
    <3>1. work[w].pc \in Commands
      BY <2>5 DEF Run
    <3>2. NextPC(w) # "idle"
      BY <3>1 DEF NextPC, Commands, At
    <3> QED BY <2>3, <2>5, <3>2 DEF Run, Fails
  <2>6. CASE SetStatus(w) \/ SetTunnel(w) \/ DbFails(w)
    BY <2>3, <2>6 DEF SetStatus, SetTunnel, DbFails
  <2>7. CASE FlagFails(w)
    BY <2>2, <2>3, <2>7 DEF FlagFails, OpOf
  <2> QED BY <2>4, <2>5, <2>6, <2>7 DEF HandlerStep
<1> QED BY <1>1, <1>2, <1>3

(* Where a command leads.                                                  *)
LEMMA RunGoes ==
  ASSUME NEW w \in Workers, Run(w)
  PROVE  \E pc : /\ Goto(w, pc) /\ pc \in {NextPC(w), IF At(w, "uptime") THEN "unreachable" ELSE "err"}
BY DEF Run, Fails

LEMMA StepsNext ==
  ASSUME Inv, Steps, NEW w \in Workers, HandlerStep(w)
  PROVE  Steps'
<1> USE DEF Inv, Core
<1>1. Stays(w) /\ work[w].pc # "idle"
  BY HandlerStays
<1>2. OpOf(w)' = OpOf(w) /\ OpOf(w) \in Kinds
  BY <1>1 DEF Stays, OpOf, Hands
<1> DEFINE Allowed(pc) ==
    /\ pc \in {"uptime", "docker", "usable", "unreachable"} => OpOf(w) = "validate"
    /\ pc = "up" => OpOf(w) \in {"validate", "start"}
    /\ pc = "running" => OpOf(w) \in {"validate", "start", "restart"}
    /\ pc = "down" => OpOf(w) \in {"stop", "restart"}
    /\ pc = "exited" => OpOf(w) = "stop"
    /\ pc \in {"stopped", "reresolve", "reflag", "upAgain"} => OpOf(w) = "restart"
    /\ pc \in {"agent", "health", "on"} => OpOf(w) = "configure"
    /\ pc \in {"unagent", "off"} => OpOf(w) = "disable"
<1>3. Allowed(work[w].pc)
  BY DEF Steps
<1>4. Allowed(FirstCommand(OpOf(w)))
  BY <1>2 DEF FirstCommand, Kinds
<1>5. Allowed(work'[w].pc)
  <2>1. CASE Resolve(w) \/ ReadFlag(w)
    <3>1. \/ work'[w].pc = "err"
          \/ /\ work[w].pc \in {"resolve", "reresolve"}
             /\ work'[w].pc = IF work[w].pc = "resolve" THEN "flag" ELSE "reflag"
          \/ /\ work[w].pc \in {"flag", "reflag"}
             /\ work'[w].pc = IF work[w].pc = "flag" THEN FirstCommand(OpOf(w)) ELSE "upAgain"
      BY <2>1, ReadGives, GotoGives DEF Resolve, ReadFlag
    <3> QED BY <1>3, <1>4, <3>1
  <2>2. CASE Run(w)
    <3>1. work'[w].pc \in {NextPC(w), IF At(w, "uptime") THEN "unreachable" ELSE "err"}
      BY <2>2, RunGoes, GotoGives
    <3>2. work[w].pc \in Commands
      BY <2>2 DEF Run
    <3> QED BY <1>2, <1>3, <3>1, <3>2 DEF Commands, NextPC, At, Does, OpOf, Kinds
  <2>3. CASE SetStatus(w)
    <3>1. \/ work'[w].pc = "ok"
          \/ work[w].pc = "usable" /\ work'[w].pc = "up"
          \/ work[w].pc = "stopped" /\ work'[w].pc = "reresolve"
      BY <2>3, GotoGives DEF SetStatus, At
    <3> QED BY <1>3, <3>1
  <2>4. CASE SetTunnel(w) \/ DbFails(w)
    BY <2>4, GotoGives DEF SetTunnel, DbFails
  <2>5. CASE FlagFails(w)
    <3>1. /\ work[w].pc \in {"flag", "reflag"}
          /\ work'[w].pc = IF work[w].pc = "flag" THEN FirstCommand(OpOf(w)) ELSE "upAgain"
      BY <2>5, GotoGives DEF FlagFails, At, OpOf
    <3> QED BY <1>3, <1>4, <3>1
  <2> QED BY <2>1, <2>2, <2>3, <2>4, <2>5 DEF HandlerStep
<1>6. \A v \in Workers \ {w} : work'[v] = work[v] /\ OpOf(v)' = OpOf(v)
  BY <1>1 DEF Stays, OpOf
<1> HIDE DEF Allowed
<1> QED BY <1>2, <1>5, <1>6 DEF Steps, Allowed

(* A step of a job leaves the jobs in other hands alone.                   *)
LEMMA HandlerHolds ==
  ASSUME Inv, Held, Apart, NEW w \in Workers, HandlerStep(w)
  PROVE  Held' /\ Apart'
<1>1. /\ Stays(w) /\ work[w].pc # "idle" /\ work'[w].pc # "idle" /\ excuses \subseteq excuses'
  BY HandlerStays
<1>2. /\ UNCHANGED <<op, jobStatus, holder>> /\ work'[w].j = work[w].j
      /\ \A v \in Workers \ {w} : work'[v] = work[v]
  BY <1>1 DEF Stays, storeVars
<1>3. Held'
  BY <1>1, <1>2 DEF Held
<1>4. Apart'
  BY <1>1, <1>2 DEF Apart, OpOf, Undoes
<1> QED BY <1>3, <1>4

-----------------------------------------------------------------------------
(* Commands.  Where a connection leads: to what its address names, or where*)
(* the master that is there leads.                                         *)
LEMMA TravelLeads ==
  ASSUME NEW w \in Workers, NEW m \in Machines, TypeOK, Travel(w, m)
  PROVE  /\ master'.to = m
         /\ visitor' = visitor
         /\ \/ /\ Reusable /\ m = master.to /\ master.to # Nowhere
               /\ master'.adopted = (master.adopted \/ age = Untracked)
               /\ age' = IF age = Untracked THEN 0 ELSE age
            \/ ~Reusable /\ m \in Reached(work[w].host, work[w].via) /\ age' = 0
<1>1. master \in Masters
  BY Typed
<1> QED BY <1>1 DEF Travel, Reusable, Alive, Masters

(* Until the address is changed, it leads to the one machine.              *)
LEMMA TravelHome ==
  ASSUME Inv, OneMachine, NEW w \in Workers, NEW m \in Machines, Travel(w, m),
         work[w].pc # "idle", "moved" \notin excuses
  PROVE  m = given
<1> USE DEF Inv, Core
<1>1. row.life # "new"
  BY DEF Unborn
<1>2. /\ master.to \in {given, Nowhere} /\ work[w].host \in {given, Hostname, Nowhere}
      /\ \A n \in Machines \ {given} : ~machine[n].agent
  BY <1>1 DEF OneMachine
<1>3. CASE m = master.to /\ master.to # Nowhere
  BY <1>2, <1>3
<1>4. CASE m \in Reached(work[w].host, work[w].via)
  BY <1>2, <1>4, ServersAssumption DEF Reached
<1> QED BY <1>3, <1>4, TravelLeads

(* What a command does to the machine it runs on.                          *)
LEMMA EffectGives ==
  ASSUME TypeOK, NEW w \in Workers, NEW m \in Machines, work[w].pc \in Commands
  PROVE  LET g == machine[m]
             h == Effect(w, m)[m]
         IN /\ h.docker = (work[w].pc = "docker" \/ g.docker)
            /\ h.proxy = IF work[w].pc \in {"up", "upAgain"} THEN g.docker
                         ELSE work[w].pc # "down" /\ g.proxy
            /\ h.agent = IF work[w].pc = "agent" THEN g.docker
                         ELSE work[w].pc # "unagent" /\ g.agent
            /\ \A n \in Machines \ {m} : Effect(w, m)[n] = machine[n]
<1>1. machine \in [Machines -> MachineStates] /\ machine[m] \in MachineStates
  BY Typed
<1>2. CASE work[w].pc = "docker"
  BY <1>1, <1>2 DEF Effect, At, MachineStates
<1>3. CASE work[w].pc \in {"up", "upAgain"}
  BY <1>1, <1>3 DEF Effect, At, MachineStates
<1>4. CASE work[w].pc = "down"
  BY <1>1, <1>4 DEF Effect, At, MachineStates
<1>5. CASE work[w].pc = "agent"
  BY <1>1, <1>5 DEF Effect, At, MachineStates
<1>6. CASE work[w].pc = "unagent"
  BY <1>1, <1>6 DEF Effect, At, MachineStates
<1>7. CASE work[w].pc \in {"uptime", "health"}
  BY <1>1, <1>7 DEF Effect, At, MachineStates
<1> QED BY <1>2, <1>3, <1>4, <1>5, <1>6, <1>7 DEF Commands

(* A command has its effect and the job goes on, or it fails, with or      *)
(* without its effect; or docker refuses or is not to be had, and that is  *)
(* recorded.                                                               *)
LEMMA RunChoices ==
  ASSUME Inv, OneMachine, NEW w \in Workers, Run(w), "moved" \notin excuses
  PROVE  \/ /\ Possible(w, given) /\ machine' = Effect(w, given)
            /\ Goto(w, NextPC(w)) \/ Fails(w)
         \/ machine' = machine /\ Fails(w)
         \/ machine' = machine /\ "ignored" \in excuses'
         \/ machine' = machine /\ "undocked" \in excuses' /\ At(w, "docker") /\ Goto(w, NextPC(w))
<1>1. work[w].pc # "idle"
  BY DEF Run, Commands
<1>2. \A m \in Machines : Travel(w, m) => m = given
  BY <1>1, TravelHome
<1>3. CASE \E m \in Machines :
             /\ Travel(w, m)
             /\ Possible(w, m)
             /\ machine' = Effect(w, m)
             /\ IF SawsItsBranch(w, m) THEN Fails(w) ELSE Goto(w, NextPC(w))
  BY <1>2, <1>3
<1>4. CASE /\ Excuse({"ignored"}) \/ (At(w, "docker") /\ Excuse({"undocked"}))
           /\ Goto(w, NextPC(w)) /\ UNCHANGED machine
  BY <1>4 DEF Excuse
<1>5. CASE \E m \in Machines :
             /\ Travel(w, m)
             /\ machine' \in {machine} \cup IF Possible(w, m) THEN {Effect(w, m)} ELSE {}
             /\ Fails(w)
  BY <1>2, <1>5
<1>6. CASE Fails(w) /\ UNCHANGED machine
  BY <1>6
<1> QED BY <1>3, <1>4, <1>5, <1>6 DEF Run

LEMMA RunGives ==
  ASSUME Inv, OneMachine, Agents, NEW w \in Workers, Run(w), given \in Machines, Plain'
  PROVE  LET g == machine[given]
             h == machine'[given]
             pc == work[w].pc
             next == work'[w].pc
         IN /\ g.docker => h.docker
            /\ pc \notin {"up", "upAgain", "down"} => h.proxy = g.proxy
            /\ pc \in {"up", "upAgain"} => h.proxy \/ ~g.proxy
            /\ pc = "down" => g.proxy \/ ~h.proxy
            /\ pc # "unagent" /\ g.agent => h.agent
            /\ \/ /\ next = NextPC(w)
                  /\ pc = "docker" => h.docker \/ "undocked" \in excuses'
                  /\ pc \in {"up", "upAgain"} => h.proxy
                  /\ pc = "down" => ~h.proxy
                  /\ pc = "health" => h.agent
               \/ next \in {"unreachable", "err"}
<1> USE DEF Inv, Core
<1>1. "moved" \notin excuses /\ "ignored" \notin excuses'
  BY HandlerStays DEF HandlerStep, Plain
<1>2. work[w].pc \in Commands
  BY DEF Run
<1>3. Fails(w) => work'[w].pc \in {"unreachable", "err"}
  BY GotoGives DEF Fails
<1>4. Goto(w, NextPC(w)) => work'[w].pc = NextPC(w)
  BY GotoGives
<1>5. machine[given] \in MachineStates /\ (machine[given].agent => machine[given].docker)
  BY Typed DEF Agents
<1>6. CASE machine' = machine /\ Fails(w)
  BY <1>2, <1>3, <1>6 DEF Commands
<1>7. CASE /\ Possible(w, given) /\ machine' = Effect(w, given)
           /\ Goto(w, NextPC(w)) \/ Fails(w)
  <2>1. /\ work[w].pc \in {"up", "upAgain", "health"} => machine[given].docker
        /\ work[w].pc = "health" => machine[given].agent
    BY <1>7 DEF Possible, At
  <2> QED BY <1>2, <1>3, <1>4, <1>5, <1>7, <2>1, EffectGives DEF MachineStates, Commands
<1>8. CASE /\ machine' = machine /\ "undocked" \in excuses' /\ At(w, "docker")
           /\ Goto(w, NextPC(w))
  BY <1>4, <1>8 DEF At
<1> QED BY <1>1, <1>6, <1>7, <1>8, RunChoices

(* The connections and addresses of the one machine.                       *)
LEMMA HandlerHome ==
  ASSUME Inv, Agents, OneMachine, NEW w \in Workers, HandlerStep(w)
  PROVE  Agents' /\ OneMachine'
<1> USE DEF Inv, Core
<1>1. /\ Stays(w) /\ work[w].pc # "idle" /\ row'.life = row.life /\ excuses \subseteq excuses'
      /\ work'[w].host \in {work[w].host, Nowhere, row.ip}
  BY HandlerStays
<1>2. row.life # "new" /\ row \in RowStates /\ master \in Masters
  BY <1>1, Typed DEF Unborn
<1>3. CASE Run(w)
  <2>1. work[w].pc \in Commands /\ row' = row /\ given' = given
    BY <1>3 DEF Run, jobSame
  <2>2. \/ \E m \in Machines : Travel(w, m) /\ machine' \in {machine, Effect(w, m)}
        \/ CutOff(w) /\ machine' = machine
    BY <1>3 DEF Run
  <2>5. visitor' = visitor
    BY <2>2, TravelFacts, CutOffFacts
  <2>3. Agents'
    <3>1. CASE machine' = machine
      BY <3>1 DEF Agents
    <3>2. ASSUME NEW m \in Machines, machine' = Effect(w, m) PROVE Agents'
      <4>1. machine[m] \in MachineStates
        BY Typed
      <4>2. machine'[m].agent => machine'[m].docker
        BY <2>1, <3>2, <4>1, EffectGives DEF Agents, MachineStates
      <4>3. \A n \in Machines \ {m} : machine'[n] = machine[n]
        BY <2>1, <3>2, EffectGives
      <4> QED BY <4>2, <4>3 DEF Agents
    <3> QED BY <2>2, <3>1, <3>2
  <2>4. ASSUME "moved" \notin excuses PROVE OneMachine'
    <3>1. /\ row.ip \in {given, Hostname} /\ row.prev \in {given, Hostname, Nowhere}
          /\ \A v \in Workers : work[v].host \in {given, Hostname, Nowhere}
          /\ \A n \in Machines \ {given} : ~machine[n].agent
      BY <1>2, <2>4 DEF OneMachine
    <3>2. \A v \in Workers : work'[v].host \in {given, Hostname, Nowhere}
      BY <1>1, <3>1 DEF Stays
    <3>3. CASE CutOff(w) /\ machine' = machine
      <4>1. master'.to = Nowhere
        BY <3>3 DEF CutOff, NoMaster
      <4> QED BY <1>2, <2>1, <2>4, <2>5, <3>1, <3>2, <3>3, <4>1 DEF OneMachine
    <3>4. ASSUME NEW m \in Machines, Travel(w, m), machine' \in {machine, Effect(w, m)}
          PROVE  OneMachine'
      <4>1. m = given /\ master'.to = given
        BY <1>1, <2>4, <3>4, TravelHome, TravelLeads
      <4>2. \A n \in Machines \ {given} : machine'[n] = machine[n]
        BY <2>1, <3>4, <4>1, EffectGives
      <4> QED BY <1>2, <2>1, <2>4, <2>5, <3>1, <3>2, <4>1, <4>2 DEF OneMachine
    <3> QED BY <2>2, <3>3, <3>4
  <2> QED BY <1>1, <2>3, <2>4 DEF OneMachine
<1>4. CASE ~Run(w)
  <2>1. UNCHANGED <<machine, master, visitor, given>>
    <3>1. UNCHANGED <<machine, muxVars>> /\ given' = given
      BY <1>4 DEF HandlerStep, Resolve, ReadFlag, SetStatus, SetTunnel, DbFails, FlagFails, jobSame
    <3> QED BY <3>1 DEF muxVars
  <2>2. Agents'
    BY <2>1 DEF Agents
  <2>3. ASSUME "moved" \notin excuses PROVE OneMachine'
    <3>1. /\ row.ip \in {given, Hostname} /\ row.prev \in {given, Hostname, Nowhere}
          /\ \A v \in Workers : work[v].host \in {given, Hostname, Nowhere}
      BY <1>2, <2>3 DEF OneMachine
    <3>2. \A v \in Workers : work'[v].host \in {given, Hostname, Nowhere}
      BY <1>1, <3>1 DEF Stays
    <3>3. row'.ip \in {given, Hostname} /\ row'.prev \in {given, Hostname, Nowhere}
      <4>1. CASE SetTunnel(w)
        <5>1. row' \in {row, TunnelOn, TunnelOff}
          BY <4>1 DEF SetTunnel, Written
        <5> QED BY <1>2, <3>1, <5>1 DEF TunnelOn, TunnelOff, RowStates
      <4>2. CASE SetStatus(w)
        BY <3>1, <4>2, StatusFacts
      <4>3. CASE ~SetTunnel(w) /\ ~SetStatus(w)
        BY <1>4, <3>1, <4>3, ResolveFacts DEF HandlerStep
      <4> QED BY <4>1, <4>2, <4>3
    <3> QED BY <1>2, <2>1, <2>3, <3>2, <3>3 DEF OneMachine
  <2> QED BY <1>1, <2>2, <2>3 DEF OneMachine
<1> QED BY <1>3, <1>4

-----------------------------------------------------------------------------
(* The job of a worker that takes a step is awaited as long as the worker  *)
(* is not at its last statement; the other jobs are as they were.          *)
LEMMA OpenStep ==
  ASSUME Inv, Held, NEW w \in Workers, HandlerStep(w)
  PROVE  /\ \A j \in Jobs \ {work[w].j} : Open(j)' <=> Open(j)
         /\ Open(work[w].j)' <=> work'[w].pc \notin Settled
         /\ work[w].j \in Jobs
<1>1. /\ Stays(w) /\ work[w].pc # "idle" /\ work'[w].pc # "idle"
  BY HandlerStays
<1>2. /\ UNCHANGED <<op, jobStatus, holder>> /\ work'[w].j = work[w].j
      /\ \A v \in Workers \ {w} : work'[v] = work[v]
  BY <1>1 DEF Stays, storeVars
<1>3. work[w].j \in Jobs /\ jobStatus[work[w].j] = "held" /\ holder[work[w].j] = w
  BY <1>1 DEF Inv, Core, Hands, Held
<1>4. \A v \in Workers \ {w} : work[v].j = work[w].j => work[v].pc = "idle"
  BY <1>3 DEF Held
<1>5. \A j \in Jobs \ {work[w].j} : Open(j)' <=> Open(j)
  BY <1>2 DEF Open
<1>6. Open(work[w].j)' <=> work'[w].pc \notin Settled
  BY <1>2, <1>3, <1>4 DEF Open, Settled
<1> QED BY <1>3, <1>5, <1>6

LEMMA AwaitedStep ==
  ASSUME Inv, Held, NEW w \in Workers, HandlerStep(w), NEW kinds
  PROVE  /\ OpOf(w) \in kinds /\ work'[w].pc \notin Settled => Awaited(kinds)'
         /\ OpOf(w) \notin kinds \/ work[w].pc \in Settled
              => (Awaited(kinds) => Awaited(kinds)')
<1>1. op' = op
  BY HandlerStays DEF Stays
<1>2. ASSUME OpOf(w) \in kinds, work'[w].pc \notin Settled
      PROVE  Awaited(kinds)'
  <2>1. work[w].j \in Jobs /\ Open(work[w].j)' /\ work'[w].j = work[w].j
    BY <1>2, OpenStep, HandlerStays DEF Stays
  <2>2. PICK j \in Jobs : j = work[w].j
    BY <2>1
  <2>3. op'[j] \in kinds /\ Open(j)'
    BY <1>1, <1>2, <2>1, <2>2 DEF OpOf, Open
  <2> QED BY <2>3 DEF Awaited
<1>3. ASSUME OpOf(w) \notin kinds \/ work[w].pc \in Settled, Awaited(kinds)
      PROVE  Awaited(kinds)'
  <2>1. PICK j \in Jobs : op[j] \in kinds /\ Open(j)
    BY <1>3 DEF Awaited
  <2>2. j # work[w].j
    <3>1. CASE OpOf(w) \notin kinds
      BY <2>1, <3>1 DEF OpOf
    <3>2. CASE work[w].pc \in Settled
      <4>1. work[w].pc # "idle" /\ work[w].j \in Jobs
        BY HandlerStays, OpenStep
      <4>2. ~Open(work[w].j)
        BY <3>2, <4>1 DEF Held, Open, Settled
      <4> QED BY <2>1, <4>2
    <3> QED BY <1>3, <3>1, <3>2
  <2>3. Open(j)'
    BY <2>1, <2>2, OpenStep
  <2> QED BY <1>1, <2>1, <2>3 DEF Awaited
<1> QED BY <1>2, <1>3

(* What the last statements and the commands of other workers are.         *)
LEMMA OthersSteps ==
  ASSUME Inv, NEW w \in Workers, HandlerStep(w)
  PROVE  \A v \in Workers : v # w => work'[v] = work[v]
BY HandlerStays DEF Stays

LEMMA RunFollows ==
  ASSUME Inv, Orderly, NEW w \in Workers, Run(w), row.life = "there", Plain'
  PROVE  UsableFollows' /\ ProxyFollows' /\ TunnelFollows'
<1> USE DEF Inv, Core, Orderly
<1>1. HandlerStep(w) /\ given \in Machines
  BY DEF HandlerStep, Given
<1>2. Plain /\ UsableFollows /\ ProxyFollows /\ TunnelFollows
  BY <1>1, HandlerStays DEF Plain, Follows
<1>3. UNCHANGED <<row, op, given>> /\ work[w].pc \in Commands
  BY DEF Run, jobSame
<1>4. \A v \in Workers : v # w => work'[v] = work[v]
  BY <1>1, OthersSteps
<1> DEFINE g == machine[given]
           h == machine'[given]
           pc == work[w].pc
           next == work'[w].pc
<1>5. /\ g.docker => h.docker
      /\ pc \notin {"up", "upAgain", "down"} => h.proxy = g.proxy
      /\ pc \in {"up", "upAgain"} => h.proxy \/ ~g.proxy
      /\ pc = "down" => g.proxy \/ ~h.proxy
      /\ pc # "unagent" /\ g.agent => h.agent
      /\ \/ /\ next = NextPC(w)
            /\ pc = "docker" => h.docker \/ "undocked" \in excuses'
            /\ pc \in {"up", "upAgain"} => h.proxy
            /\ pc = "down" => ~h.proxy
            /\ pc = "health" => h.agent
         \/ next \in {"unreachable", "err"}
  BY <1>1, RunGives
<1>6. OpOf(w) \in Kinds
  BY <1>3 DEF Hands, OpOf, Commands
<1>7. /\ pc \in {"uptime", "docker"} => OpOf(w) = "validate"
      /\ pc = "up" => OpOf(w) \in {"validate", "start"}
      /\ pc = "down" => OpOf(w) \in {"stop", "restart"}
      /\ pc = "upAgain" => OpOf(w) = "restart"
      /\ pc \in {"agent", "health"} => OpOf(w) = "configure"
      /\ pc = "unagent" => OpOf(w) = "disable"
  BY DEF Steps
(* Where the command leads, by what it is.                                 *)
<1>8. \/ next \in {"unreachable", "err"}
      \/ pc = "uptime" /\ next = "docker"
      \/ pc = "docker" /\ next = "usable" /\ (h.docker \/ "undocked" \in excuses')
      \/ pc \in {"up", "upAgain"} /\ next = "running" /\ h.proxy
      \/ pc = "down" /\ OpOf(w) = "restart" /\ next = "stopped" /\ ~h.proxy
      \/ pc = "down" /\ OpOf(w) = "stop" /\ next = "exited" /\ ~h.proxy
      \/ pc = "agent" /\ next = "health"
      \/ pc = "health" /\ next = "on" /\ h.agent
      \/ pc = "unagent" /\ next = "off"
  BY <1>3, <1>5, <1>7 DEF NextPC, Commands, At, Does, OpOf
(* Nobody else's job undoes this one.                                      *)
<1>9. \A v \in Workers : work[v].pc # "idle" =>
        ~Undoes(OpOf(v), OpOf(w)) /\ ~Undoes(OpOf(w), OpOf(v))
  BY <1>2, <1>3 DEF Apart, Plain, Commands
<1>10. /\ \A v \in Workers \ {w} : work[v].pc = "running" =>
            OpOf(v) \in {"validate", "start", "restart"}
       /\ \A v \in Workers \ {w} : work[v].pc = "exited" => OpOf(v) = "stop"
       /\ \A v \in Workers \ {w} : work[v].pc = "on" => OpOf(v) = "configure"
  BY DEF Steps
<1>11. \A kinds : /\ OpOf(w) \in kinds /\ next \notin Settled => Awaited(kinds)'
                  /\ OpOf(w) \notin kinds => (Awaited(kinds) => Awaited(kinds)')
  BY <1>1, AwaitedStep
<1>12. /\ OpOf(w) \in ProxyKinds /\ next \notin Settled => Awaited(ProxyKinds)'
       /\ OpOf(w) \notin ProxyKinds => (Awaited(ProxyKinds) => Awaited(ProxyKinds)')
       /\ OpOf(w) \in TunnelKinds /\ next \notin Settled => Awaited(TunnelKinds)'
       /\ OpOf(w) \notin TunnelKinds => (Awaited(TunnelKinds) => Awaited(TunnelKinds)')
  BY <1>11
<1> HIDE DEF g, h, pc, next
<1>13. UsableFollows'
  <2>1. Docked => Docked'
    BY <1>1, <1>3, <1>5, HandlerStays DEF Docked, g, h
  <2>2. row'.usable => Docked'
    BY <1>2, <1>3, <2>1 DEF UsableFollows
  <2>3. \A v \in Workers : work'[v].pc = "usable" => Docked'
    BY <1>2, <1>3, <1>4, <1>8, <2>1 DEF UsableFollows, Docked, h, next
  <2> QED BY <2>2, <2>3 DEF UsableFollows
<1>14. ProxyFollows'
  <2>1. \/ (row'.status = "running") <=> h.proxy
        \/ Awaited(ProxyKinds)'
        \/ \E v \in Workers : work'[v].pc \in {"running", "exited"}
    <3>1. CASE OpOf(w) \in ProxyKinds
      <4>1. next \in {"running", "exited"} \/ next \notin Settled
        BY <1>7, <1>8, <3>1 DEF ProxyKinds, Settled
      <4> QED BY <1>12, <3>1, <4>1 DEF next
    <3>2. CASE OpOf(w) \notin ProxyKinds
      <4>1. h.proxy = g.proxy /\ pc \notin {"running", "exited"}
        BY <1>3, <1>5, <1>7, <3>2 DEF ProxyKinds, Commands, pc
      <4> QED BY <1>2, <1>3, <1>4, <1>12, <3>2, <4>1 DEF ProxyFollows, g, pc
    <3> QED BY <3>1, <3>2
  <2>2. ASSUME NEW v \in Workers, work'[v].pc = "running"
        PROVE  h.proxy \/ Awaited(ProxyKinds)'
    <3>1. CASE v = w
      BY <1>8, <2>2, <3>1 DEF next
    <3>2. CASE v # w
      <4>1. work[v].pc = "running" /\ OpOf(v) \in {"validate", "start", "restart"}
        BY <1>4, <1>10, <2>2, <3>2
      <4>2. g.proxy \/ Awaited(ProxyKinds)
        BY <1>2, <4>1 DEF ProxyFollows, g
      <4>3. OpOf(w) # "stop"
        BY <1>9, <4>1 DEF Undoes
      <4>4. CASE OpOf(w) \notin ProxyKinds
        <5>1. h.proxy = g.proxy
          BY <1>5, <1>7, <4>4 DEF ProxyKinds
        <5> QED BY <1>12, <4>2, <4>4, <5>1
      <4>5. CASE OpOf(w) \in ProxyKinds
        <5>1. (next = "running" /\ h.proxy) \/ next \notin Settled
          BY <1>7, <1>8, <4>3, <4>5 DEF ProxyKinds, Settled
        <5> QED BY <1>12, <4>5, <5>1
      <4> QED BY <4>4, <4>5
    <3> QED BY <3>1, <3>2
  <2>3. ASSUME NEW v \in Workers, work'[v].pc = "exited"
        PROVE  ~h.proxy
    <3>1. CASE v = w
      BY <1>8, <2>3, <3>1 DEF next
    <3>2. CASE v # w
      <4>1. work[v].pc = "exited" /\ OpOf(v) = "stop"
        BY <1>4, <1>10, <2>3, <3>2
      <4>2. ~g.proxy
        BY <1>2, <4>1 DEF ProxyFollows, g
      <4>3. pc \notin {"up", "upAgain"}
        BY <1>7, <1>9, <4>1 DEF Undoes
      <4> QED BY <1>5, <4>2, <4>3
    <3> QED BY <3>1, <3>2
  <2> QED BY <1>3, <2>1, <2>2, <2>3 DEF ProxyFollows, h
<1>15. TunnelFollows'
  <2>1. \/ row'.tunnel => h.agent
        \/ Awaited(TunnelKinds)'
        \/ \E v \in Workers : work'[v].pc = "off"
    <3>1. CASE OpOf(w) \in TunnelKinds
      <4>1. (next = "on" /\ h.agent) \/ next = "off" \/ next \notin Settled
        BY <1>7, <1>8, <3>1 DEF TunnelKinds, Settled
      <4> QED BY <1>12, <3>1, <4>1 DEF next
    <3>2. CASE OpOf(w) \notin TunnelKinds
      <4>1. (g.agent => h.agent) /\ pc # "off"
        BY <1>3, <1>5, <1>7, <3>2 DEF TunnelKinds, Commands, pc
      <4> QED BY <1>2, <1>3, <1>4, <1>12, <3>2, <4>1 DEF TunnelFollows, g, pc
    <3> QED BY <3>1, <3>2
  <2>2. ASSUME NEW v \in Workers, work'[v].pc = "on"
        PROVE  h.agent
    <3>1. CASE v = w
      BY <1>8, <2>2, <3>1 DEF next
    <3>2. CASE v # w
      <4>1. work[v].pc = "on" /\ OpOf(v) = "configure"
        BY <1>4, <1>10, <2>2, <3>2
      <4>2. g.agent
        BY <1>2, <4>1 DEF TunnelFollows, g
      <4>3. pc # "unagent"
        BY <1>7, <1>9, <4>1 DEF Undoes
      <4> QED BY <1>5, <4>2, <4>3
    <3> QED BY <3>1, <3>2
  <2> QED BY <1>3, <2>1, <2>2 DEF TunnelFollows, h
<1> QED BY <1>13, <1>14, <1>15

LEMMA StatusFollows ==
  ASSUME Inv, Orderly, NEW w \in Workers, SetStatus(w), row.life = "there", Plain'
  PROVE  UsableFollows' /\ ProxyFollows' /\ TunnelFollows'
<1> USE DEF Inv, Core, Orderly
<1>1. HandlerStep(w)
  BY DEF HandlerStep
<1>2. Plain /\ UsableFollows /\ ProxyFollows /\ TunnelFollows
  BY <1>1, HandlerStays DEF Plain, Follows
<1>3. UNCHANGED <<machine, op, given>> /\ row \in RowStates
  BY Typed DEF SetStatus, jobSame
<1>4. \A v \in Workers : v # w => work'[v] = work[v]
  BY <1>1, OthersSteps
<1> DEFINE g == machine[given]
           next == work'[w].pc
<1>5. \/ At(w, "usable") /\ row' = [row EXCEPT !.usable = TRUE] /\ next = "up"
      \/ At(w, "running") /\ row' = [row EXCEPT !.status = "running"] /\ next = "ok"
      \/ At(w, "exited") /\ row' = [row EXCEPT !.status = "exited"] /\ next = "ok"
      \/ At(w, "stopped") /\ row' = [row EXCEPT !.status = "exited"] /\ next = "reresolve"
  BY GotoGives DEF SetStatus, Written, Plain, Excuse
<1>6. /\ row'.usable = (At(w, "usable") \/ row.usable)
      /\ row'.tunnel = row.tunnel
      /\ At(w, "usable") => row'.status = row.status
      /\ At(w, "running") => row'.status = "running"
      /\ At(w, "exited") \/ At(w, "stopped") => row'.status = "exited"
  BY <1>3, <1>5 DEF RowStates, At
<1>7. OpOf(w) \in ProxyKinds /\ OpOf(w) \notin TunnelKinds
  BY <1>5 DEF Steps, At, ProxyKinds, TunnelKinds
<1>8. /\ next \notin Settled => Awaited(ProxyKinds)'
      /\ work[w].pc \in Settled => (Awaited(ProxyKinds) => Awaited(ProxyKinds)')
      /\ Awaited(TunnelKinds) => Awaited(TunnelKinds)'
  BY <1>1, <1>7, AwaitedStep
<1>9. next \in {"up", "ok", "reresolve"}
  BY <1>5
<1> HIDE DEF g, next
<1>10. UsableFollows'
  <2>1. Docked => Docked'
    BY <1>1, <1>3, HandlerStays DEF Docked
  <2>2. row'.usable => Docked'
    BY <1>2, <1>6, <2>1 DEF UsableFollows, At
  <2>3. \A v \in Workers : work'[v].pc = "usable" => Docked'
    BY <1>2, <1>4, <1>9, <2>1 DEF UsableFollows, next
  <2> QED BY <2>2, <2>3 DEF UsableFollows
<1>11. ProxyFollows'
  <2>1. \A v \in Workers : work'[v].pc = "exited" => ~g.proxy
    BY <1>2, <1>4, <1>9 DEF ProxyFollows, g, next
  <2>2. \A v \in Workers : work'[v].pc = "running" => g.proxy \/ Awaited(ProxyKinds)'
    <3>1. ASSUME NEW v \in Workers, work'[v].pc = "running"
          PROVE  g.proxy \/ Awaited(ProxyKinds)
      BY <1>2, <1>4, <1>9, <3>1 DEF ProxyFollows, g, next
    <3>2. work[w].pc \in Settled \/ next \notin Settled
      BY <1>5 DEF Settled, At
    <3> QED BY <1>8, <3>1, <3>2
  <2>3. \/ (row'.status = "running") <=> g.proxy
        \/ Awaited(ProxyKinds)'
    <3>1. CASE At(w, "usable") \/ At(w, "stopped")
      BY <1>5, <1>8, <3>1 DEF Settled, At
    <3>2. CASE At(w, "running")
      <4>1. g.proxy \/ Awaited(ProxyKinds)
        BY <1>2, <3>2 DEF ProxyFollows, At, g
      <4> QED BY <1>6, <1>8, <3>2, <4>1 DEF Settled, At
    <3>3. CASE At(w, "exited")
      BY <1>2, <1>6, <3>3 DEF ProxyFollows, At, g
    <3> QED BY <1>5, <3>1, <3>2, <3>3
  <2> QED BY <1>3, <2>1, <2>2, <2>3 DEF ProxyFollows, g
<1>12. TunnelFollows'
  <2>1. \A v \in Workers : work'[v].pc = "on" => g.agent
    BY <1>2, <1>4, <1>9 DEF TunnelFollows, g, next
  <2>2. \A v \in Workers : work[v].pc = "off" => work'[v].pc = "off"
    BY <1>4, <1>5 DEF At
  <2> QED BY <1>2, <1>3, <1>6, <1>8, <2>1, <2>2 DEF TunnelFollows, g
<1> QED BY <1>10, <1>11, <1>12

LEMMA SetTunnelFollows ==
  ASSUME Inv, Orderly, NEW w \in Workers, SetTunnel(w), row.life = "there", Plain'
  PROVE  UsableFollows' /\ ProxyFollows' /\ TunnelFollows'
<1> USE DEF Inv, Core, Orderly
<1>1. HandlerStep(w)
  BY DEF HandlerStep
<1>2. Plain /\ UsableFollows /\ ProxyFollows /\ TunnelFollows
  BY <1>1, HandlerStays DEF Plain, Follows
<1>3. machine' = machine /\ given' = given /\ row \in RowStates
  BY Typed DEF SetTunnel
<1>4. \A v \in Workers : v # w => work'[v] = work[v]
  BY <1>1, OthersSteps
<1>5. work[w].pc \in {"on", "off"} /\ work'[w].pc = "ok"
  BY GotoGives DEF SetTunnel
<1>6. row' = IF At(w, "on") THEN TunnelOn ELSE TunnelOff
  BY DEF SetTunnel, Written
<1>7. /\ row'.usable = row.usable /\ row'.status = row.status
      /\ row'.tunnel => At(w, "on")
  BY <1>3, <1>6 DEF TunnelOn, TunnelOff, RowStates
<1>8. OpOf(w) \notin ProxyKinds
  BY <1>5 DEF Steps, ProxyKinds
<1>9. Awaited(ProxyKinds) => Awaited(ProxyKinds)'
  BY <1>1, <1>8, AwaitedStep
<1>10. \A v \in Workers : work[v].pc \in {"running", "exited"} => work'[v].pc = work[v].pc
  BY <1>4, <1>5
<1>11. \A v \in Workers : work'[v].pc \in {"usable", "running", "exited", "on"} => work'[v].pc = work[v].pc
  BY <1>4, <1>5
<1>12. UsableFollows'
  BY <1>1, <1>2, <1>3, <1>7, <1>11, HandlerStays DEF UsableFollows, Docked
<1>13. ProxyFollows'
  BY <1>2, <1>3, <1>7, <1>9, <1>10, <1>11 DEF ProxyFollows
<1>14. TunnelFollows'
  <2>1. \A v \in Workers : work'[v].pc = "on" => machine[given].agent
    BY <1>2, <1>11 DEF TunnelFollows
  <2>2. row'.tunnel => machine[given].agent
    BY <1>2, <1>7 DEF TunnelFollows, At
  <2> QED BY <1>3, <2>1, <2>2 DEF TunnelFollows
<1> QED BY <1>12, <1>13, <1>14

LEMMA ReadFollows ==
  ASSUME Inv, Orderly, NEW w \in Workers, Resolve(w) \/ ReadFlag(w) \/ DbFails(w) \/ FlagFails(w),
         row.life = "there", Plain'
  PROVE  UsableFollows' /\ ProxyFollows' /\ TunnelFollows'
<1> USE DEF Inv, Core, Orderly
<1>1. HandlerStep(w)
  BY DEF HandlerStep
<1>2. Plain /\ UsableFollows /\ ProxyFollows /\ TunnelFollows
  BY <1>1, HandlerStays DEF Plain, Follows
<1>3. machine' = machine /\ given' = given /\ row' = row
  BY DEF Resolve, ReadFlag, DbFails, FlagFails, jobSame
<1>4. \A v \in Workers : v # w => work'[v] = work[v]
  BY <1>1, OthersSteps
<1>5. work'[w].pc \in Commands \cup {"err", "flag", "reflag"}
  <2>1. FirstCommand(OpOf(w)) \in Commands
    BY <1>1, HandlerStays DEF Hands, OpOf, FirstCommand, Kinds, Commands
  <2>2. CASE Resolve(w) \/ ReadFlag(w)
    BY <2>1, <2>2, ReadGives, GotoGives DEF Commands
  <2>3. CASE DbFails(w)
    BY <2>3, GotoGives DEF DbFails
  <2>4. CASE FlagFails(w)
    BY <2>1, <2>4, GotoGives DEF FlagFails, OpOf, Commands
  <2> QED BY <2>2, <2>3, <2>4
<1>6. \A kinds : /\ OpOf(w) \in kinds => Awaited(kinds)'
                 /\ Awaited(kinds) => Awaited(kinds)'
  BY <1>1, <1>5, AwaitedStep DEF Settled, Commands
<1>7. /\ Awaited(ProxyKinds) => Awaited(ProxyKinds)'
      /\ Awaited(TunnelKinds) => Awaited(TunnelKinds)'
      /\ work[w].pc \in {"running", "exited"} => Awaited(ProxyKinds)'
      /\ work[w].pc = "off" => Awaited(TunnelKinds)'
  BY <1>6 DEF Steps, ProxyKinds, TunnelKinds
<1>8. \A v \in Workers : work'[v].pc \in {"usable", "running", "exited", "on"} => work'[v].pc = work[v].pc
  BY <1>4, <1>5 DEF Commands
<1>9. UsableFollows'
  BY <1>1, <1>2, <1>3, <1>8, HandlerStays DEF UsableFollows, Docked
<1>10. ProxyFollows'
  BY <1>2, <1>3, <1>4, <1>7, <1>8 DEF ProxyFollows
<1>11. TunnelFollows'
  BY <1>2, <1>3, <1>4, <1>7, <1>8 DEF TunnelFollows
<1> QED BY <1>9, <1>10, <1>11

(* Every statement and every command of a job keeps the agreement.         *)
LEMMA HandlerOrders ==
  ASSUME Inv, Orderly, NEW w \in Workers, HandlerStep(w)
  PROVE  Orderly'
<1> USE DEF Inv, Core, Orderly
<1>1. Held' /\ Apart' /\ Steps' /\ Agents' /\ OneMachine'
  BY HandlerHolds, StepsNext, HandlerHome
<1>2. /\ row'.life = row.life /\ Stays(w) /\ work[w].pc # "idle"
      /\ excuses \subseteq excuses'
  BY HandlerStays
<1>3. row.life # "new" /\ row \in RowStates /\ work[w] \in WorkStates
  BY <1>2, Typed DEF Unborn
<1>4. Untouched'
  BY <1>2, <1>3 DEF Untouched
<1>5. Addressed'
  <2>1. row'.ip # Nowhere
    <3>1. CASE SetTunnel(w)
      <4>1. row' \in {row, TunnelOn, TunnelOff}
        BY <3>1 DEF SetTunnel, Written
      <4> QED BY <1>3, <4>1, ServersAssumption DEF Addressed, TunnelOn, TunnelOff, RowStates
    <3>2. CASE ~SetTunnel(w)
      BY <1>3, <3>2, ResolveFacts, RunFacts, StatusFacts DEF Addressed, HandlerStep
    <3> QED BY <3>1, <3>2
  <2>2. work'[w].pc \in Commands \cup {"flag", "reflag", "usable"} => work'[w].host # Nowhere
    <3> USE DEF Commands
    <3>1. CASE Resolve(w) \/ ReadFlag(w)
      BY <1>3, <3>1, ReadGives, GotoGives DEF Addressed, ReadFlag
    <3>2. CASE Run(w)
      BY <3>2, RunGoes, GotoGives DEF Addressed, Run
    <3>3. CASE SetStatus(w)
      <4>1. \/ work'[w].pc \in {"ok", "reresolve"}
            \/ work[w].pc = "usable" /\ work'[w].pc = "up" /\ work'[w].host = work[w].host
        BY <3>3, GotoGives DEF SetStatus, At
      <4> QED BY <4>1 DEF Addressed
    <3>4. CASE SetTunnel(w) \/ DbFails(w)
      BY <3>4, GotoGives DEF SetTunnel, DbFails
    <3>5. CASE FlagFails(w)
      BY <3>5, GotoGives DEF FlagFails, Addressed
    <3> QED BY <3>1, <3>2, <3>3, <3>4, <3>5 DEF HandlerStep
  <2>3. \A v \in Workers : v # w => work'[v] = work[v]
    BY OthersSteps
  <2> QED BY <2>1, <2>2, <2>3 DEF Addressed
<1>6. Follows'
  <2> SUFFICES ASSUME row.life = "there", Plain'
               PROVE  UsableFollows' /\ ProxyFollows' /\ TunnelFollows'
    BY <1>2 DEF Follows
  <2> QED BY RunFollows, StatusFollows, SetTunnelFollows, ReadFollows DEF HandlerStep
<1> QED BY <1>1, <1>4, <1>5, <1>6

-----------------------------------------------------------------------------
(* The agreement and the steps that leave the row and the machines alone:  *)
(* what was awaited is awaited, and whoever was about to write the row     *)
(* still is, or will run again.                                            *)
LEMMA FollowsKept ==
  ASSUME Follows, UNCHANGED <<row, machine, given>>, excuses \subseteq excuses',
         Awaited(ProxyKinds) => Awaited(ProxyKinds)',
         Awaited(TunnelKinds) => Awaited(TunnelKinds)',
         \A v \in Workers : work'[v].pc \in {"usable", "running", "exited", "on"}
                              => work'[v].pc = work[v].pc,
         \A v \in Workers : work[v].pc \in {"running", "exited"}
                              => work'[v].pc = work[v].pc \/ Awaited(ProxyKinds)',
         \A v \in Workers : work[v].pc = "off"
                              => work'[v].pc = work[v].pc \/ Awaited(TunnelKinds)'
  PROVE  Follows'
<1> SUFFICES ASSUME row.life = "there", Plain'
             PROVE  UsableFollows' /\ ProxyFollows' /\ TunnelFollows'
  BY DEF Follows
<1>1. UsableFollows /\ ProxyFollows /\ TunnelFollows
  BY DEF Follows, Plain
<1>2. UsableFollows'
  BY <1>1 DEF UsableFollows, Docked
<1>3. ProxyFollows'
  BY <1>1 DEF ProxyFollows
<1>4. TunnelFollows'
  BY <1>1 DEF TunnelFollows
<1> QED BY <1>2, <1>3, <1>4

LEMMA TakeOrders ==
  ASSUME Inv, Orderly, NEW w \in Workers, NEW j \in Jobs, Take(w, j)
  PROVE  Orderly'
<1> USE DEF Inv, Core, Orderly
<1>1. /\ work[w].pc = "idle" /\ jobStatus[j] = "queued"
      /\ work' = [work EXCEPT ![w] = [Idle EXCEPT !.pc = "resolve", !.j = j]]
      /\ jobStatus' = [jobStatus EXCEPT ![j] = "held"] /\ holder' = [holder EXCEPT ![j] = w]
      /\ UNCHANGED <<row, machine, muxVars, op, given>>
      /\ excuses \subseteq excuses' /\ excuses' \subseteq excuses \cup {"overlap"}
  BY DEF Take, Store!Take, At, Excuse
<1>2. /\ work'[w].pc = "resolve" /\ work'[w].j = j /\ work'[w].host = Nowhere
      /\ \A v \in Workers : v # w => work'[v] = work[v]
  BY <1>1, Typed DEF Idle
<1>3. /\ jobStatus'[j] = "held" /\ holder'[j] = w
      /\ \A i \in Jobs : i # j => jobStatus'[i] = jobStatus[i] /\ holder'[i] = holder[i]
  BY <1>1, Typed DEF Store!StoreTypeOK
<1>4. \A v \in Workers : work[v].pc # "idle" => work[v].j \in Jobs /\ work[v].j # j
  BY <1>1 DEF Held, Hands
<1>5. row.life # "new"
  BY <1>1 DEF Unborn
<1>6. Held'
  BY <1>2, <1>3, <1>4 DEF Held
<1>7. Steps'
  BY <1>1, <1>2 DEF Steps, OpOf
<1>8. Apart'
  <2> SUFFICES ASSUME "overlap" \notin excuses', NEW u \in Workers, NEW v \in Workers,
                      work'[u].pc # "idle", work'[v].pc # "idle"
               PROVE  ~Undoes(OpOf(u)', OpOf(v)')
    BY DEF Apart
  <2>1. \A t \in Workers : work[t].pc # "idle" => ~Undoes(OpOf(t), op[j]) /\ ~Undoes(op[j], OpOf(t))
    BY DEF Take, Excuse, At, OpOf
  <2>2. ~Undoes(op[j], op[j])
    BY DEF Undoes
  <2>3. OpOf(w)' = op[j] /\ \A t \in Workers : t # w => OpOf(t)' = OpOf(t)
    BY <1>1, <1>2 DEF OpOf
  <2>4. \A t, s \in Workers : work[t].pc # "idle" /\ work[s].pc # "idle" => ~Undoes(OpOf(t), OpOf(s))
    BY <1>1 DEF Apart
  <2>5. CASE u = w /\ v = w
    BY <2>2, <2>3, <2>5
  <2>6. CASE u = w /\ v # w
    BY <1>2, <2>1, <2>3, <2>6
  <2>7. CASE u # w /\ v = w
    BY <1>2, <2>1, <2>3, <2>7
  <2>8. CASE u # w /\ v # w
    BY <1>2, <2>3, <2>4, <2>8
  <2> QED BY <2>5, <2>6, <2>7, <2>8
<1>9. Untouched' /\ Agents' /\ Addressed'
  BY <1>1, <1>2, <1>5 DEF Untouched, Agents, Addressed, Commands
<1>10. OneMachine'
  BY <1>1, <1>2, <1>5 DEF OneMachine, muxVars
<1>11. \A i \in Jobs : Open(i) => Open(i)'
  BY <1>1, <1>2, <1>3 DEF Open, Settled
<1>12. \A kinds : Awaited(kinds) => Awaited(kinds)'
  BY <1>1, <1>11 DEF Awaited
<1>13. Follows'
  BY <1>1, <1>2, <1>12, FollowsKept
<1> QED BY <1>6, <1>7, <1>8, <1>9, <1>10, <1>13

(* A job that reports a success was not awaited any more, one that reports *)
(* a failure is, until a person asks again when its tries are used up.     *)
LEMMA ReportOrders ==
  ASSUME Inv, Orderly, NEW w \in Workers, Report(w)
  PROVE  Orderly'
<1> USE DEF Inv, Core, Orderly
<1>1. /\ work[w].pc \in {"ok", "err"} /\ work' = [work EXCEPT ![w] = Idle]
      /\ UNCHANGED <<row, machine, muxVars, op, given, excuses>>
  BY DEF Report, PutDown, At
<1>2. work'[w] = Idle /\ \A v \in Workers : v # w => work'[v] = work[v]
  BY <1>1, Typed
<1>3. PICK j \in Jobs : j = work[w].j
  BY <1>1 DEF Hands
<1>4. /\ \A i \in Jobs : i # j => jobStatus'[i] = jobStatus[i] /\ holder'[i] = holder[i]
      /\ work[w].pc = "err" => jobStatus'[j] \in {"queued", "dropped"}
  BY <1>1, <1>3, Typed DEF Report, At, Store!Finish, Store!Miss, Store!StoreTypeOK
<1>5. \A v \in Workers : v # w /\ work[v].pc # "idle" => work[v].j \in Jobs /\ work[v].j # j
  BY <1>1, <1>3 DEF Held, Hands
<1>6. jobStatus[j] = "held" /\ row.life # "new"
  BY <1>1, <1>3 DEF Held, Unborn
<1>7. Held'
  <2>1. work'[w].pc = "idle"
    BY <1>2 DEF Idle
  <2> QED BY <1>2, <1>4, <1>5, <2>1 DEF Held
<1>8. Steps' /\ Apart'
  BY <1>1, <1>2 DEF Steps, Apart, OpOf, Idle
<1>9. Untouched' /\ Agents' /\ Addressed' /\ OneMachine'
  BY <1>1, <1>2, <1>6 DEF Untouched, Agents, Addressed, OneMachine, muxVars, Idle, Commands
<1>10. \A i \in Jobs : Open(i) => Open(i)'
  <2> SUFFICES ASSUME NEW i \in Jobs, Open(i) PROVE Open(i)'
    OBVIOUS
  <2>1. CASE i = j
    <3>1. work[w].pc = "err"
      BY <1>1, <1>5, <1>6, <2>1 DEF Open, Settled
    <3> QED BY <1>4, <2>1, <3>1 DEF Open
  <2>2. CASE i # j
    BY <1>2, <1>3, <1>4, <2>2 DEF Open
  <2> QED BY <2>1, <2>2
<1>11. \A kinds : Awaited(kinds) => Awaited(kinds)'
  BY <1>1, <1>10 DEF Awaited
<1>12. Follows'
  BY <1>1, <1>2, <1>11, FollowsKept DEF Idle
<1> QED BY <1>7, <1>8, <1>9, <1>12

(* Every job that was in somebody's hands will run again.                  *)
LEMMA RestartOrders ==
  ASSUME Inv, Orderly, Restart
  PROVE  Orderly'
<1> USE DEF Inv, Core, Orderly
<1>1. /\ UNCHANGED <<row, machine, master, op, given, excuses>> /\ visitor' = Nobody
      /\ \A w \in Workers : work'[w] = Idle
  BY DEF Restart
<1>2. \A j \in Jobs : IF jobStatus[j] = "held" THEN jobStatus'[j] = "queued"
                                              ELSE jobStatus'[j] = jobStatus[j]
  BY DEF Restart, storeVars, Store!LetGo
<1>3. \A w \in Workers : work[w].pc # "idle" => work[w].j \in Jobs /\ jobStatus'[work[w].j] = "queued"
  BY <1>2 DEF Held, Hands
<1>4. Held' /\ Steps' /\ Apart' /\ Addressed'
  <2>1. \A w \in Workers : work'[w].pc = "idle"
    BY <1>1 DEF Idle
  <2> QED BY <1>1, <2>1 DEF Held, Steps, Apart, Addressed, Commands
<1>5. Untouched' /\ Agents'
  BY <1>1 DEF Untouched, Agents
<1>6. OneMachine'
  BY <1>1 DEF OneMachine, Idle, Nobody
<1>7. \A i \in Jobs : Open(i) => Open(i)'
  BY <1>2, <1>3 DEF Open, Settled
<1>8. \A kinds : Awaited(kinds) => Awaited(kinds)'
  BY <1>1, <1>7 DEF Awaited
<1>9. ASSUME NEW kinds, NEW w \in Workers, work[w].pc # "idle", OpOf(w) \in kinds
      PROVE  Awaited(kinds)'
  <2>1. PICK j \in Jobs : j = work[w].j
    BY <1>3, <1>9
  <2>2. op'[j] \in kinds /\ Open(j)'
    BY <1>1, <1>3, <1>9, <2>1 DEF Open, OpOf
  <2> QED BY <2>2 DEF Awaited
<1>10. \A v \in Workers : work[v].pc \in {"running", "exited"} => Awaited(ProxyKinds)'
  BY <1>9 DEF Steps, ProxyKinds
<1>11. \A v \in Workers : work[v].pc = "off" => Awaited(TunnelKinds)'
  BY <1>9 DEF Steps, TunnelKinds
<1>12. Follows'
  BY <1>1, <1>8, <1>10, <1>11, FollowsKept DEF Idle
<1> QED BY <1>4, <1>5, <1>6, <1>12

LEMMA RequestOrders ==
  ASSUME Inv, Orderly,
         \/ Delete \/ \E m \in Machines : Create(m) \/ Patch(m)
         \/ \E j \in Jobs, what \in Kinds : Request(j, what)
  PROVE  Orderly'
<1> USE DEF Inv, Core, Orderly
<1>1. row \in RowStates
  BY Typed
<1>2. ASSUME NEW m \in Machines, Create(m) PROVE Orderly'
  <2>1. /\ row.life = "new" /\ given' = m
        /\ row' = [row EXCEPT !.life = "there", !.ip = m]
        /\ UNCHANGED <<machine, muxVars, op, storeVars, work, since, excuses, budget>>
    BY <1>2 DEF Create
  <2>2. /\ row'.life = "there" /\ row'.ip = m /\ row'.prev = Nowhere
        /\ ~row'.tunnel /\ ~row'.usable /\ row'.status = "exited" /\ master.to = Nowhere
        /\ visitor = Nobody
        /\ \A n \in Machines : ~machine[n].proxy /\ ~machine[n].agent
    BY <1>1, <2>1 DEF RowStates, Unborn, Untouched
  <2>3. \A w \in Workers : work[w] = Idle
    BY <2>1 DEF Unborn, Held
  <2>4. Held' /\ Steps' /\ Apart' /\ Untouched' /\ Agents'
    <3>1. \A w \in Workers : work'[w] = work[w] /\ work[w].pc = "idle"
      BY <2>1, <2>3 DEF Idle
    <3>2. Held'
      BY <2>1, <2>3, <3>1 DEF Held
    <3> QED BY <2>1, <2>2, <3>1, <3>2 DEF Steps, Apart, Untouched, Agents
  <2>5. Addressed' /\ OneMachine'
    BY <2>1, <2>2, <2>3, ServersAssumption DEF Addressed, OneMachine, Idle, Nobody, muxVars, Commands
  <2>6. Follows'
    BY <2>1, <2>2, <2>3 DEF Follows, UsableFollows, ProxyFollows, TunnelFollows, Idle
  <2> QED BY <2>4, <2>5, <2>6
<1>3. ASSUME NEW m \in Machines, Patch(m) PROVE Orderly'
  <2>1. /\ row' = [row EXCEPT !.ip = m] /\ row.life = "there"
        /\ UNCHANGED <<machine, muxVars, op, storeVars, work>>
        /\ "moved" \in excuses' /\ excuses \subseteq excuses'
    BY <1>3 DEF Patch, Excuse
  <2>2. row'.life = "there" /\ row'.ip = m
    BY <1>1, <2>1 DEF RowStates
  <2>3. Held' /\ Steps' /\ Apart' /\ Untouched' /\ Agents'
    BY <2>1, <2>2 DEF Held, Steps, Apart, Untouched, Agents, OpOf, storeVars
  <2>4. Addressed' /\ OneMachine' /\ Follows'
    BY <2>1, <2>2, ServersAssumption DEF Addressed, OneMachine, Follows, Plain
  <2> QED BY <2>3, <2>4
<1>4. CASE Delete
  <2>1. /\ row' = [row EXCEPT !.life = "gone"] /\ row.life = "there"
        /\ UNCHANGED <<machine, muxVars, op, storeVars, work, given, excuses>>
    BY <1>4 DEF Delete
  <2>2. row'.life = "gone" /\ row'.ip = row.ip /\ row'.prev = row.prev
    BY <1>1, <2>1 DEF RowStates
  <2>3. Held' /\ Steps' /\ Apart' /\ Untouched' /\ Agents'
    BY <2>1, <2>2 DEF Held, Steps, Apart, Untouched, Agents, OpOf, storeVars
  <2>4. Addressed' /\ OneMachine' /\ Follows'
    BY <2>1, <2>2 DEF Addressed, OneMachine, Follows, muxVars
  <2> QED BY <2>3, <2>4
<1>5. ASSUME NEW j \in Jobs, NEW what \in Kinds, Request(j, what) PROVE Orderly'
  <2>1. /\ row.life = "there" /\ op[j] = "none" /\ op' = [op EXCEPT ![j] = what]
        /\ jobStatus[j] = "absent" /\ jobStatus' = [jobStatus EXCEPT ![j] = "queued"]
        /\ UNCHANGED <<holder, row, machine, muxVars, work, given, excuses>>
    BY <1>5 DEF Request, Store!Submit
  <2>2. /\ \A i \in Jobs : i # j => op'[i] = op[i] /\ jobStatus'[i] = jobStatus[i]
    BY <2>1, Typed DEF Store!StoreTypeOK
  <2>3. \A w \in Workers : work[w].pc # "idle" => work[w].j \in Jobs /\ work[w].j # j
    BY <2>1 DEF Held, Hands
  <2>4. \A w \in Workers : work[w].pc # "idle" => OpOf(w)' = OpOf(w)
    BY <2>1, <2>2, <2>3 DEF OpOf
  <2>5. Held' /\ Apart' /\ Untouched' /\ Agents' /\ Addressed' /\ OneMachine'
    BY <2>1, <2>2, <2>3, <2>4 DEF Held, Apart, Untouched, Agents, Addressed, OneMachine, muxVars
  <2>6. Steps'
    BY <2>1, <2>4 DEF Steps
  <2>7. \A i \in Jobs : Open(i) => Open(i)'
    BY <2>1, <2>2 DEF Open
  <2>8. \A kinds : "none" \notin kinds => (Awaited(kinds) => Awaited(kinds)')
    BY <2>1, <2>2, <2>7 DEF Awaited
  <2>9. Follows'
    BY <2>1, <2>8, FollowsKept DEF ProxyKinds, TunnelKinds
  <2> QED BY <2>5, <2>6, <2>9
<1> QED BY <1>2, <1>3, <1>4, <1>5

LEMMA TimeOrders ==
  ASSUME Inv, Orderly, MasterEnds \/ Tick \/ Visit \/ Leave \/ UNCHANGED vars
  PROVE  Orderly'
<1> USE DEF Inv, Core, Orderly
<1>1. UNCHANGED <<row, machine, op, jobStatus, holder, work, given, excuses>>
  BY DEF MasterEnds, Tick, Visit, Leave, vars, storeVars
<1>2. Held' /\ Steps' /\ Apart' /\ Agents' /\ Addressed'
  BY <1>1 DEF Held, Steps, Apart, Agents, Addressed, OpOf
<1>3. Untouched' /\ OneMachine'
  <2>1. CASE MasterEnds \/ Tick \/ UNCHANGED vars
    <3>1. master'.to \in {master.to, Nowhere} /\ visitor' = visitor
      BY <2>1 DEF MasterEnds, Tick, vars, muxVars, NoMaster
    <3> QED BY <1>1, <3>1 DEF Untouched, OneMachine
  <2>2. CASE Visit
    <3>1. row.life = "there" /\ visitor'.host = row.ip /\ master' = master
      BY <2>2 DEF Visit
    <3> QED BY <1>1, <3>1 DEF Untouched, OneMachine
  <2>3. CASE Leave
    <3>1. row.life # "new" /\ visitor'.host = Nowhere
      BY <2>3 DEF Leave, Untouched, Nobody
    <3>2. master'.to = master.to \/ master'.to \in Reached(visitor.host, visitor.via)
      BY <2>3 DEF Leave
    <3>3. ASSUME "moved" \notin excuses PROVE master'.to \in {given, Nowhere}
      BY <3>1, <3>2, <3>3, ServersAssumption DEF OneMachine, Reached
    <3> QED BY <1>1, <3>1, <3>3 DEF Untouched, OneMachine
  <2> QED BY <2>1, <2>2, <2>3
<1>4. \A kinds : Awaited(kinds) => Awaited(kinds)'
  BY <1>1 DEF Awaited, Open
<1>5. Follows'
  BY <1>1, <1>4, FollowsKept
<1> QED BY <1>2, <1>3, <1>5

LEMMA OrderlyInit == Init => Orderly
<1> SUFFICES ASSUME Init PROVE Orderly
  OBVIOUS
<1>1. /\ row.life = "new" /\ ~row.usable /\ row.status = "exited" /\ master.to = Nowhere
      /\ visitor = Nobody
      /\ \A w \in Workers : work[w] = Idle
      /\ \A m \in Machines : ~machine[m].proxy /\ ~machine[m].agent
  BY DEF Init, NoMaster
<1>2. Held /\ Steps /\ Apart /\ Untouched /\ Agents
  <2>1. \A w \in Workers : work[w].pc = "idle"
    BY <1>1 DEF Idle
  <2> QED BY <1>1, <2>1 DEF Held, Steps, Apart, Untouched, Agents
<1>3. Addressed /\ OneMachine /\ Follows
  BY <1>1 DEF Addressed, OneMachine, Follows, Idle, Commands
<1> QED BY <1>2, <1>3 DEF Orderly

LEMMA OrderlyNext ==
  ASSUME Inv, Orderly, [Next]_vars
  PROVE  Orderly'
BY HandlerOrders, TakeOrders, ReportOrders, RestartOrders, RequestOrders, TimeOrders
DEF Next, Handler, HandlerStep

LEMMA Orders == Spec => [](Inv /\ Orderly)
BY InvInit, InvNext, OrderlyInit, OrderlyNext, PTL DEF Spec

(* At rest nothing is awaited and nobody works.                            *)
LEMMA RestAgrees == Inv /\ Orderly => RowFollows
<1> SUFFICES ASSUME Inv, Orderly, row.life = "there", excuses \subseteq {"again", "undocked"}
             PROVE  /\ row.usable => machine[given].docker \/ "undocked" \in excuses
                    /\ AtRest => /\ row.status = "running" <=> machine[given].proxy
                                 /\ row.tunnel => machine[given].agent
  BY DEF RowFollows
<1>1. UsableFollows /\ ProxyFollows /\ TunnelFollows
  BY DEF Orderly, Follows, Plain
<1>2. ASSUME AtRest
      PROVE  /\ \A w \in Workers : work[w].pc = "idle"
             /\ \A kinds : ~Awaited(kinds)
  <2>1. \A w \in Workers : work[w].pc = "idle"
    BY <1>2 DEF AtRest, Orderly, Held, Inv, Core, Hands
  <2> QED BY <1>2, <2>1 DEF AtRest, Awaited, Open, Settled
<1> QED BY <1>1, <1>2 DEF UsableFollows, Docked, ProxyFollows, TunnelFollows

-----------------------------------------------------------------------------
(* The age of the master.                                                  *)
LEMMA ReachedNamed ==
  ASSUME NEW host, NEW via
  PROVE  Reached(host, via) \subseteq Named(host)
BY DEF Reached, Named

(* Steps that neither move the master nor change the address.              *)
LEMMA AgesKept ==
  ASSUME Ages, UNCHANGED <<master, age, visitor, since>>, row'.ip = row.ip,
         \A v \in Workers : work'[v].host \in {work[v].host, Nowhere, row.ip}
  PROVE  Ages'
BY DEF Ages, Former, FormerVisitor

LEMMA RunAges ==
  ASSUME Inv, Orderly, Ages, NEW w \in Workers, Run(w)
  PROVE  Ages'
<1> USE DEF Inv, Core
<1>1. /\ HandlerStep(w) /\ UNCHANGED <<row, since>> /\ work[w].pc \in Commands
  BY DEF HandlerStep, Run, jobSame
<1>2. \A v \in Workers : work'[v].host \in {work[v].host, Nowhere, row.ip}
  BY <1>1, HandlerStays, OthersSteps
<1>3. visitor' = visitor
  BY TravelFacts, CutOffFacts DEF Run
<1>4. FormerVisitor' \/ (\E v \in Workers : Former(v)') => since' = 0
  BY <1>1, <1>2, <1>3 DEF Ages, Former, FormerVisitor
<1>5. CASE CutOff(w)
  <2>1. master'.to = Nowhere
    BY <1>5 DEF CutOff, NoMaster
  <2> QED BY <1>4, <2>1 DEF Ages, Former, FormerVisitor
<1>6. ASSUME NEW m \in Machines, Travel(w, m) PROVE Ages'
  <2>1. CASE /\ master'.to = master.to /\ master.to # Nowhere
             /\ master'.adopted = (master.adopted \/ age = Untracked)
             /\ age' = IF age = Untracked THEN 0 ELSE age
    <3>1. ~master'.adopted => ~master.adopted /\ age # Untracked /\ age' = age
      BY <2>1
    <3> QED BY <1>1, <1>4, <2>1, <3>1 DEF Ages, Former, FormerVisitor
  <2>2. CASE master'.to = m /\ m \in Reached(work[w].host, work[w].via) /\ age' = 0
    <3>1. m \in Named(work[w].host) /\ work[w].host # Nowhere
      BY <1>1, <2>2, ReachedNamed DEF Orderly, Addressed
    <3>2. m \in Named(row.ip) \/ since = 0
      BY <3>1 DEF Ages, Former
    <3> QED BY <1>1, <1>4, <2>2, <3>2 DEF Ages, Former, FormerVisitor
  <2> QED BY <1>6, <2>1, <2>2, TravelLeads
<1> QED BY <1>5, <1>6 DEF Run

LEMMA HandlerAges ==
  ASSUME Inv, Orderly, Ages, NEW w \in Workers, HandlerStep(w)
  PROVE  Ages'
<1> USE DEF Inv, Core
<1>1. \A v \in Workers : work'[v].host \in {work[v].host, Nowhere, row.ip}
  BY HandlerStays, OthersSteps
<1>2. CASE Run(w)
  BY <1>2, RunAges
<1>3. CASE SetTunnel(w)
  <2>1. /\ UNCHANGED <<master, age, visitor>> /\ since' = IF row'.ip = row.ip THEN since ELSE 0
    BY <1>3 DEF SetTunnel, muxVars
  <2>2. CASE row'.ip = row.ip
    BY <1>1, <2>1, <2>2, AgesKept
  <2>3. CASE since' = 0
    <3>1. 0 <= age
      BY Typed, ServersAssumption DEF Untracked
    <3> QED BY <1>1, <2>1, <2>3, <3>1 DEF Ages
  <2> QED BY <2>1, <2>2, <2>3
<1>4. CASE ~Run(w) /\ ~SetTunnel(w)
  <2>1. row'.ip = row.ip
    BY <1>4, ResolveFacts, StatusFacts DEF HandlerStep
  <2>2. UNCHANGED <<jobSame, muxVars>>
    BY <1>4 DEF HandlerStep, Resolve, ReadFlag, SetStatus, DbFails, FlagFails
  <2> QED BY <1>1, <2>1, <2>2, AgesKept DEF jobSame, muxVars
<1> QED BY <1>2, <1>3, <1>4

LEMMA OthersAge ==
  ASSUME Inv, Orderly, Ages,
         \/ Delete \/ Restart \/ MasterEnds \/ Tick \/ Visit \/ Leave \/ UNCHANGED vars
         \/ \E m \in Machines : Create(m) \/ Patch(m)
         \/ \E j \in Jobs, what \in Kinds : Request(j, what)
         \/ \E w \in Workers : Report(w) \/ \E j \in Jobs : Take(w, j)
  PROVE  Ages'
<1> USE DEF Inv, Core
<1>1. /\ row \in RowStates /\ age \in 0..MaxAge + 2 /\ since \in 0..MaxAge + 1 /\ MaxAge \in Nat
      /\ work \in [Workers -> WorkStates]
  BY Typed, ServersAssumption DEF Untracked
<1>2. ASSUME NEW m \in Machines, Create(m) PROVE Ages'
  <2>1. /\ row.life = "new"
        /\ UNCHANGED <<machine, muxVars, op, storeVars, work, since, excuses, budget>>
    BY <1>2 DEF Create
  <2>2. master'.to = Nowhere /\ visitor'.host = Nowhere
    BY <2>1 DEF Orderly, Untouched, muxVars, Nobody
  <2>3. \A w \in Workers : work'[w].host = Nowhere
    BY <2>1 DEF Orderly, Held, Unborn, Idle
  <2> QED BY <2>2, <2>3 DEF Ages, Former, FormerVisitor
<1>3. ASSUME NEW m \in Machines, Patch(m) PROVE Ages'
  <2>1. since' = 0 /\ UNCHANGED <<master, age>>
    BY <1>3 DEF Patch, muxVars
  <2> QED BY <1>1, <2>1 DEF Ages
<1>4. CASE Delete \/ UNCHANGED vars \/ \E j \in Jobs, what \in Kinds : Request(j, what)
  <2>1. /\ row'.ip = row.ip
        /\ UNCHANGED <<master, age, visitor, since, work>>
    <3>1. CASE Delete
      BY <1>1, <3>1 DEF Delete, RowStates, muxVars
    <3>2. CASE UNCHANGED vars \/ \E j \in Jobs, what \in Kinds : Request(j, what)
      BY <3>2 DEF Request, vars, muxVars
    <3> QED BY <1>4, <3>1, <3>2
  <2> QED BY <2>1, AgesKept
<1>5. ASSUME NEW w \in Workers, Report(w) \/ \E j \in Jobs : Take(w, j) PROVE Ages'
  <2>1. UNCHANGED <<row, master, age, visitor, since>>
    BY <1>5 DEF Report, Take, muxVars
  <2>2. \A v \in Workers : work'[v].host \in {work[v].host, Nowhere}
    <3>1. CASE Report(w)
      BY <1>1, <3>1 DEF Report, PutDown, Idle
    <3>2. ASSUME NEW j \in Jobs, Take(w, j)
          PROVE  \A v \in Workers : work'[v].host \in {work[v].host, Nowhere}
      BY <1>1, <3>2 DEF Take, Idle
    <3> QED BY <1>5, <3>1, <3>2
  <2> QED BY <2>1, <2>2, AgesKept
<1>6. CASE Restart
  <2>1. /\ \A v \in Workers : work'[v].host = Nowhere
        /\ visitor'.host = Nowhere /\ age' = Untracked
    BY <1>6 DEF Restart, Idle, Nobody
  <2> QED BY <2>1 DEF Ages, Former, FormerVisitor
<1>7. CASE MasterEnds
  <2>1. master'.to = Nowhere /\ UNCHANGED <<row, work, visitor, since>>
    BY <1>7 DEF MasterEnds, NoMaster
  <2> QED BY <2>1 DEF Ages, Former, FormerVisitor
<1>8. CASE Tick
  <2>1. /\ UNCHANGED <<row, master, visitor, work>>
        /\ age' = IF age > MaxAge THEN age ELSE age + 1
        /\ since' = IF FormerVisitor \/ \E w \in Workers : Former(w) THEN 0
                    ELSE IF since > MaxAge THEN since ELSE since + 1
    BY <1>8 DEF Tick, Former, FormerVisitor
  <2>2. FormerVisitor' \/ (\E w \in Workers : Former(w)') => since' = 0
    BY <2>1 DEF Former, FormerVisitor
  <2>3. age' # Untracked => age # Untracked /\ 0 <= age'
    BY <1>1, <2>1 DEF Untracked
  <2>4. ASSUME since <= age, age # Untracked PROVE since' <= age'
    <3>1. age <= MaxAge + 1 /\ 0 <= age'
      BY <1>1, <2>1, <2>4 DEF Untracked
    <3>2. CASE since' = 0
      BY <3>1, <3>2
    <3>3. CASE since' = IF since > MaxAge THEN since ELSE since + 1
      BY <1>1, <2>1, <2>4, <3>1, <3>3
    <3> QED BY <2>1, <3>2, <3>3
  <2> QED BY <2>1, <2>2, <2>3, <2>4 DEF Ages, Former, FormerVisitor
<1>9. CASE Visit
  <2>1. visitor'.host = row.ip /\ UNCHANGED <<row, master, age, since, work>>
    BY <1>9 DEF Visit
  <2> QED BY <2>1 DEF Ages, Former, FormerVisitor
(* The visitor's master leads to where his address did, and that he held   *)
(* until now.                                                              *)
<1>10. CASE Leave
  <2>1. visitor'.host = Nowhere /\ UNCHANGED <<row, age, since, work>>
    BY <1>10 DEF Leave, Nobody
  <2>2. CASE master' = master
    BY <2>1, <2>2 DEF Ages, Former, FormerVisitor
  <2>3. CASE master'.to \in Reached(visitor.host, visitor.via)
    <3>1. master'.to \in Named(visitor.host) /\ visitor.host # Nowhere
      BY <2>3, ReachedNamed, ServersAssumption DEF Reached
    <3>2. master'.to \in Named(row.ip) \/ since = 0
      BY <3>1 DEF Ages, FormerVisitor
    <3>3. since = 0 => since <= age
      BY <1>1
    <3> QED BY <2>1, <3>2, <3>3 DEF Ages, Former, FormerVisitor
  <2> QED BY <1>10, <2>2, <2>3 DEF Leave
<1> QED BY <1>2, <1>3, <1>4, <1>5, <1>6, <1>7, <1>8, <1>9, <1>10

LEMMA AgesInit == Init => Ages
BY DEF Init, Ages, Former, FormerVisitor, Idle, NoMaster, Nobody

LEMMA Aging == Spec => [](Inv /\ Orderly /\ Ages)
<1>1. Init => Inv /\ Orderly /\ Ages
  BY InvInit, OrderlyInit, AgesInit
<1>2. ASSUME Inv, Orderly, Ages, [Next]_vars PROVE (Inv /\ Orderly /\ Ages)'
  BY <1>2, InvNext, OrderlyNext, HandlerAges, OthersAge DEF Next, Handler, HandlerStep
<1> QED BY <1>1, <1>2, PTL DEF Spec

(* Only a command takes a worker on from a command, and it finds a master  *)
(* young enough or a machine that its own address names.                   *)
LEMMA CommandTravels ==
  ASSUME Inv, Orderly, Ages, [Next]_vars, NEW w \in Workers,
         work[w].pc \in Commands, work'[w].pc \notin {work[w].pc, "idle", "err", "unreachable"}
  PROVE  \/ master'.to \in Named(work[w].host)
         \/ since <= MaxAge
         \/ master'.adopted
<1> USE DEF Inv, Core
<1>1. Run(w)
  <2>1. work'[w] # work[w] /\ work'[w].pc # "idle"
    OBVIOUS
  <2>2. ~Restart
    BY <2>1 DEF Restart, Idle
  <2>3. PICK v \in Workers : HandlerStep(v) \/ Report(v) \/ \E j \in Jobs : Take(v, j)
    <3>1. UNCHANGED vars \/ Delete \/ MasterEnds \/ Tick \/ Visit \/ Leave => work' = work
      BY DEF vars, Delete, MasterEnds, Tick, Visit, Leave
    <3>2. \A m \in Machines : Create(m) \/ Patch(m) => work' = work
      BY DEF Create, Patch
    <3>3. \A j \in Jobs, what \in Kinds : Request(j, what) => work' = work
      BY DEF Request
    <3> QED BY <2>1, <2>2, <3>1, <3>2, <3>3 DEF Next, Handler, HandlerStep
  <2>4. CASE HandlerStep(v)
    <3>1. v = w
      BY <2>1, <2>4, OthersSteps
    <3> QED BY <2>4, <3>1
        DEF HandlerStep, Resolve, ReadFlag, SetStatus, SetTunnel, DbFails, FlagFails, At,
            Commands, Statements
  <2>5. CASE Report(v)
    <3>1. v # w
      BY <2>5 DEF Report, At, Commands
    <3> QED BY <2>1, <2>5, <3>1, Typed DEF Report, PutDown
  <2>6. ASSUME NEW j \in Jobs, Take(v, j) PROVE Run(w)
    <3>1. v # w
      BY <2>6 DEF Take, At, Commands
    <3> QED BY <2>1, <2>6, <3>1, Typed DEF Take
  <2> QED BY <2>3, <2>4, <2>5, <2>6
<1>2. Fails(w) => work'[w].pc \in {"unreachable", "err"}
  BY GotoGives DEF Fails
<1>3. PICK m \in Machines : Travel(w, m)
  BY <1>1, <1>2 DEF Run
<1>4. work[w].host # Nowhere
  BY DEF Orderly, Addressed
<1>5. CASE m \in Reached(work[w].host, work[w].via)
  BY <1>3, <1>5, ReachedNamed, TravelLeads
<1>6. CASE /\ Reusable /\ master.to # Nowhere /\ m = master.to
           /\ master'.adopted = (master.adopted \/ age = Untracked)
  <2>1. CASE work[w].host # row.ip
    <3>1. since = 0
      BY <1>4, <2>1 DEF Ages, Former
    <3> QED BY <3>1, ServersAssumption
  <2>2. CASE work[w].host = row.ip /\ ~master'.adopted
    <3>1. age <= MaxAge /\ age # Untracked /\ ~master.adopted
      BY <1>6, <2>2 DEF Reusable
    <3>2. master.to \in Named(row.ip) \/ since <= age
      BY <1>6, <3>1 DEF Ages
    <3>3. since <= age => since <= MaxAge
      BY <3>1, Typed, ServersAssumption DEF Untracked
    <3> QED BY <1>3, <1>6, <2>2, <3>2, <3>3, TravelLeads
  <2> QED BY <2>1, <2>2
<1> QED BY <1>3, <1>5, <1>6, TravelLeads

-----------------------------------------------------------------------------
(* The row, the machines, the master and the jobs keep their types, for    *)
(* any machines, jobs, workers and bounds.                                 *)
THEOREM Typing == Spec => []TypeOK
<1>1. Inv => TypeOK
  BY DEF Inv, Core
<1> QED BY <1>1, Invariance, PTL

(* set_cloudflare_tunnel: the address that a person gave last is in the    *)
(* row, or beside the name of the tunnel, whatever fails or is run again,  *)
(* with any number of jobs and workers.                                    *)
THEOREM KeepsTheAddress == Spec => []AddressKept
<1>1. Inv => AddressKept
  BY DEF Inv
<1> QED BY <1>1, Invariance, PTL

(* After any history of starts, stops, validations and tunnels, whatever   *)
(* failed, was lost or ran again: when every job has succeeded the row     *)
(* says of the proxy and the tunnel what the machine does, and of docker,  *)
(* unless its installer was not downloaded.                                *)
THEOREM RowFollowsMachine == Spec => []RowFollows
BY Orders, RestAgrees, PTL

(* connection_is_reusable: a command goes to a machine that its connection *)
(* does not name only while MUX_MAX_AGE has not passed since somebody held *)
(* a former address, a worker or a visitor; or on a master that the workers*)
(* found without an entry and took for a new one.                          *)
THEOREM StaleMastersExpire == Spec => StaleMasterExpires
<1> DEFINE Expires ==
      \A w \in Workers :
        work[w].pc \in Commands /\ work'[w].pc \notin {work[w].pc, "idle", "err", "unreachable"}
          => \/ master'.to \in Named(work[w].host)
             \/ since <= MaxAge
             \/ master'.adopted
<1>1. Inv /\ Orderly /\ Ages /\ [Next]_vars => [Expires]_vars
  BY CommandTravels
<1>2. Spec => [][Expires]_vars
  BY <1>1, Aging, PTL DEF Spec
<1> QED BY <1>2 DEF StaleMasterExpires

=============================================================================
