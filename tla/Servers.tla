------------------------------- MODULE Servers -------------------------------
(***************************************************************************)
(* One registered server: its row, the jobs that validate it, start and    *)
(* stop its proxy and put it behind a Cloudflare tunnel                    *)
(* (crates/rustify-deploy: server_setup.rs, proxy.rs, cloudflared.rs), and *)
(* the SSH master connection their commands share (crates/rustify-ssh:     *)
(* mux.rs, lib.rs).  A connection is built once per job and names an       *)
(* address; the master is looked up by the server's uuid.                  *)
(*                                                                         *)
(* The workers share one MuxManager.  A visitor is anybody else on the same*)
(* socket: a terminal's ssh with ControlMaster=auto, or an executor of a   *)
(* request with an `established` map of its own (terminal.rs, routes).     *)
(*                                                                         *)
(* One action is one SQL statement or one remote command, with the choice  *)
(* of the connection it travels on.                                        *)
(***************************************************************************)
EXTENDS Naturals, FiniteSets

CONSTANTS
  Machines,         \* each stands for its direct address too
  Hostname,         \* the public name of the tunnel
  Nowhere,
  Jobs, Workers, NoWorker, NoJob,
  MaxAttempts,
  MaxAge,           \* MUX_MAX_AGE, in ticks of the clock
  MaxEdits,         \* bounds on the changes of the row and its deletion,
  MaxFaults,        \* on restarts, database errors and commands that fail,
  MaxVisits         \* and on terminals and requests that connect by themselves

ASSUME ServersAssumption ==
  /\ Hostname \notin Machines /\ Nowhere \notin Machines \cup {Hostname}
  /\ Jobs \subseteq Nat
  /\ MaxAttempts \in Nat \ {0}
  /\ MaxAge \in Nat /\ MaxEdits \in Nat /\ MaxFaults \in Nat /\ MaxVisits \in Nat
  /\ NoWorker \notin Workers /\ NoJob \notin Jobs

VARIABLES
  row,        \* servers and server_settings
  machine,    \* what runs on each machine
  master,     \* the process behind the socket: where it leads, by the tunnel or not,
              \* and whether the workers took it for a new one (history)
  age,        \* MuxManager.established of the workers; Untracked without an entry
  visitor,    \* the connection that somebody else has built
  op,         \* what each job does
  jobStatus, tries, holder,        \* the job store
  work,       \* where each worker is, and the connection it has built
  given,      \* the direct address a person gave last (history)
  since,      \* ticks since nobody holds another address than the row's (history)
  excuses,    \* why the row may be wrong (history)
  budget

storeVars == <<jobStatus, tries, holder>>
muxVars == <<master, age, visitor>>
vars == <<row, machine, muxVars, op, storeVars, work, given, since, excuses, budget>>

Store == INSTANCE JobStore WITH status <- jobStatus

Kinds == {"validate", "start", "stop", "restart", "configure", "disable"}
Untracked == MaxAge + 2
NoMaster == [to |-> Nowhere, via |-> FALSE, adopted |-> FALSE]
Nobody == [host |-> Nowhere, via |-> FALSE]
Idle == [pc |-> "idle", j |-> NoJob, host |-> Nowhere, via |-> FALSE]

Commands == {"uptime", "docker", "up", "upAgain", "down", "agent", "health", "unagent"}
Statements == {"resolve", "flag", "reresolve", "reflag", "unreachable", "usable", "running",
               "exited", "stopped", "on", "off"}

TypeOK ==
  /\ row \in [life: {"new", "there", "gone"}, ip: Machines \cup {Hostname, Nowhere},
              prev: Machines \cup {Hostname, Nowhere}, tunnel: BOOLEAN, usable: BOOLEAN,
              status: {"exited", "running"}]
  /\ machine \in [Machines -> [docker: BOOLEAN, proxy: BOOLEAN, agent: BOOLEAN]]
  /\ master \in [to: Machines \cup {Nowhere}, via: BOOLEAN, adopted: BOOLEAN]
  /\ age \in 0..Untracked
  /\ visitor \in [host: Machines \cup {Hostname, Nowhere}, via: BOOLEAN]
  /\ op \in [Jobs -> Kinds \cup {"none"}]
  /\ Store!StoreTypeOK
  /\ work \in [Workers -> [pc: Commands \cup Statements \cup {"idle", "ok", "err"},
                           j: Jobs \cup {NoJob}, host: Machines \cup {Hostname, Nowhere},
                           via: BOOLEAN]]
  /\ given \in Machines \cup {Nowhere}
  /\ since \in 0..MaxAge + 1
  /\ excuses \subseteq {"overlap", "ignored", "undocked", "unreached", "moved", "again", "patchedOn"}
  /\ budget \in [edits: 0..MaxEdits, faults: 0..MaxFaults, visits: 0..MaxVisits]

Init ==
  /\ row = [life |-> "new", ip |-> Nowhere, prev |-> Nowhere, tunnel |-> FALSE,
            usable |-> FALSE, status |-> "exited"]
  /\ \E docker \in BOOLEAN :
       machine = [m \in Machines |-> [docker |-> docker, proxy |-> FALSE, agent |-> FALSE]]
  /\ master = NoMaster /\ age = Untracked /\ visitor = Nobody
  /\ op = [j \in Jobs |-> "none"]
  /\ Store!StoreInit
  /\ work = [w \in Workers |-> Idle]
  /\ given = Nowhere /\ since = 0 /\ excuses = {}
  /\ budget = [edits |-> MaxEdits, faults |-> MaxFaults, visits |-> MaxVisits]

Spend(what) == budget[what] > 0 /\ budget' = [budget EXCEPT ![what] = @ - 1]

Excuse(why) == excuses' = excuses \cup why

-----------------------------------------------------------------------------
(* Requests                                                                *)

Create(m) ==
  /\ row.life = "new"
  /\ row' = [row EXCEPT !.life = "there", !.ip = m]
  /\ given' = m
  /\ UNCHANGED <<machine, muxVars, op, storeVars, work, since, excuses, budget>>

(* update: the address alone.  What was found out of the old machine, the  *)
(* tunnel and the master stay.                                             *)
Patch(m) ==
  /\ row.life = "there"
  /\ row.ip # m
  /\ Spend("edits")
  /\ row' = [row EXCEPT !.ip = m]
  /\ given' = m
  /\ since' = 0
  /\ Excuse({"moved"} \cup IF row.tunnel THEN {"patchedOn"} ELSE {})
  /\ UNCHANGED <<machine, muxVars, op, storeVars, work>>

Delete ==
  /\ row.life = "there"
  /\ Spend("edits")
  /\ row' = [row EXCEPT !.life = "gone"]
  /\ UNCHANGED <<machine, muxVars, op, storeVars, work, given, since, excuses>>

(* validate, proxy_lifecycle, cloudflared_enable and _disable.             *)
Request(j, what) ==
  /\ row.life = "there"
  /\ op[j] = "none" /\ \A i \in Jobs : i < j => op[i] # "none"
  /\ op' = [op EXCEPT ![j] = what]
  /\ Store!Submit(j)
  /\ UNCHANGED <<row, machine, muxVars, work, given, since, excuses, budget>>

-----------------------------------------------------------------------------
(* The connection                                                          *)

(* Where a connection of its own leads: the machine of a direct address,   *)
(* or an agent of the tunnel.                                              *)
Reached(host, via) ==
  IF via THEN {m \in Machines : host = Hostname /\ machine[m].agent} ELSE {host} \cap Machines

(* The machines an address names.                                          *)
Named(host) == IF host = Hostname THEN Machines ELSE {host}

Alive == master.to # Nowhere /\ (master.via => machine[master.to].agent)

(* Mutant: the age of a master is not looked at.                           *)
ReusableForEver == Alive

(* connection_is_reusable.                                                 *)
Reusable == Alive /\ (age = Untracked \/ age <= MaxAge)

(* ensure: the master there is, which is taken for a new one if it has no  *)
(* entry, or a new one in its place, which the next command finds.         *)
Travel(w, m) ==
  /\ IF Reusable
       THEN /\ m = master.to
            /\ master' = [master EXCEPT !.adopted = @ \/ age = Untracked]
            /\ age' = IF age = Untracked THEN 0 ELSE age
       ELSE /\ m \in Reached(work[w].host, work[w].via)
            /\ master' = [to |-> m, via |-> work[w].via, adopted |-> FALSE]
            /\ age' = 0
  /\ UNCHANGED visitor

(* No connection.  What is left of a master is torn down with its entry;   *)
(* the entry of one that ended by itself stays.                            *)
CutOff(w) ==
  /\ ~Reusable /\ Reached(work[w].host, work[w].via) = {}
  /\ master' = NoMaster
  /\ age' = IF master.to = Nowhere THEN age ELSE Untracked
  /\ UNCHANGED visitor

(* Somebody else reads the row and the flag.  (Read apart, the two name    *)
(* nothing that can be reached when they do not go together.)              *)
Visit ==
  /\ row.life = "there" /\ visitor = Nobody
  /\ Spend("visits")
  /\ visitor' = [host |-> row.ip, via |-> row.tunnel]
  /\ UNCHANGED <<row, machine, master, age, op, storeVars, work, given, since, excuses>>

(* He uses the master there is or, in place of none or a dead one, opens   *)
(* one at the same socket; the entry of the workers is not his.            *)
Leave ==
  /\ visitor # Nobody
  /\ visitor' = Nobody
  /\ \/ UNCHANGED master
     \/ /\ ~Alive
        /\ \E m \in Reached(visitor.host, visitor.via) :
             master' = [to |-> m, via |-> visitor.via, adopted |-> FALSE]
  /\ UNCHANGED <<row, machine, age, op, storeVars, work, given, since, excuses, budget>>

-----------------------------------------------------------------------------
(* The handlers, in the hands of worker w                                  *)
At(w, pc) == work[w].pc = pc

(* The connection is forgotten with the end of the job or its first half.  *)
Goto(w, pc) ==
  work' = [work EXCEPT ![w] = IF pc \in {"ok", "err", "reresolve"}
                                THEN [Idle EXCEPT !.pc = pc, !.j = work[w].j]
                                ELSE [@ EXCEPT !.pc = pc]]
Does(w, what) == op[work[w].j] = what

jobSame == <<op, storeVars, given, since>>

(* Two jobs that undo each other run at once.                              *)
Undoes(a, b) ==
  \/ a = "stop" /\ b \in {"validate", "start", "restart"}
  \/ a = "configure" /\ b = "disable"

Take(w, j) ==
  LET others == {op[work[v].j] : v \in {u \in Workers : ~At(u, "idle")}} IN
  /\ At(w, "idle")
  /\ Store!Take(w, j)
  /\ work' = [work EXCEPT ![w] = [Idle EXCEPT !.pc = "resolve", !.j = j]]
  /\ Excuse(IF \E o \in others : Undoes(o, op[j]) \/ Undoes(op[j], o)
              THEN {"overlap"} ELSE {})
  /\ UNCHANGED <<row, machine, muxVars, op, given, since, budget>>

(* conn_for: the row is read, then, in build_conn, the flag of the tunnel. *)
(* The second half of a restart does both again.                           *)
Resolve(w) ==
  /\ work[w].pc \in {"resolve", "reresolve"}
  /\ IF row.life = "gone" THEN Goto(w, "err")
     ELSE work' = [work EXCEPT ![w].host = row.ip,
                               ![w].pc = IF @ = "resolve" THEN "flag" ELSE "reflag"]
  /\ UNCHANGED <<jobSame, row, machine, muxVars, excuses, budget>>

FirstCommand(what) ==
  CASE what = "validate" -> "uptime"
    [] what = "start" -> "up"
    [] what \in {"stop", "restart"} -> "down"
    [] what = "configure" -> "agent"
    [] what = "disable" -> "unagent"

ReadFlag(w) ==
  /\ work[w].pc \in {"flag", "reflag"}
  /\ work' = [work EXCEPT ![w].via = row.tunnel,
                          ![w].pc = IF @ = "flag" THEN FirstCommand(op[work[w].j]) ELSE "upAgain"]
  /\ UNCHANGED <<jobSame, row, machine, muxVars, excuses, budget>>

NextPC(w) ==
  CASE At(w, "uptime") -> "docker"
    [] At(w, "docker") -> "usable"
    [] work[w].pc \in {"up", "upAgain"} -> "running"
    [] At(w, "down") -> IF Does(w, "restart") THEN "stopped" ELSE "exited"
    [] At(w, "agent") -> "health"
    [] At(w, "health") -> "on"
    [] At(w, "unagent") -> "off"

(* Whether a machine can carry the command out at all.                     *)
Possible(w, m) ==
  /\ work[w].pc \in {"up", "upAgain", "health"} => machine[m].docker
  /\ At(w, "health") => machine[m].agent

Effect(w, m) ==
  CASE At(w, "docker") -> [machine EXCEPT ![m].docker = TRUE]
    [] work[w].pc \in {"up", "upAgain"} -> [machine EXCEPT ![m].proxy = machine[m].docker]
    [] At(w, "down") -> [machine EXCEPT ![m].proxy = FALSE]
    [] At(w, "agent") -> [machine EXCEPT ![m].agent = machine[m].docker]
    [] At(w, "unagent") -> [machine EXCEPT ![m].agent = FALSE]
    [] OTHER -> machine

(* Mutant: a stop script that failed has stopped the proxy.                *)
FailsQuietly(w) ==
  Goto(w, IF At(w, "uptime") THEN "unreachable" ELSE IF At(w, "down") THEN NextPC(w) ELSE "err")

(* uptime decides; the failure of any other command is an error.           *)
Fails(w) == Goto(w, IF At(w, "uptime") THEN "unreachable" ELSE "err")

(* The agent that carries the connection is what the command removes.      *)
SawsItsBranch(w, m) == At(w, "unagent") /\ master'.via /\ machine[m].agent

Run(w) ==
  /\ work[w].pc \in Commands
  /\ \/ \E m \in Machines :
          /\ Travel(w, m)
          /\ Possible(w, m)
          /\ machine' = Effect(w, m)
          /\ IF SawsItsBranch(w, m) THEN Fails(w) ELSE Goto(w, NextPC(w))
          /\ UNCHANGED <<excuses, budget>>
     \/ \E m \in Machines :             \* docker refuses, or is not there to be
          /\ Spend("faults")            \* downloaded, and the script goes on
          /\ Travel(w, m)
          /\ \/ work[w].pc \in {"down", "agent", "unagent"} /\ Excuse({"ignored"})
             \/ At(w, "docker") /\ ~machine[m].docker /\ Excuse({"undocked"})
          /\ Goto(w, NextPC(w))
          /\ UNCHANGED machine
     \/ \E m \in Machines :
          /\ Travel(w, m)
          /\ IF Possible(w, m) THEN Spend("faults") ELSE UNCHANGED budget
          /\ machine' \in {machine} \cup IF Possible(w, m) THEN {Effect(w, m)} ELSE {}
          /\ Fails(w)
          /\ UNCHANGED excuses
     \/ CutOff(w) /\ Fails(w) /\ UNCHANGED <<machine, excuses, budget>>
  /\ UNCHANGED <<jobSame, row>>

Written(w, r) == row' = IF row.life = "gone" THEN row ELSE r

(* set_reachability and set_proxy_status.                                  *)
SetStatus(w) ==
  /\ \/ At(w, "unreachable") /\ Written(w, [row EXCEPT !.usable = FALSE]) /\ Goto(w, "ok")
     \/ At(w, "usable") /\ Written(w, [row EXCEPT !.usable = TRUE]) /\ Goto(w, "up")
     \/ At(w, "running") /\ Written(w, [row EXCEPT !.status = "running"]) /\ Goto(w, "ok")
     \/ At(w, "exited") /\ Written(w, [row EXCEPT !.status = "exited"]) /\ Goto(w, "ok")
     \/ At(w, "stopped") /\ Written(w, [row EXCEPT !.status = "exited"]) /\ Goto(w, "reresolve")
  /\ Excuse(IF At(w, "unreachable") THEN {"unreached"} ELSE {})
  /\ UNCHANGED <<jobSame, machine, muxVars, budget>>

(* Mutant: ip_previous outlives the tunnel.                                *)
TunnelOffKeeps ==
  [row EXCEPT !.tunnel = FALSE, !.ip = IF row.prev = Nowhere THEN @ ELSE row.prev]

TunnelOn == [row EXCEPT !.tunnel = TRUE, !.prev = row.ip, !.ip = Hostname]
TunnelOff == [row EXCEPT !.tunnel = FALSE, !.prev = Nowhere,
                         !.ip = IF row.prev = Nowhere THEN @ ELSE row.prev]

(* set_cloudflare_tunnel, one transaction.                                 *)
SetTunnel(w) ==
  /\ work[w].pc \in {"on", "off"}
  /\ Written(w, IF At(w, "on") THEN TunnelOn ELSE TunnelOff)
  /\ since' = IF row'.ip = row.ip THEN since ELSE 0
  /\ Excuse(IF At(w, "on") /\ row.tunnel THEN {"again"} ELSE {})
  /\ Goto(w, "ok")
  /\ UNCHANGED <<op, storeVars, given, machine, muxVars, budget>>

DbFails(w) ==
  /\ work[w].pc \in Statements \ {"flag", "reflag"}
  /\ Spend("faults")
  /\ Goto(w, "err")
  /\ UNCHANGED <<jobSame, row, machine, muxVars, excuses>>

(* build_conn takes an error for "no tunnel".                              *)
FlagFails(w) ==
  /\ work[w].pc \in {"flag", "reflag"} /\ row.tunnel
  /\ Spend("faults")
  /\ Goto(w, IF At(w, "flag") THEN FirstCommand(op[work[w].j]) ELSE "upAgain")
  /\ UNCHANGED <<jobSame, row, machine, muxVars, excuses>>

PutDown(w) == work' = [work EXCEPT ![w] = Idle]

Report(w) ==
  /\ \/ At(w, "ok") /\ Store!Finish(w, work[w].j)
     \/ At(w, "err") /\ Store!Miss(w, work[w].j)
  /\ PutDown(w)
  /\ UNCHANGED <<row, machine, muxVars, op, given, since, excuses, budget>>

(* The process dies; the master, a process of its own, does not.           *)
Restart ==
  LET held == {j \in Jobs : jobStatus[j] = "held"} IN
  /\ Spend("faults")
  /\ IF held = {} THEN UNCHANGED storeVars ELSE Store!LetGo(held)
  /\ work' = [w \in Workers |-> Idle]
  /\ age' = Untracked /\ visitor' = Nobody
  /\ UNCHANGED <<row, machine, master, op, given, since, excuses>>

(* ControlPersist, or the hourly removal of old sockets.  The entry stays. *)
MasterEnds ==
  /\ master.to # Nowhere
  /\ master' = NoMaster
  /\ UNCHANGED <<row, machine, age, visitor, op, storeVars, work, given, since, excuses, budget>>

Tick ==
  /\ age <= MaxAge \/ since <= MaxAge
  /\ age' = IF age > MaxAge THEN age ELSE age + 1
  /\ since' = IF \/ visitor.host \notin {Nowhere, row.ip}
                 \/ \E w \in Workers : work[w].host \notin {Nowhere, row.ip} THEN 0
              ELSE IF since > MaxAge THEN since ELSE since + 1
  /\ UNCHANGED <<row, machine, master, visitor, op, storeVars, work, given, excuses, budget>>

Handler(w) ==
  \/ Resolve(w) \/ ReadFlag(w) \/ Run(w) \/ SetStatus(w) \/ SetTunnel(w)
  \/ DbFails(w) \/ FlagFails(w) \/ Report(w)

Next ==
  \/ Delete \/ Restart \/ MasterEnds \/ Tick \/ Visit \/ Leave
  \/ \E m \in Machines : Create(m) \/ Patch(m)
  \/ \E j \in Jobs, what \in Kinds : Request(j, what)
  \/ \E w \in Workers : Handler(w) \/ \E j \in Jobs : Take(w, j)

Spec == Init /\ [][Next]_vars

-----------------------------------------------------------------------------
AtRest == \A j \in Jobs : jobStatus[j] \in {"absent", "done"}

(* When every job has succeeded, the row says "running" exactly of a proxy *)
(* that is up and tunnel only of one whose agent runs; and a server is     *)
(* usable only with docker, but for an installer that was not downloaded,  *)
(* which the shell it is piped into calls a success: whatever failed, was  *)
(* lost or run again, in whatever order start, stop, restart and validate  *)
(* were taken; except that a stop overlapped a start, docker refused a     *)
(* removal that the script then calls a success, a validation succeeded in *)
(* finding that it could not connect, or the row was given another machine.*)
RowFollows ==
  row.life = "there" /\ excuses \subseteq {"again", "undocked"} =>
    /\ row.usable => machine[given].docker \/ "undocked" \in excuses
    /\ AtRest => /\ row.status = "running" <=> machine[given].proxy
                 /\ row.tunnel => machine[given].agent

(* The direct address survives the tunnel, through failures between the    *)
(* agent and the flag, retries and restarts: without a tunnel the row      *)
(* holds the address a person gave last, with one it is kept beside the    *)
(* name of the tunnel; unless the tunnel was configured when it was on, or *)
(* the address changed when it was.                                        *)
AddressKept ==
  row.life = "there" /\ excuses \cap {"again", "patchedOn"} = {} =>
    IF row.tunnel THEN row.ip = Hostname /\ row.prev = given
                  ELSE row.ip = given /\ row.prev = Nowhere

(* A command goes to a machine that its own connection does not name only  *)
(* while the last holder of the former address, or the change itself, is   *)
(* not longer ago than MUX_MAX_AGE; unless the master was found without an *)
(* entry and taken for a new one: somebody else opened it, or a process    *)
(* before a restart.                                                       *)
StaleMasterExpires ==
  [][\A w \in Workers :
       work[w].pc \in Commands /\ work'[w].pc \notin {work[w].pc, "idle", "err", "unreachable"}
         => \/ master'.to \in Named(work[w].host)
            \/ since <= MaxAge
            \/ master'.adopted]_vars

=============================================================================
