------------------------- MODULE BackupsTeamsProofs -------------------------
(***************************************************************************)
(* Proofs about Backups and about TeamOwnership, two components that share *)
(* no name, for any values of their constants.                             *)
(*                                                                         *)
(* Backups: what keeps a backup to restore from is that the newest success *)
(* can be restored, and that no retention under way, whatever its worker   *)
(* has read and when, has it on a list (Files, Newest).  What a row        *)
(* promises, and what a row that goes leaves behind, follows from where    *)
(* the copies of an execution can be while nothing has been lost (Calm).   *)
(*                                                                         *)
(* TeamOwnership: Locks says what a request has locked and written at each *)
(* statement; Fresh says what its last count still tells it when no other  *)
(* transaction has committed since.                                        *)
(***************************************************************************)
EXTENDS Backups, TeamOwnership, FiniteSetTheorems, WellFoundedInduction, TLAPS

RowStates == [status: {"none", "running", "success", "failed", "gone"},
              created: Seconds, size: Sizes \cup {0}, file: Seconds \cup {NoFile},
              uploaded: {"null", "yes", "no"}, deleted: SUBSET Sides]
RunStates == [pc: HandlerPC \cup {"idle"}, e: Execs \cup {NoExec}, at: Seconds,
              conf: Policies, size: Sizes \cup {0},
              uploaded: {"null", "yes", "no"}, side: Sides,
              dels: SUBSET Execs, names: SUBSET Seconds]
Budgets == [updates: 0..MaxUpdates, restarts: 0..MaxRestarts, db: 0..MaxDbErrors,
            ssh: 0..MaxSshLosses, all: 0..MaxEvents]
Requests == {"none", "created", "sent", "lost"}

-----------------------------------------------------------------------------
(* The invariant.  A worker past `idle` holds the job it remembers.        *)
Holding ==
  \A w \in Workers : run[w].pc # "idle" =>
    run[w].e \in Execs /\ jobStatus[run[w].e] = "held" /\ holder[run[w].e] = w

(* A job that may still be run has failed less than MaxAttempts times.     *)
TriesLeft ==
  \A e \in Execs : jobStatus[e] \in {"absent", "queued", "held"} => tries[e] < MaxAttempts

Core == TypeOK /\ Holding /\ TriesLeft

(* The executions of the dispatcher are there and not from the future; all *)
(* of them are from minutes before the one it is about to create one in.   *)
Once ==
  /\ \A e \in byCron : /\ rows[e].status # "none"
                       /\ rows[e].status # "gone" => rows[e].created <= clock
  /\ sweep = "create" =>
       \A e \in byCron : rows[e].status # "gone" => MinuteOf[rows[e].created] < MinuteOf[clock]

(* A worker between the start of its dump and the record of it.            *)
Writing(w) == run[w].pc \in {"dumping", "upload", "drop", "record"}

Success == {e \in Execs : rows[e].status = "success"}

(* A file name that anybody uses is one that a dump was begun under.       *)
Begun ==
  /\ \A w \in Workers : Writing(w) => dumps[run[w].at] # 0
  /\ \A e \in Execs : rows[e].file # NoFile => dumps[rows[e].file] # 0
  /\ \A w \in Workers : \A t \in run[w].names : dumps[t] # 0
  /\ \A e \in Success : rows[e].file # NoFile

(* Without a clash, nobody uses the name of another.                       *)
Unshared ==
  /\ \A w, v \in Workers : w # v /\ Writing(w) /\ Writing(v) => run[w].at # run[v].at
  /\ \A w \in Workers, e \in Execs : Writing(w) => rows[e].file # run[w].at
  /\ \A w, v \in Workers : Writing(w) => run[w].at \notin run[v].names
  /\ \A d, e \in Execs : d # e /\ rows[d].file # NoFile => rows[d].file # rows[e].file

(* What a worker is about to record is there.                              *)
Secured ==
  \A w \in Workers :
    /\ run[w].pc = "upload" => copies["local"][run[w].at] = run[w].e
    /\ run[w].pc = "drop" => /\ copies["s3"][run[w].at] = run[w].e
                             /\ run[w].conf.dropLocal /\ run[w].uploaded = "yes"
    /\ run[w].pc = "record" => \/ copies["local"][run[w].at] = run[w].e
                               \/ copies["s3"][run[w].at] = run[w].e

Files == Begun /\ (~Clash => Unshared /\ Secured)

(* A newer success than d; there is a newest one.                          *)
Ahead(d) == \E e \in Success : e > d
Bounded == \E n \in Nat : \A e \in Success : e <= n

(* What a retention has selected or marked is older than some success.     *)
Spared ==
  /\ \A w \in Workers : \A d \in run[w].dels : Ahead(d)
  /\ \A d \in Execs : "s3" \in rows[d].deleted => Ahead(d)
  /\ \A d \in Execs : "local" \in rows[d].deleted => Ahead(d) \/ rows[d].uploaded = "yes"

(* The newest success can be restored, and nobody is about to remove it.   *)
NewestKept ==
  \A e \in Success : Ahead(e) \/
    /\ Holds("local", e) \/ Holds("s3", e)
    /\ \A w \in Workers : rows[e].file \notin run[w].names

Fine == ~Clash /\ ~demoted
Newest == Bounded /\ (Fine => Spared /\ NewestKept)

(* While nothing has been lost, an execution is run once; where its copies *)
(* are, and that what was marked as deleted is.                            *)
New(e) == /\ rows[e].status \in {"none", "running"} /\ rows[e].deleted = {}
          /\ rows[e].file = NoFile /\ rows[e].uploaded = "null"

Early == {"resolve", "dump", "dumping", "upload", "drop", "record", "fail"}

FirstRun ==
  /\ \A e \in Execs : jobStatus[e] \in {"absent", "queued"} => New(e)
  /\ \A w \in Workers :
       /\ run[w].pc # "err"
       /\ run[w].pc \in Early => New(run[w].e)
       /\ run[w].pc \in Early \ {"drop", "record"} => run[w].uploaded = "null"

(* The dump of e under the name t is yet to be recorded.                   *)
Unrecorded(w, e, t) == /\ run[w].pc \in {"upload", "drop", "record"}
                       /\ run[w].e = e /\ run[w].at = t

Written ==
  /\ \A t \in Seconds, e \in Execs :
       /\ copies["local"][t] = e =>
            rows[e].file = t \/ \E w \in Workers : Unrecorded(w, e, t)
       /\ copies["s3"][t] = e =>
            \/ rows[e].file = t /\ rows[e].uploaded = "yes"
            \/ \E w \in Workers : /\ Unrecorded(w, e, t)
                                  /\ run[w].pc # "upload" /\ run[w].uploaded = "yes"
  /\ \A e \in Execs : rows[e].status = "gone" => rows[e].file = NoFile

NoCopy(side, e) == \A t \in Seconds : copies[side][t] # e

(* What a row says is deleted is; and so does the row to be recorded.      *)
Removed ==
  /\ \A e \in Execs : \A side \in rows[e].deleted : NoCopy(side, e)
  /\ \A w \in Workers : run[w].pc = "record" =>
       (copies["local"][run[w].at] = run[w].e
         <=> ~(run[w].conf.dropLocal /\ run[w].uploaded = "yes"))

(* The names a worker goes through are all the copies of what it selected. *)
Removing(w) == run[w].pc \in {"helper", "remove"}

Listed(w) ==
  /\ \A e \in run[w].dels :
       /\ rows[e].status \in {"success", "gone"}
       /\ Removing(w) => \A t \in Seconds : copies[run[w].side][t] = e => t \in run[w].names
       /\ run[w].pc = "mark" => NoCopy(run[w].side, e)
  /\ Removing(w) => \A e \in Execs : rows[e].file \in run[w].names => e \in run[w].dels

LocalGoes(w, e) == /\ run[w].pc \in {"remove", "mark"} /\ run[w].side = "local"
                   /\ e \in run[w].dels

Promised == \A e \in SuccessfulWith("local") :
              Holds("local", e) \/ \E w \in Workers : LocalGoes(w, e)

Lossless == FirstRun /\ Written /\ Removed /\ (\A w \in Workers : Listed(w)) /\ Promised

Calm == Undisturbed /\ ~Clash => Lossless

-----------------------------------------------------------------------------
(* The type of each variable, and what a step does to it.                  *)
LEMMA Typed ==
  TypeOK <=> /\ clock \in Seconds
             /\ policy \in Policies
             /\ rows \in [Execs -> RowStates]
             /\ copies \in [Sides -> [Seconds -> Content]]
             /\ request \in [Execs -> Requests]
             /\ byCron \in SUBSET Execs
             /\ sweep \in {"idle", "check", "create", "enqueue"}
             /\ Store!StoreTypeOK
             /\ run \in [Workers -> RunStates]
             /\ dumps \in [Seconds -> 0..2]
             /\ demoted \in BOOLEAN
             /\ budget \in Budgets
BY DEF TypeOK, RowStates, RunStates, Budgets, Requests

LEMMA TypedNext ==
  TypeOK' <=> /\ clock' \in Seconds
              /\ policy' \in Policies
              /\ rows' \in [Execs -> RowStates]
              /\ copies' \in [Sides -> [Seconds -> Content]]
              /\ request' \in [Execs -> Requests]
              /\ byCron' \in SUBSET Execs
              /\ sweep' \in {"idle", "check", "create", "enqueue"}
              /\ Store!StoreTypeOK'
              /\ run' \in [Workers -> RunStates]
              /\ dumps' \in [Seconds -> 0..2]
              /\ demoted' \in BOOLEAN
              /\ budget' \in Budgets
BY DEF TypeOK, RowStates, RunStates, Budgets, Requests

LEMMA BudgetFacts ==
  ASSUME TypeOK, NEW kind \in {"updates", "restarts", "db", "ssh"}, Spend(kind)
  PROVE  /\ budget' \in Budgets
         /\ kind = "updates" => (Undisturbed' <=> Undisturbed)
         /\ kind # "updates" => ~Undisturbed'
<1> USE BackupsAssumption
<1>1. budget \in Budgets /\ budget[kind] > 0 /\ budget.all > 0
  BY Typed DEF Spend
<1>2. budget.all - 1 \in 0..MaxEvents
  BY <1>1 DEF Budgets
<1>3. CASE kind = "updates"
  <2>1. budget' = [budget EXCEPT !.updates = @ - 1, !.all = @ - 1]
    BY <1>3 DEF Spend
  <2>2. budget.updates - 1 \in 0..MaxUpdates
    BY <1>1, <1>3 DEF Budgets
  <2> QED BY <1>1, <1>2, <1>3, <2>1, <2>2 DEF Budgets, Undisturbed
<1>4. CASE kind = "restarts"
  <2>1. budget' = [budget EXCEPT !.restarts = @ - 1, !.all = @ - 1]
    BY <1>4 DEF Spend
  <2>2. budget.restarts - 1 \in 0..MaxRestarts /\ budget.restarts - 1 # MaxRestarts
    BY <1>1, <1>4 DEF Budgets
  <2> QED BY <1>1, <1>2, <1>4, <2>1, <2>2 DEF Budgets, Undisturbed
<1>5. CASE kind = "db"
  <2>1. budget' = [budget EXCEPT !.db = @ - 1, !.all = @ - 1]
    BY <1>5 DEF Spend
  <2>2. budget.db - 1 \in 0..MaxDbErrors /\ budget.db - 1 # MaxDbErrors
    BY <1>1, <1>5 DEF Budgets
  <2> QED BY <1>1, <1>2, <1>5, <2>1, <2>2 DEF Budgets, Undisturbed
<1>6. CASE kind = "ssh"
  <2>1. budget' = [budget EXCEPT !.ssh = @ - 1, !.all = @ - 1]
    BY <1>6 DEF Spend
  <2>2. budget.ssh - 1 \in 0..MaxSshLosses /\ budget.ssh - 1 # MaxSshLosses
    BY <1>1, <1>6 DEF Budgets
  <2> QED BY <1>1, <1>2, <1>6, <2>1, <2>2 DEF Budgets, Undisturbed
<1> QED BY <1>3, <1>4, <1>5, <1>6

LEMMA IdleFacts ==
  ASSUME TypeOK
  PROVE  /\ IdleRun \in RunStates
         /\ IdleRun.pc = "idle" /\ IdleRun.side = "local" /\ IdleRun.uploaded = "null"
         /\ IdleRun.dels = {} /\ IdleRun.names = {}
<1>1. AnyPolicy \in Policies
  BY Typed DEF AnyPolicy
<1>2. 0 \in Seconds
  BY BackupsAssumption DEF Seconds
<1> HIDE DEF AnyPolicy
<1> QED BY <1>1, <1>2 DEF IdleRun, RunStates, Sides, HandlerPC

(* w goes from what it knows to s; the others stay where they are.         *)
After(w, s) ==
  /\ run' \in [Workers -> RunStates] /\ run'[w] = s
  /\ \A o \in Workers \ {w} : run'[o] = run[o]

LEMMA MoveFacts ==
  ASSUME TypeOK, NEW w \in Workers, NEW s \in RunStates, run' = [run EXCEPT ![w] = s]
  PROVE  After(w, s)
BY Typed DEF After

LEMMA GotoFacts ==
  ASSUME TypeOK, NEW w \in Workers, NEW to \in HandlerPC \cup {"idle"}, Goto(w, to)
  PROVE  /\ After(w, run'[w]) /\ run'[w].pc = to
         /\ run'[w].e = run[w].e /\ run'[w].at = run[w].at /\ run'[w].conf = run[w].conf
         /\ run'[w].uploaded = run[w].uploaded /\ run'[w].side = run[w].side
         /\ run'[w].dels = run[w].dels /\ run'[w].names = run[w].names
<1> DEFINE s == [run[w] EXCEPT !.pc = to]
<1>1. run[w] \in RunStates
  BY Typed
<1>2. /\ s \in RunStates /\ s.pc = to
      /\ s.e = run[w].e /\ s.at = run[w].at /\ s.conf = run[w].conf
      /\ s.uploaded = run[w].uploaded /\ s.side = run[w].side
      /\ s.dels = run[w].dels /\ s.names = run[w].names
  BY <1>1 DEF RunStates
<1>3. run' = [run EXCEPT ![w] = s]
  BY DEF Goto
<1> HIDE DEF s
<1> QED BY <1>2, <1>3, MoveFacts DEF After

(* One copy changes.                                                       *)
Copied(side, t, content) ==
  /\ copies' \in [Sides -> [Seconds -> Content]]
  /\ copies'[side][t] = content
  /\ \A other \in Sides, u \in Seconds :
       other # side \/ u # t => copies'[other][u] = copies[other][u]

LEMMA CopyFacts ==
  ASSUME TypeOK, NEW side \in Sides, NEW t \in Seconds, NEW content \in Content,
         copies' = [copies EXCEPT ![side][t] = content]
  PROVE  Copied(side, t, content)
<1> DEFINE f == [copies[side] EXCEPT ![t] = content]
<1>1. copies \in [Sides -> [Seconds -> Content]] /\ copies[side] \in [Seconds -> Content]
  BY Typed
<1>2. f \in [Seconds -> Content] /\ f[t] = content
      /\ \A u \in Seconds \ {t} : f[u] = copies[side][u]
  BY <1>1
<1>3. copies' = [copies EXCEPT ![side] = f]
  OBVIOUS
<1> HIDE DEF f
<1> QED BY <1>1, <1>2, <1>3 DEF Copied

LEMMA CreateFacts ==
  ASSUME TypeOK, NEW e \in Execs, CreateRunning(e)
  PROVE  /\ rows' \in [Execs -> RowStates] /\ request' \in [Execs -> Requests]
         /\ rows[e].status = "none" /\ rows'[e].status = "running" /\ rows'[e].created = clock
         /\ rows'[e].file = rows[e].file /\ rows'[e].uploaded = rows[e].uploaded
         /\ rows'[e].deleted = rows[e].deleted
         /\ \A d \in Execs \ {e} : rows'[d] = rows[d]
<1> DEFINE s == [rows[e] EXCEPT !.status = "running", !.created = clock]
<1>1. rows[e] \in RowStates /\ clock \in Seconds
  BY Typed
<1>2. /\ s \in RowStates /\ s.status = "running" /\ s.created = clock /\ s.file = rows[e].file
      /\ s.uploaded = rows[e].uploaded /\ s.deleted = rows[e].deleted
  BY <1>1 DEF RowStates
<1>3. rows[e].status = "none" /\ rows' = [rows EXCEPT ![e] = s]
  BY DEF CreateRunning
<1>4. request' \in [Execs -> Requests]
  BY Typed DEF CreateRunning, Requests
<1> HIDE DEF s
<1> QED BY <1>2, <1>3, <1>4, Typed

(* A row that is there is written as a whole, but for created and s3.      *)
Finished(e, status, file, uploaded, gone) ==
  /\ rows' \in [Execs -> RowStates]
  /\ rows[e].status = "gone" => rows' = rows
  /\ rows[e].status # "gone" =>
       /\ rows'[e].status = status /\ rows'[e].created = rows[e].created
       /\ rows'[e].file = file /\ rows'[e].uploaded = uploaded
       /\ "local" \in rows'[e].deleted <=> "local" \in gone
       /\ "s3" \in rows'[e].deleted <=> "s3" \in rows[e].deleted
  /\ \A d \in Execs \ {e} : rows'[d] = rows[d]

LEMMA FinishFacts ==
  ASSUME TypeOK, NEW e \in Execs, NEW status \in {"success", "failed"},
         NEW size \in Sizes \cup {0}, NEW file \in Seconds \cup {NoFile},
         NEW uploaded \in {"null", "yes", "no"}, NEW gone \in SUBSET {"local"},
         FinishRow(e, status, size, file, uploaded, gone)
  PROVE  Finished(e, status, file, uploaded, gone)
<1> DEFINE s == [status |-> status, created |-> rows[e].created, size |-> size,
                 file |-> file, uploaded |-> uploaded,
                 deleted |-> (rows[e].deleted \ {"local"}) \cup gone]
<1>1. rows[e] \in RowStates
  BY Typed
<1>2. s.deleted \in SUBSET Sides /\ s.created \in Seconds
  BY <1>1 DEF RowStates, Sides
<1>3. /\ s \in RowStates /\ s.status = status /\ s.created = rows[e].created
      /\ s.file = file /\ s.uploaded = uploaded
      /\ s.deleted = (rows[e].deleted \ {"local"}) \cup gone
  BY <1>2 DEF RowStates
<1>4. rows' = IF rows[e].status = "gone" THEN rows ELSE [rows EXCEPT ![e] = s]
  BY DEF FinishRow
<1> HIDE DEF s
<1> QED BY <1>3, <1>4, Typed DEF Finished

(* Of a set of numbers that has a bound and a member one is the largest.   *)
LEMMA LargestThere ==
  ASSUME NEW S \in SUBSET Nat, S # {}, NEW n \in Nat, \A e \in S : e <= n
  PROVE  \E m \in S : \A e \in S : e <= m
<1> DEFINE U == {u \in Nat : \A e \in S : e <= u}
<1>1. U \subseteq Nat /\ n \in U
  OBVIOUS
<1>2. PICK m \in U : \A u \in U : <<u, m>> \notin OpToRel(<, Nat)
  BY <1>1, NatLessThanWellFounded, WFMin
<1>3. m \in Nat /\ \A e \in S : e <= m
  OBVIOUS
<1>4. \A u \in U : ~(u < m)
  <2>1. \A u \in U : u < m => <<u, m>> \in OpToRel(<, Nat)
    BY <1>3 DEF OpToRel
  <2> QED BY <1>2, <2>1, Zenon
<1>5. m \in S
  <2> SUFFICES ASSUME m \notin S PROVE FALSE
    OBVIOUS
  <2>1. PICK e \in S : TRUE
    OBVIOUS
  <2>2. e < m /\ m - 1 \in Nat
    BY <1>3, <2>1
  <2>3. \A d \in S : d <= m - 1
    BY <1>3
  <2>4. m - 1 \in U
    BY <2>2, <2>3
  <2> QED BY <1>3, <1>4, <2>4
<1> QED BY <1>3, <1>5

(* What a retention selects is among what it has seen, and never includes  *)
(* the newest of it.                                                       *)
LEMMA SelectedAreSeen ==
  ASSUME NEW S \in SUBSET Execs, NEW keep
  PROVE  /\ SelectForDeletion(S, keep) \subseteq S
         /\ S # {} => Latest(S) \notin SelectForDeletion(S, keep)
<1>1. TooBig(S, keep.space) \subseteq S
  <2> DEFINE Used(e) == MapThenSumSet(LAMBDA d : rows[d].size,
                                      {d \in S \ {Latest(S)} : d >= e})
             over == {e \in S \ {Latest(S)} : Used(e) > keep.space}
             group == {e \in S : rows[e].created <= rows[Latest(over)].created}
  <2>1. TooBig(S, keep.space) =
          IF keep.space = 0 \/ over = {} THEN {} ELSE group \ {Latest(group)}
    BY DEF TooBig
  <2>2. group \subseteq S
    OBVIOUS
  <2> HIDE DEF over, group
  <2> QED BY <2>1, <2>2
<1> DEFINE all == TooMany(S, keep.amount) \cup TooOld(S, keep.age) \cup TooBig(S, keep.space)
<1>2. all \subseteq S
  BY <1>1 DEF TooMany, TooOld
<1>3. SelectForDeletion(S, keep) = IF S = {} THEN {} ELSE all \ {Latest(S)}
  BY DEF SelectForDeletion
<1> HIDE DEF all
<1> QED BY <1>2, <1>3

LEMMA SelectedAreOlder ==
  ASSUME NEW S \in SUBSET Execs, NEW m \in S, \A e \in S : e <= m, NEW keep
  PROVE  \A d \in SelectForDeletion(S, keep) : d \in S /\ d < m
<1>1. S \subseteq Nat
  BY BackupsAssumption
<1>2. Latest(S) = m
  <2>1. \E e \in S : \A d \in S : d <= e
    OBVIOUS
  <2>2. Latest(S) \in S /\ \A d \in S : d <= Latest(S)
    BY <2>1, Zenon DEF Latest
  <2> DEFINE l == Latest(S)
  <2>3. l \in Nat /\ m \in Nat
    BY <1>1, <2>2
  <2>4. l <= m /\ m <= l
    BY <2>2
  <2> HIDE DEF l
  <2>5. l = m
    BY <2>3, <2>4
  <2> QED BY <2>5 DEF l
<1>3. ASSUME NEW d \in S, d # m PROVE d < m
  BY <1>1, <1>3
<1> QED BY <1>2, <1>3, SelectedAreSeen

-----------------------------------------------------------------------------
(* What the steps of a handler do to what its worker knows, to the copies  *)
(* and to the rows.                                                        *)
SameJob(w) == run'[w].e = run[w].e /\ run'[w].at = run[w].at /\ run'[w].conf = run[w].conf
SameLists(w) == run'[w].dels = run[w].dels /\ run'[w].names = run[w].names

LEMMA TakeFacts ==
  ASSUME TypeOK, NEW w \in Workers, NEW e \in Execs, Take(w, e)
  PROVE  /\ After(w, run'[w]) /\ run[w].pc = "idle"
         /\ run'[w].pc = "resolve" /\ run'[w].e = e /\ run'[w].uploaded = "null"
         /\ run'[w].dels = {} /\ run'[w].names = {}
<1> DEFINE s == [IdleRun EXCEPT !.pc = "resolve", !.e = e]
<1>1. /\ IdleRun \in RunStates /\ IdleRun.uploaded = "null"
      /\ IdleRun.dels = {} /\ IdleRun.names = {}
  BY IdleFacts
<1> HIDE DEF IdleRun
<1>2. /\ s \in RunStates /\ s.pc = "resolve" /\ s.e = e /\ s.uploaded = "null"
      /\ s.dels = {} /\ s.names = {}
  BY <1>1 DEF RunStates, HandlerPC
<1>3. run' = [run EXCEPT ![w] = s] /\ run[w].pc = "idle"
  BY DEF Take, At
<1> HIDE DEF s
<1> QED BY <1>2, <1>3, MoveFacts DEF After

LEMMA ResolveFacts ==
  ASSUME TypeOK, NEW w \in Workers, Resolve(w)
  PROVE  /\ After(w, run'[w]) /\ run[w].pc = "resolve"
         /\ run'[w].e = run[w].e /\ SameLists(w) /\ run'[w].uploaded = run[w].uploaded
         /\ IF rows[run[w].e].status = "gone" THEN run'[w].pc = "err" ELSE run'[w].pc = "dump"
<1> DEFINE s == [run[w] EXCEPT !.pc = "dump", !.at = clock, !.conf = policy]
<1>1. run[w] \in RunStates /\ clock \in Seconds /\ policy \in Policies
  BY Typed
<1>2. s \in RunStates /\ s.pc = "dump" /\ s.e = run[w].e /\ s.uploaded = run[w].uploaded
      /\ s.dels = run[w].dels /\ s.names = run[w].names
  BY <1>1 DEF RunStates, HandlerPC
<1>3. /\ run[w].pc = "resolve"
      /\ IF rows[run[w].e].status = "gone" THEN Goto(w, "err") ELSE run' = [run EXCEPT ![w] = s]
  BY DEF Resolve, At
<1> HIDE DEF s
<1> QED BY <1>2, <1>3, MoveFacts, GotoFacts DEF After, SameLists, HandlerPC

LEMMA StartDumpFacts ==
  ASSUME TypeOK, NEW w \in Workers, StartDump(w)
  PROVE  /\ After(w, run'[w]) /\ run[w].pc = "dump" /\ run'[w].pc = "dumping"
         /\ SameJob(w) /\ SameLists(w) /\ run'[w].uploaded = run[w].uploaded
         /\ Copied("local", run[w].at, Partial)
         /\ dumps' \in [Seconds -> 0..2]
         /\ dumps'[run[w].at] # 0 /\ (dumps[run[w].at] # 0 => dumps'[run[w].at] = 2)
         /\ \A t \in Seconds : t # run[w].at => dumps'[t] = dumps[t]
<1> DEFINE t == run[w].at
           more == IF dumps[t] = 2 THEN 2 ELSE dumps[t] + 1
<1>1. t \in Seconds /\ Partial \in Content /\ "local" \in Sides /\ dumps \in [Seconds -> 0..2]
  BY Typed DEF RunStates, Content, Sides
<1>2. more \in 0..2 /\ more # 0 /\ (dumps[t] # 0 => more = 2)
  BY <1>1
<1>3. /\ copies' = [copies EXCEPT !["local"][t] = Partial]
      /\ dumps' = [dumps EXCEPT ![t] = more]
      /\ run[w].pc = "dump" /\ Goto(w, "dumping")
  BY DEF StartDump, At
<1>4. Copied("local", t, Partial)
  BY <1>1, <1>3, CopyFacts
<1> HIDE DEF more
<1>5. /\ dumps' \in [Seconds -> 0..2] /\ dumps'[t] = more
      /\ \A u \in Seconds : u # t => dumps'[u] = dumps[u]
  BY <1>1, <1>2, <1>3
<1> QED BY <1>2, <1>3, <1>4, <1>5, GotoFacts DEF SameJob, SameLists, HandlerPC

LEMMA EndDumpFacts ==
  ASSUME TypeOK, NEW w \in Workers, run[w].e \in Execs, EndDump(w)
  PROVE  /\ After(w, run'[w]) /\ run[w].pc = "dumping"
         /\ SameJob(w) /\ SameLists(w) /\ run'[w].uploaded = run[w].uploaded
         /\ \/ /\ Copied("local", run[w].at, run[w].e)
               /\ run'[w].pc = IF run[w].conf.saveS3 THEN "upload" ELSE "record"
            \/ run'[w].pc = "fail" /\ UNCHANGED copies
<1>1. run[w] \in RunStates
  BY Typed
<1>2. CASE Goto(w, "fail") /\ UNCHANGED copies
  BY <1>2, GotoFacts DEF EndDump, At, SameJob, SameLists, HandlerPC
<1>3. ASSUME NEW size \in Sizes,
             copies' = [copies EXCEPT !["local"][run[w].at] = run[w].e],
             run' = [run EXCEPT ![w].size = size,
                                ![w].pc = IF run[w].conf.saveS3 THEN "upload" ELSE "record"]
      PROVE  /\ After(w, run'[w]) /\ Copied("local", run[w].at, run[w].e)
             /\ SameJob(w) /\ SameLists(w) /\ run'[w].uploaded = run[w].uploaded
             /\ run'[w].pc = IF run[w].conf.saveS3 THEN "upload" ELSE "record"
  <2> DEFINE to == IF run[w].conf.saveS3 THEN "upload" ELSE "record"
             s == [run[w] EXCEPT !.size = size, !.pc = to]
  <2>1. to \in HandlerPC
    BY DEF HandlerPC
  <2> HIDE DEF to
  <2>2. /\ s \in RunStates /\ s.pc = to /\ s.e = run[w].e /\ s.at = run[w].at
        /\ s.conf = run[w].conf /\ s.uploaded = run[w].uploaded
        /\ s.dels = run[w].dels /\ s.names = run[w].names
    BY <1>1, <2>1 DEF RunStates
  <2>3. run' = [run EXCEPT ![w] = s]
    BY <1>3 DEF to
  <2>4. Copied("local", run[w].at, run[w].e)
    BY <1>1, <1>3, CopyFacts DEF RunStates, Sides, Content
  <2> HIDE DEF s
  <2>5. After(w, run'[w]) /\ run'[w] = s
    BY <2>2, <2>3, MoveFacts DEF After
  <2> QED BY <2>2, <2>4, <2>5 DEF SameJob, SameLists, to
<1> QED BY <1>2, <1>3 DEF EndDump, At

LEMMA UploadFacts ==
  ASSUME TypeOK, NEW w \in Workers, Upload(w)
  PROVE  /\ After(w, run'[w]) /\ run[w].pc = "upload"
         /\ SameJob(w) /\ SameLists(w)
         /\ \/ /\ run'[w].uploaded = "yes" /\ UNCHANGED budget
               /\ run'[w].pc = IF run[w].conf.dropLocal THEN "drop" ELSE "record"
               /\ Copied("s3", run[w].at, copies["local"][run[w].at])
            \/ /\ run'[w].uploaded = "no" /\ run'[w].pc = "record"
               /\ \/ UNCHANGED <<copies, budget>>
                  \/ Spend("ssh") /\ Copied("s3", run[w].at, copies["local"][run[w].at])
<1> DEFINE t == run[w].at
           stored == copies' = [copies EXCEPT !["s3"][t] = copies["local"][t]]
           then == IF run[w].conf.dropLocal THEN "drop" ELSE "record"
<1>1. run[w] \in RunStates
  BY Typed
<1>2. t \in Seconds /\ copies["local"][t] \in Content /\ then \in {"drop", "record"}
  BY <1>1, Typed DEF RunStates, Sides
<1>3. stored => Copied("s3", t, copies["local"][t])
  BY <1>2, CopyFacts DEF Sides
<1>4. ASSUME NEW to \in {"drop", "record"}, NEW uploaded \in {"yes", "no"},
             run' = [run EXCEPT ![w].uploaded = uploaded, ![w].pc = to]
      PROVE  /\ After(w, run'[w]) /\ SameJob(w) /\ SameLists(w)
             /\ run'[w].uploaded = uploaded /\ run'[w].pc = to
  <2> DEFINE s == [run[w] EXCEPT !.uploaded = uploaded, !.pc = to]
  <2>1. /\ s \in RunStates /\ s.pc = to /\ s.e = run[w].e /\ s.at = run[w].at
        /\ s.conf = run[w].conf /\ s.uploaded = uploaded
        /\ s.dels = run[w].dels /\ s.names = run[w].names
    BY <1>1 DEF RunStates, HandlerPC
  <2>2. run' = [run EXCEPT ![w] = s]
    BY <1>4
  <2> HIDE DEF s
  <2>3. After(w, run'[w]) /\ run'[w] = s
    BY <2>1, <2>2, MoveFacts DEF After
  <2> QED BY <2>1, <2>3 DEF SameJob, SameLists
<1>5. /\ run[w].pc = "upload"
      /\ \/ /\ stored /\ UNCHANGED budget
            /\ run' = [run EXCEPT ![w].uploaded = "yes", ![w].pc = then]
         \/ /\ run' = [run EXCEPT ![w].uploaded = "no", ![w].pc = "record"]
            /\ UNCHANGED <<copies, budget>> \/ (Spend("ssh") /\ stored)
  BY DEF Upload, At
<1> HIDE DEF stored, then
<1>6. CASE stored /\ UNCHANGED budget /\ run' = [run EXCEPT ![w].uploaded = "yes", ![w].pc = then]
  BY <1>2, <1>3, <1>4, <1>5, <1>6 DEF then
<1>7. CASE /\ run' = [run EXCEPT ![w].uploaded = "no", ![w].pc = "record"]
           /\ UNCHANGED <<copies, budget>> \/ (Spend("ssh") /\ stored)
  <2>1. /\ After(w, run'[w]) /\ SameJob(w) /\ SameLists(w)
        /\ run'[w].uploaded = "no" /\ run'[w].pc = "record"
    BY <1>4, <1>7
  <2> QED BY <1>3, <1>5, <1>7, <2>1
<1> QED BY <1>5, <1>6, <1>7

LEMMA DropLocalFacts ==
  ASSUME TypeOK, NEW w \in Workers, DropLocal(w)
  PROVE  /\ After(w, run'[w]) /\ run[w].pc = "drop" /\ run'[w].pc = "record"
         /\ SameJob(w) /\ SameLists(w) /\ run'[w].uploaded = run[w].uploaded
         /\ \/ Copied("local", run[w].at, Absent) /\ UNCHANGED budget
            \/ Spend("ssh") /\ UNCHANGED copies
<1>1. run[w].at \in Seconds /\ Absent \in Content /\ "local" \in Sides
  BY Typed DEF RunStates, Content, Sides
<1>2. run[w].pc = "drop" /\ Goto(w, "record") /\ RemoveCopy("local", run[w].at)
  BY DEF DropLocal, At
<1>3. \/ Copied("local", run[w].at, Absent) /\ UNCHANGED budget
      \/ Spend("ssh") /\ UNCHANGED copies
  BY <1>1, <1>2, CopyFacts DEF RemoveCopy
<1> QED BY <1>2, <1>3, GotoFacts DEF SameJob, SameLists, HandlerPC

LocalGone(r) == IF r.conf.dropLocal /\ r.uploaded = "yes" THEN {"local"} ELSE {}

(* The new row of w's execution, if it was still there.                    *)
LEMMA RecordFacts ==
  ASSUME TypeOK, NEW w \in Workers, run[w].e \in Execs, Record(w)
  PROVE  LET r == run[w] IN
         /\ After(w, run'[w]) /\ r.pc = "record" /\ run'[w].pc = "select"
         /\ run'[w].e = r.e /\ run'[w].dels = {} /\ run'[w].names = {}
         /\ Finished(r.e, "success", r.at, r.uploaded, LocalGone(r))
<1> DEFINE r == run[w]
           s == [IdleRun EXCEPT !.pc = "select", !.e = r.e, !.conf = r.conf]
<1>1. r \in RunStates
  BY Typed
<1>2. FinishRow(r.e, "success", r.size, r.at, r.uploaded, LocalGone(r))
  BY DEF Record, LocalGone
<1>3. LocalGone(r) \in SUBSET {"local"}
  BY DEF LocalGone
<1>4. IdleRun \in RunStates /\ IdleRun.dels = {} /\ IdleRun.names = {}
  BY IdleFacts
<1>5. run' = [run EXCEPT ![w] = s] /\ r.pc = "record"
  BY DEF Record, At
<1> HIDE DEF IdleRun
<1>6. s \in RunStates /\ s.pc = "select" /\ s.e = r.e /\ s.dels = {} /\ s.names = {}
  BY <1>1, <1>4 DEF RunStates, HandlerPC
<1> HIDE DEF s
<1>7. After(w, run'[w]) /\ run'[w] = s
  BY <1>5, <1>6, MoveFacts DEF After
<1>8. r.size \in Sizes \cup {0} /\ r.at \in Seconds /\ r.uploaded \in {"null", "yes", "no"}
  BY <1>1 DEF RunStates
<1>9. Finished(r.e, "success", r.at, r.uploaded, LocalGone(r))
  BY <1>2, <1>3, <1>8, FinishFacts
<1> QED BY <1>5, <1>6, <1>7, <1>9

LEMMA RecordFailureFacts ==
  ASSUME TypeOK, NEW w \in Workers, run[w].e \in Execs, RecordFailure(w)
  PROVE  LET e == run[w].e IN
         /\ After(w, run'[w]) /\ run[w].pc = "fail" /\ run'[w].pc = "ok" /\ run'[w].e = e
         /\ SameLists(w)
         /\ demoted' = (demoted \/ rows[e].status = "success")
         /\ Finished(e, "failed", NoFile, "null", {})
<1> DEFINE e == run[w].e
<1>1. /\ FinishRow(e, "failed", 0, NoFile, "null", {}) /\ Goto(w, "ok") /\ run[w].pc = "fail"
      /\ demoted' = (demoted \/ rows[e].status = "success")
  BY DEF RecordFailure, At
<1>2. Finished(e, "failed", NoFile, "null", {})
  BY <1>1, FinishFacts
<1>3. After(w, run'[w]) /\ run'[w].pc = "ok" /\ run'[w].e = e /\ SameLists(w)
  BY <1>1, GotoFacts DEF SameLists, HandlerPC
<1> QED BY <1>1, <1>2, <1>3

LEMMA SelectFacts ==
  ASSUME TypeOK, NEW w \in Workers, Select(w)
  PROVE  /\ After(w, run'[w]) /\ run[w].pc = "select" /\ run'[w].pc = "names"
         /\ SameJob(w) /\ run'[w].side = run[w].side /\ run'[w].names = run[w].names
         /\ \E keep : run'[w].dels = SelectForDeletion(SuccessfulWith(run[w].side), keep)
<1> DEFINE seen == SuccessfulWith(run[w].side)
           keep == run[w].conf.keep[run[w].side]
           dels == SelectForDeletion(seen, keep)
           s == [run[w] EXCEPT !.dels = dels, !.pc = "names"]
<1>1. run[w] \in RunStates
  BY Typed
<1>2. seen \in SUBSET Execs
  BY DEF SuccessfulWith
<1> HIDE DEF seen
<1>3. dels \in SUBSET Execs
  BY <1>2, SelectedAreSeen
<1>4. run' = [run EXCEPT ![w].dels = dels, ![w].pc = "names"] /\ run[w].pc = "select"
  BY DEF Select, At, seen
<1>5. run' = [run EXCEPT ![w] = s]
  BY <1>4
<1> HIDE DEF dels
<1>6. /\ s \in RunStates /\ s.pc = "names" /\ s.e = run[w].e /\ s.at = run[w].at
      /\ s.conf = run[w].conf /\ s.side = run[w].side
      /\ s.dels = dels /\ s.names = run[w].names
  BY <1>1, <1>3 DEF RunStates, HandlerPC
<1> HIDE DEF s
<1>7. After(w, run'[w]) /\ run'[w] = s
  BY <1>5, <1>6, MoveFacts DEF After
<1> QED BY <1>4, <1>6, <1>7 DEF SameJob, dels, seen

LEMMA NamesFacts ==
  ASSUME TypeOK, NEW w \in Workers, Names(w)
  PROVE  /\ After(w, run'[w]) /\ run[w].pc = "names"
         /\ SameJob(w) /\ run'[w].side = run[w].side /\ run'[w].dels = run[w].dels
         /\ run'[w].pc \in {"helper", "remove"}
         /\ run[w].side = "local" => run'[w].pc = "remove"
         /\ run'[w].names = {rows[e].file : e \in {d \in run[w].dels :
              rows[d].status # "gone" /\ rows[d].file # NoFile}}
<1> DEFINE found == {d \in run[w].dels : rows[d].status # "gone" /\ rows[d].file # NoFile}
           names == {rows[e].file : e \in found}
           to == IF run[w].side = "s3" /\ names # {} THEN "helper" ELSE "remove"
           s == [run[w] EXCEPT !.names = names, !.pc = to]
<1>1. run[w] \in RunStates
  BY Typed
<1>2. names \in SUBSET Seconds
  BY <1>1, Typed DEF RunStates, RowStates
<1>3. run' = [run EXCEPT ![w].names = names, ![w].pc = to] /\ run[w].pc = "names"
  BY DEF Names, At
<1> HIDE DEF names
<1>4. to \in {"helper", "remove"} /\ (run[w].side = "local" => to = "remove")
  OBVIOUS
<1>5. run' = [run EXCEPT ![w] = s]
  BY <1>3
<1> HIDE DEF to
<1>6. /\ s \in RunStates /\ s.pc = to /\ s.e = run[w].e /\ s.at = run[w].at
      /\ s.conf = run[w].conf /\ s.side = run[w].side
      /\ s.names = names /\ s.dels = run[w].dels
  BY <1>1, <1>2, <1>4 DEF RunStates, HandlerPC
<1> HIDE DEF s
<1>7. After(w, run'[w]) /\ run'[w] = s
  BY <1>5, <1>6, MoveFacts DEF After
<1> QED BY <1>3, <1>4, <1>6, <1>7 DEF SameJob, names

LEMMA RemoveFacts ==
  ASSUME TypeOK, NEW w \in Workers, Remove(w)
  PROVE  /\ After(w, run'[w]) /\ run[w].pc = "remove"
         /\ SameJob(w) /\ run'[w].side = run[w].side /\ run'[w].dels = run[w].dels
         /\ \/ \E t \in run[w].names :
                 /\ run'[w].pc = "remove" /\ run'[w].names = run[w].names \ {t}
                 /\ \/ Copied(run[w].side, t, Absent) /\ UNCHANGED budget
                    \/ Spend("ssh") /\ UNCHANGED copies
            \/ /\ run'[w].pc = "mark" /\ run[w].names = {} /\ run'[w].names = {}
               /\ UNCHANGED <<copies, budget>>
<1>1. run[w] \in RunStates
  BY Typed
<1>2. CASE run[w].names = {} /\ Goto(w, "mark") /\ UNCHANGED <<copies, budget>>
  BY <1>2, GotoFacts DEF Remove, At, SameJob, HandlerPC
<1>3. ASSUME NEW t \in run[w].names, RemoveCopy(run[w].side, t),
             run' = [run EXCEPT ![w].names = @ \ {t}], run[w].pc = "remove"
      PROVE  /\ After(w, run'[w]) /\ SameJob(w) /\ run'[w].side = run[w].side
             /\ run'[w].dels = run[w].dels /\ run'[w].pc = "remove"
             /\ run'[w].names = run[w].names \ {t}
             /\ \/ Copied(run[w].side, t, Absent) /\ UNCHANGED budget
                \/ Spend("ssh") /\ UNCHANGED copies
  <2> DEFINE s == [run[w] EXCEPT !.names = @ \ {t}]
  <2>1. /\ s \in RunStates /\ s.pc = run[w].pc /\ s.e = run[w].e /\ s.at = run[w].at
        /\ s.conf = run[w].conf /\ s.side = run[w].side
        /\ s.dels = run[w].dels /\ s.names = run[w].names \ {t}
    BY <1>1 DEF RunStates
  <2>2. run' = [run EXCEPT ![w] = s]
    BY <1>3
  <2> HIDE DEF s
  <2>3. After(w, run'[w]) /\ run'[w] = s
    BY <2>1, <2>2, MoveFacts DEF After
  <2>4. run[w].side \in Sides /\ t \in Seconds /\ Absent \in Content
    BY <1>1 DEF RunStates, Content
  <2>5. \/ Copied(run[w].side, t, Absent) /\ UNCHANGED budget
        \/ Spend("ssh") /\ UNCHANGED copies
    BY <1>3, <2>4, CopyFacts DEF RemoveCopy
  <2> QED BY <1>3, <2>1, <2>3, <2>5 DEF SameJob
<1> QED BY <1>2, <1>3 DEF Remove, At

LEMMA MarkFacts ==
  ASSUME TypeOK, NEW w \in Workers, Mark(w)
  PROVE  /\ After(w, run'[w]) /\ run[w].pc = "mark" /\ run'[w].pc \in {"select", "prune"}
         /\ SameJob(w) /\ run'[w].dels = {} /\ run'[w].names = run[w].names
         /\ rows' \in [Execs -> RowStates]
         /\ \A e \in Execs :
              /\ rows'[e].status = rows[e].status /\ rows'[e].created = rows[e].created
              /\ rows'[e].file = rows[e].file /\ rows'[e].uploaded = rows[e].uploaded
              /\ e \in run[w].dels /\ rows[e].status # "gone" =>
                   rows'[e].deleted = rows[e].deleted \cup {run[w].side}
              /\ e \notin run[w].dels => rows'[e].deleted = rows[e].deleted
              /\ rows[e].status = "gone" => rows'[e].deleted = rows[e].deleted
<1> DEFINE r == run[w]
           to == IF r.side = "local" /\ r.conf.saveS3 THEN "select" ELSE "prune"
           s == [r EXCEPT !.dels = {}, !.side = "s3", !.pc = to]
           marked(e) == [rows[e] EXCEPT !.deleted = @ \cup {r.side}]
<1>1. r \in RunStates /\ r.side \in Sides /\ to \in {"select", "prune"}
  BY Typed DEF RunStates
<1>2. r.pc = "mark" /\ run' = [run EXCEPT ![w].dels = {}, ![w].side = "s3", ![w].pc = to]
  BY DEF Mark, At
<1>3. run' = [run EXCEPT ![w] = s]
  BY <1>2
<1> HIDE DEF to
<1>4. /\ s \in RunStates /\ s.pc = to /\ s.e = r.e /\ s.at = r.at /\ s.conf = r.conf
      /\ s.dels = {} /\ s.names = r.names
  BY <1>1 DEF RunStates, HandlerPC, Sides
<1> HIDE DEF s
<1>5. After(w, run'[w]) /\ run'[w] = s
  BY <1>3, <1>4, MoveFacts DEF After
<1>6. \A e \in Execs :
        /\ marked(e) \in RowStates
        /\ marked(e).status = rows[e].status /\ marked(e).created = rows[e].created
        /\ marked(e).file = rows[e].file /\ marked(e).uploaded = rows[e].uploaded
        /\ marked(e).deleted = rows[e].deleted \cup {r.side}
  BY <1>1, Typed DEF RowStates
<1>7. rows' = [e \in Execs |-> IF e \in r.dels /\ rows[e].status # "gone"
                                THEN marked(e) ELSE rows[e]]
  BY DEF Mark
<1> HIDE DEF marked
<1>8. /\ rows' \in [Execs -> RowStates]
      /\ \A e \in Execs : IF e \in r.dels /\ rows[e].status # "gone"
                            THEN rows'[e] = marked(e) ELSE rows'[e] = rows[e]
  BY <1>6, <1>7, Typed
<1>9. \A e \in Execs :
        /\ rows'[e].status = rows[e].status /\ rows'[e].created = rows[e].created
        /\ rows'[e].file = rows[e].file /\ rows'[e].uploaded = rows[e].uploaded
        /\ e \in r.dels /\ rows[e].status # "gone" =>
             rows'[e].deleted = rows[e].deleted \cup {r.side}
        /\ e \notin r.dels => rows'[e].deleted = rows[e].deleted
        /\ rows[e].status = "gone" => rows'[e].deleted = rows[e].deleted
  BY <1>6, <1>8
<1> QED BY <1>1, <1>2, <1>4, <1>5, <1>8, <1>9 DEF SameJob

LEMMA PruneFacts ==
  ASSUME TypeOK, NEW w \in Workers, Prune(w)
  PROVE  /\ After(w, run'[w]) /\ run[w].pc = "prune" /\ run'[w].pc = "ok"
         /\ SameJob(w) /\ SameLists(w)
         /\ rows' \in [Execs -> RowStates]
         /\ \A e \in Execs :
              IF rows[e].status # "none" /\ Orphan(e)
                THEN /\ rows'[e].status = "gone" /\ rows'[e].file = NoFile
                     /\ rows'[e].uploaded = "null" /\ rows'[e].deleted = {}
                ELSE rows'[e] = rows[e]
<1> DEFINE s == [NoRow EXCEPT !.status = "gone"]
<1>1. 0 \in Seconds
  BY BackupsAssumption DEF Seconds
<1>2. /\ s \in RowStates /\ s.status = "gone" /\ s.file = NoFile
      /\ s.uploaded = "null" /\ s.deleted = {}
  BY <1>1 DEF NoRow, RowStates
<1>3. /\ rows' = [e \in Execs |-> IF rows[e].status # "none" /\ Orphan(e) THEN s ELSE rows[e]]
      /\ run[w].pc = "prune" /\ Goto(w, "ok")
  BY DEF Prune, At
<1> HIDE DEF s
<1>4. After(w, run'[w]) /\ run'[w].pc = "ok" /\ SameJob(w) /\ SameLists(w)
  BY <1>3, GotoFacts DEF SameJob, SameLists, HandlerPC
<1> QED BY <1>2, <1>3, <1>4, Typed

LEMMA PutDownFacts ==
  ASSUME TypeOK, NEW w \in Workers, PutDown(w)
  PROVE  After(w, run'[w]) /\ run'[w].pc = "idle" /\ run'[w].dels = {} /\ run'[w].names = {}
<1>1. IdleRun \in RunStates /\ run' = [run EXCEPT ![w] = IdleRun]
  BY IdleFacts DEF PutDown
<1> QED BY <1>1, IdleFacts, MoveFacts DEF After

LEMMA RestartFacts ==
  ASSUME TypeOK, Restart
  PROVE  /\ run' \in [Workers -> RunStates]
         /\ \A w \in Workers : run'[w].pc = "idle" /\ run'[w].dels = {} /\ run'[w].names = {}
<1>1. run' = [w \in Workers |-> IdleRun]
  BY DEF Restart
<1> QED BY <1>1, IdleFacts

-----------------------------------------------------------------------------
(* Types, and the jobs that the workers hold.                              *)
LEMMA CoreRests ==
  ASSUME Core, UNCHANGED <<storeVars, run>>
  PROVE  Store!StoreTypeOK' /\ Holding' /\ TriesLeft'
<1>1. Store!StoreTypeOK
  BY Typed DEF Core
<1> QED BY <1>1 DEF Core, Holding, TriesLeft, storeVars, Store!StoreTypeOK

LEMMA CoreMoves ==
  ASSUME Core, NEW w \in Workers, UNCHANGED storeVars, After(w, run'[w]),
         run[w].pc # "idle", run'[w].e = run[w].e
  PROVE  Store!StoreTypeOK' /\ Holding' /\ TriesLeft' /\ run' \in [Workers -> RunStates]
<1>1. Store!StoreTypeOK
  BY Typed DEF Core
<1> QED BY <1>1 DEF Core, Holding, TriesLeft, storeVars, After, Store!StoreTypeOK

LEMMA HandlerCore ==
  ASSUME Core, NEW w \in Workers, Handler(w) \/ TakeSome(w)
  PROVE  Core'
<1> USE DEF Core, At, handlerSame, dispatchVars, ghostVars
<1>0. run[w] \in RunStates /\ (run[w].pc # "idle" => run[w].e \in Execs)
  BY Typed DEF Holding
<1>1. CASE TakeSome(w)
  <2>1. PICK e \in Execs : Take(w, e)
    BY <1>1 DEF TakeSome
  <2>2. /\ After(w, run'[w]) /\ run'[w].pc = "resolve" /\ run'[w].e = e
    BY <2>1, TakeFacts
  <2>3. Store!Take(w, e)
    BY <2>1 DEF Take
  <2>4. Store!StoreTypeOK' /\ TriesLeft'
    BY <2>3, Typed DEF Store!StoreTypeOK, Store!Take, Store!Status, TriesLeft
  <2>5. /\ jobStatus[e] = "queued" /\ jobStatus'[e] = "held" /\ holder'[e] = w
        /\ \A d \in Execs \ {e} : jobStatus'[d] = jobStatus[d] /\ holder'[d] = holder[d]
    BY <2>3, Typed DEF Store!StoreTypeOK, Store!Take
  <2>6. Holding'
    BY <2>2, <2>5 DEF Holding, After
  <2>7. run' \in [Workers -> RunStates]
    BY <2>2 DEF After
  <2> QED BY <2>1, <2>4, <2>6, <2>7, Typed, TypedNext DEF Take
<1>2. CASE Resolve(w)
  <2>1. /\ After(w, run'[w]) /\ run[w].pc = "resolve" /\ run'[w].e = run[w].e
    BY <1>2, ResolveFacts
  <2>2. UNCHANGED storeVars
    BY <1>2 DEF Resolve
  <2> QED BY <1>2, <2>1, <2>2, CoreMoves, Typed, TypedNext DEF Resolve
<1>3. CASE StartDump(w)
  <2>1. /\ After(w, run'[w]) /\ run[w].pc = "dump" /\ SameJob(w)
        /\ dumps' \in [Seconds -> 0..2] /\ copies' \in [Sides -> [Seconds -> Content]]
    BY <1>3, StartDumpFacts DEF Copied
  <2>2. UNCHANGED storeVars
    BY <1>3 DEF StartDump
  <2> QED BY <1>3, <2>1, <2>2, CoreMoves, Typed, TypedNext DEF StartDump, SameJob
<1>4. CASE MkdirFails(w)
  <2>1. run[w].pc = "dump" /\ Goto(w, "err") /\ Spend("ssh") /\ UNCHANGED storeVars
    BY <1>4 DEF MkdirFails
  <2>2. After(w, run'[w]) /\ run'[w].e = run[w].e /\ budget' \in Budgets
    BY <2>1, GotoFacts, BudgetFacts DEF HandlerPC
  <2> QED BY <1>4, <2>1, <2>2, CoreMoves, Typed, TypedNext DEF MkdirFails
<1>5. CASE EndDump(w)
  <2>1. run[w].e \in Execs
    BY <1>0, <1>5 DEF EndDump
  <2>2. /\ After(w, run'[w]) /\ run[w].pc = "dumping" /\ SameJob(w)
        /\ copies' \in [Sides -> [Seconds -> Content]]
    BY <1>5, <2>1, EndDumpFacts, Typed DEF Copied
  <2>3. UNCHANGED storeVars
    BY <1>5 DEF EndDump
  <2> QED BY <1>5, <2>2, <2>3, CoreMoves, Typed, TypedNext DEF EndDump, SameJob
<1>6. CASE Upload(w)
  <2>1. /\ After(w, run'[w]) /\ run[w].pc = "upload" /\ SameJob(w)
        /\ copies' \in [Sides -> [Seconds -> Content]] /\ budget' \in Budgets
    BY <1>6, UploadFacts, BudgetFacts, Typed DEF Copied
  <2>2. UNCHANGED storeVars
    BY <1>6 DEF Upload
  <2> QED BY <1>6, <2>1, <2>2, CoreMoves, Typed, TypedNext DEF Upload, SameJob
<1>7. CASE DropLocal(w)
  <2>1. /\ After(w, run'[w]) /\ run[w].pc = "drop" /\ SameJob(w)
        /\ copies' \in [Sides -> [Seconds -> Content]] /\ budget' \in Budgets
    BY <1>7, DropLocalFacts, BudgetFacts, Typed DEF Copied
  <2>2. UNCHANGED storeVars
    BY <1>7 DEF DropLocal
  <2> QED BY <1>7, <2>1, <2>2, CoreMoves, Typed, TypedNext DEF DropLocal, SameJob
<1>8. CASE Record(w)
  <2>1. run[w].e \in Execs
    BY <1>0, <1>8 DEF Record
  <2>2. /\ After(w, run'[w]) /\ run[w].pc = "record" /\ run'[w].e = run[w].e
        /\ rows' \in [Execs -> RowStates]
    BY <1>8, <2>1, RecordFacts DEF Finished
  <2>3. UNCHANGED storeVars
    BY <1>8 DEF Record
  <2> QED BY <1>8, <2>2, <2>3, CoreMoves, Typed, TypedNext DEF Record
<1>9. CASE RecordFailure(w)
  <2>1. run[w].e \in Execs
    BY <1>0, <1>9 DEF RecordFailure
  <2>2. /\ After(w, run'[w]) /\ run[w].pc = "fail" /\ run'[w].e = run[w].e
        /\ rows' \in [Execs -> RowStates] /\ demoted' \in BOOLEAN
    BY <1>9, <2>1, RecordFailureFacts, Typed DEF Finished
  <2>3. UNCHANGED storeVars
    BY <1>9 DEF RecordFailure
  <2> QED BY <1>9, <2>2, <2>3, CoreMoves, Typed, TypedNext DEF RecordFailure
<1>10. CASE Select(w)
  <2>1. /\ After(w, run'[w]) /\ run[w].pc = "select" /\ SameJob(w)
    BY <1>10, SelectFacts
  <2>2. UNCHANGED storeVars
    BY <1>10 DEF Select
  <2> QED BY <1>10, <2>1, <2>2, CoreMoves, Typed, TypedNext DEF Select, SameJob
<1>11. CASE Names(w)
  <2>1. /\ After(w, run'[w]) /\ run[w].pc = "names" /\ SameJob(w)
    BY <1>11, NamesFacts
  <2>2. UNCHANGED storeVars
    BY <1>11 DEF Names
  <2> QED BY <1>11, <2>1, <2>2, CoreMoves, Typed, TypedNext DEF Names, SameJob
<1>12. CASE Helper(w)
  <2>1. /\ run[w].pc = "helper" /\ (Goto(w, "remove") \/ Goto(w, "err"))
        /\ UNCHANGED storeVars /\ (UNCHANGED budget \/ Spend("ssh"))
    BY <1>12 DEF Helper
  <2>2. After(w, run'[w]) /\ run'[w].e = run[w].e /\ budget' \in Budgets
    BY <2>1, GotoFacts, BudgetFacts, Typed DEF HandlerPC
  <2> QED BY <1>12, <2>1, <2>2, CoreMoves, Typed, TypedNext DEF Helper
<1>13. CASE Remove(w)
  <2>1. /\ After(w, run'[w]) /\ run[w].pc = "remove" /\ SameJob(w)
        /\ copies' \in [Sides -> [Seconds -> Content]] /\ budget' \in Budgets
    BY <1>13, RemoveFacts, BudgetFacts, Typed DEF Copied
  <2>2. UNCHANGED storeVars
    BY <1>13 DEF Remove
  <2> QED BY <1>13, <2>1, <2>2, CoreMoves, Typed, TypedNext DEF Remove, SameJob
<1>14. CASE Mark(w)
  <2>1. /\ After(w, run'[w]) /\ run[w].pc = "mark" /\ SameJob(w)
        /\ rows' \in [Execs -> RowStates]
    BY <1>14, MarkFacts
  <2>2. UNCHANGED storeVars
    BY <1>14 DEF Mark
  <2> QED BY <1>14, <2>1, <2>2, CoreMoves, Typed, TypedNext DEF Mark, SameJob
<1>15. CASE Prune(w)
  <2>1. /\ After(w, run'[w]) /\ run[w].pc = "prune" /\ SameJob(w)
        /\ rows' \in [Execs -> RowStates]
    BY <1>15, PruneFacts
  <2>2. UNCHANGED storeVars
    BY <1>15 DEF Prune
  <2> QED BY <1>15, <2>1, <2>2, CoreMoves, Typed, TypedNext DEF Prune, SameJob
<1>16. CASE DbFails(w)
  <2>1. run[w].pc # "idle" /\ Goto(w, "err") /\ Spend("db") /\ UNCHANGED storeVars
    BY <1>16 DEF DbFails
  <2>2. After(w, run'[w]) /\ run'[w].e = run[w].e /\ budget' \in Budgets
    BY <2>1, GotoFacts, BudgetFacts DEF HandlerPC
  <2> QED BY <1>16, <2>1, <2>2, CoreMoves, Typed, TypedNext DEF DbFails
<1>17. CASE Report(w)
  <2>1. run[w].e \in Execs /\ PutDown(w) /\ (Store!Finish(w, run[w].e) \/ Store!Miss(w, run[w].e))
    BY <1>0, <1>17 DEF Report
  <2> DEFINE e == run[w].e
  <2>2. tries[e] + 1 \in 0..MaxAttempts
    <3>1. jobStatus[e] = "held" /\ e \in Execs
      BY <2>1 DEF Store!Finish, Store!Miss
    <3>2. tries[e] \in 0..MaxAttempts /\ tries[e] < MaxAttempts
      BY <3>1, Typed DEF Store!StoreTypeOK, TriesLeft
    <3> HIDE DEF e
    <3> QED BY <3>2, BackupsAssumption
  <2>3. Store!StoreTypeOK' /\ TriesLeft'
    BY <2>1, <2>2, Typed, BackupsAssumption
    DEF Store!StoreTypeOK, Store!Finish, Store!Miss, Store!Status, TriesLeft
  <2>4. /\ holder[e] = w
        /\ \A d \in Execs \ {e} : jobStatus'[d] = jobStatus[d] /\ holder'[d] = holder[d]
    BY <2>1, Typed DEF Store!StoreTypeOK, Store!Finish, Store!Miss
  <2>5. /\ run' \in [Workers -> RunStates] /\ run'[w].pc = "idle"
        /\ \A o \in Workers \ {w} : run'[o] = run[o]
    BY <2>1, PutDownFacts DEF After
  <2>6. Holding'
    BY <2>4, <2>5 DEF Holding
  <2> QED BY <1>17, <2>3, <2>5, <2>6, Typed, TypedNext DEF Report
<1>18. CASE ReportLost(w)
  <2>1. run[w].e \in Execs /\ PutDown(w) /\ Store!LetGo({run[w].e}) /\ Spend("db")
    BY <1>0, <1>18 DEF ReportLost
  <2> DEFINE e == run[w].e
  <2>2. Store!StoreTypeOK' /\ TriesLeft'
    BY <2>1, Typed DEF Store!StoreTypeOK, Store!LetGo, Store!Status, TriesLeft
  <2>3. /\ run[w].pc # "idle"
        /\ \A d \in Execs \ {e} : jobStatus'[d] = jobStatus[d] /\ holder'[d] = holder[d]
    BY <1>18, <2>1, Typed DEF ReportLost, Store!StoreTypeOK, Store!LetGo
  <2>4. /\ run' \in [Workers -> RunStates] /\ run'[w].pc = "idle"
        /\ \A o \in Workers \ {w} : run'[o] = run[o]
    BY <2>1, PutDownFacts DEF After
  <2>5. Holding'
    BY <2>3, <2>4 DEF Holding
  <2>6. budget' \in Budgets
    BY <2>1, BudgetFacts
  <2> QED BY <1>18, <2>2, <2>4, <2>5, <2>6, Typed, TypedNext DEF ReportLost
<1> QED BY <1>1, <1>2, <1>3, <1>4, <1>5, <1>6, <1>7, <1>8, <1>9, <1>10, <1>11, <1>12, <1>13,
           <1>14, <1>15, <1>16, <1>17, <1>18 DEF Handler

(* The steps of everybody but the workers.                                 *)
Outside ==
  \/ Tick \/ Restart \/ UNCHANGED vars \/ Dispatcher
  \/ \E p \in Policies : Update(p)
  \/ \E e \in Execs : Trigger(e) \/ SendJob(e)

LEMMA BackupSteps ==
  ASSUME [Next]_vars
  PROVE  Outside \/ \E w \in Workers : Handler(w) \/ TakeSome(w)
BY DEF Next, Outside

LEMMA SubmitCore ==
  ASSUME Core, NEW e \in Execs, Store!Submit(e), UNCHANGED run
  PROVE  Store!StoreTypeOK' /\ Holding' /\ TriesLeft'
<1>1. Store!StoreTypeOK
  BY Typed DEF Core
<1>2. Store!StoreTypeOK' /\ TriesLeft'
  BY <1>1 DEF Core, Store!StoreTypeOK, Store!Submit, Store!Status, TriesLeft
<1>3. Holding'
  BY <1>1 DEF Core, Holding, Store!Submit, Store!StoreTypeOK
<1> QED BY <1>2, <1>3

LEMMA OutsideCore ==
  ASSUME Core, Outside
  PROVE  Core'
<1> USE DEF Core, dispatchVars, ghostVars
<1>1. CASE Tick
  <2>1. clock' \in Seconds
    BY <1>1, Typed, BackupsAssumption DEF Tick, Seconds
  <2> QED BY <1>1, <2>1, Typed, TypedNext, CoreRests DEF Tick
<1>2. CASE UNCHANGED vars
  BY <1>2, Typed, TypedNext, CoreRests DEF vars
<1>3. ASSUME NEW p \in Policies, Update(p)
      PROVE  Core'
  <2>1. budget' \in Budgets
    BY <1>3, BudgetFacts DEF Update
  <2> QED BY <1>3, <2>1, Typed, TypedNext, CoreRests DEF Update
<1>4. ASSUME NEW e \in Execs, Trigger(e)
      PROVE  Core'
  <2>1. rows' \in [Execs -> RowStates] /\ request' \in [Execs -> Requests]
    BY <1>4, CreateFacts DEF Trigger
  <2> QED BY <1>4, <2>1, Typed, TypedNext, CoreRests DEF Trigger
<1>5. ASSUME NEW e \in Execs, SendJob(e)
      PROVE  Core'
  <2>1. request' \in [Execs -> Requests]
    BY <1>5, Typed DEF SendJob, Requests
  <2>2. budget' \in Budgets
    BY <1>5, Typed, BudgetFacts DEF SendJob
  <2>3. Store!StoreTypeOK' /\ Holding' /\ TriesLeft'
    BY <1>5, SubmitCore, CoreRests DEF SendJob
  <2> QED BY <1>5, <2>1, <2>2, <2>3, Typed, TypedNext DEF SendJob
<1>6. CASE SweepStarts
  BY <1>6, Typed, TypedNext, CoreRests DEF SweepStarts
<1>7. CASE SweepChecks
  BY <1>7, Typed, TypedNext, CoreRests DEF SweepChecks
<1>8. CASE SweepCreates
  <2>1. PICK e \in Execs : CreateRunning(e) /\ byCron' = byCron \cup {e}
    BY <1>8 DEF SweepCreates
  <2>2. rows' \in [Execs -> RowStates] /\ request' \in [Execs -> Requests]
    BY <2>1, CreateFacts
  <2>3. byCron' \in SUBSET Execs
    BY <2>1, Typed
  <2> QED BY <1>8, <2>2, <2>3, Typed, TypedNext, CoreRests DEF SweepCreates
<1>9. CASE SweepEnqueues
  <2>1. PICK e \in byCron : Store!Submit(e) /\ request' = [request EXCEPT ![e] = "sent"]
    BY <1>9 DEF SweepEnqueues
  <2>2. e \in Execs /\ request' \in [Execs -> Requests]
    BY <2>1, Typed DEF Requests
  <2>3. Store!StoreTypeOK' /\ Holding' /\ TriesLeft'
    BY <1>9, <2>1, <2>2, SubmitCore DEF SweepEnqueues
  <2> QED BY <1>9, <2>2, <2>3, Typed, TypedNext DEF SweepEnqueues
<1>10. CASE SweepFails
  <2>1. request' \in [Execs -> Requests]
    BY <1>10, Typed DEF SweepFails, Requests
  <2>2. budget' \in Budgets
    BY <1>10, BudgetFacts DEF SweepFails
  <2> QED BY <1>10, <2>1, <2>2, Typed, TypedNext, CoreRests DEF SweepFails
<1>11. CASE Restart
  <2>1. Store!StoreTypeOK' /\ TriesLeft'
    BY <1>11, Typed DEF Restart, Store!StoreTypeOK, Store!LetGo, Store!Status, TriesLeft, storeVars
  <2>2. request' \in [Execs -> Requests]
    BY <1>11, Typed DEF Restart, Requests
  <2>3. run' \in [Workers -> RunStates] /\ Holding'
    BY <1>11, RestartFacts DEF Holding
  <2>4. budget' \in Budgets
    BY <1>11, BudgetFacts DEF Restart
  <2> QED BY <1>11, <2>1, <2>2, <2>3, <2>4, Typed, TypedNext DEF Restart
<1> QED BY <1>1, <1>2, <1>3, <1>4, <1>5, <1>6, <1>7, <1>8, <1>9, <1>10, <1>11
        DEF Outside, Dispatcher

-----------------------------------------------------------------------------
(* Once a minute.  What the handlers do to a row leaves its time alone.    *)
Ages ==
  \A e \in Execs : rows[e].status # "none" =>
    /\ rows'[e].status # "none"
    /\ rows'[e].status # "gone" => /\ rows[e].status # "gone"
                                   /\ rows'[e].created = rows[e].created

LEMMA HandlerAges ==
  ASSUME Core, NEW w \in Workers, Handler(w) \/ TakeSome(w)
  PROVE  Ages /\ UNCHANGED <<clock, byCron, sweep>>
<1> USE DEF Core, At, handlerSame, dispatchVars, ghostVars
<1>0. run[w].pc # "idle" => run[w].e \in Execs
  BY DEF Holding
<1>1. CASE Record(w)
  <2>1. run[w].e \in Execs
    BY <1>0, <1>1 DEF Record
  <2>2. Finished(run[w].e, "success", run[w].at, run[w].uploaded, LocalGone(run[w]))
    BY <1>1, <2>1, RecordFacts
  <2> QED BY <1>1, <2>1, <2>2 DEF Record, Finished, Ages
<1>2. CASE RecordFailure(w)
  <2>1. run[w].e \in Execs
    BY <1>0, <1>2 DEF RecordFailure
  <2> QED BY <1>2, <2>1, RecordFailureFacts DEF RecordFailure, Finished, Ages
<1>3. CASE Mark(w)
  BY <1>3, MarkFacts DEF Mark, Ages
<1>4. CASE Prune(w)
  BY <1>4, PruneFacts DEF Prune, Ages
<1>5. CASE ~(Record(w) \/ RecordFailure(w) \/ Mark(w) \/ Prune(w))
  <2>1. UNCHANGED <<rows, clock, byCron, sweep>>
    BY <1>5 DEF Handler, TakeSome, Take, Resolve, StartDump, MkdirFails, EndDump, Upload,
      DropLocal, Select, Names, Helper, Remove, DbFails, Report, ReportLost
  <2> QED BY <2>1 DEF Ages
<1> QED BY <1>1, <1>2, <1>3, <1>4, <1>5

(* The clock and its minutes.                                              *)
LEMMA ClockFacts ==
  ASSUME TypeOK
  PROVE  /\ clock \in Nat /\ MinuteOf[clock] \in Nat
         /\ \A e \in Execs : /\ rows[e].created \in Seconds /\ rows[e].created \in Nat
                             /\ MinuteOf[rows[e].created] \in Nat
                             /\ rows[e].created <= clock =>
                                  MinuteOf[rows[e].created] <= MinuteOf[clock]
BY Typed, BackupsAssumption DEF RowStates, Seconds

LEMMA AgesOnce ==
  ASSUME Core, Once, OncePerMinute, Ages, UNCHANGED <<clock, byCron>>,
         sweep' = "create" => sweep = "create"
  PROVE  Once' /\ OncePerMinute'
<1>1. byCron \subseteq Execs
  BY Typed DEF Core
<1> QED BY <1>1 DEF Once, OncePerMinute, Ages

LEMMA OnceStep ==
  ASSUME Core, Core', Once, OncePerMinute, [Next]_vars
  PROVE  Once' /\ OncePerMinute'
<1> USE DEF dispatchVars, ghostVars
<1>0. TypeOK /\ TypeOK' /\ byCron \subseteq Execs
  BY Typed DEF Core
<1>1. ASSUME NEW w \in Workers, Handler(w) \/ TakeSome(w)
      PROVE  Once' /\ OncePerMinute'
  BY <1>1, HandlerAges, AgesOnce
<1>2. CASE Tick
  <2>1. UNCHANGED <<rows, byCron, sweep>> /\ clock' = clock + 1
    BY <1>2 DEF Tick
  <2>2. clock \in Seconds /\ clock' \in Seconds /\ clock <= clock'
    BY <1>0, <2>1, Typed, TypedNext, ClockFacts
  <2>3. MinuteOf[clock] <= MinuteOf[clock'] /\ MinuteOf[clock'] \in Nat
    BY <2>2, BackupsAssumption
  <2>4. Once'
    BY <1>0, <2>1, <2>2, <2>3, ClockFacts DEF Once
  <2> QED BY <2>1, <2>4 DEF OncePerMinute
<1>3. CASE UNCHANGED vars
  BY <1>3, AgesOnce DEF vars, Ages
<1>4. ASSUME NEW p \in Policies, Update(p)
      PROVE  Once' /\ OncePerMinute'
  BY <1>4, AgesOnce DEF Update, Ages
<1>5. ASSUME NEW e \in Execs, Trigger(e)
      PROVE  Once' /\ OncePerMinute'
  <2>1. /\ rows[e].status = "none" /\ UNCHANGED <<clock, byCron, sweep>>
        /\ \A d \in Execs \ {e} : rows'[d] = rows[d]
    BY <1>0, <1>5, CreateFacts DEF Trigger
  <2> QED BY <1>0, <2>1 DEF Once, OncePerMinute
<1>6. ASSUME NEW e \in Execs, SendJob(e)
      PROVE  Once' /\ OncePerMinute'
  BY <1>6, AgesOnce DEF SendJob, Ages
<1>7. CASE SweepStarts \/ SweepEnqueues \/ SweepFails \/ Restart
  BY <1>7, AgesOnce DEF SweepStarts, SweepEnqueues, SweepFails, Restart, Ages
<1>8. CASE SweepChecks
  <2>1. UNCHANGED <<rows, clock, byCron>> /\ (sweep' = "create" => ~ExistsInCurrentMinute)
    BY <1>8 DEF SweepChecks
  <2>2. ASSUME sweep' = "create", NEW e \in byCron, rows[e].status # "gone"
        PROVE  MinuteOf[rows[e].created] < MinuteOf[clock]
    <3>1. e \in Execs /\ rows[e].status # "none" /\ rows[e].created <= clock
      BY <1>0, <2>2 DEF Once
    <3>2. MinuteOf[rows[e].created] # MinuteOf[clock]
      BY <2>1, <2>2, <3>1 DEF ExistsInCurrentMinute
    <3>3. MinuteOf[rows[e].created] <= MinuteOf[clock]
      BY <1>0, <3>1, ClockFacts
    <3> QED BY <1>0, <3>1, <3>2, <3>3, ClockFacts
  <2> QED BY <2>1, <2>2 DEF Once, OncePerMinute
<1>9. CASE SweepCreates
  <2>1. PICK e \in Execs : CreateRunning(e) /\ byCron' = byCron \cup {e}
    BY <1>9 DEF SweepCreates
  <2>2. /\ sweep = "create" /\ sweep' # "create" /\ UNCHANGED clock
    BY <1>9 DEF SweepCreates
  <2>3. /\ rows[e].status = "none" /\ rows'[e].status = "running" /\ rows'[e].created = clock
        /\ \A d \in Execs \ {e} : rows'[d] = rows[d]
    BY <1>0, <2>1, CreateFacts
  <2>4. e \notin byCron /\ \A d \in byCron : rows'[d] = rows[d]
    BY <1>0, <2>3 DEF Once
  <2>5. \A d \in byCron : rows[d].status # "gone" => MinuteOf[rows[d].created] # MinuteOf[clock]
    BY <1>0, <2>2, ClockFacts DEF Once
  <2>6. clock <= clock
    BY <1>0, ClockFacts
  <2>7. Once'
    BY <2>1, <2>2, <2>3, <2>4, <2>6 DEF Once
  <2> QED BY <2>1, <2>3, <2>4, <2>5, <2>7 DEF OncePerMinute
<1> QED BY <1>1, <1>2, <1>3, <1>4, <1>5, <1>6, <1>7, <1>8, <1>9, BackupSteps
        DEF Outside, Dispatcher

-----------------------------------------------------------------------------
(* Files.  The steps that begin no dump, move no copy and name no file.    *)
Quiet ==
  /\ UNCHANGED <<copies, dumps>>
  /\ \A e \in Execs :
       /\ rows'[e].file \in {rows[e].file, NoFile}
       /\ rows'[e].status = "success" =>
            rows[e].status = "success" /\ rows'[e].file = rows[e].file
  /\ \A w \in Workers :
       run'[w] = run[w] \/ (~Writing(w)' /\ run'[w].names \subseteq run[w].names)

LEMMA FileTypes ==
  ASSUME TypeOK
  PROVE  /\ \A w \in Workers : /\ run[w].at \in Seconds /\ run[w].at # NoFile
                               /\ run[w].names \in SUBSET Seconds
         /\ \A e \in Execs : rows[e].file \in Seconds \cup {NoFile}
BY Typed, BackupsAssumption DEF RunStates, RowStates

LEMMA ClashStays ==
  ASSUME TypeOK, [Next]_vars
  PROVE  ~Clash' => ~Clash
<1>1. ASSUME NEW w \in Workers, StartDump(w) PROVE ~Clash' => ~Clash
  BY <1>1, StartDumpFacts DEF Clash
<1>2. CASE UNCHANGED dumps
  BY <1>2 DEF Clash
<1>3. \/ UNCHANGED dumps \/ \E w \in Workers : StartDump(w)
  BY BackupSteps DEF Outside, Dispatcher, Tick, Update, Trigger, SendJob, SweepStarts, SweepChecks,
    SweepCreates, SweepEnqueues, SweepFails, Restart, vars, ghostVars, handlerSame,
    Handler, TakeSome, Take, Resolve, MkdirFails, EndDump, Upload, DropLocal, Record,
    RecordFailure, Select, Names, Helper, Remove, Mark, Prune, DbFails, Report, ReportLost
<1> QED BY <1>1, <1>2, <1>3

LEMMA QuietFiles ==
  ASSUME TypeOK, TypeOK', Files, Quiet
  PROVE  Files'
<1>1. /\ \A w \in Workers : Writing(w)' => run'[w] = run[w] /\ Writing(w)
      /\ \A w \in Workers : run'[w].names \subseteq run[w].names
  BY DEF Quiet, Writing
<1>2. Begun'
  BY <1>1 DEF Files, Begun, Quiet, Success
<1>3. ASSUME ~Clash' PROVE Unshared'
  <2>1. Unshared
    BY <1>3 DEF Files, Clash, Quiet
  <2> QED BY <1>1, <2>1, FileTypes DEF Unshared, Quiet
<1>4. ASSUME ~Clash' PROVE Secured'
  <2>1. Secured
    BY <1>4 DEF Files, Clash, Quiet
  <2>2. \A w \in Workers : run'[w].pc \in {"upload", "drop", "record"} => run'[w] = run[w]
    BY <1>1 DEF Writing
  <2> QED BY <2>1, <2>2 DEF Secured, Quiet
<1> QED BY <1>2, <1>3, <1>4 DEF Files

LEMMA OutsideQuiet ==
  ASSUME Core, Outside
  PROVE  Quiet
<1> USE DEF Core, dispatchVars, ghostVars
<1>1. ASSUME NEW e \in Execs, Trigger(e) PROVE Quiet
  BY <1>1, CreateFacts DEF Trigger, Quiet
<1>2. CASE SweepCreates
  BY <1>2, CreateFacts DEF SweepCreates, Quiet
<1>3. CASE Restart
  BY <1>3, RestartFacts DEF Restart, Quiet, Writing
<1>4. ASSUME UNCHANGED <<copies, dumps, rows, run>> PROVE Quiet
  BY <1>4 DEF Quiet
<1>5. \/ \E e \in Execs : Trigger(e)
      \/ SweepCreates \/ Restart \/ UNCHANGED <<copies, dumps, rows, run>>
  BY DEF Outside, Dispatcher, Tick, Update, SendJob, SweepStarts, SweepChecks,
    SweepEnqueues, SweepFails, vars
<1> QED BY <1>1, <1>2, <1>3, <1>4, <1>5

(* The steps of a handler that are quiet.                                  *)
QuietSteps(w) ==
  \/ TakeSome(w) \/ Resolve(w) \/ MkdirFails(w) \/ RecordFailure(w) \/ Select(w) \/ Helper(w)
  \/ Mark(w) \/ Prune(w) \/ DbFails(w) \/ Report(w) \/ ReportLost(w)

LEMMA QuietHandlers ==
  ASSUME Core, NEW w \in Workers, QuietSteps(w)
  PROVE  Quiet
<1> USE DEF Core, dispatchVars, ghostVars, handlerSame
<1>0. run[w].pc # "idle" => run[w].e \in Execs
  BY DEF Holding
<1>1. ASSUME After(w, run'[w]), ~Writing(w)', run'[w].names \subseteq run[w].names,
             UNCHANGED <<copies, dumps, rows>>
      PROVE  Quiet
  BY <1>1 DEF Quiet, After
<1>2. CASE TakeSome(w)
  BY <1>1, <1>2, TakeFacts DEF TakeSome, Take, Writing
<1>3. CASE Resolve(w)
  BY <1>1, <1>3, ResolveFacts DEF Resolve, Writing, SameLists
<1>4. CASE MkdirFails(w)
  BY <1>1, <1>4, GotoFacts DEF MkdirFails, Writing, HandlerPC
<1>5. CASE RecordFailure(w)
  <2>1. run[w].e \in Execs
    BY <1>0, <1>5 DEF RecordFailure, At
  <2>2. Finished(run[w].e, "failed", NoFile, "null", {})
    BY <1>5, <2>1, RecordFailureFacts
  <2>3. After(w, run'[w]) /\ run'[w].pc = "ok" /\ run'[w].names = run[w].names
    BY <1>5, <2>1, RecordFailureFacts DEF SameLists
  <2>4. UNCHANGED <<copies, dumps>>
    BY <1>5 DEF RecordFailure
  <2> QED BY <2>1, <2>2, <2>3, <2>4 DEF Quiet, Finished, After, Writing
<1>6. CASE Select(w)
  BY <1>1, <1>6, SelectFacts DEF Select, Writing
<1>7. CASE Helper(w)
  BY <1>1, <1>7, GotoFacts DEF Helper, Writing, HandlerPC
<1>8. CASE Mark(w)
  <2>1. After(w, run'[w]) /\ ~Writing(w)' /\ run'[w].names = run[w].names
    BY <1>8, MarkFacts DEF Writing
  <2>2. \A e \in Execs : rows'[e].file = rows[e].file /\ rows'[e].status = rows[e].status
    BY <1>8, MarkFacts
  <2>3. UNCHANGED <<copies, dumps>>
    BY <1>8 DEF Mark
  <2> QED BY <2>1, <2>2, <2>3 DEF Quiet, After
<1>9. CASE Prune(w)
  <2>1. After(w, run'[w]) /\ ~Writing(w)' /\ run'[w].names = run[w].names
    BY <1>9, PruneFacts DEF Writing, SameLists
  <2>2. UNCHANGED <<copies, dumps>>
    BY <1>9 DEF Prune
  <2> QED BY <1>9, <2>1, <2>2, PruneFacts DEF Quiet, After
<1>10. CASE DbFails(w)
  BY <1>1, <1>10, GotoFacts DEF DbFails, Writing, HandlerPC
<1>11. CASE Report(w) \/ ReportLost(w)
  BY <1>1, <1>11, PutDownFacts DEF Report, ReportLost, Writing
<1> QED BY <1>2, <1>3, <1>4, <1>5, <1>6, <1>7, <1>8, <1>9, <1>10, <1>11 DEF QuietSteps

(* The name a worker begins under is nobody's, unless it is a clash.       *)
LEMMA StartDumpFiles ==
  ASSUME Core, Files, NEW w \in Workers, StartDump(w)
  PROVE  Files'
<1> USE DEF Core
<1> DEFINE t == run[w].at
<1>1. /\ After(w, run'[w]) /\ ~Writing(w) /\ run'[w].pc = "dumping"
      /\ run'[w].at = t /\ run'[w].names = run[w].names /\ UNCHANGED rows
  BY StartDumpFacts DEF Writing, SameJob, SameLists, StartDump
<1>2. /\ Copied("local", t, Partial)
      /\ dumps'[t] # 0 /\ (dumps[t] # 0 => dumps'[t] = 2)
      /\ \A u \in Seconds : u # t => dumps'[u] = dumps[u]
  BY StartDumpFacts
<1>3. t \in Seconds /\ t # NoFile
  BY FileTypes
<1>4. \A u \in Seconds : dumps[u] # 0 => dumps'[u] # 0
  BY <1>2
<1>5. \A v \in Workers : v # w => run'[v] = run[v]
  BY <1>1 DEF After
<1> HIDE DEF t
<1>6. Begun'
  BY <1>1, <1>2, <1>4, <1>5, FileTypes DEF Files, Begun, Writing, Success
<1>7. ASSUME ~Clash' PROVE Unshared' /\ Secured'
  <2>1. dumps[t] = 0
    BY <1>2, <1>3, <1>7 DEF Clash
  <2>2. ~Clash
    BY <1>2, <1>3, <1>7, <2>1 DEF Clash
  <2>3. /\ \A v \in Workers : Writing(v) => run[v].at # t
        /\ \A e \in Execs : rows[e].file # t
        /\ \A v \in Workers : t \notin run[v].names
    BY <1>3, <2>1, FileTypes DEF Files, Begun
  <2>4. Unshared'
    BY <1>1, <1>5, <2>2, <2>3 DEF Files, Unshared, Writing
  <2>5. \A v \in Workers, s \in Sides : Writing(v) => copies'[s][run[v].at] = copies[s][run[v].at]
    BY <1>2, <2>3, FileTypes DEF Copied
  <2>6. \A v \in Workers : v # w /\ run'[v].pc \in {"upload", "drop", "record"} => Writing(v)
    BY <1>5 DEF Writing
  <2>7. Secured'
    BY <1>1, <1>5, <2>2, <2>5, <2>6 DEF Files, Secured, Sides
  <2> QED BY <2>4, <2>7
<1> QED BY <1>6, <1>7 DEF Files

(* Copies move at the name of their writer, which is not another's.        *)
LEMMA WriterFiles ==
  ASSUME Core, Files, NEW w \in Workers, NEW side \in Sides, NEW content,
         Copied(side, run[w].at, content) \/ UNCHANGED copies,
         UNCHANGED <<rows, dumps>>, After(w, run'[w]), Writing(w),
         run'[w].at = run[w].at, run'[w].names = run[w].names,
         LET r == run'[w] IN ~Clash =>
           /\ r.pc = "upload" => copies'["local"][r.at] = r.e
           /\ r.pc = "drop" => copies'["s3"][r.at] = r.e /\ r.conf.dropLocal /\ r.uploaded = "yes"
           /\ r.pc = "record" => copies'["local"][r.at] = r.e \/ copies'["s3"][r.at] = r.e
  PROVE  Files'
<1> USE DEF Core
<1>1. \A v \in Workers : v # w => run'[v] = run[v]
  BY DEF After
<1>2. Begun'
  BY <1>1 DEF Files, Begun, Writing, Success
<1>3. ASSUME ~Clash' PROVE Unshared' /\ Secured'
  <2>1. ~Clash
    BY <1>3 DEF Clash
  <2>2. Unshared'
    BY <1>1, <2>1 DEF Files, Unshared, Writing
  <2>3. \A v \in Workers : v # w /\ Writing(v) => run[v].at # run[w].at /\ run[v].at \in Seconds
    BY <2>1, FileTypes DEF Files, Unshared
  <2>4. ASSUME NEW v \in Workers, v # w, Writing(v)
        PROVE  \A s \in Sides : copies'[s][run[v].at] = copies[s][run[v].at]
    BY <2>3, <2>4 DEF Copied
  <2>5. ASSUME NEW v \in Workers, v # w
        PROVE  /\ run'[v].pc = "upload" => copies'["local"][run'[v].at] = run'[v].e
               /\ run'[v].pc = "drop" => /\ copies'["s3"][run'[v].at] = run'[v].e
                                         /\ run'[v].conf.dropLocal /\ run'[v].uploaded = "yes"
               /\ run'[v].pc = "record" => \/ copies'["local"][run'[v].at] = run'[v].e
                                           \/ copies'["s3"][run'[v].at] = run'[v].e
    BY <1>1, <2>1, <2>4, <2>5 DEF Files, Secured, Writing, Sides
  <2>6. Secured'
    BY <2>1, <2>5 DEF Secured
  <2> QED BY <2>2, <2>6
<1> QED BY <1>2, <1>3 DEF Files

LEMMA WriteFiles ==
  ASSUME Core, Files, NEW w \in Workers, EndDump(w) \/ Upload(w) \/ DropLocal(w)
  PROVE  Files'
<1> USE DEF Core, ghostVars
<1>1. run[w].at \in Seconds /\ "local" \in Sides /\ "s3" \in Sides /\ "local" # "s3"
  BY FileTypes DEF Sides
<1>2. CASE EndDump(w)
  <2>1. run[w].e \in Execs /\ UNCHANGED <<rows, dumps>>
    BY <1>2 DEF EndDump, Holding, At
  <2>2. /\ After(w, run'[w]) /\ run[w].pc = "dumping" /\ SameJob(w) /\ SameLists(w)
        /\ \/ /\ Copied("local", run[w].at, run[w].e)
              /\ run'[w].pc = IF run[w].conf.saveS3 THEN "upload" ELSE "record"
           \/ run'[w].pc = "fail" /\ UNCHANGED copies
    BY <1>2, <2>1, EndDumpFacts
  <2>3. Copied("local", run[w].at, run[w].e) => copies'["local"][run[w].at] = run[w].e
    BY DEF Copied
  <2> QED BY <1>1, <2>1, <2>2, <2>3, WriterFiles DEF Writing, SameJob, SameLists
<1>3. CASE Upload(w)
  <2>1. UNCHANGED <<rows, dumps>>
    BY <1>3 DEF Upload
  <2> DEFINE t == run[w].at
             c == copies["local"][t]
  <2>2. /\ After(w, run'[w]) /\ run[w].pc = "upload" /\ SameJob(w) /\ SameLists(w)
        /\ \/ /\ run'[w].uploaded = "yes"
              /\ run'[w].pc = IF run[w].conf.dropLocal THEN "drop" ELSE "record"
              /\ Copied("s3", t, c)
           \/ run'[w].pc = "record" /\ (UNCHANGED copies \/ Copied("s3", t, c))
    BY <1>3, UploadFacts
  <2>3. Copied("s3", t, c) => copies'["s3"][t] = c /\ copies'["local"][t] = c
    BY <1>1 DEF Copied
  <2>4. ~Clash => c = run[w].e
    BY <2>2 DEF Files, Secured
  <2> HIDE DEF c
  <2>5. UNCHANGED copies => copies'["local"][t] = c
    BY DEF c
  <2> QED BY <1>1, <2>1, <2>2, <2>3, <2>4, <2>5, WriterFiles DEF Writing, SameJob, SameLists
<1>4. CASE DropLocal(w)
  <2>1. UNCHANGED <<rows, dumps>>
    BY <1>4 DEF DropLocal
  <2>2. /\ After(w, run'[w]) /\ run[w].pc = "drop" /\ run'[w].pc = "record"
        /\ SameJob(w) /\ SameLists(w)
        /\ Copied("local", run[w].at, Absent) \/ UNCHANGED copies
    BY <1>4, DropLocalFacts
  <2>3. copies'["s3"][run[w].at] = copies["s3"][run[w].at]
    BY <1>1, <2>2 DEF Copied
  <2>4. ~Clash => copies["s3"][run[w].at] = run[w].e
    BY <2>2 DEF Files, Secured
  <2> QED BY <1>1, <2>1, <2>2, <2>3, <2>4, WriterFiles DEF Writing, SameJob, SameLists
<1> QED BY <1>2, <1>3, <1>4

LEMMA RecordFiles ==
  ASSUME Core, Files, NEW w \in Workers, Record(w)
  PROVE  Files'
<1> USE DEF Core, ghostVars
<1> DEFINE r == run[w]
<1>1. r.e \in Execs /\ UNCHANGED <<copies, dumps>>
  BY DEF Record, Holding, At
<1>2. /\ After(w, run'[w]) /\ Writing(w) /\ ~Writing(w)' /\ run'[w].names = {}
      /\ Finished(r.e, "success", r.at, r.uploaded, LocalGone(r))
  BY <1>1, RecordFacts DEF Writing
<1>3. /\ \A v \in Workers : v # w => run'[v] = run[v]
      /\ \A d \in Execs : d # r.e => rows'[d] = rows[d]
      /\ rows'[r.e] = rows[r.e] \/ (rows'[r.e].file = r.at /\ rows'[r.e].status = "success")
  BY <1>1, <1>2 DEF After, Finished
<1>4. r.at # NoFile /\ \A v \in Workers : v # w => (Writing(v)' <=> Writing(v))
  BY <1>3, FileTypes DEF Writing
<1> HIDE DEF r
<1>5. Begun'
  <2>1. dumps[r.at] # 0
    BY <1>2 DEF Files, Begun, r
  <2>2. \A v \in Workers : Writing(v)' => dumps'[run'[v].at] # 0
    BY <1>1, <1>2, <1>3, <1>4 DEF Files, Begun
  <2>3. \A v \in Workers : \A t \in run'[v].names : dumps'[t] # 0
    BY <1>1, <1>2, <1>3 DEF Files, Begun
  <2>4. \A e \in Execs : /\ rows'[e].file # NoFile => dumps'[rows'[e].file] # 0
                         /\ rows'[e].status = "success" => rows'[e].file # NoFile
    BY <1>1, <1>3, <1>4, <2>1 DEF Files, Begun, Success
  <2> QED BY <2>2, <2>3, <2>4 DEF Begun, Success
<1>6. ASSUME ~Clash' PROVE Unshared' /\ Secured'
  <2>1. Unshared /\ Secured
    BY <1>1, <1>6 DEF Files, Clash
  <2>2. Secured'
    BY <1>1, <1>2, <1>3, <2>1 DEF Secured, Writing
  <2>3. \A v, u \in Workers : v # u /\ Writing(v)' /\ Writing(u)' => run'[v].at # run'[u].at
    BY <1>2, <1>3, <1>4, <2>1 DEF Unshared
  <2>4. \A v \in Workers, e \in Execs : Writing(v)' => rows'[e].file # run'[v].at
    BY <1>2, <1>3, <1>4, <2>1 DEF Unshared, r
  <2>5. \A v, u \in Workers : Writing(v)' => run'[v].at \notin run'[u].names
    BY <1>2, <1>3, <1>4, <2>1 DEF Unshared
  <2>6. \A d, e \in Execs : d # e /\ rows'[d].file # NoFile => rows'[d].file # rows'[e].file
    BY <1>2, <1>3, <1>4, <2>1 DEF Unshared, r
  <2> QED BY <2>2, <2>3, <2>4, <2>5, <2>6 DEF Unshared
<1> QED BY <1>5, <1>6 DEF Files

LEMMA RemoveFiles ==
  ASSUME Core, Files, NEW w \in Workers, Names(w) \/ Remove(w)
  PROVE  Files'
<1> USE DEF Core, ghostVars
<1>1. UNCHANGED <<rows, dumps>>
  BY DEF Names, Remove
<1>2. CASE Names(w)
  <2>1. /\ After(w, run'[w]) /\ ~Writing(w)' /\ UNCHANGED copies
        /\ \A t \in run'[w].names : \E e \in Execs : rows[e].file = t /\ t # NoFile
    <3>1. run[w].dels \subseteq Execs
      BY Typed DEF RunStates
    <3>2. /\ After(w, run'[w]) /\ run'[w].pc \in {"helper", "remove"}
          /\ run'[w].names = {rows[e].file : e \in {d \in run[w].dels :
               rows[d].status # "gone" /\ rows[d].file # NoFile}}
      BY <1>2, NamesFacts
    <3>3. UNCHANGED copies
      BY <1>2 DEF Names
    <3> QED BY <3>1, <3>2, <3>3 DEF Writing
  <2>2. \A v \in Workers : v # w => run'[v] = run[v]
    BY <2>1 DEF After
  <2>3. Begun'
    BY <1>1, <2>1, <2>2 DEF Files, Begun, Writing, Success
  <2>4. ~Clash => Unshared'
    BY <1>1, <2>1, <2>2 DEF Files, Unshared, Writing
  <2>5. ~Clash => Secured'
    BY <1>1, <2>1, <2>2 DEF Files, Secured, Writing
  <2> QED BY <1>1, <2>3, <2>4, <2>5 DEF Files, Clash
<1>3. CASE Remove(w)
  <2>1. /\ After(w, run'[w]) /\ ~Writing(w)' /\ run'[w].names \subseteq run[w].names
        /\ \/ \E t \in run[w].names : Copied(run[w].side, t, Absent)
           \/ UNCHANGED copies
    BY <1>3, RemoveFacts DEF Writing
  <2>2. \A v \in Workers : v # w => run'[v] = run[v]
    BY <2>1 DEF After
  <2>3. Begun'
    BY <1>1, <2>1, <2>2 DEF Files, Begun, Writing, Success
  <2>4. ~Clash => Unshared'
    BY <1>1, <2>1, <2>2 DEF Files, Unshared, Writing
  <2>5. ASSUME ~Clash PROVE Secured'
    <3>1. \A v \in Workers, s \in Sides : Writing(v) => copies'[s][run[v].at] = copies[s][run[v].at]
      BY <2>1, <2>5, FileTypes DEF Files, Unshared, Copied
    <3>2. \A v \in Workers : Writing(v)' => v # w /\ Writing(v) /\ run'[v] = run[v]
      BY <2>1, <2>2 DEF Writing
    <3> QED BY <2>5, <3>1, <3>2 DEF Files, Secured, Writing, Sides
  <2> QED BY <1>1, <2>3, <2>4, <2>5 DEF Files, Clash
<1> QED BY <1>2, <1>3

LEMMA FilesStep ==
  ASSUME Core, Core', Files, [Next]_vars
  PROVE  Files'
<1>1. CASE Outside
  BY <1>1, OutsideQuiet, QuietFiles DEF Core
<1>2. ASSUME NEW w \in Workers, Handler(w) \/ TakeSome(w)
      PROVE  Files'
  <2>1. CASE QuietSteps(w)
    BY <2>1, QuietHandlers, QuietFiles DEF Core
  <2>2. CASE StartDump(w) \/ EndDump(w) \/ Upload(w) \/ DropLocal(w) \/ Record(w)
             \/ Names(w) \/ Remove(w)
    BY <2>2, StartDumpFiles, WriteFiles, RecordFiles, RemoveFiles
  <2> QED BY <1>2, <2>1, <2>2 DEF Handler, QuietSteps
<1> QED BY <1>1, <1>2, BackupSteps

-----------------------------------------------------------------------------
(* The newest success.                                                     *)
LEMMA NewestThere ==
  ASSUME Core, Bounded, Success # {}
  PROVE  \E m \in Success : \A e \in Success : e <= m
<1>1. Success \subseteq Nat
  BY BackupsAssumption DEF Success
<1>2. PICK n \in Nat : \A e \in Success : e <= n
  BY DEF Bounded
<1> QED BY <1>1, <1>2, LargestThere

LEMMA AheadStays ==
  ASSUME Core, Bounded, NEW d \in Execs, Ahead(d),
         \A m \in Success : Ahead(m) \/ rows'[m].status = "success"
  PROVE  Ahead(d)'
<1>1. PICK m \in Success : \A e \in Success : e <= m
  BY NewestThere DEF Ahead
<1>2. m \in Execs /\ Execs \subseteq Nat
  BY BackupsAssumption DEF Success
<1>3. ~Ahead(m)
  BY <1>1, <1>2 DEF Ahead, Success
<1>4. m > d
  BY <1>1, <1>2 DEF Ahead, Success
<1>5. m \in Success'
  BY <1>1, <1>2, <1>3 DEF Success
<1> QED BY <1>4, <1>5 DEF Ahead

(* The steps that record no success, and list, name, mark or prune none.   *)
Still ==
  /\ \A e \in Execs :
       /\ rows'[e].status = "success" <=> rows[e].status = "success"
       /\ rows[e].status = "success" => rows'[e].file = rows[e].file
       /\ "s3" \in rows'[e].deleted => "s3" \in rows[e].deleted
       /\ "local" \in rows'[e].deleted =>
            "local" \in rows[e].deleted /\ rows'[e].uploaded = rows[e].uploaded
  /\ \A e \in Success : Ahead(e) \/
       \A side \in Sides : copies'[side][rows[e].file] = copies[side][rows[e].file]
  /\ \A w \in Workers : /\ run'[w].names \subseteq run[w].names
                        /\ run'[w].dels \subseteq run[w].dels

LEMMA StillNewest ==
  ASSUME Newest, Fine' => Fine /\ Still,
         Success' = Success
  PROVE  Newest'
<1>1. Bounded'
  BY DEF Newest, Bounded
<1>2. \A d : Ahead(d)' <=> Ahead(d)
  BY DEF Ahead
<1>3. ASSUME Fine' PROVE Spared' /\ NewestKept'
  <2>1. Spared /\ NewestKept /\ Still
    BY <1>3 DEF Newest
  <2>2. Spared'
    BY <1>2, <2>1 DEF Spared, Still
  <2>3. \A e \in Success : rows'[e].file = rows[e].file /\ rows'[e].status = rows[e].status
    BY <2>1 DEF Still, Success
  <2>4. ASSUME NEW e \in Success, ~Ahead(e)
        PROVE  /\ Holds("local", e)' \/ Holds("s3", e)'
               /\ \A w \in Workers : rows'[e].file \notin run'[w].names
    BY <2>1, <2>3, <2>4 DEF NewestKept, Holds, Still, Sides
  <2> QED BY <1>2, <2>2, <2>4 DEF NewestKept
<1> QED BY <1>1, <1>3 DEF Newest

LEMMA FineStays ==
  ASSUME Core, [Next]_vars
  PROVE  Fine' => Fine
<1>1. ASSUME NEW w \in Workers, RecordFailure(w) PROVE ~demoted' => ~demoted
  BY <1>1 DEF RecordFailure
<1>2. \/ UNCHANGED demoted \/ \E w \in Workers : RecordFailure(w)
  BY BackupSteps DEF Outside, Dispatcher, Tick, Update, Trigger, SendJob, SweepStarts, SweepChecks,
    SweepCreates, SweepEnqueues, SweepFails, Restart, vars, ghostVars, handlerSame,
    Handler, TakeSome, Take, Resolve, StartDump, MkdirFails, EndDump, Upload, DropLocal, Record,
    Select, Names, Helper, Remove, Mark, Prune, DbFails, Report, ReportLost
<1> QED BY <1>1, <1>2, ClashStays DEF Fine, Core

LEMMA OutsideNewest ==
  ASSUME Core, Newest, Fine' => Fine, Outside
  PROVE  Newest'
<1> USE DEF Core, dispatchVars, ghostVars
<1>1. ASSUME NEW e \in Execs, CreateRunning(e), UNCHANGED <<copies, run>> PROVE Newest'
  <2>1. Still /\ Success' = Success
    BY <1>1, CreateFacts DEF Still, Success
  <2> QED BY <2>1, StillNewest
<1>2. CASE Restart
  <2>1. Still /\ Success' = Success
    BY <1>2, RestartFacts DEF Restart, Still, Success
  <2> QED BY <2>1, StillNewest
<1>3. ASSUME UNCHANGED <<copies, rows, run>> PROVE Newest'
  <2>1. Still /\ Success' = Success
    BY <1>3 DEF Still, Success
  <2> QED BY <2>1, StillNewest
<1>4. \/ \E e \in Execs : CreateRunning(e) /\ UNCHANGED <<copies, run>>
      \/ Restart \/ UNCHANGED <<copies, rows, run>>
  BY DEF Outside, Dispatcher, Tick, Update, Trigger, SendJob, SweepStarts, SweepChecks,
    SweepCreates, SweepEnqueues, SweepFails, vars
<1> QED BY <1>1, <1>2, <1>3, <1>4

(* The steps of a handler that are still.                                  *)
LEMMA HandlerStill ==
  ASSUME Core, Files, Newest, Fine' => Fine, NEW w \in Workers, Handler(w) \/ TakeSome(w),
         ~(Record(w) \/ Select(w) \/ Names(w) \/ Mark(w) \/ Prune(w))
  PROVE  Newest'
<1> USE DEF Core, ghostVars, handlerSame, dispatchVars
<1>0. run[w].pc # "idle" => run[w].e \in Execs
  BY DEF Holding
<1>1. ASSUME After(w, run'[w]), UNCHANGED rows,
             run'[w].names \subseteq run[w].names, run'[w].dels \subseteq run[w].dels,
             Fine' => \A e \in Success : Ahead(e) \/
               \A side \in Sides : copies'[side][rows[e].file] = copies[side][rows[e].file]
      PROVE  Newest'
  <2>1. /\ Success' = Success
        /\ \A v \in Workers : /\ run'[v].names \subseteq run[v].names
                              /\ run'[v].dels \subseteq run[v].dels
    BY <1>1 DEF Success, After
  <2>2. Fine' => Still
    BY <1>1, <2>1 DEF Still
  <2> QED BY <2>1, <2>2, StillNewest
<1>2. ASSUME NEW side \in Sides, NEW t \in Seconds, NEW content,
             Copied(side, t, content), \A e \in Success : rows[e].file # t,
             NEW e \in Success, Files
      PROVE  \A s \in Sides : copies'[s][rows[e].file] = copies[s][rows[e].file]
  BY <1>2, FileTypes DEF Copied, Files, Begun, Success
<1>3. CASE TakeSome(w)
  BY <1>1, <1>3, TakeFacts DEF TakeSome, Take
<1>4. CASE Resolve(w)
  BY <1>1, <1>4, ResolveFacts DEF Resolve, SameLists
<1>5. CASE MkdirFails(w)
  BY <1>1, <1>5, GotoFacts DEF MkdirFails, HandlerPC
<1>6. CASE StartDump(w)
  <2>1. /\ After(w, run'[w]) /\ SameLists(w) /\ UNCHANGED rows
        /\ Copied("local", run[w].at, Partial) /\ run[w].at \in Seconds
        /\ dumps[run[w].at] # 0 => dumps'[run[w].at] = 2
    BY <1>6, StartDumpFacts, FileTypes DEF StartDump
  <2>2. Fine' => \A e \in Success : rows[e].file # run[w].at
    BY <2>1 DEF Fine, Clash, Files, Begun, Success
  <2> QED BY <1>1, <1>2, <2>1, <2>2 DEF SameLists, Sides
<1>7. CASE EndDump(w)
  <2>1. run[w].e \in Execs
    BY <1>0, <1>7 DEF EndDump, At
  <2>2. /\ After(w, run'[w]) /\ SameLists(w) /\ UNCHANGED rows /\ Writing(w)
        /\ Copied("local", run[w].at, run[w].e) \/ UNCHANGED copies
        /\ run[w].at \in Seconds
    BY <1>7, <2>1, EndDumpFacts, FileTypes DEF EndDump, Writing
  <2>3. Fine' => \A e \in Success : rows[e].file # run[w].at
    BY <2>2 DEF Fine, Files, Unshared, Success
  <2> QED BY <1>1, <1>2, <2>2, <2>3 DEF SameLists, Sides
<1>8. CASE Upload(w)
  <2>1. /\ After(w, run'[w]) /\ SameLists(w) /\ UNCHANGED rows /\ Writing(w)
        /\ Copied("s3", run[w].at, copies["local"][run[w].at]) \/ UNCHANGED copies
        /\ run[w].at \in Seconds
    BY <1>8, UploadFacts, FileTypes DEF Upload, Writing
  <2>2. Fine' => \A e \in Success : rows[e].file # run[w].at
    BY <2>1 DEF Fine, Files, Unshared, Success
  <2> QED BY <1>1, <1>2, <2>1, <2>2 DEF SameLists, Sides
<1>9. CASE DropLocal(w)
  <2>1. /\ After(w, run'[w]) /\ SameLists(w) /\ UNCHANGED rows /\ Writing(w)
        /\ Copied("local", run[w].at, Absent) \/ UNCHANGED copies
        /\ run[w].at \in Seconds
    BY <1>9, DropLocalFacts, FileTypes DEF DropLocal, Writing
  <2>2. Fine' => \A e \in Success : rows[e].file # run[w].at
    BY <2>1 DEF Fine, Files, Unshared, Success
  <2> QED BY <1>1, <1>2, <2>1, <2>2 DEF SameLists, Sides
<1>10. CASE RecordFailure(w)
  <2>1. run[w].e \in Execs
    BY <1>0, <1>10 DEF RecordFailure, At
  <2>2. /\ After(w, run'[w]) /\ SameLists(w)
        /\ demoted' = (demoted \/ rows[run[w].e].status = "success")
        /\ Finished(run[w].e, "failed", NoFile, "null", {})
    BY <1>10, <2>1, RecordFailureFacts
  <2>3. UNCHANGED copies
    BY <1>10 DEF RecordFailure
  <2>4. CASE rows[run[w].e].status = "success"
    <3>1. ~Fine'
      BY <2>2, <2>4 DEF Fine
    <3>2. Bounded'
      BY <2>1, <2>2 DEF Newest, Bounded, Success, Finished
    <3> QED BY <3>1, <3>2 DEF Newest
  <2>5. CASE rows[run[w].e].status # "success"
    <3>1. Success' = Success /\ Still
      BY <2>1, <2>2, <2>3, <2>5 DEF Still, Success, Finished, After, SameLists
    <3> QED BY <3>1, StillNewest
  <2> QED BY <2>4, <2>5
<1>11. CASE Helper(w)
  BY <1>1, <1>11, GotoFacts DEF Helper, HandlerPC
<1>12. CASE Remove(w)
  <2>1. /\ After(w, run'[w]) /\ run'[w].dels = run[w].dels /\ UNCHANGED rows
        /\ run'[w].names \subseteq run[w].names
        /\ \/ \E t \in run[w].names : Copied(run[w].side, t, Absent)
           \/ UNCHANGED copies
    BY <1>12, RemoveFacts DEF Remove
  <2>2. Fine' => \A e \in Success : Ahead(e) \/
          \A side \in Sides : copies'[side][rows[e].file] = copies[side][rows[e].file]
    BY <2>1, FileTypes DEF Newest, NewestKept, Copied, Files, Begun, Success
  <2> QED BY <1>1, <2>1, <2>2
<1>13. CASE DbFails(w)
  BY <1>1, <1>13, GotoFacts DEF DbFails, HandlerPC
<1>14. CASE Report(w) \/ ReportLost(w)
  BY <1>1, <1>14, PutDownFacts DEF Report, ReportLost
<1> QED BY <1>3, <1>4, <1>5, <1>6, <1>7, <1>8, <1>9, <1>10, <1>11, <1>12, <1>13, <1>14
        DEF Handler

(* A new success is there, and nobody removes it.                          *)
LEMMA RecordNewest ==
  ASSUME Core, Files, Newest, Fine' => Fine, NEW w \in Workers, Record(w)
  PROVE  Newest'
<1> USE DEF Core
<1> DEFINE r == run[w]
<1>0. PICK e \in Execs : r.e = e
  BY DEF Record, Holding, At
<1>1. UNCHANGED copies
  BY DEF Record
<1>2. /\ After(w, run'[w]) /\ r.pc = "record" /\ run'[w].dels = {} /\ run'[w].names = {}
      /\ Finished(e, "success", r.at, r.uploaded, LocalGone(r))
  BY <1>0, RecordFacts
<1>3. \A v \in Workers : run'[v].dels \subseteq run[v].dels /\ run'[v].names \subseteq run[v].names
  BY <1>2 DEF After
<1>4. CASE rows[e].status = "gone"
  <2>1. UNCHANGED rows
    BY <1>2, <1>4 DEF Finished
  <2>2. Still /\ Success' = Success
    BY <1>1, <1>3, <2>1 DEF Still, Success
  <2> QED BY <2>2, StillNewest
<1>5. CASE rows[e].status # "gone"
  <2>1. /\ rows'[e].status = "success" /\ rows'[e].file = r.at /\ rows'[e].uploaded = r.uploaded
        /\ "local" \in rows'[e].deleted => r.uploaded = "yes"
        /\ "s3" \in rows'[e].deleted <=> "s3" \in rows[e].deleted
        /\ \A d \in Execs \ {e} : rows'[d] = rows[d]
    BY <1>1, <1>2, <1>5 DEF Finished, LocalGone
  <2>2. Success' = Success \cup {e}
    BY <1>1, <2>1 DEF Success
  <2>3. Bounded'
    <3>1. PICK n \in Nat : \A d \in Success : d <= n
      BY DEF Newest, Bounded
    <3> DEFINE top == IF n <= e THEN e ELSE n
    <3>2. e \in Nat /\ Success \subseteq Nat
      BY <1>1, BackupsAssumption DEF Success
    <3>3. top \in Nat /\ \A d \in Success \cup {e} : d <= top
      BY <3>1, <3>2
    <3> QED BY <2>2, <3>3 DEF Bounded
  <2>4. \A d : Ahead(d) => Ahead(d)'
    BY <2>2 DEF Ahead
  <2>5. ASSUME Fine' PROVE Spared' /\ NewestKept'
    <3>1. Spared /\ NewestKept /\ Unshared /\ Secured
      BY <2>5 DEF Newest, Fine, Files
    <3>2. Spared'
      BY <1>1, <1>3, <2>1, <2>4, <3>1 DEF Spared
    <3>3. /\ Holds("local", e)' \/ Holds("s3", e)'
          /\ \A v \in Workers : rows'[e].file \notin run'[v].names
      <4>1. r.at # NoFile /\ Writing(w)
        BY <1>2, FileTypes DEF Writing
      <4>2. copies["local"][r.at] = e \/ copies["s3"][r.at] = e
        BY <1>0, <1>2, <3>1 DEF Secured
      <4>3. \A v \in Workers : r.at \notin run[v].names
        BY <3>1, <4>1 DEF Unshared
      <4>4. Holds("local", e)' \/ Holds("s3", e)'
        BY <1>1, <2>1, <4>1, <4>2 DEF Holds
      <4>5. \A v \in Workers : r.at \notin run'[v].names
        BY <1>3, <4>3
      <4> QED BY <2>1, <4>4, <4>5
    <3>4. ASSUME NEW d \in Success, d # e, ~Ahead(d)
          PROVE  /\ Holds("local", d)' \/ Holds("s3", d)'
                 /\ \A v \in Workers : rows'[d].file \notin run'[v].names
      <4>1. rows'[d] = rows[d]
        BY <2>1, <3>4 DEF Success
      <4> QED BY <1>1, <1>3, <3>1, <3>4, <4>1 DEF NewestKept, Holds
    <3>5. ASSUME NEW d \in Success'
          PROVE  Ahead(d)' \/ /\ Holds("local", d)' \/ Holds("s3", d)'
                              /\ \A v \in Workers : rows'[d].file \notin run'[v].names
      <4>1. CASE d = e
        BY <3>3, <4>1
      <4>2. CASE d # e
        BY <2>2, <2>4, <3>4, <3>5, <4>2
      <4> QED BY <4>1, <4>2
    <3> QED BY <3>2, <3>5 DEF NewestKept
  <2> QED BY <2>3, <2>5 DEF Newest
<1> QED BY <1>4, <1>5

(* What a retention selects is older than a success, seen or not.          *)
LEMMA SelectNewest ==
  ASSUME Core, Newest, Fine' => Fine, NEW w \in Workers, Select(w)
  PROVE  Newest'
<1> USE DEF Core, ghostVars
<1>1. UNCHANGED <<rows, copies>>
  BY DEF Select
<1>2. Success' = Success /\ \A d : Ahead(d)' <=> Ahead(d)
  BY <1>1 DEF Success, Ahead
<1>3. /\ After(w, run'[w]) /\ run'[w].names = run[w].names
      /\ \A v \in Workers : v # w => run'[v] = run[v]
  BY SelectFacts DEF After
<1>4. ASSUME NEW d \in run'[w].dels
      PROVE  Ahead(d)
  <2> DEFINE S == SuccessfulWith(run[w].side)
  <2>1. PICK keep : run'[w].dels = SelectForDeletion(S, keep)
    BY SelectFacts
  <2>2. S \in SUBSET Execs /\ S \subseteq Success
    BY DEF SuccessfulWith, Success
  <2> HIDE DEF S
  <2>3. d \in S
    BY <1>4, <2>1, <2>2, SelectedAreSeen
  <2>4. PICK m \in Success : \A e \in Success : e <= m
    BY <2>2, <2>3, NewestThere DEF Newest
  <2>5. m \in Nat /\ d \in Nat
    BY <2>2, <2>3, <2>4, BackupsAssumption DEF Success
  <2>6. CASE m \in S
    <3>1. \A e \in S : e <= m
      BY <2>2, <2>4
    <3>2. \A c \in SelectForDeletion(S, keep) : c \in S /\ c < m
      BY <2>2, <2>6, <3>1, SelectedAreOlder
    <3>3. d < m
      BY <1>4, <2>1, <3>2
    <3> QED BY <2>4, <2>5, <3>3 DEF Ahead
  <2>7. CASE m \notin S
    <3>1. d # m /\ d <= m
      BY <2>2, <2>3, <2>4, <2>7
    <3> QED BY <2>4, <2>5, <3>1 DEF Ahead
  <2> QED BY <2>6, <2>7
<1>5. ASSUME Fine' PROVE Spared' /\ NewestKept'
  <2>1. Spared /\ NewestKept
    BY <1>5 DEF Newest
  <2>2. Spared'
    BY <1>1, <1>2, <1>3, <1>4, <2>1 DEF Spared
  <2>3. NewestKept'
    BY <1>1, <1>2, <1>3, <2>1 DEF NewestKept, Holds
  <2> QED BY <2>2, <2>3
<1> QED BY <1>2, <1>5 DEF Newest, Bounded

(* The names it reads next are those of what it has selected.              *)
LEMMA NamesNewest ==
  ASSUME Core, Files, Newest, Fine' => Fine, NEW w \in Workers, Names(w)
  PROVE  Newest'
<1> USE DEF Core, ghostVars
<1>1. UNCHANGED <<rows, copies>>
  BY DEF Names
<1>2. Success' = Success /\ \A d : Ahead(d)' <=> Ahead(d)
  BY <1>1 DEF Success, Ahead
<1>3. /\ run'[w].dels = run[w].dels
      /\ run'[w].names = {rows[e].file : e \in {d \in run[w].dels :
              rows[d].status # "gone" /\ rows[d].file # NoFile}}
      /\ \A v \in Workers : v # w => run'[v] = run[v]
  BY NamesFacts DEF After
<1>4. run[w].dels \subseteq Execs
  BY Typed DEF RunStates
<1>5. ASSUME Fine' PROVE Spared' /\ NewestKept'
  <2>1. Spared /\ NewestKept /\ Unshared
    BY <1>5 DEF Newest, Files, Fine
  <2>2. Spared'
    BY <1>1, <1>2, <1>3, <2>1 DEF Spared
  <2>3. ASSUME NEW e \in Success, ~Ahead(e)
        PROVE  rows[e].file \notin run'[w].names
    <3>1. \A d \in run[w].dels : d # e
      BY <2>1, <2>3 DEF Spared
    <3>2. \A d \in run[w].dels : rows[d].file # NoFile => rows[d].file # rows[e].file
      BY <1>4, <2>1, <3>1 DEF Unshared, Success
    <3> QED BY <1>3, <3>2
  <2>4. NewestKept'
    BY <1>1, <1>2, <1>3, <2>1, <2>3 DEF NewestKept, Holds
  <2> QED BY <2>2, <2>4
<1> QED BY <1>2, <1>5 DEF Newest, Bounded

(* What it marks is what it has selected.                                  *)
LEMMA MarkNewest ==
  ASSUME Core, Newest, Fine' => Fine, NEW w \in Workers, Mark(w)
  PROVE  Newest'
<1> USE DEF Core, ghostVars
<1>1. UNCHANGED copies
  BY DEF Mark
<1>2. /\ run'[w].dels = {} /\ run'[w].names = run[w].names
      /\ \A v \in Workers : v # w => run'[v] = run[v]
      /\ \A e \in Execs :
           /\ rows'[e].status = rows[e].status /\ rows'[e].file = rows[e].file
           /\ rows'[e].uploaded = rows[e].uploaded
           /\ rows'[e].deleted = rows[e].deleted \/ e \in run[w].dels
  BY MarkFacts DEF After
<1>3. Success' = Success
  BY <1>2 DEF Success
<1>4. \A d : Ahead(d)' <=> Ahead(d)
  BY <1>3 DEF Ahead
<1>5. ASSUME Fine' PROVE Spared' /\ NewestKept'
  <2>1. Spared /\ NewestKept
    BY <1>5 DEF Newest
  <2>2. Spared'
    BY <1>2, <1>4, <2>1 DEF Spared
  <2>3. \A e \in Success : e \in Execs
    BY DEF Success
  <2>4. NewestKept'
    BY <1>1, <1>2, <1>3, <1>4, <2>1, <2>3 DEF NewestKept, Holds
  <2> QED BY <2>2, <2>4
<1> QED BY <1>3, <1>5 DEF Newest, Bounded

(* A row goes only if there is a newer success.                            *)
LEMMA PruneNewest ==
  ASSUME Core, Newest, Fine' => Fine, NEW w \in Workers, Prune(w)
  PROVE  Newest'
<1> USE DEF Core, ghostVars
<1>1. UNCHANGED copies
  BY DEF Prune
<1>2. /\ \A v \in Workers : /\ run'[v].dels = run[v].dels /\ run'[v].names = run[v].names
      /\ \A e \in Execs :
           IF rows[e].status # "none" /\ Orphan(e)
             THEN rows'[e].status = "gone" /\ rows'[e].deleted = {}
             ELSE rows'[e] = rows[e]
  BY PruneFacts DEF After, SameLists
<1>3. Success' \subseteq Success
  BY <1>2 DEF Success
<1>4. ASSUME Fine' PROVE Spared' /\ NewestKept'
  <2>1. Spared /\ NewestKept
    BY <1>4 DEF Newest
  <2>2. \A e \in Execs : Orphan(e) => Ahead(e)
    BY <2>1 DEF Spared, Orphan
  <2>3. \A m \in Success : Ahead(m) \/ rows'[m] = rows[m]
    BY <1>2, <2>2 DEF Success
  <2>4. \A m \in Success : Ahead(m) \/ rows'[m].status = "success"
    BY <2>3 DEF Success
  <2>5. \A d \in Execs : Ahead(d) => Ahead(d)'
    BY <2>4, AheadStays DEF Newest
  <2>6. \A v \in Workers : run[v].dels \subseteq Execs
    BY Typed DEF RunStates
  <2>7. Spared'
    BY <1>2, <2>1, <2>5, <2>6 DEF Spared
  <2>8. ASSUME NEW e \in Success'
        PROVE  Ahead(e)' \/ /\ Holds("local", e)' \/ Holds("s3", e)'
                            /\ \A v \in Workers : rows'[e].file \notin run'[v].names
    <3>1. e \in Success /\ e \in Execs
      BY <1>3 DEF Success
    <3>2. CASE Ahead(e)
      BY <2>5, <3>1, <3>2
    <3>3. CASE ~Ahead(e)
      BY <1>1, <1>2, <2>1, <2>3, <3>1, <3>3 DEF NewestKept, Holds
    <3> QED BY <3>2, <3>3
  <2> QED BY <2>7, <2>8 DEF NewestKept
<1>5. Bounded'
  BY <1>3 DEF Newest, Bounded
<1> QED BY <1>4, <1>5 DEF Newest

LEMMA NewestStep ==
  ASSUME Core, Files, Newest, [Next]_vars
  PROVE  Newest'
<1>1. Fine' => Fine
  BY FineStays
<1>2. CASE Outside
  BY <1>1, <1>2, OutsideNewest
<1>3. ASSUME NEW w \in Workers, Handler(w) \/ TakeSome(w)
      PROVE  Newest'
  BY <1>1, <1>3, HandlerStill, RecordNewest, SelectNewest, NamesNewest, MarkNewest, PruneNewest
<1> QED BY <1>2, <1>3, BackupSteps

-----------------------------------------------------------------------------
(* While nothing is lost.  A worker goes on without touching row or copy.  *)
LEMMA RunCalm ==
  ASSUME Core, Lossless, NEW w \in Workers, After(w, run'[w]), UNCHANGED <<rows, copies>>,
         \A e \in Execs : jobStatus'[e] \in {"absent", "queued"} =>
                            jobStatus[e] \in {"absent", "queued"},
         run[w].pc \notin {"upload", "drop", "record"},
         run'[w].pc \notin {"err", "upload", "drop", "record"},
         run'[w].pc \in Early => New(run'[w].e) /\ run'[w].uploaded = "null",
         Listed(w)',
         \A e \in Execs : LocalGoes(w, e) => LocalGoes(w, e)'
  PROVE  Lossless'
<1>1. \A v \in Workers : v # w => run'[v] = run[v]
  BY DEF After
<1>2. FirstRun'
  BY <1>1 DEF Lossless, FirstRun, New
<1>3. \A v \in Workers, e \in Execs, t \in Seconds :
        Unrecorded(v, e, t) => v # w /\ Unrecorded(v, e, t)'
  BY <1>1 DEF Unrecorded
<1>4. Written'
  BY <1>1, <1>3 DEF Lossless, Written
<1>5. Removed'
  BY <1>1 DEF Lossless, Removed, NoCopy
<1>6. \A v \in Workers : Listed(v)'
  BY <1>1 DEF Lossless, Listed, Removing, NoCopy
<1>7. \A v \in Workers, e \in Execs : LocalGoes(v, e) => LocalGoes(v, e)'
  BY <1>1 DEF LocalGoes
<1>8. Promised'
  <2>1. SuccessfulWith("local")' = SuccessfulWith("local")
    BY DEF SuccessfulWith
  <2>2. ASSUME NEW e \in SuccessfulWith("local")
        PROVE  Holds("local", e)' \/ \E v \in Workers : LocalGoes(v, e)'
    BY <1>7, <2>2 DEF Lossless, Promised, Holds, SuccessfulWith
  <2> QED BY <2>1, <2>2 DEF Promised
<1> QED BY <1>2, <1>4, <1>5, <1>6, <1>8 DEF Lossless

(* The job of a worker is run for the first time, and by nobody else.      *)
LEMMA FirstJob ==
  ASSUME Core, Lossless, NEW w \in Workers, run[w].pc \in Early
  PROVE  /\ run[w].e \in Execs /\ New(run[w].e)
         /\ \A v \in Workers : v # w /\ run[v].pc # "idle" => run[v].e # run[w].e
         /\ \A v \in Workers : run[w].e \notin run[v].dels
         /\ jobStatus[run[w].e] = "held"
<1>1. run[w].pc # "idle"
  BY DEF Early
<1> QED BY <1>1 DEF Core, Holding, Lossless, FirstRun, Listed, New

(* A worker writes a copy of its execution under its name.                 *)
LEMMA WriteCalm ==
  ASSUME Core, Core', Files', ~Clash', Lossless, NEW w \in Workers,
         NEW side \in Sides, NEW content \in Content,
         After(w, run'[w]), SameJob(w), SameLists(w), UNCHANGED <<rows, jobStatus>>,
         run[w].pc \in {"dump", "dumping", "upload", "drop"},
         run'[w].pc \in {"dumping", "upload", "drop", "record"},
         run[w].pc \in {"upload", "drop"} => run'[w].pc \in {"drop", "record"},
         run[w].pc = "drop" => run'[w].uploaded = run[w].uploaded,
         run'[w].pc \in {"dumping", "upload"} => run'[w].uploaded = "null",
         run'[w].pc = "record" =>
           (copies'["local"][run[w].at] = run[w].e
              <=> ~(run[w].conf.dropLocal /\ run'[w].uploaded = "yes")),
         Copied(side, run[w].at, content) \/ UNCHANGED copies,
         content \in Execs =>
           /\ content = run[w].e /\ run'[w].pc # "dumping"
           /\ side = "s3" => run'[w].pc # "upload" /\ run'[w].uploaded = "yes"
  PROVE  Lossless'
<1> DEFINE r == run[w]
<1>0. /\ r.at \in Seconds /\ r.at # NoFile
      /\ run'[w].e = r.e /\ run'[w].at = r.at /\ run'[w].conf = r.conf
      /\ run'[w].dels = run[w].dels /\ run'[w].names = run[w].names
  BY FileTypes DEF Core, SameJob, SameLists
<1>1. \A v \in Workers : v # w => run'[v] = run[v]
  BY DEF After
<1>2. /\ r.e \in Execs /\ New(r.e)
      /\ \A v \in Workers : r.e \notin run[v].dels
  BY FirstJob DEF Early
<1>3. Writing(w)' /\ Unshared'
  BY DEF Files, Writing
<1>4. /\ \A v \in Workers : v # w /\ Writing(v) => run[v].at # r.at
      /\ \A e \in Execs : rows[e].file # r.at
  <2>1. \A v \in Workers : v # w => (Writing(v)' <=> Writing(v))
    BY <1>1 DEF Writing
  <2> QED BY <1>0, <1>1, <1>3, <2>1 DEF Unshared
<1>5. /\ \A s \in Sides, t \in Seconds : t # r.at => copies'[s][t] = copies[s][t]
      /\ \A s \in Sides, t \in Seconds, e \in Execs : copies'[s][t] = e =>
           copies[s][t] = e \/ (s = side /\ t = r.at /\ e = r.e /\ content \in Execs)
  BY <1>0 DEF Copied
<1> HIDE DEF r
<1>6. FirstRun'
  BY <1>0, <1>1, <1>2 DEF Lossless, FirstRun, New, Early
<1>7. \A v \in Workers, e \in Execs, t \in Seconds :
        /\ Unrecorded(v, e, t) => Unrecorded(v, e, t)'
        /\ Unrecorded(v, e, t) /\ run[v].pc # "upload" /\ run[v].uploaded = "yes" =>
             run'[v].pc # "upload" /\ run'[v].uploaded = "yes"
  BY <1>0, <1>1 DEF Unrecorded, r
<1>8. \A e \in Execs, t \in Seconds :
        content \in Execs /\ e = r.e /\ t = r.at => Unrecorded(w, e, t)'
  BY <1>0 DEF Unrecorded
<1>9. Written'
  <2>1. "local" \in Sides /\ "s3" \in Sides
    BY DEF Sides
  <2>2. ASSUME NEW t \in Seconds, NEW e \in Execs, copies'["local"][t] = e
        PROVE  rows[e].file = t \/ \E v \in Workers : Unrecorded(v, e, t)'
    BY <1>5, <1>7, <1>8, <2>1, <2>2 DEF Lossless, Written
  <2>3. ASSUME NEW t \in Seconds, NEW e \in Execs, copies'["s3"][t] = e
        PROVE  \/ rows[e].file = t /\ rows[e].uploaded = "yes"
               \/ \E v \in Workers : /\ Unrecorded(v, e, t)'
                                     /\ run'[v].pc # "upload" /\ run'[v].uploaded = "yes"
    BY <1>5, <1>7, <1>8, <2>1, <2>3 DEF Lossless, Written
  <2> QED BY <2>2, <2>3 DEF Lossless, Written
<1>10. Removed'
  <2>1. \A e \in Execs : \A s \in rows[e].deleted : NoCopy(s, e)'
    <3>1. \A e \in Execs : rows[e].deleted \subseteq Sides
      BY Typed DEF Core, RowStates
    <3> QED BY <1>2, <1>5, <3>1 DEF Lossless, Removed, NoCopy, New
  <2>2. ASSUME NEW v \in Workers, run'[v].pc = "record"
        PROVE  copies'["local"][run'[v].at] = run'[v].e
                 <=> ~(run'[v].conf.dropLocal /\ run'[v].uploaded = "yes")
    <3>1. CASE v = w
      BY <1>0, <2>2, <3>1 DEF r
    <3>2. CASE v # w
      <4>1. run[v].pc = "record" /\ run'[v] = run[v] /\ run[v].at # r.at /\ run[v].at \in Seconds
        BY <1>1, <1>4, <2>2, <3>2, FileTypes DEF Writing, Core
      <4> QED BY <1>5, <4>1 DEF Lossless, Removed, Sides
    <3> QED BY <3>1, <3>2
  <2> QED BY <2>1, <2>2 DEF Removed
<1>11. \A v \in Workers : Listed(v)'
  <2>1. ASSUME NEW v \in Workers, NEW e \in run[v].dels, NEW t \in Seconds
        PROVE  copies'[run[v].side][t] = e => copies[run[v].side][t] = e
    <3>1. e \in Execs /\ run[v].side \in Sides
      BY Typed DEF Core, RunStates
    <3>2. e # r.e
      BY <1>2
    <3> QED BY <1>5, <3>1, <3>2
  <2>2. ASSUME NEW v \in Workers PROVE Listed(v)'
    <3>1. CASE v = w
      BY <1>0, <3>1 DEF Lossless, Listed, Removing
    <3>2. CASE v # w
      BY <1>1, <2>1, <3>2 DEF Lossless, Listed, Removing, NoCopy
    <3> QED BY <3>1, <3>2
  <2> QED BY <2>2
<1>12. Promised'
  <2>1. SuccessfulWith("local")' = SuccessfulWith("local")
    BY DEF SuccessfulWith
  <2>2. ASSUME NEW e \in SuccessfulWith("local")
        PROVE  Holds("local", e)' \/ \E v \in Workers : LocalGoes(v, e)'
    <3>1. e \in Execs /\ "local" \in Sides /\ rows[e].file \in Seconds \cup {NoFile}
      BY FileTypes DEF SuccessfulWith, Sides, Core
    <3>2. Holds("local", e) => Holds("local", e)'
      BY <1>4, <1>5, <3>1 DEF Holds
    <3>3. \A v \in Workers : LocalGoes(v, e) => LocalGoes(v, e)'
      BY <1>1 DEF LocalGoes
    <3> QED BY <2>2, <3>2, <3>3 DEF Lossless, Promised
  <2> QED BY <2>1, <2>2 DEF Promised
<1> QED BY <1>6, <1>9, <1>10, <1>11, <1>12 DEF Lossless

(* A worker removes the copy of that name.                                 *)
LEMMA RemoveCalm ==
  ASSUME Core, Files, ~Clash, Lossless, NEW w \in Workers, NEW t \in run[w].names,
         After(w, run'[w]), run[w].pc = "remove", run'[w].pc = "remove",
         run'[w].side = run[w].side, run'[w].dels = run[w].dels,
         run'[w].names = run[w].names \ {t},
         Copied(run[w].side, t, Absent), UNCHANGED <<rows, jobStatus>>
  PROVE  Lossless'
<1>0. /\ t \in Seconds /\ run[w].side \in Sides /\ run[w].dels \subseteq Execs
      /\ run[w].names \subseteq Seconds /\ Absent \notin Execs
  BY Typed, BackupsAssumption DEF Core, RunStates
<1>1. \A v \in Workers : v # w => run'[v] = run[v]
  BY DEF After
<1>2. FirstRun'
  BY <1>1 DEF Lossless, FirstRun, New, Early
<1>3. /\ \A s \in Sides, u \in Seconds, e \in Execs : copies'[s][u] = e => copies[s][u] = e
      /\ \A s \in Sides, u \in Seconds : u # t => copies'[s][u] = copies[s][u]
      /\ \A u \in Seconds, e \in Execs : copies'[run[w].side][u] = e => u # t
  BY <1>0 DEF Copied
<1>4. \A v \in Workers, e \in Execs, u \in Seconds :
        Unrecorded(v, e, u) => v # w /\ Unrecorded(v, e, u)'
  BY <1>1 DEF Unrecorded
<1>5. Written'
  <2>1. "local" \in Sides /\ "s3" \in Sides
    BY DEF Sides
  <2> QED BY <1>1, <1>3, <1>4, <2>1 DEF Lossless, Written
<1>6. Removed'
  <2>1. \A e \in Execs : rows[e].deleted \subseteq Sides
    BY Typed DEF Core, RowStates
  <2>2. \A v \in Workers : run'[v].pc = "record" =>
          run'[v] = run[v] /\ run[v].at \in Seconds /\ run[v].at # t
    <3>1. \A v \in Workers : run[v].pc = "record" => run[v].at # t
      BY DEF Files, Unshared, Writing
    <3> QED BY <1>1, <3>1, FileTypes DEF Core
  <2>3. \A e \in Execs : \A s \in rows[e].deleted : NoCopy(s, e)'
    BY <1>3, <2>1 DEF Lossless, Removed, NoCopy
  <2>4. ASSUME NEW v \in Workers, run'[v].pc = "record"
        PROVE  copies'["local"][run'[v].at] = run'[v].e
                 <=> ~(run'[v].conf.dropLocal /\ run'[v].uploaded = "yes")
    BY <1>3, <2>2, <2>4 DEF Lossless, Removed, Sides
  <2> QED BY <2>3, <2>4 DEF Removed
<1>7. ASSUME NEW v \in Workers PROVE Listed(v)'
  <2>0. run[v].side \in Sides /\ run[v].dels \subseteq Execs
    BY Typed DEF Core, RunStates
  <2>1. CASE v = w
    <3>1. Removing(w)
      BY DEF Removing
    <3>2. Listed(w)
      BY DEF Lossless
    <3>3. \A e \in run'[w].dels :
            /\ rows'[e].status \in {"success", "gone"}
            /\ \A u \in Seconds : copies'[run'[w].side][u] = e => u \in run'[w].names
      BY <1>0, <1>3, <3>1, <3>2 DEF Listed
    <3>4. \A e \in Execs : rows'[e].file \in run'[w].names => e \in run'[w].dels
      BY <3>1, <3>2 DEF Listed
    <3> QED BY <2>1, <3>3, <3>4 DEF Listed
  <2>2. CASE v # w
    BY <1>1, <1>3, <2>0, <2>2 DEF Lossless, Listed, Removing, NoCopy
  <2> QED BY <2>1, <2>2
<1>8. Promised'
  <2>1. SuccessfulWith("local")' = SuccessfulWith("local")
    BY DEF SuccessfulWith
  <2>2. ASSUME NEW e \in SuccessfulWith("local")
        PROVE  Holds("local", e)' \/ \E v \in Workers : LocalGoes(v, e)'
    <3>1. e \in Execs /\ "local" \in Sides /\ rows[e].file \in Seconds \cup {NoFile}
      BY FileTypes DEF SuccessfulWith, Sides, Core
    <3>2. \A v \in Workers : LocalGoes(v, e) => LocalGoes(v, e)'
      BY <1>1 DEF LocalGoes
    <3>3. CASE run[w].side = "local" /\ rows[e].file = t
      <4>1. e \in run[w].dels
        BY <3>1, <3>3 DEF Lossless, Listed, Removing
      <4> QED BY <3>3, <4>1 DEF LocalGoes
    <3>4. CASE run[w].side # "local" \/ rows[e].file # t
      <4>1. Holds("local", e) => Holds("local", e)'
        BY <3>1, <3>4 DEF Holds, Copied
      <4> QED BY <2>2, <3>2, <4>1 DEF Lossless, Promised
    <3> QED BY <3>3, <3>4
  <2> QED BY <2>1, <2>2 DEF Promised
<1> QED BY <1>2, <1>5, <1>6, <1>7, <1>8 DEF Lossless

(* The row of a first run is written, as what happened to its copies.      *)
LEMMA EndsCalm ==
  ASSUME Core, Files, ~Clash, Lossless, NEW w \in Workers, NEW e \in Execs, run[w].e = e,
         After(w, run'[w]), UNCHANGED <<copies, jobStatus>>,
         run[w].pc \in {"record", "fail"}, run'[w].pc \in {"select", "ok"},
         run'[w].dels \subseteq run[w].dels,
         \A d \in Execs \ {e} : rows'[d] = rows[d],
         rows'[e].status \in {"success", "failed"},
         IF run[w].pc = "record"
           THEN rows'[e].file = run[w].at /\ rows'[e].uploaded = run[w].uploaded
           ELSE rows'[e].file = NoFile,
         \A side \in rows'[e].deleted : side = "local" /\ NoCopy("local", e),
         rows'[e].status = "success" /\ "local" \notin rows'[e].deleted =>
           run[w].pc = "record" /\ copies["local"][run[w].at] = e
  PROVE  Lossless'
<1> DEFINE r == run[w]
<1>0. r.at \in Seconds /\ r.at # NoFile /\ \A v \in Workers : NoFile \notin run[v].names
  BY FileTypes, BackupsAssumption DEF Core
<1>1. \A v \in Workers : v # w => run'[v] = run[v]
  BY DEF After
<1>2. /\ New(e) /\ jobStatus[e] = "held"
      /\ \A v \in Workers : v # w /\ run[v].pc # "idle" => run[v].e # e
      /\ \A v \in Workers : e \notin run[v].dels
  BY FirstJob DEF Early
<1>3. run[w].pc = "record" => Writing(w)
  BY DEF Writing
<1>4. FirstRun'
  <2>1. \A d \in Execs : jobStatus'[d] \in {"absent", "queued"} => New(d)'
    BY <1>2 DEF Lossless, FirstRun, New
  <2>2. ASSUME NEW v \in Workers, run'[v].pc \in Early
        PROVE  New(run[v].e)'
    <3>1. v # w /\ run'[v] = run[v]
      BY <1>1, <2>2 DEF Early
    <3>2. run[v].e # e /\ run[v].e \in Execs /\ New(run[v].e)
      BY <1>2, <2>2, <3>1, FirstJob DEF Early
    <3>3. rows'[run[v].e] = rows[run[v].e]
      BY <3>2
    <3> QED BY <3>1, <3>2, <3>3 DEF New
  <2>3. \A v \in Workers : /\ run'[v].pc # "err"
                           /\ run'[v].pc \in Early \ {"drop", "record"} => run'[v].uploaded = "null"
    BY <1>1 DEF Lossless, FirstRun, Early
  <2> QED BY <2>1, <2>2, <2>3 DEF FirstRun
<1>5. \A v \in Workers, d \in Execs, t \in Seconds :
        Unrecorded(v, d, t) /\ d # e => Unrecorded(v, d, t)' /\ run'[v] = run[v]
  BY <1>1 DEF Unrecorded
<1>6. \A v \in Workers, t \in Seconds :
        Unrecorded(v, e, t) => v = w /\ r.pc = "record" /\ r.at = t
  BY <1>2 DEF Unrecorded
<1>7. Written'
  <2>1. ASSUME NEW t \in Seconds, NEW d \in Execs, copies["local"][t] = d
        PROVE  rows'[d].file = t \/ \E v \in Workers : Unrecorded(v, d, t)'
    <3>1. CASE d = e
      <4>1. \E v \in Workers : Unrecorded(v, e, t)
        BY <1>0, <1>2, <2>1, <3>1, BackupsAssumption DEF Lossless, Written, New
      <4> QED BY <1>6, <3>1, <4>1
    <3>2. CASE d # e
      BY <1>5, <2>1, <3>2 DEF Lossless, Written
    <3> QED BY <3>1, <3>2
  <2>2. ASSUME NEW t \in Seconds, NEW d \in Execs, copies["s3"][t] = d
        PROVE  \/ rows'[d].file = t /\ rows'[d].uploaded = "yes"
               \/ \E v \in Workers : /\ Unrecorded(v, d, t)'
                                     /\ run'[v].pc # "upload" /\ run'[v].uploaded = "yes"
    <3>1. CASE d = e
      <4>1. PICK v \in Workers : Unrecorded(v, e, t) /\ run[v].uploaded = "yes"
        BY <1>0, <1>2, <2>2, <3>1, BackupsAssumption DEF Lossless, Written, New
      <4> QED BY <1>6, <3>1, <4>1
    <3>2. CASE d # e
      BY <1>5, <2>2, <3>2 DEF Lossless, Written
    <3> QED BY <3>1, <3>2
  <2>3. \A d \in Execs : rows'[d].status = "gone" => rows'[d].file = NoFile
    BY DEF Lossless, Written
  <2> QED BY <2>1, <2>2, <2>3 DEF Written
<1>8. Removed'
  <2>1. \A d \in Execs : \A side \in rows'[d].deleted : NoCopy(side, d)
    BY DEF Lossless, Removed
  <2>2. \A v \in Workers : run'[v].pc = "record" => run'[v] = run[v]
    BY <1>1
  <2> QED BY <2>1, <2>2 DEF Lossless, Removed, NoCopy
<1>9. ASSUME NEW v \in Workers PROVE Listed(v)'
  <2>1. run[v].dels \subseteq Execs \ {e}
    BY <1>2, Typed DEF Core, RunStates
  <2>2. rows'[e].file \notin run[v].names
    BY <1>0, <1>3 DEF Files, Unshared
  <2>3. CASE v = w
    BY <2>1, <2>3 DEF Lossless, Listed, Removing
  <2>4. CASE v # w
    <3>1. \A d \in run[v].dels : rows'[d] = rows[d]
      BY <2>1
    <3>2. Listed(v) /\ run'[v] = run[v]
      BY <1>1, <2>4 DEF Lossless
    <3>3. Removing(v) => \A d \in Execs : rows'[d].file \in run[v].names => d \in run[v].dels
      BY <2>2, <3>2 DEF Listed
    <3> QED BY <3>1, <3>2, <3>3 DEF Listed, Removing, NoCopy
  <2> QED BY <2>3, <2>4
<1>10. Promised'
  <2>1. ASSUME NEW d \in Execs, rows'[d].status = "success", "local" \notin rows'[d].deleted
        PROVE  Holds("local", d)' \/ \E v \in Workers : LocalGoes(v, d)'
    <3>1. CASE d = e
      BY <1>0, <2>1, <3>1 DEF Holds
    <3>2. CASE d # e
      <4>1. rows'[d] = rows[d] /\ d \in SuccessfulWith("local")
        BY <2>1, <3>2 DEF SuccessfulWith
      <4>2. \A v \in Workers : LocalGoes(v, d) => LocalGoes(v, d)'
        BY <1>1 DEF LocalGoes
      <4> QED BY <4>1, <4>2 DEF Lossless, Promised, Holds
    <3> QED BY <3>1, <3>2
  <2> QED BY <2>1 DEF Promised, SuccessfulWith
<1> QED BY <1>4, <1>7, <1>8, <1>9, <1>10 DEF Lossless

LEMMA RecordCalm ==
  ASSUME Core, Core', Files, ~Clash, Lossless, NEW w \in Workers,
         Record(w) \/ RecordFailure(w)
  PROVE  Lossless'
<1> USE DEF Core, storeVars, handlerSame
<1>1. PICK e \in Execs : run[w].e = e
  BY DEF Record, RecordFailure, Holding, At
<1>2. UNCHANGED <<copies, jobStatus>>
  BY DEF Record, RecordFailure
<1>3. \A d \in Execs : rows'[d].deleted \subseteq Sides
  BY TypedNext DEF RowStates
<1>4. CASE Record(w)
  <2>1. /\ After(w, run'[w]) /\ run[w].pc = "record" /\ run'[w].pc = "select"
        /\ run'[w].dels = {}
        /\ Finished(e, "success", run[w].at, run[w].uploaded, LocalGone(run[w]))
    BY <1>1, <1>4, RecordFacts
  <2>2. New(e)
    BY <1>1, <2>1, FirstJob DEF Early
  <2>3. /\ rows'[e].status = "success" /\ rows'[e].file = run[w].at
        /\ rows'[e].uploaded = run[w].uploaded
        /\ "local" \in rows'[e].deleted <=> (run[w].conf.dropLocal /\ run[w].uploaded = "yes")
        /\ "s3" \notin rows'[e].deleted
        /\ \A d \in Execs \ {e} : rows'[d] = rows[d]
    BY <2>1, <2>2 DEF Finished, LocalGone, New
  <2>4. copies["local"][run[w].at] = e <=> ~(run[w].conf.dropLocal /\ run[w].uploaded = "yes")
    BY <1>1, <2>1 DEF Lossless, Removed
  <2>5. \A t \in Seconds : copies["local"][t] = e => t = run[w].at
    <3>1. \A v \in Workers, t \in Seconds : Unrecorded(v, e, t) => t = run[w].at
      BY <1>1, <2>1, FirstJob DEF Unrecorded, Early
    <3> QED BY <2>2, <3>1, BackupsAssumption DEF Lossless, Written, New
  <2>6. \A side \in rows'[e].deleted : side = "local" /\ NoCopy("local", e)
    BY <1>3, <2>3, <2>4, <2>5 DEF NoCopy, Sides
  <2> QED BY <1>1, <1>2, <2>1, <2>3, <2>4, <2>6, EndsCalm
<1>5. CASE RecordFailure(w)
  <2>1. /\ After(w, run'[w]) /\ run[w].pc = "fail" /\ run'[w].pc = "ok" /\ SameLists(w)
        /\ Finished(e, "failed", NoFile, "null", {})
    BY <1>1, <1>5, RecordFailureFacts
  <2>2. New(e)
    BY <1>1, <2>1, FirstJob DEF Early
  <2>3. /\ rows'[e].status = "failed" /\ rows'[e].file = NoFile
        /\ "local" \notin rows'[e].deleted /\ "s3" \notin rows'[e].deleted
        /\ \A d \in Execs \ {e} : rows'[d] = rows[d]
    BY <2>1, <2>2 DEF Finished, New
  <2>4. \A side \in rows'[e].deleted : side = "local" /\ NoCopy("local", e)
    BY <1>3, <2>3 DEF Sides
  <2> QED BY <1>1, <1>2, <2>1, <2>3, <2>4, EndsCalm DEF SameLists
<1> QED BY <1>4, <1>5

(* What is marked as deleted is.                                           *)
LEMMA MarkCalm ==
  ASSUME Core, Lossless, NEW w \in Workers, Mark(w)
  PROVE  Lossless'
<1> USE DEF Core, storeVars, handlerSame
<1>1. UNCHANGED <<copies, jobStatus>>
  BY DEF Mark
<1>2. /\ After(w, run'[w]) /\ run[w].pc = "mark" /\ run'[w].pc \in {"select", "prune"}
      /\ run'[w].dels = {}
      /\ \A e \in Execs :
           /\ rows'[e].status = rows[e].status /\ rows'[e].file = rows[e].file
           /\ rows'[e].uploaded = rows[e].uploaded
           /\ e \in run[w].dels /\ rows[e].status # "gone" =>
                rows'[e].deleted = rows[e].deleted \cup {run[w].side}
           /\ e \notin run[w].dels => rows'[e].deleted = rows[e].deleted
           /\ rows[e].status = "gone" => rows'[e].deleted = rows[e].deleted
  BY MarkFacts
<1>3. \A v \in Workers : v # w => run'[v] = run[v]
  BY <1>2 DEF After
<1>4. Listed(w)
  BY DEF Lossless
<1>5. \A e \in Execs : New(e) => New(e)'
  BY <1>2, <1>4 DEF New, Listed
<1>6. FirstRun'
  <2>1. \A v \in Workers : run'[v].pc \in Early => run'[v] = run[v] /\ run[v].e \in Execs
    BY <1>2, <1>3, FirstJob DEF Early
  <2>2. ASSUME NEW v \in Workers, run'[v].pc \in Early PROVE New(run[v].e)'
    <3>1. run'[v] = run[v] /\ run[v].e \in Execs
      BY <2>1, <2>2
    <3>2. New(run[v].e)
      BY <2>2, <3>1 DEF Lossless, FirstRun
    <3> QED BY <1>5, <3>1, <3>2 DEF New
  <2> QED BY <1>1, <1>2, <1>3, <1>5, <2>1, <2>2 DEF Lossless, FirstRun
<1>7. \A v \in Workers, e \in Execs, t \in Seconds :
        Unrecorded(v, e, t) => Unrecorded(v, e, t)' /\ run'[v] = run[v]
  BY <1>2, <1>3 DEF Unrecorded
<1>8. Written'
  BY <1>1, <1>2, <1>7 DEF Lossless, Written
<1>9. Removed'
  <2>1. ASSUME NEW e \in Execs, NEW side \in rows'[e].deleted PROVE NoCopy(side, e)
    BY <1>2, <1>4, <2>1 DEF Lossless, Removed, Listed
  <2> QED BY <1>1, <1>2, <1>3, <2>1 DEF Lossless, Removed, NoCopy
<1>10. ASSUME NEW v \in Workers PROVE Listed(v)'
  <2>1. run[v].dels \subseteq Execs
    BY Typed DEF RunStates
  <2>2. CASE v = w
    BY <1>2, <2>2 DEF Listed, Removing
  <2>3. CASE v # w
    BY <1>1, <1>2, <1>3, <2>1, <2>3 DEF Lossless, Listed, Removing, NoCopy
  <2> QED BY <2>2, <2>3
<1>11. Promised'
  <2>1. ASSUME NEW e \in Execs, rows'[e].status = "success", "local" \notin rows'[e].deleted
        PROVE  Holds("local", e)' \/ \E v \in Workers : LocalGoes(v, e)'
    <3>1. e \in SuccessfulWith("local") /\ ~LocalGoes(w, e)
      BY <1>2, <2>1 DEF SuccessfulWith, LocalGoes
    <3>2. \A v \in Workers : LocalGoes(v, e) => LocalGoes(v, e)'
      BY <1>3, <3>1 DEF LocalGoes
    <3>3. Holds("local", e) => Holds("local", e)'
      BY <1>1, <1>2 DEF Holds
    <3> QED BY <3>1, <3>2, <3>3 DEF Lossless, Promised
  <2> QED BY <2>1 DEF Promised, SuccessfulWith
<1> QED BY <1>6, <1>8, <1>9, <1>10, <1>11 DEF Lossless

(* No copy of an orphan is left.                                           *)
LEMMA OrphansHaveNone ==
  ASSUME Core, Lossless, NEW e \in Execs, Orphan(e)
  PROVE  NoCopy("local", e) /\ NoCopy("s3", e) /\ ~New(e)
<1>1. "local" \in rows[e].deleted /\ ~New(e)
  BY DEF Orphan, New
<1>2. CASE "s3" \in rows[e].deleted
  BY <1>1, <1>2 DEF Lossless, Removed
<1>3. CASE rows[e].uploaded = "null"
  <2>1. \A w \in Workers, t \in Seconds : ~Unrecorded(w, e, t)
    BY <1>1, FirstJob DEF Unrecorded, Early
  <2>2. NoCopy("s3", e)
    BY <1>3, <2>1 DEF Lossless, Written, NoCopy
  <2> QED BY <1>1, <2>2 DEF Lossless, Removed
<1> QED BY <1>2, <1>3 DEF Orphan

LEMMA PruneCalm ==
  ASSUME Core, Lossless, NEW w \in Workers, Prune(w)
  PROVE  Lossless'
<1> USE DEF Core, storeVars, handlerSame
<1>1. UNCHANGED <<copies, jobStatus>>
  BY DEF Prune
<1>2. /\ After(w, run'[w]) /\ run[w].pc = "prune" /\ run'[w].pc = "ok" /\ SameLists(w)
      /\ \A e \in Execs :
           IF rows[e].status # "none" /\ Orphan(e)
             THEN /\ rows'[e].status = "gone" /\ rows'[e].file = NoFile
                  /\ rows'[e].deleted = {}
             ELSE rows'[e] = rows[e]
  BY PruneFacts
<1>3. \A v \in Workers : v # w => run'[v] = run[v]
  BY <1>2 DEF After
<1>4. \A e \in Execs : New(e) => rows'[e] = rows[e]
  BY <1>2, OrphansHaveNone
<1>5. FirstRun'
  <2>1. \A e \in Execs : New(e) => New(e)'
    BY <1>4 DEF New
  <2>2. ASSUME NEW v \in Workers, run'[v].pc \in Early PROVE run'[v] = run[v] /\ New(run[v].e)'
    <3>1. run'[v] = run[v] /\ run[v].e \in Execs /\ New(run[v].e)
      BY <1>2, <1>3, <2>2, FirstJob DEF Early
    <3>2. rows'[run[v].e] = rows[run[v].e]
      BY <1>4, <3>1
    <3> QED BY <3>1, <3>2 DEF New
  <2> QED BY <1>1, <1>2, <1>3, <2>1, <2>2 DEF Lossless, FirstRun
<1>6. \A v \in Workers, e \in Execs, t \in Seconds :
        Unrecorded(v, e, t) => Unrecorded(v, e, t)' /\ run'[v] = run[v]
  BY <1>2, <1>3 DEF Unrecorded
<1>7. \A e \in Execs : ~NoCopy("local", e) \/ ~NoCopy("s3", e) => rows'[e] = rows[e]
  BY <1>2, OrphansHaveNone
<1>8. Written'
  <2>1. \A e \in Execs : rows'[e].status = "gone" => rows'[e].file = NoFile
    BY <1>2 DEF Lossless, Written
  <2>2. \A t \in Seconds, e \in Execs :
          copies["local"][t] = e \/ copies["s3"][t] = e => rows'[e] = rows[e]
    BY <1>7 DEF NoCopy
  <2> QED BY <1>1, <1>6, <2>1, <2>2 DEF Lossless, Written
<1>9. Removed'
  <2>1. \A e \in Execs : \A side \in rows'[e].deleted : NoCopy(side, e)
    BY <1>2 DEF Lossless, Removed
  <2> QED BY <1>1, <1>2, <1>3, <2>1 DEF Lossless, Removed, NoCopy
<1>10. ASSUME NEW v \in Workers PROVE Listed(v)'
  <2>1. run[v].dels \subseteq Execs /\ NoFile \notin run[v].names
    BY Typed, BackupsAssumption DEF RunStates
  <2>2. /\ \A e \in run[v].dels : rows'[e].status \in {"success", "gone"}
        /\ \A e \in Execs : rows'[e].file \in run[v].names => rows'[e] = rows[e]
    BY <1>2, <2>1 DEF Lossless, Listed
  <2>3. CASE v = w
    BY <1>2, <2>2, <2>3 DEF Listed, Removing, SameLists
  <2>4. CASE v # w
    BY <1>1, <1>3, <2>2, <2>4 DEF Lossless, Listed, Removing, NoCopy
  <2> QED BY <2>3, <2>4
<1>11. Promised'
  <2>1. ASSUME NEW e \in Execs, rows'[e].status = "success", "local" \notin rows'[e].deleted
        PROVE  Holds("local", e)' \/ \E v \in Workers : LocalGoes(v, e)'
    <3>1. rows'[e] = rows[e] /\ e \in SuccessfulWith("local")
      BY <1>2, <2>1 DEF SuccessfulWith
    <3>2. \A v \in Workers : LocalGoes(v, e) => LocalGoes(v, e)'
      BY <1>2, <1>3 DEF LocalGoes
    <3> QED BY <1>1, <3>1, <3>2 DEF Lossless, Promised, Holds
  <2> QED BY <2>1 DEF Promised, SuccessfulWith
<1> QED BY <1>5, <1>8, <1>9, <1>10, <1>11 DEF Lossless

(* Everybody but the workers, as long as the process lives.                *)
LEMMA OutsideCalm ==
  ASSUME Core, Lossless, Undisturbed', Outside
  PROVE  Lossless'
<1> USE DEF Core, dispatchVars, ghostVars, storeVars
<1>1. ASSUME UNCHANGED <<copies, run>>,
             \A e \in Execs : jobStatus'[e] \in {"absent", "queued"} =>
                                jobStatus[e] \in {"absent", "queued"},
             \A e \in Execs :
               /\ rows'[e].file = rows[e].file /\ rows'[e].uploaded = rows[e].uploaded
               /\ rows'[e].deleted = rows[e].deleted
               /\ \/ rows'[e].status = rows[e].status
                  \/ rows[e].status = "none" /\ rows'[e].status = "running"
      PROVE  Lossless'
  <2>1. FirstRun'
    <3>1. \A e \in Execs : New(e) => New(e)'
      BY <1>1 DEF New
    <3>2. ASSUME NEW w \in Workers, run[w].pc \in Early PROVE New(run[w].e)'
      <4>1. run[w].e \in Execs /\ New(run[w].e)
        BY <3>2, FirstJob
      <4> QED BY <1>1, <3>1, <4>1 DEF New
    <3> QED BY <1>1, <3>1, <3>2 DEF Lossless, FirstRun
  <2>2. \A w \in Workers, e \in Execs, t \in Seconds : Unrecorded(w, e, t)' <=> Unrecorded(w, e, t)
    BY <1>1 DEF Unrecorded
  <2>3. Written'
    BY <1>1, <2>2 DEF Lossless, Written
  <2>4. Removed'
    BY <1>1 DEF Lossless, Removed, NoCopy
  <2>5. ASSUME NEW w \in Workers PROVE Listed(w)'
    <3>1. run[w].dels \subseteq Execs
      BY Typed DEF RunStates
    <3> QED BY <1>1, <3>1 DEF Lossless, Listed, Removing, NoCopy
  <2>6. Promised'
    BY <1>1 DEF Lossless, Promised, SuccessfulWith, Holds, LocalGoes
  <2> QED BY <2>1, <2>3, <2>4, <2>5, <2>6 DEF Lossless
<1>2. ASSUME NEW e \in Execs, CreateRunning(e), UNCHANGED <<copies, run, jobStatus>>
      PROVE  Lossless'
  BY <1>1, <1>2, CreateFacts
<1>3. ASSUME NEW e \in Execs, Store!Submit(e), UNCHANGED <<copies, run, rows>>
      PROVE  Lossless'
  <2>1. \A d \in Execs : jobStatus'[d] \in {"absent", "queued"} =>
                           jobStatus[d] \in {"absent", "queued"}
    BY <1>3, Typed DEF Store!Submit, Store!StoreTypeOK
  <2> QED BY <1>1, <1>3, <2>1
<1>4. ~Restart
  BY BudgetFacts DEF Restart
<1>5. CASE UNCHANGED <<copies, run, rows, jobStatus>>
  BY <1>1, <1>5
<1>6. CASE SweepCreates
  <2>1. PICK e \in Execs : CreateRunning(e)
    BY <1>6 DEF SweepCreates
  <2> QED BY <1>2, <1>6, <2>1 DEF SweepCreates
<1>7. CASE SweepEnqueues
  <2>1. PICK e \in Execs : Store!Submit(e)
    BY <1>7, Typed DEF SweepEnqueues
  <2> QED BY <1>3, <1>7, <2>1 DEF SweepEnqueues
<1>8. ASSUME NEW e \in Execs, Trigger(e) \/ SendJob(e) PROVE Lossless'
  BY <1>1, <1>2, <1>3, <1>8 DEF Trigger, SendJob
<1>9. \/ \E e \in Execs : Trigger(e) \/ SendJob(e)
      \/ SweepCreates \/ SweepEnqueues \/ UNCHANGED <<copies, run, rows, jobStatus>>
  BY <1>4 DEF Outside, Dispatcher, Tick, Update, SweepStarts, SweepChecks, SweepFails, vars
<1> QED BY <1>5, <1>6, <1>7, <1>8, <1>9

(* The names of what was selected are those of all its copies.             *)
LEMMA NamesCalm ==
  ASSUME Core, Files, ~Clash, Lossless, NEW w \in Workers, Names(w)
  PROVE  Lossless'
<1> USE DEF Core, handlerSame, storeVars
<1>1. UNCHANGED <<rows, copies, jobStatus>>
  BY DEF Names
<1>2. /\ After(w, run'[w]) /\ run[w].pc = "names" /\ run'[w].pc \in {"helper", "remove"}
      /\ run'[w].side = run[w].side /\ run'[w].dels = run[w].dels
      /\ run'[w].names = {rows[e].file : e \in {d \in run[w].dels :
              rows[d].status # "gone" /\ rows[d].file # NoFile}}
  BY NamesFacts
<1>3. run[w].dels \subseteq Execs /\ run[w].side \in Sides /\ Listed(w) /\ NoFile \notin Seconds
  BY Typed, BackupsAssumption DEF RunStates, Lossless
<1>4. ASSUME NEW e \in run[w].dels, NEW t \in Seconds, copies[run[w].side][t] = e
      PROVE  t \in run'[w].names
  <2>1. \A v \in Workers : ~Unrecorded(v, e, t)
    BY <1>3, FirstJob DEF Unrecorded, Early, Listed, New
  <2>2. rows[e].file = t
    BY <1>3, <1>4, <2>1 DEF Lossless, Written, Sides
  <2>3. rows[e].status # "gone"
    BY <1>3, <2>2 DEF Lossless, Written
  <2> QED BY <1>2, <1>3, <2>2, <2>3
<1>5. ASSUME NEW e \in Execs, rows[e].file \in run'[w].names
      PROVE  e \in run[w].dels
  <2>1. PICK d \in run[w].dels : rows[d].file # NoFile /\ rows[d].file = rows[e].file
    BY <1>2, <1>5
  <2> QED BY <1>3, <2>1 DEF Files, Unshared
<1>6. Listed(w)'
  BY <1>1, <1>2, <1>3, <1>4, <1>5 DEF Listed, Removing
<1>7. \A e \in Execs : ~LocalGoes(w, e)
  BY <1>2 DEF LocalGoes
<1> QED BY <1>1, <1>2, <1>6, <1>7, RunCalm DEF Early

LEMMA CopiesCalm ==
  ASSUME Core, Core', Files, Files', ~Clash, ~Clash', Lossless, Undisturbed',
         NEW w \in Workers, StartDump(w) \/ EndDump(w) \/ Upload(w) \/ DropLocal(w)
  PROVE  Lossless'
<1> USE DEF Core, handlerSame, storeVars
<1>0. "local" \in Sides /\ "s3" \in Sides /\ Execs \subseteq Content
      /\ {Absent, Partial} \subseteq Content /\ Absent \notin Execs /\ Partial \notin Execs
  BY BackupsAssumption DEF Sides, Content
<1>1. UNCHANGED <<rows, jobStatus>> /\ run[w].pc \in Early
  BY DEF StartDump, EndDump, Upload, DropLocal, At, Early
<1>2. /\ run[w].e \in Execs /\ run[w].at \in Seconds /\ New(run[w].e) /\ Listed(w)
      /\ run[w].pc \in Early \ {"drop", "record"} => run[w].uploaded = "null"
  BY <1>1, FirstJob, FileTypes DEF Lossless, FirstRun
<1>3. CASE StartDump(w)
  <2>1. /\ After(w, run'[w]) /\ run[w].pc = "dump" /\ run'[w].pc = "dumping"
        /\ SameJob(w) /\ SameLists(w) /\ run'[w].uploaded = run[w].uploaded
        /\ Copied("local", run[w].at, Partial)
    BY <1>3, StartDumpFacts
  <2> QED BY <1>0, <1>1, <1>2, <2>1, WriteCalm DEF Early
<1>4. CASE EndDump(w)
  <2>1. /\ After(w, run'[w]) /\ run[w].pc = "dumping"
        /\ SameJob(w) /\ SameLists(w) /\ run'[w].uploaded = run[w].uploaded
        /\ \/ /\ Copied("local", run[w].at, run[w].e)
              /\ run'[w].pc = IF run[w].conf.saveS3 THEN "upload" ELSE "record"
           \/ run'[w].pc = "fail" /\ UNCHANGED copies
    BY <1>2, <1>4, EndDumpFacts
  <2>2. run'[w].uploaded = "null"
    BY <1>2, <2>1 DEF Early
  <2>3. CASE run'[w].pc = "fail" /\ UNCHANGED copies
    <3>1. Listed(w)'
      BY <1>1, <1>2, <2>1, <2>3 DEF Listed, Removing, SameLists
    <3>2. \A e \in Execs : ~LocalGoes(w, e)
      BY <2>1 DEF LocalGoes
    <3>3. New(run'[w].e)
      BY <1>2, <2>1 DEF SameJob
    <3> QED BY <1>1, <2>1, <2>2, <2>3, <3>1, <3>2, <3>3, RunCalm
  <2>4. CASE /\ Copied("local", run[w].at, run[w].e)
             /\ run'[w].pc = IF run[w].conf.saveS3 THEN "upload" ELSE "record"
    <3>1. copies'["local"][run[w].at] = run[w].e /\ run[w].e \in Content
      BY <1>0, <1>2, <2>4 DEF Copied
    <3>2. run'[w].pc \in {"upload", "record"}
      BY <2>4
    <3> QED BY <1>0, <1>1, <2>1, <2>2, <2>4, <3>1, <3>2, WriteCalm
  <2> QED BY <2>1, <2>3, <2>4
<1>5. CASE Upload(w)
  <2> DEFINE c == copies["local"][run[w].at]
  <2>1. /\ After(w, run'[w]) /\ run[w].pc = "upload" /\ SameJob(w) /\ SameLists(w)
        /\ \/ /\ run'[w].uploaded = "yes"
              /\ run'[w].pc = IF run[w].conf.dropLocal THEN "drop" ELSE "record"
              /\ Copied("s3", run[w].at, c)
           \/ run'[w].uploaded = "no" /\ run'[w].pc = "record" /\ UNCHANGED copies
    BY <1>5, UploadFacts, BudgetFacts
  <2>2. c = run[w].e
    BY <2>1 DEF Files, Secured
  <2> HIDE DEF c
  <2>3. copies'["local"][run[w].at] = run[w].e
    BY <1>0, <1>2, <2>1, <2>2 DEF Copied, c
  <2>4. CASE run'[w].uploaded = "no" /\ run'[w].pc = "record" /\ UNCHANGED copies
    BY <1>0, <1>1, <2>1, <2>3, <2>4, WriteCalm
  <2>5. CASE /\ run'[w].uploaded = "yes"
             /\ run'[w].pc = IF run[w].conf.dropLocal THEN "drop" ELSE "record"
             /\ Copied("s3", run[w].at, c)
    <3>1. run'[w].pc \in {"drop", "record"} /\ (run'[w].pc = "record" => ~run[w].conf.dropLocal)
      BY <2>5
    <3> QED BY <1>0, <1>1, <1>2, <2>1, <2>2, <2>3, <2>5, <3>1, WriteCalm
  <2> QED BY <2>1, <2>4, <2>5
<1>6. CASE DropLocal(w)
  <2>1. /\ After(w, run'[w]) /\ run[w].pc = "drop" /\ run'[w].pc = "record"
        /\ SameJob(w) /\ SameLists(w) /\ run'[w].uploaded = run[w].uploaded
        /\ Copied("local", run[w].at, Absent)
    BY <1>6, DropLocalFacts, BudgetFacts
  <2>2. copies'["local"][run[w].at] # run[w].e
    BY <1>0, <1>2, <2>1 DEF Copied
  <2>3. run[w].conf.dropLocal /\ run[w].uploaded = "yes"
    BY <2>1 DEF Files, Secured
  <2> QED BY <1>0, <1>1, <2>1, <2>2, <2>3, WriteCalm
<1> QED BY <1>3, <1>4, <1>5, <1>6

(* The rest of the handler.                                                *)
LEMMA HandlerCalm ==
  ASSUME Core, Core', Files, Files', ~Clash, ~Clash', Lossless, Undisturbed',
         NEW w \in Workers, Handler(w) \/ TakeSome(w)
  PROVE  Lossless'
<1> USE DEF Core, handlerSame, storeVars
<1>0. Listed(w) /\ run[w].pc # "err"
  BY DEF Lossless, FirstRun
<1>1. CASE TakeSome(w)
  <2>1. PICK e \in Execs : Take(w, e)
    BY <1>1 DEF TakeSome
  <2>2. /\ After(w, run'[w]) /\ run[w].pc = "idle"
        /\ run'[w].pc = "resolve" /\ run'[w].e = e /\ run'[w].uploaded = "null"
        /\ run'[w].dels = {}
    BY <2>1, TakeFacts
  <2>3. /\ jobStatus[e] = "queued" /\ UNCHANGED <<rows, copies>>
        /\ \A d \in Execs : jobStatus'[d] \in {"absent", "queued"} =>
                              jobStatus[d] \in {"absent", "queued"}
    BY <2>1, Typed DEF Take, Store!Take, Store!StoreTypeOK
  <2>4. New(run'[w].e)
    BY <2>2, <2>3 DEF Lossless, FirstRun
  <2>5. Listed(w)' /\ \A d \in Execs : ~LocalGoes(w, d)
    BY <2>2 DEF Listed, Removing, LocalGoes
  <2> QED BY <2>2, <2>3, <2>4, <2>5, RunCalm
<1>2. CASE Resolve(w)
  <2>1. /\ After(w, run'[w]) /\ run[w].pc = "resolve"
        /\ run'[w].e = run[w].e /\ SameLists(w) /\ run'[w].uploaded = run[w].uploaded
        /\ IF rows[run[w].e].status = "gone" THEN run'[w].pc = "err" ELSE run'[w].pc = "dump"
    BY <1>2, ResolveFacts
  <2>2. UNCHANGED <<rows, copies, jobStatus>>
    BY <1>2 DEF Resolve
  <2>3. New(run'[w].e) /\ run'[w].uploaded = "null" /\ run'[w].pc = "dump"
    BY <2>1 DEF Lossless, FirstRun, Early, New
  <2>4. Listed(w)' /\ \A d \in Execs : ~LocalGoes(w, d)
    BY <1>0, <2>1, <2>2, <2>3 DEF Listed, Removing, LocalGoes, SameLists
  <2> QED BY <2>1, <2>2, <2>3, <2>4, RunCalm
<1>3. CASE Select(w)
  <2>1. /\ After(w, run'[w]) /\ run[w].pc = "select" /\ run'[w].pc = "names"
        /\ \E keep : run'[w].dels = SelectForDeletion(SuccessfulWith(run[w].side), keep)
    BY <1>3, SelectFacts
  <2>2. UNCHANGED <<rows, copies, jobStatus>>
    BY <1>3 DEF Select
  <2>3. run'[w].dels \subseteq SuccessfulWith(run[w].side)
    <3>1. SuccessfulWith(run[w].side) \in SUBSET Execs
      BY DEF SuccessfulWith
    <3> QED BY <2>1, <3>1, SelectedAreSeen
  <2>4. Listed(w)' /\ \A d \in Execs : ~LocalGoes(w, d)
    BY <2>1, <2>2, <2>3 DEF Listed, Removing, LocalGoes, SuccessfulWith
  <2> QED BY <2>1, <2>2, <2>4, RunCalm DEF Early
<1>4. CASE Helper(w)
  <2>1. Goto(w, "remove") /\ run[w].pc = "helper" /\ UNCHANGED <<rows, copies, jobStatus>>
    BY <1>4, BudgetFacts DEF Helper, At
  <2>2. /\ After(w, run'[w]) /\ run'[w].pc = "remove" /\ run'[w].side = run[w].side
        /\ run'[w].dels = run[w].dels /\ run'[w].names = run[w].names
    BY <2>1, GotoFacts DEF HandlerPC
  <2>3. Listed(w)' /\ \A d \in Execs : ~LocalGoes(w, d)
    BY <1>0, <2>1, <2>2 DEF Listed, Removing, LocalGoes
  <2> QED BY <2>1, <2>2, <2>3, RunCalm DEF Early
<1>5. CASE Remove(w)
  <2>1. UNCHANGED <<rows, jobStatus>>
    BY <1>5 DEF Remove
  <2>2. /\ After(w, run'[w]) /\ run[w].pc = "remove"
        /\ run'[w].side = run[w].side /\ run'[w].dels = run[w].dels
        /\ \/ \E t \in run[w].names :
                /\ run'[w].pc = "remove" /\ run'[w].names = run[w].names \ {t}
                /\ Copied(run[w].side, t, Absent)
           \/ /\ run'[w].pc = "mark" /\ run[w].names = {} /\ UNCHANGED copies
    BY <1>5, RemoveFacts, BudgetFacts
  <2>3. CASE run'[w].pc = "mark" /\ run[w].names = {} /\ UNCHANGED copies
    <3>1. Listed(w)'
      BY <1>0, <2>1, <2>2, <2>3 DEF Listed, Removing, NoCopy
    <3>2. \A e \in Execs : LocalGoes(w, e) => LocalGoes(w, e)'
      BY <2>2, <2>3 DEF LocalGoes
    <3> QED BY <2>1, <2>2, <2>3, <3>1, <3>2, RunCalm DEF Early
  <2> QED BY <2>1, <2>2, <2>3, RemoveCalm
<1>6. CASE Report(w)
  <2>1. /\ run[w].pc = "ok" /\ Store!Finish(w, run[w].e) /\ PutDown(w)
        /\ UNCHANGED <<rows, copies>>
    BY <1>0, <1>6 DEF Report, At
  <2>2. After(w, run'[w]) /\ run'[w].pc = "idle" /\ run'[w].dels = {}
    BY <2>1, PutDownFacts
  <2>3. \A d \in Execs : jobStatus'[d] \in {"absent", "queued"} =>
                           jobStatus[d] \in {"absent", "queued"}
    BY <2>1, Typed DEF Store!Finish, Store!StoreTypeOK
  <2>4. Listed(w)' /\ \A d \in Execs : ~LocalGoes(w, d)
    BY <2>1, <2>2 DEF Listed, Removing, LocalGoes
  <2> QED BY <2>1, <2>2, <2>3, <2>4, RunCalm DEF Early
<1>7. ~(MkdirFails(w) \/ DbFails(w) \/ ReportLost(w))
  BY BudgetFacts DEF MkdirFails, DbFails, ReportLost
<1> QED BY <1>1, <1>2, <1>3, <1>4, <1>5, <1>6, <1>7, CopiesCalm, RecordCalm, NamesCalm,
           MarkCalm, PruneCalm DEF Handler

LEMMA LossesStay ==
  ASSUME TypeOK, [Next]_vars
  PROVE  Undisturbed' => Undisturbed
<1>1. \/ UNCHANGED budget
      \/ \E kind \in {"updates", "restarts", "db", "ssh"} : Spend(kind)
  BY BackupSteps DEF Outside, Dispatcher, Tick, Update, Trigger, SendJob, SweepStarts, SweepChecks,
    SweepCreates, SweepEnqueues, SweepFails, Restart, vars,
    Handler, TakeSome, Take, Resolve, StartDump, MkdirFails, EndDump, Upload, DropLocal, Record,
    RecordFailure, Select, Names, Helper, Remove, RemoveCopy, Mark, Prune, DbFails, Report,
    ReportLost
<1> QED BY <1>1, BudgetFacts DEF Undisturbed

LEMMA CalmStep ==
  ASSUME Core, Core', Files, Files', Calm, [Next]_vars
  PROVE  Calm'
<1> SUFFICES ASSUME Undisturbed', ~Clash' PROVE Lossless'
  BY DEF Calm
<1>1. ~Clash /\ Undisturbed
  BY ClashStays, LossesStay DEF Core
<1>2. Lossless
  BY <1>1 DEF Calm
<1> QED BY <1>1, <1>2, BackupSteps, OutsideCalm, HandlerCalm

-----------------------------------------------------------------------------
(* The invariant holds.                                                    *)
Kept == Core /\ Once /\ OncePerMinute /\ Files /\ Newest /\ Calm

LEMMA KeptInit ==
  ASSUME Init
  PROVE  Kept
<1>1. /\ rows = [e \in Execs |-> NoRow] /\ copies = [s \in Sides |-> [t \in Seconds |-> Absent]]
      /\ run = [w \in Workers |-> IdleRun] /\ dumps = [t \in Seconds |-> 0]
      /\ byCron = {} /\ sweep = "idle"
  BY DEF Init
<1>2. /\ NoRow \in RowStates
      /\ NoRow.status = "none" /\ NoRow.file = NoFile /\ NoRow.uploaded = "null"
      /\ NoRow.deleted = {}
  BY BackupsAssumption DEF NoRow, RowStates, Seconds
<1> HIDE DEF NoRow
<1>3. /\ IdleRun \in RunStates /\ IdleRun.pc = "idle"
      /\ IdleRun.dels = {} /\ IdleRun.names = {}
  <2>1. AnyPolicy \in Policies
    BY DEF Init, AnyPolicy
  <2>2. 0 \in Seconds
    BY BackupsAssumption DEF Seconds
  <2> HIDE DEF AnyPolicy
  <2> QED BY <2>1, <2>2 DEF IdleRun, RunStates, Sides, HandlerPC
<1> HIDE DEF IdleRun
<1>4. /\ \A e \in Execs : rows[e] = NoRow
      /\ \A w \in Workers : run[w] = IdleRun
      /\ \A side \in Sides, t \in Seconds : copies[side][t] = Absent
      /\ \A t \in Seconds : dumps[t] = 0
  BY <1>1
<1>5. Store!StoreTypeOK /\ TriesLeft
  BY BackupsAssumption
  DEF Init, Store!StoreTypeOK, Store!StoreInit, Store!Status, TriesLeft
<1>6. TypeOK
  <2>1. clock \in Seconds /\ policy \in Policies /\ demoted \in BOOLEAN
    <3>1. clock = 0 /\ policy \in Policies /\ demoted = FALSE
      BY DEF Init
    <3>2. 0 \in Seconds
      BY BackupsAssumption DEF Seconds
    <3> QED BY <3>1, <3>2
  <2>5. budget \in Budgets
    <3>1. /\ MaxUpdates \in 0..MaxUpdates /\ MaxRestarts \in 0..MaxRestarts
          /\ MaxDbErrors \in 0..MaxDbErrors /\ MaxSshLosses \in 0..MaxSshLosses
          /\ MaxEvents \in 0..MaxEvents
      BY BackupsAssumption
    <3>2. budget = [updates |-> MaxUpdates, restarts |-> MaxRestarts, db |-> MaxDbErrors,
                    ssh |-> MaxSshLosses, all |-> MaxEvents]
      BY DEF Init
    <3> QED BY <3>1, <3>2 DEF Budgets
  <2>2. /\ rows \in [Execs -> RowStates] /\ run \in [Workers -> RunStates]
        /\ dumps \in [Seconds -> 0..2]
    BY <1>1, <1>2, <1>3
  <2>3. request \in [Execs -> Requests]
    BY DEF Init, Requests
  <2>4. copies \in [Sides -> [Seconds -> Content]]
    <3>1. Absent \in Content
      BY DEF Content
    <3> QED BY <1>1, <3>1
  <2> QED BY <1>1, <1>5, <2>1, <2>2, <2>3, <2>4, <2>5, Typed
<1>7. Core
  BY <1>3, <1>4, <1>5, <1>6 DEF Core, Holding
<1>8. Once /\ OncePerMinute
  BY <1>1 DEF Once, OncePerMinute
<1>9. Success = {} /\ SuccessfulWith("local") = {}
  BY <1>2, <1>4 DEF Success, SuccessfulWith
<1>10. Files
  BY <1>2, <1>3, <1>4, <1>9 DEF Files, Begun, Unshared, Secured, Writing
<1>11. Newest
  BY <1>2, <1>3, <1>4, <1>9 DEF Newest, Bounded, Spared, NewestKept
<1>12. Calm
  <2>1. Absent \notin Execs /\ "local" \in Sides /\ "s3" \in Sides
    BY BackupsAssumption DEF Sides
  <2>2. FirstRun
    BY <1>2, <1>3, <1>4 DEF FirstRun, New, Early
  <2>3. Written
    BY <1>2, <1>4, <2>1 DEF Written
  <2>4. Removed
    BY <1>2, <1>3, <1>4 DEF Removed
  <2>5. \A w \in Workers : Listed(w)
    BY <1>3, <1>4 DEF Listed, Removing
  <2> QED BY <1>9, <2>2, <2>3, <2>4, <2>5 DEF Calm, Lossless, Promised
<1> QED BY <1>7, <1>8, <1>10, <1>11, <1>12 DEF Kept

LEMMA KeptNext ==
  ASSUME Kept, [Next]_vars
  PROVE  Kept'
<1>1. Core'
  BY BackupSteps, HandlerCore, OutsideCore DEF Kept
<1>2. Files'
  BY <1>1, FilesStep DEF Kept
<1> QED BY <1>1, <1>2, OnceStep, NewestStep, CalmStep DEF Kept

LEMMA KeptAlways == Spec => []Kept
<1>1. Init => Kept
  BY KeptInit
<1>2. Kept /\ [Next]_vars => Kept'
  BY KeptNext
<1> QED BY <1>1, <1>2, PTL DEF Spec

(* Every variable of the model of backups keeps its type.                  *)
THEOREM Typing == Spec => []TypeOK
<1>1. Kept => TypeOK
  BY DEF Kept, Core
<1> QED BY <1>1, KeptAlways, PTL

(* dispatch_due_backups creates no two executions of one minute whose rows *)
(* are there at a time, whatever happens between its check and its insert. *)
THEOREM MinutesApart == Spec => []OncePerMinute
<1>1. Kept => OncePerMinute
  BY DEF Kept
<1> QED BY <1>1, KeptAlways, PTL

(* The steps that change a row.                                            *)
LEMMA RowSteps ==
  ASSUME [Next]_vars
  PROVE  \/ UNCHANGED rows \/ \E e \in Execs : CreateRunning(e)
         \/ \E w \in Workers : Record(w) \/ RecordFailure(w) \/ Mark(w) \/ Prune(w)
  BY BackupSteps DEF Outside, Dispatcher, Tick, Update, Trigger, SendJob, SweepStarts, SweepChecks,
    SweepCreates, SweepEnqueues, SweepFails, Restart, vars, dispatchVars, ghostVars, handlerSame,
    Handler, TakeSome, Take, Resolve, StartDump, MkdirFails, EndDump, Upload, DropLocal, Select,
    Names, Helper, Remove, DbFails, Report, ReportLost

(* The newest success stays one.                                           *)
LEMMA TopStays ==
  ASSUME Core, Newest, Fine', [Next]_vars, NEW m \in Success, ~Ahead(m)
  PROVE  rows'[m].status = "success"
<1> USE DEF Core, dispatchVars, ghostVars, handlerSame
<1>0. m \in Execs /\ rows[m].status = "success"
  BY DEF Success
<1>1. CASE UNCHANGED rows
  BY <1>0, <1>1
<1>2. ASSUME NEW e \in Execs, CreateRunning(e) PROVE rows'[m].status = "success"
  BY <1>0, <1>2, CreateFacts
<1>3. ASSUME NEW w \in Workers, Record(w) PROVE rows'[m].status = "success"
  <2>1. run[w].e \in Execs
    BY <1>3 DEF Record, At, Holding
  <2> QED BY <1>0, <1>3, <2>1, RecordFacts DEF Finished
<1>4. ASSUME NEW w \in Workers, RecordFailure(w) PROVE rows'[m].status = "success"
  <2>1. run[w].e \in Execs
    BY <1>4 DEF RecordFailure, At, Holding
  <2>2. ~demoted'
    BY DEF Fine
  <2> QED BY <1>0, <1>4, <2>1, <2>2, RecordFailureFacts DEF Finished
<1>5. ASSUME NEW w \in Workers, Mark(w) PROVE rows'[m].status = "success"
  BY <1>0, <1>5, MarkFacts
<1>6. ASSUME NEW w \in Workers, Prune(w) PROVE rows'[m].status = "success"
  <2>1. Spared
    BY FineStays DEF Newest
  <2>2. ~Orphan(m)
    BY <1>0, <2>1 DEF Spared, Orphan
  <2> QED BY <1>0, <1>6, <2>2, PruneFacts
<1> QED BY <1>1, <1>2, <1>3, <1>4, <1>5, <1>6, RowSteps

(* apply_retention, prune_orphans and the handlers of any number of        *)
(* workers, however they interleave, fail and start again, never take the  *)
(* last backup one can restore from, unless two dumps began in one second  *)
(* or an execution that had succeeded was run again and failed.            *)
THEOREM SomethingToRestore == Spec => LastBackupKept
<1>1. ASSUME Kept, [Next]_vars, Restorable, Fine'
      PROVE  Restorable'
  <2>1. Fine /\ Success # {}
    BY <1>1, FineStays DEF Kept, Restorable, Holds, Success
  <2>2. PICK m \in Success : \A e \in Success : e <= m
    BY <1>1, <2>1, NewestThere DEF Kept, Newest
  <2>3. Success' # {}
    <3>1. m \in Execs /\ m \in Nat /\ Success \subseteq Nat
      BY BackupsAssumption DEF Success
    <3>2. ~Ahead(m)
      BY <2>2, <3>1 DEF Ahead
    <3>3. rows'[m].status = "success"
      BY <1>1, <2>1, <3>1, <3>2, TopStays DEF Kept
    <3> QED BY <3>1, <3>3 DEF Success
  <2>4. Kept'
    BY <1>1, KeptNext
  <2>5. PICK top \in Success' : \A e \in Success' : e <= top
    <3>1. Core' /\ Bounded' => \E top \in Success' : \A e \in Success' : e <= top
      <4>1. Success' \in SUBSET Nat
        BY BackupsAssumption DEF Success
      <4> QED BY <2>3, <4>1, LargestThere DEF Bounded
    <3> QED BY <2>4, <3>1 DEF Kept, Newest
  <2>6. top \in Execs /\ ~Ahead(top)'
    <3>1. Success' \subseteq Nat /\ top \in Execs
      BY <2>5, BackupsAssumption DEF Success
    <3> QED BY <2>5, <3>1 DEF Ahead
  <2>7. Holds("local", top)' \/ Holds("s3", top)'
    BY <1>1, <2>4, <2>5, <2>6 DEF Kept, Newest, NewestKept
  <2> QED BY <2>6, <2>7 DEF Restorable, Sides
<1>2. Kept /\ [Next]_vars => [Restorable /\ ~Clash' /\ ~demoted' => Restorable']_vars
  BY <1>1 DEF Fine
<1> QED BY <1>2, KeptAlways, PTL DEF LastBackupKept, Spec

(* A row that goes is pruned.                                              *)
LEMMA RowsGo ==
  ASSUME Core, [Next]_vars, NEW e \in Execs, rows[e].status # "gone", rows'[e].status = "gone"
  PROVE  \E w \in Workers : Prune(w)
<1> USE DEF Core, dispatchVars, ghostVars, handlerSame
<1>1. ASSUME NEW d \in Execs, CreateRunning(d) PROVE FALSE
  BY <1>1, CreateFacts
<1>2. ASSUME NEW w \in Workers, Record(w) PROVE FALSE
  <2>1. run[w].e \in Execs
    BY <1>2 DEF Record, At, Holding
  <2> QED BY <1>2, <2>1, RecordFacts DEF Finished
<1>3. ASSUME NEW w \in Workers, RecordFailure(w) PROVE FALSE
  <2>1. run[w].e \in Execs
    BY <1>3 DEF RecordFailure, At, Holding
  <2> QED BY <1>3, <2>1, RecordFailureFacts DEF Finished
<1>4. ASSUME NEW w \in Workers, Mark(w) PROVE FALSE
  BY <1>4, MarkFacts
<1> QED BY <1>1, <1>2, <1>3, <1>4, RowSteps

(* What successful_with_local reads as a local copy is one, or is about to *)
(* be marked as none, as long as no process, statement or command failed.  *)
THEOREM PromisesKept == Spec => []PromisedCopyIsThere
<1>1. Kept => PromisedCopyIsThere
  BY DEF Kept, Calm, Lossless, Promised, LocalGoes, PromisedCopyIsThere
<1> QED BY <1>1, KeptAlways, PTL

(* prune_orphans deletes the row of no execution a copy of which is left,  *)
(* under the same conditions.                                              *)
THEOREM NothingLeftBehind == Spec => PrunedLeavesNothing
<1>1. ASSUME Kept, [Next]_vars, NEW e \in Execs,
             Undisturbed, ~Clash, rows[e].status # "gone", rows'[e].status = "gone"
      PROVE  \A side \in Sides, t \in Seconds : copies[side][t] # e
  <2>1. Core /\ Lossless
    BY <1>1 DEF Kept, Calm
  <2>2. \E w \in Workers : Prune(w)
    BY <1>1, <2>1, RowsGo
  <2>3. Orphan(e)
    BY <1>1, <2>1, <2>2, PruneFacts DEF Core
  <2> QED BY <2>1, <2>3, OrphansHaveNone DEF NoCopy, Sides
<1>2. Kept /\ [Next]_vars =>
        [\A e \in Execs :
           Undisturbed /\ ~Clash /\ rows[e].status # "gone" /\ rows'[e].status = "gone" =>
             \A side \in Sides, t \in Seconds : copies[side][t] # e]_vars
  BY <1>1
<1> QED BY <1>2, KeptAlways, PTL DEF PrunedLeavesNothing, Spec

-----------------------------------------------------------------------------
(* TeamOwnership.                                                          *)

(* Before its first write or FOR UPDATE a request has locked nothing.      *)
LockFree == {"idle", "target", "select", "total", "delete"}

Locks ==
  /\ \A c \in Clients, u \in Users :
       draft[c][u] # "same" => lock[u] = c /\ role[u] # "none"
  /\ \A c \in Clients, u \in Users : lock[u] = c => pc[c] \notin LockFree
  /\ \A c \in Clients : pc[c] \in {"owners", "update"} =>
       lock[op[c].target] = c /\ role[op[c].target] # "none"

(* What c knows from its last count unless somebody committed since.       *)
Knows(c) ==
  /\ pc[c] = "delete" /\ root => \A u \in Users : \E v \in Users : v # u /\ role[v] # "none"
  /\ pc[c] = "remaining" /\ root => \E u \in Users : View(c)[u] # "none"
  /\ pc[c] = "recount" => \E u \in Users : View(c)[u] # "none"
  /\ pc[c] = "promote" => View(c)[op[c].heir] # "none"
  /\ pc[c] = "commit" => \E u \in Users : View(c)[u] = "owner"

Fresh == \A c \in Clients : ~raced[c] => Knows(c)

TeamInv == TeamTypeOK /\ Locks /\ Fresh

-----------------------------------------------------------------------------
(* Every step, named.                                                      *)
LEMMA TeamSteps ==
  ASSUME TeamNext
  PROVE  \/ \E u \in Users, r \in Roles : Join(u, r)
         \/ \E c \in Clients, kind \in {"set", "remove"}, actor, target \in Users, r \in Roles :
              Authorize(c, kind, actor, target, r)
         \/ \E c \in Clients : CheckTarget(c)
         \/ \E c \in Clients : SelectForUpdate(c)
         \/ \E c \in Clients : CountOwners(c)
         \/ \E c \in Clients : UpdateRole(c)
         \/ \E c \in Clients : CountMembers(c)
         \/ \E c \in Clients : DeleteMember(c)
         \/ \E c \in Clients : CountRemaining(c)
         \/ \E c \in Clients : DropTeam(c)
         \/ \E c \in Clients : RecountOwners(c)
         \/ \E c \in Clients : Promote(c)
         \/ \E c \in Clients : Commit(c)
         \/ \E c \in Clients : Abort(c)
         \/ DeleteTeam
BY DEF TeamNext, Statement, Roles

LEMMA IdleOp == Idle \in Ops
BY TeamAssumption DEF Idle, Ops, Roles

(* A set with more than one element has, for each, another.                *)
LEMMA AnotherMember ==
  ASSUME NEW view \in [Users -> Roles \cup {"none"}], ~(Cardinality(MembersIn(view)) <= 1),
         NEW u \in Users
  PROVE  \E v \in Users : v # u /\ view[v] # "none"
<1>1. SUFFICES ASSUME \A v \in Users : v # u => view[v] = "none"
               PROVE  FALSE
  OBVIOUS
<1>2. MembersIn(view) = {} \/ MembersIn(view) = {u}
  BY <1>1 DEF MembersIn
<1>3. Cardinality({}) = 0 /\ Cardinality({u}) = 1
  BY FS_EmptySet, FS_Singleton
<1> QED
  BY <1>2, <1>3

(* A rollback leaves the table alone and the request idle and lock-free.   *)
LEMMA RollbackInv ==
  ASSUME TeamInv, NEW c \in Clients, Rollback(c)
  PROVE  TeamInv'
<1> USE DEF Rollback, End, Proceed, tableVars
<1>1. TeamTypeOK'
  BY IdleOp DEF TeamInv, TeamTypeOK
<1>2. Locks'
  <2>1. ASSUME NEW d \in Clients, NEW u \in Users, draft'[d][u] # "same"
        PROVE  lock'[u] = d /\ role'[u] # "none"
    BY <2>1 DEF TeamInv, TeamTypeOK, Locks
  <2>2. ASSUME NEW d \in Clients, NEW u \in Users, lock'[u] = d
        PROVE  pc'[d] \notin LockFree
    BY <2>2, TeamAssumption DEF TeamInv, TeamTypeOK, Locks
  <2>3. ASSUME NEW d \in Clients, pc'[d] \in {"owners", "update"}
        PROVE  lock'[op'[d].target] = d /\ role'[op'[d].target] # "none"
    <3>1. d # c /\ pc[d] \in {"owners", "update"} /\ op'[d] = op[d] /\ op[d].target \in Users
      BY <2>3 DEF TeamInv, TeamTypeOK, Ops
    <3> QED BY <3>1 DEF TeamInv, TeamTypeOK, Locks
  <2> QED BY <2>1, <2>2, <2>3 DEF Locks
<1>3. ASSUME NEW d \in Clients, ~raced'[d]
      PROVE  Knows(d)'
  <2>1. CASE d = c
    BY <2>1 DEF TeamInv, TeamTypeOK, Knows
  <2>2. CASE d # c
    BY <1>3, <2>2 DEF TeamInv, TeamTypeOK, Fresh, Knows, View
  <2> QED BY <2>1, <2>2
<1> QED
  BY <1>1, <1>2, <1>3 DEF TeamInv, Fresh

-----------------------------------------------------------------------------
(* The other steps keep every variable in its type.                        *)
LEMMA TeamTypingStep ==
  ASSUME TeamInv, TeamNext, \A c \in Clients : ~Rollback(c)
  PROVE  TeamTypeOK'
<1> USE DEF TeamInv, TeamTypeOK, tableVars, Proceed
<1>1. ASSUME NEW u \in Users, NEW r \in Roles, Join(u, r)
      PROVE  TeamTypeOK'
  BY <1>1, TeamAssumption DEF Join
<1>2. ASSUME NEW c \in Clients, NEW kind \in {"set", "remove"}, NEW actor \in Users,
             NEW target \in Users, NEW r \in Roles, Authorize(c, kind, actor, target, r)
      PROVE  TeamTypeOK'
  <2>1. role[actor] \in Roles
    BY <1>2 DEF Authorize, Roles
  <2>2. [kind |-> kind, acting |-> role[actor], target |-> target, role |-> r,
         heir |-> Creator] \in Ops
    BY <2>1, TeamAssumption DEF Ops
  <2> QED BY <1>2, <2>2 DEF Authorize
<1>3. ASSUME NEW c \in Clients, CheckTarget(c)
      PROVE  TeamTypeOK'
  BY <1>3 DEF CheckTarget
<1>4. ASSUME NEW c \in Clients, SelectForUpdate(c)
      PROVE  TeamTypeOK'
  BY <1>4 DEF SelectForUpdate
<1>5. ASSUME NEW c \in Clients, CountOwners(c)
      PROVE  TeamTypeOK'
  BY <1>5 DEF CountOwners
<1>6. ASSUME NEW c \in Clients, UpdateRole(c)
      PROVE  TeamTypeOK'
  BY <1>6 DEF UpdateRole, WriteRow, Ops
<1>7. ASSUME NEW c \in Clients, CountMembers(c)
      PROVE  TeamTypeOK'
  BY <1>7 DEF CountMembers
<1>8. ASSUME NEW c \in Clients, DeleteMember(c)
      PROVE  TeamTypeOK'
  <2>1. lock' \in [Users -> Clients \cup {Nobody}]
    BY <1>8 DEF DeleteMember, WriteRow
  <2>2. draft' \in [Clients -> [Users -> Roles \cup {"none", "same"}]]
    BY <1>8 DEF DeleteMember, WriteRow
  <2> QED BY <1>8, <2>1, <2>2 DEF DeleteMember
<1>9. ASSUME NEW c \in Clients, CountRemaining(c)
      PROVE  TeamTypeOK'
  BY <1>9 DEF CountRemaining
<1>10. ASSUME NEW c \in Clients, DropTeam(c)
       PROVE  TeamTypeOK'
  BY <1>10 DEF DropTeam
<1>11. ASSUME NEW c \in Clients, RecountOwners(c)
       PROVE  TeamTypeOK'
  <2>1. raced' \in [Clients -> BOOLEAN]
    BY <1>11 DEF RecountOwners
  <2>2. op' \in [Clients -> Ops]
    <3>1. ASSUME NEW u \in Users, op' = [op EXCEPT ![c].heir = u]
          PROVE  op' \in [Clients -> Ops]
      <4>1. op[c] \in Ops /\ op'[c] = [op[c] EXCEPT !.heir = u]
        BY <3>1
      <4>2. op'[c] \in Ops
        BY <4>1 DEF Ops
      <4> QED BY <3>1, <4>2
    <3> QED BY <1>11, <3>1 DEF RecountOwners, MembersIn
  <2> QED BY <1>11, <2>1, <2>2 DEF RecountOwners
<1>12. ASSUME NEW c \in Clients, Promote(c)
       PROVE  TeamTypeOK'
  <2>1. CASE View(c)[op[c].heir] = "none"
    BY <1>12, <2>1 DEF Promote
  <2>2. CASE View(c)[op[c].heir] # "none"
    <3>1. WriteRow(c, op[c].heir, "owner")
      BY <1>12, <2>2 DEF Promote
    <3> QED BY <1>12, <3>1 DEF Promote, WriteRow, Roles
  <2> QED BY <2>1, <2>2
<1>13. ASSUME NEW c \in Clients, Commit(c)
       PROVE  TeamTypeOK'
  <2>1. role' \in [Users -> Roles \cup {"none"}]
    BY <1>13 DEF Commit, View
  <2>2. rowId' \in [Users -> 0..MaxJoins]
    BY <1>13, TeamAssumption DEF Commit
  <2> QED BY <1>13, <2>1, <2>2, IdleOp DEF Commit, End
<1>14. ASSUME DeleteTeam
       PROVE  TeamTypeOK'
  <2>1. role' \in [Users -> Roles \cup {"none"}] /\ rowId' \in [Users -> 0..MaxJoins]
    BY <1>14, TeamAssumption DEF DeleteTeam
  <2>2. raced' \in [Clients -> BOOLEAN] /\ exists' \in BOOLEAN
    BY <1>14 DEF DeleteTeam
  <2> QED BY <1>14, <2>1, <2>2 DEF DeleteTeam
<1> QED
  BY TeamSteps, <1>1, <1>2, <1>3, <1>4, <1>5, <1>6, <1>7, <1>8, <1>9, <1>10, <1>11, <1>12,
     <1>13, <1>14 DEF Abort

(* A row is written only under its lock, and a lock is never taken over.   *)
LEMMA LocksStep ==
  ASSUME TeamInv, TeamNext, \A c \in Clients : ~Rollback(c)
  PROVE  Locks'
<1> USE TeamAssumption DEF TeamInv, TeamTypeOK, Locks, LockFree, tableVars, Proceed
<1>1. ASSUME NEW u \in Users, NEW r \in Roles, Join(u, r)
      PROVE  Locks'
  BY <1>1 DEF Join, Roles, Ops
<1>2. ASSUME NEW c \in Clients, NEW kind \in {"set", "remove"}, NEW actor \in Users,
             NEW target \in Users, NEW r \in Roles, Authorize(c, kind, actor, target, r)
      PROVE  Locks'
  BY <1>2 DEF Authorize
<1>3. ASSUME NEW c \in Clients, CheckTarget(c)
      PROVE  Locks'
  BY <1>3 DEF CheckTarget
<1>4. ASSUME NEW c \in Clients, SelectForUpdate(c)
      PROVE  Locks'
  BY <1>4 DEF SelectForUpdate, CanLock, Ops
<1>5. ASSUME NEW c \in Clients, CountOwners(c)
      PROVE  Locks'
  BY <1>5 DEF CountOwners
<1>6. ASSUME NEW c \in Clients, UpdateRole(c)
      PROVE  Locks'
  BY <1>6 DEF UpdateRole, WriteRow, Ops
<1>7. ASSUME NEW c \in Clients, CountMembers(c)
      PROVE  Locks'
  BY <1>7 DEF CountMembers
<1>8. ASSUME NEW c \in Clients, DeleteMember(c)
      PROVE  Locks'
  <2> DEFINE t == op[c].target
  <2>1. /\ t \in Users /\ lock[t] \in {c, Nobody} /\ role[t] # "none"
        /\ lock' = [lock EXCEPT ![t] = c] /\ draft' = [draft EXCEPT ![c][t] = "none"]
        /\ pc' = [pc EXCEPT ![c] = "remaining"] /\ op' = op /\ role' = role
    BY <1>8 DEF DeleteMember, CanLock, WriteRow, Ops
  <2> HIDE DEF t
  <2> QED BY <2>1 DEF Ops
<1>9. ASSUME NEW c \in Clients, CountRemaining(c)
      PROVE  Locks'
  BY <1>9 DEF CountRemaining
<1>10. ASSUME NEW c \in Clients, DropTeam(c)
       PROVE  Locks'
  BY <1>10 DEF DropTeam, CanLock, MembersIn, Ops
<1>11. ASSUME NEW c \in Clients, RecountOwners(c)
       PROVE  Locks'
  BY <1>11 DEF RecountOwners
<1>12. ASSUME NEW c \in Clients, Promote(c)
       PROVE  Locks'
  <2> DEFINE u == op[c].heir
  <2>1. CASE View(c)[u] = "none"
    BY <1>12, <2>1 DEF Promote
  <2>2. CASE View(c)[u] # "none"
    <3>1. u \in Users /\ role[u] # "none"
      BY <2>2 DEF View, Ops
    <3>2. /\ lock[u] \in {c, Nobody} /\ role' = role /\ op' = op
          /\ lock' = [lock EXCEPT ![u] = c] /\ draft' = [draft EXCEPT ![c][u] = "owner"]
          /\ pc[c] = "promote" /\ pc' = [pc EXCEPT ![c] = "commit"]
      BY <1>12, <2>2 DEF Promote, CanLock, WriteRow
    <3> HIDE DEF u
    <3> QED BY <3>1, <3>2 DEF Ops
  <2> QED BY <2>1, <2>2
<1>13. ASSUME NEW c \in Clients, Commit(c)
       PROVE  Locks'
  BY <1>13 DEF Commit, End, View, Ops
<1>14. ASSUME DeleteTeam
       PROVE  Locks'
  BY <1>14 DEF DeleteTeam, Ops
<1> QED
  BY TeamSteps, <1>1, <1>2, <1>3, <1>4, <1>5, <1>6, <1>7, <1>8, <1>9, <1>10, <1>11, <1>12,
     <1>13, <1>14 DEF Abort

-----------------------------------------------------------------------------
(* What d knows stands as long as neither d nor the table moves.           *)
LEMMA StillKnows ==
  ASSUME TeamInv, NEW d \in Clients, ~raced[d], pc'[d] = pc[d], op'[d] = op[d],
         draft'[d] = draft[d], role' = role, root' = root
  PROVE  Knows(d)'
BY DEF TeamInv, Fresh, Knows, View

(* Nothing is known before the first count, nor while a row is updated.    *)
LEMMA KnowsNothing ==
  ASSUME NEW d \in Clients,
         pc'[d] \in LockFree \cup {"owners", "update", "drop", "gone"}, pc'[d] # "delete"
  PROVE  Knows(d)'
BY DEF Knows, LockFree

(* A lock-free request sees the table as it is.                            *)
LEMMA LockFreeView ==
  ASSUME TeamInv, NEW c \in Clients, pc[c] \in LockFree
  PROVE  View(c) = role /\ \A u \in Users : draft[c][u] = "same"
BY DEF TeamInv, TeamTypeOK, Locks, View

(* A step of c leaves what the others know.                                *)
LEMMA FreshOfOne ==
  ASSUME TeamInv, NEW c \in Clients, role' = role, root' = root, ~raced'[c] => Knows(c)',
         \A d \in Clients : d # c =>
           /\ pc'[d] = pc[d] /\ op'[d] = op[d] /\ draft'[d] = draft[d] /\ raced'[d] = raced[d]
  PROVE  Fresh'
<1> SUFFICES ASSUME NEW d \in Clients, d # c, ~raced'[d]
             PROVE  Knows(d)'
  BY DEF Fresh
<1> QED BY StillKnows

(* A count that says enough stays true until another transaction commits.  *)
LEMMA FreshStep ==
  ASSUME TeamInv, TeamNext, \A c \in Clients : ~Rollback(c)
  PROVE  Fresh'
<1> USE DEF tableVars, Proceed
<1>1. ASSUME NEW u \in Users, NEW r \in Roles, Join(u, r)
      PROVE  Fresh'
  <2>1. SUFFICES ASSUME NEW d \in Clients, ~raced[d]
                 PROVE  Knows(d)'
    BY <1>1 DEF Join, Fresh
  <2>2. role[u] = "none" /\ role' = [role EXCEPT ![u] = r] /\ r # "none" /\ draft' = draft
        /\ pc' = pc /\ op' = op /\ root' = root
    BY <1>1 DEF Join, Roles
  <2>3. \A v \in Users : View(d)[v] # "none" => View(d)'[v] = View(d)[v]
    BY <2>2 DEF TeamInv, TeamTypeOK, View
  <2>4. \A v \in Users : role[v] # "none" => role'[v] # "none"
    BY <2>2 DEF TeamInv, TeamTypeOK
  <2>5. op[d].heir \in Users
    BY DEF TeamInv, TeamTypeOK, Ops
  <2>6. Knows(d)
    BY <2>1 DEF TeamInv, Fresh
  <2> QED BY <2>2, <2>3, <2>4, <2>5, <2>6 DEF Knows
<1>2. ASSUME NEW c \in Clients, NEW kind \in {"set", "remove"}, NEW actor \in Users,
             NEW target \in Users, NEW r \in Roles, Authorize(c, kind, actor, target, r)
      PROVE  Fresh'
  <2>1. Knows(c)'
    BY <1>2 DEF Authorize, Knows, TeamInv, TeamTypeOK
  <2> QED BY <1>2, <2>1, FreshOfOne DEF Authorize, TeamInv, TeamTypeOK
<1>3. ASSUME NEW c \in Clients, CheckTarget(c)
      PROVE  Fresh'
  <2>1. Knows(c)'
    BY <1>3, KnowsNothing DEF CheckTarget, LockFree, TeamInv, TeamTypeOK
  <2> QED BY <1>3, <2>1, FreshOfOne DEF CheckTarget, TeamInv, TeamTypeOK
<1>4. ASSUME NEW c \in Clients, SelectForUpdate(c)
      PROVE  Fresh'
  <2>1. Knows(c)'
    BY <1>4, KnowsNothing DEF SelectForUpdate, TeamInv, TeamTypeOK
  <2> QED BY <1>4, <2>1, FreshOfOne DEF SelectForUpdate, TeamInv, TeamTypeOK
<1>5. ASSUME NEW c \in Clients, CountOwners(c)
      PROVE  Fresh'
  <2>1. Knows(c)'
    BY <1>5, KnowsNothing DEF CountOwners, TeamInv, TeamTypeOK
  <2> QED BY <1>5, <2>1, FreshOfOne DEF CountOwners, TeamInv, TeamTypeOK
<1>6. ASSUME NEW c \in Clients, UpdateRole(c)
      PROVE  Fresh'
  <2>1. pc'[c] = "remaining" /\ op[c].target \in Users /\ op[c].role \in Roles
    BY <1>6 DEF UpdateRole, TeamInv, TeamTypeOK, Ops
  <2>2. View(c)'[op[c].target] # "none"
    BY <1>6, <2>1 DEF UpdateRole, WriteRow, View, Roles, TeamInv, TeamTypeOK
  <2>3. Knows(c)'
    BY <2>1, <2>2 DEF Knows
  <2> QED BY <1>6, <2>3, FreshOfOne DEF UpdateRole, WriteRow, TeamInv, TeamTypeOK
<1>7. ASSUME NEW c \in Clients, CountMembers(c)
      PROVE  Fresh'
  <2>1. /\ ~(root /\ Cardinality(MembersIn(View(c))) <= 1)
        /\ pc'[c] = "delete" /\ role' = role /\ root' = root
    BY <1>7 DEF CountMembers, TeamInv, TeamTypeOK
  <2>2. View(c) = role
    BY <1>7, LockFreeView DEF CountMembers, LockFree
  <2>3. Knows(c)'
    BY <2>1, <2>2, AnotherMember DEF Knows, TeamInv, TeamTypeOK
  <2> QED BY <1>7, <2>3, FreshOfOne DEF CountMembers, TeamInv, TeamTypeOK
<1>8. ASSUME NEW c \in Clients, DeleteMember(c)
      PROVE  Fresh'
  <2> DEFINE t == op[c].target
  <2>1. /\ pc[c] = "delete" /\ pc'[c] = "remaining" /\ raced' = raced /\ role' = role
        /\ root' = root /\ draft' = [draft EXCEPT ![c][t] = "none"] /\ t \in Users
    BY <1>8 DEF DeleteMember, WriteRow, TeamInv, TeamTypeOK, Ops
  <2>2. ASSUME ~raced[c], root
        PROVE  \E v \in Users : View(c)'[v] # "none"
    <3>1. PICK v \in Users : v # t /\ role[v] # "none"
      BY <2>1, <2>2 DEF TeamInv, Fresh, Knows
    <3>2. draft[c][v] = "same"
      BY <2>1, LockFreeView DEF LockFree
    <3> HIDE DEF t
    <3> QED BY <2>1, <3>1, <3>2 DEF View, TeamInv, TeamTypeOK
  <2>3. ~raced'[c] => Knows(c)'
    BY <2>1, <2>2 DEF Knows
  <2> QED BY <1>8, <2>3, FreshOfOne DEF DeleteMember, WriteRow, TeamInv, TeamTypeOK
<1>9. ASSUME NEW c \in Clients, CountRemaining(c)
      PROVE  Fresh'
  <2>1. View(c)' = View(c) /\ root' = root
    BY <1>9 DEF CountRemaining, View
  <2>2. CASE MembersIn(View(c)) # {}
    <3>1. pc'[c] = "recount" /\ \E u \in Users : View(c)[u] # "none"
      BY <1>9, <2>2 DEF CountRemaining, MembersIn, TeamInv, TeamTypeOK
    <3>2. Knows(c)'
      BY <2>1, <3>1 DEF Knows
    <3> QED BY <1>9, <3>2, FreshOfOne DEF CountRemaining, TeamInv, TeamTypeOK
  <2>3. CASE MembersIn(View(c)) = {}
    <3>1. root => raced[c]
      BY <1>9, <2>3 DEF CountRemaining, MembersIn, TeamInv, Fresh, Knows
    <3>2. ~raced'[c] => Knows(c)'
      BY <1>9, <2>3, <3>1 DEF CountRemaining, Knows, TeamInv, TeamTypeOK
    <3> QED BY <1>9, <3>2, FreshOfOne DEF CountRemaining, TeamInv, TeamTypeOK
  <2> QED BY <2>2, <2>3
<1>10. ASSUME NEW c \in Clients, DropTeam(c)
       PROVE  Fresh'
  <2>1. Knows(c)'
    BY <1>10, KnowsNothing DEF DropTeam, TeamInv, TeamTypeOK
  <2> QED BY <1>10, <2>1, FreshOfOne DEF DropTeam, TeamInv, TeamTypeOK
<1>11. ASSUME NEW c \in Clients, RecountOwners(c)
       PROVE  Fresh'
  <2>1. pc[c] = "recount" /\ View(c)' = View(c) /\ role' = role /\ root' = root /\ draft' = draft
        /\ raced' = [raced EXCEPT ![c] = @ /\ MembersIn(View(c)) = {}]
    BY <1>11 DEF RecountOwners, View
  <2>2. MembersIn(View(c)) = {} => raced[c]
    BY <2>1 DEF MembersIn, TeamInv, Fresh, Knows
  <2>3. ASSUME MembersIn(View(c)) # {}
        PROVE  Knows(c)'
    <3>1. CASE OwnersIn(View(c)) # {}
      <4>1. pc'[c] = "commit" /\ \E u \in Users : View(c)[u] = "owner"
        BY <1>11, <3>1 DEF RecountOwners, OwnersIn, TeamInv, TeamTypeOK
      <4> QED BY <2>1, <4>1 DEF Knows
    <3>2. CASE OwnersIn(View(c)) = {}
      <4>1. PICK u \in Users : View(c)[u] # "none" /\ op' = [op EXCEPT ![c].heir = u]
                               /\ pc'[c] = "promote"
        BY <1>11, <2>3, <3>2 DEF RecountOwners, MembersIn, TeamInv, TeamTypeOK
      <4>2. op'[c].heir = u
        BY <4>1 DEF TeamInv, TeamTypeOK, Ops
      <4> QED BY <2>1, <4>1, <4>2 DEF Knows
    <3> QED BY <3>1, <3>2
  <2>4. ~raced'[c] => Knows(c)'
    BY <2>1, <2>2, <2>3 DEF TeamInv, TeamTypeOK
  <2>5. \A d \in Clients : d # c => pc'[d] = pc[d] /\ op'[d] = op[d] /\ raced'[d] = raced[d]
    BY <1>11, <2>1 DEF RecountOwners, TeamInv, TeamTypeOK
  <2> QED BY <2>1, <2>4, <2>5, FreshOfOne
<1>12. ASSUME NEW c \in Clients, Promote(c)
       PROVE  Fresh'
  <2> DEFINE u == op[c].heir
  <2>1. /\ pc[c] = "promote" /\ pc'[c] = "commit" /\ u \in Users /\ role' = role /\ raced' = raced
        /\ root' = root
    BY <1>12 DEF Promote, TeamInv, TeamTypeOK, Ops
  <2>2. ASSUME ~raced[c]
        PROVE  View(c)'[u] = "owner"
    <3>1. View(c)[u] # "none"
      BY <2>1, <2>2 DEF TeamInv, Fresh, Knows
    <3>2. draft' = [draft EXCEPT ![c][u] = "owner"]
      BY <1>12, <3>1 DEF Promote, WriteRow
    <3> HIDE DEF u
    <3> QED BY <2>1, <3>2 DEF View, TeamInv, TeamTypeOK
  <2>3. ~raced'[c] => Knows(c)'
    BY <2>1, <2>2 DEF Knows
  <2>4. \A d \in Clients : d # c => pc'[d] = pc[d] /\ op'[d] = op[d] /\ draft'[d] = draft[d]
    BY <1>12 DEF Promote, WriteRow, TeamInv, TeamTypeOK
  <2> QED BY <2>1, <2>3, <2>4, FreshOfOne
<1>13. ASSUME NEW c \in Clients, Commit(c)
       PROVE  Fresh'
  <2>1. SUFFICES ASSUME NEW d \in Clients, ~raced'[d]
                 PROVE  Knows(d)'
    BY DEF Fresh
  <2>2. pc'[d] = "idle"
    BY <1>13, <2>1 DEF Commit, End, TeamInv, TeamTypeOK
  <2> QED BY <2>2 DEF Knows
<1>14. ASSUME DeleteTeam
       PROVE  Fresh'
  <2>1. SUFFICES ASSUME NEW d \in Clients, ~raced'[d]
                 PROVE  Knows(d)'
    BY DEF Fresh
  <2>2. pc'[d] = "idle"
    BY <1>14, <2>1 DEF DeleteTeam, TeamInv, TeamTypeOK
  <2> QED BY <2>2 DEF Knows
<1> QED
  BY TeamSteps, <1>1, <1>2, <1>3, <1>4, <1>5, <1>6, <1>7, <1>8, <1>9, <1>10, <1>11, <1>12,
     <1>13, <1>14 DEF Abort

-----------------------------------------------------------------------------
LEMMA TeamInitInv ==
  ASSUME TeamInit
  PROVE  TeamInv
<1>1. TeamTypeOK
  BY IdleOp, TeamAssumption DEF TeamInit, TeamTypeOK, Roles
<1>2. Locks
  BY TeamAssumption DEF TeamInit, Locks, LockFree
<1>3. Fresh
  BY DEF TeamInit, Fresh, Knows
<1> QED BY <1>1, <1>2, <1>3 DEF TeamInv

LEMMA TeamNextInv ==
  ASSUME TeamInv, [TeamNext]_teamVars
  PROVE  TeamInv'
<1>1. CASE \E c \in Clients : Rollback(c)
  BY <1>1, RollbackInv
<1>2. CASE TeamNext /\ \A c \in Clients : ~Rollback(c)
  BY <1>2, TeamTypingStep, LocksStep, FreshStep DEF TeamInv
<1>3. CASE UNCHANGED teamVars
  BY <1>3 DEF teamVars, TeamInv, TeamTypeOK, Locks, Fresh, Knows, View
<1> QED BY <1>1, <1>2, <1>3

LEMMA TeamInvariance == TeamSpec => []TeamInv
<1>1. TeamInit => TeamInv
  BY TeamInitInv
<1>2. TeamInv /\ [TeamNext]_teamVars => TeamInv'
  BY TeamNextInv
<1> QED BY <1>1, <1>2, PTL DEF TeamSpec

(* The table changes only by a join, a commit or the deletion of the team. *)
LEMMA TableSteps ==
  ASSUME TeamInv, [TeamNext]_teamVars
  PROVE  \/ role' = role /\ exists' = exists
         \/ \E u \in Users, r \in Roles : Join(u, r)
         \/ \E c \in Clients : Commit(c)
         \/ DeleteTeam
<1>1. CASE UNCHANGED teamVars
  BY <1>1 DEF teamVars
<1>2. CASE \E c \in Clients : Rollback(c)
  BY <1>2 DEF Rollback, tableVars
<1>3. CASE TeamNext /\ \A c \in Clients : ~Rollback(c)
  BY <1>3, TeamSteps DEF tableVars, Authorize, CheckTarget, SelectForUpdate, CountOwners, UpdateRole,
     CountMembers, DeleteMember, CountRemaining, DropTeam, RecountOwners, Promote, Abort
<1> QED BY <1>1, <1>2, <1>3

-----------------------------------------------------------------------------
(* Every variable keeps its type.                                          *)
THEOREM TeamTyping == TeamSpec => []TeamTypeOK
BY TeamInvariance, PTL DEF TeamInv

(* A transaction in flight holds the rows it has written, they are still   *)
(* there, and no lock outlives its transaction.                            *)
THEOREM WritesHeldThroughout == TeamSpec => []WritesHeld
<1>1. TeamInv => WritesHeld
  <2>1. SUFFICES ASSUME TeamInv, NEW u \in Users, lock[u] # Nobody
                 PROVE  pc[lock[u]] \notin {"idle", "target", "total"}
    BY DEF TeamInv, Locks, WritesHeld
  <2>2. lock[u] \in Clients
    BY <2>1 DEF TeamInv, TeamTypeOK
  <2> QED BY <2>1, <2>2 DEF TeamInv, Locks, LockFree
<1> QED BY <1>1, TeamInvariance, PTL

(* A role change or a promotion never brings a removed member back.        *)
THEOREM NoResurrection == TeamSpec => OnlyJoiningAdds
<1>1. ASSUME TeamInv, [TeamNext]_teamVars, NEW u \in Users, role[u] = "none", role'[u] # "none"
      PROVE  joins' = joins + 1
  <2>1. CASE role' = role
    BY <1>1, <2>1
  <2>2. ASSUME NEW v \in Users, NEW r \in Roles, Join(v, r)
        PROVE  joins' = joins + 1
    BY <2>2 DEF Join
  <2>3. ASSUME NEW c \in Clients, Commit(c)
        PROVE  FALSE
    <3>1. draft[c][u] = "same"
      BY <1>1 DEF TeamInv, Locks
    <3> QED BY <1>1, <2>3, <3>1 DEF Commit, View
  <2>4. CASE DeleteTeam
    BY <1>1, <2>4 DEF DeleteTeam
  <2> QED BY <1>1, TableSteps, <2>1, <2>2, <2>3, <2>4
<1>2. TeamInv /\ [TeamNext]_teamVars =>
        [\A u \in Users : role[u] = "none" /\ role'[u] # "none" => joins' = joins + 1]_teamVars
  BY <1>1
<1> QED BY <1>2, TeamInvariance, PTL DEF TeamSpec, OnlyJoiningAdds

LEMMA LastOwner ==
  ASSUME TeamInv, [TeamNext]_teamVars, HasOwner, ~HasOwner', exists'
  PROVE  \E c \in Clients : pc[c] = "commit" /\ raced[c]
<1>1. CASE role' = role
  BY <1>1 DEF HasOwner, OwnersIn
<1>2. ASSUME NEW u \in Users, NEW r \in Roles, Join(u, r)
      PROVE  FALSE
  BY <1>2 DEF Join, HasOwner, OwnersIn, TeamInv, TeamTypeOK
<1>3. ASSUME NEW c \in Clients, Commit(c)
      PROVE  pc[c] = "commit" /\ raced[c]
  <2>1. pc[c] = "commit" /\ role' = View(c)
    BY <1>3 DEF Commit
  <2>2. \A u \in Users : View(c)[u] # "owner"
    BY <2>1 DEF HasOwner, OwnersIn
  <2>3. raced[c]
    BY <2>1, <2>2 DEF TeamInv, Fresh, Knows
  <2> QED BY <2>1, <2>3
<1>4. CASE DeleteTeam
  BY <1>4 DEF DeleteTeam
<1> QED BY TableSteps, <1>1, <1>2, <1>3, <1>4

(* The last owner is lost only by a transaction that another one overtook  *)
(* after its last count.                                                   *)
THEOREM RaceNeeded == TeamSpec => LossNeedsRace
<1>1. TeamInv /\ [TeamNext]_teamVars =>
        [HasOwner /\ ~HasOwner' /\ exists' =>
           \E c \in Clients : pc[c] = "commit" /\ raced[c]]_teamVars
  BY LastOwner
<1> QED BY <1>1, TeamInvariance, PTL DEF TeamSpec, LossNeedsRace

(* Nothing overtakes a request that is alone, but for the deletion of the  *)
(* whole team.                                                             *)
Alone == \A c \in Clients : raced[c] => ~exists

(* One request at a time, the promise of set_role and remove_member holds: *)
(* a team that has an owner and is not deleted still has one.              *)
THEOREM OneAtATime ==
  ASSUME \A c, d \in Clients : c = d
  PROVE  TeamSpec => [][HasOwner /\ exists' => HasOwner']_teamVars
<1>1. TeamInit => Alone
  BY DEF TeamInit, Alone
<1>2. ASSUME TeamInv, Alone, [TeamNext]_teamVars
      PROVE  Alone'
  <2>1. CASE UNCHANGED teamVars
    BY <1>2, <2>1 DEF teamVars, Alone
  <2>2. CASE \E c \in Clients : Rollback(c)
    BY <2>2, <1>2 DEF Rollback, tableVars, Alone, TeamInv, TeamTypeOK
  <2>3. CASE \E u \in Users, r \in Roles : Join(u, r)
    BY <2>3, <1>2 DEF Join, Alone
  <2>4. CASE \E c \in Clients : Commit(c)
    BY <2>4 DEF Commit, Alone
  <2>5. CASE DeleteTeam
    BY <2>5 DEF DeleteTeam, Alone
  <2>6. CASE \E c \in Clients : CountMembers(c) \/ RecountOwners(c)
    BY <2>6, <1>2 DEF CountMembers, RecountOwners, Rollback, tableVars, Alone, TeamInv, TeamTypeOK
  <2>7. ASSUME TeamNext, \A c \in Clients : ~Rollback(c), ~DeleteTeam,
               ~ \E u \in Users, r \in Roles : Join(u, r),
               \A c \in Clients : ~Commit(c) /\ ~CountMembers(c) /\ ~RecountOwners(c)
        PROVE  raced' = raced /\ exists' = exists
    BY <2>7, TeamSteps DEF tableVars, Authorize, CheckTarget, SelectForUpdate, CountOwners, UpdateRole,
       DeleteMember, CountRemaining, DropTeam, Promote, Abort
  <2> QED BY <1>2, <2>1, <2>2, <2>3, <2>4, <2>5, <2>6, <2>7 DEF Alone
<1>3. ASSUME TeamInv, Alone, Alone', [TeamNext]_teamVars, HasOwner, exists', ~HasOwner'
      PROVE  FALSE
  <2>1. PICK c \in Clients : pc[c] = "commit" /\ raced[c]
    BY <1>3, LastOwner
  <2>2. ~exists
    BY <1>3, <2>1 DEF Alone
  <2>3. exists' = exists \/ ~exists'
    BY <1>3, <2>2, TableSteps DEF Join, Commit, DeleteTeam
  <2> QED BY <1>3, <2>2, <2>3
<1>4. TeamInv /\ Alone /\ [TeamNext]_teamVars => Alone'
  BY <1>2
<1>5. TeamInv /\ Alone /\ Alone' /\ [TeamNext]_teamVars =>
        [HasOwner /\ exists' => HasOwner']_teamVars
  BY <1>3
<1> QED BY <1>1, <1>4, <1>5, TeamInvariance, PTL DEF TeamSpec

=============================================================================
