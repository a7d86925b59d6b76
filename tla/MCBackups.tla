----------------------------- MODULE MCBackups ------------------------------
(* Small instances of Backups: a schedule that is due every minute.        *)
EXTENDS Backups, TLC

(* Two seconds make a minute.                                             *)
MCMinuteOf == [t \in Seconds |-> t \div 2]

Keep(amount, age, space) == [amount |-> amount, age |-> age, space |-> space]

Saved(dropLocal, limits) ==
  [saveS3 |-> TRUE, dropLocal |-> dropLocal, keep |-> [s \in Sides |-> limits]]

NotSaved(limits) ==
  [saveS3 |-> FALSE, dropLocal |-> FALSE, keep |-> [s \in Sides |-> limits]]

(* Each retention rule, with and without S3 and a local copy.              *)
MCPolicies == {NotSaved(Keep(0, 1, 1)), Saved(TRUE, Keep(1, 0, 0))}

(* Past a clash or a demotion the properties say nothing.  The dispatcher  *)
(* serves a schedule without S3; a third execution joins two where nothing *)
(* fails, all are triggered, and one of the two has ended.  Without S3 the *)
(* executions that meet a failure are those of the dispatcher.             *)
Bounded ==
  /\ ~Clash /\ ~demoted
  /\ policy.saveS3 => sweep = "idle"
  /\ ~policy.saveS3 /\ budget.all < MaxEvents =>
       \A e \in Execs : request[e] # "none" => e \in byCron
  /\ rows[3].status # "none" => 
       /\ budget.all = MaxEvents /\ byCron = {}
       /\ \E e \in Execs : rows[e].status \notin {"none", "running"}

Symmetry == Permutations(Workers)
=============================================================================
