--------------------------- MODULE TeamOwnership ---------------------------
(***************************************************************************)
(* Who owns a team: the `team_user` rows of one team and the transactions  *)
(* of TeamRepo::set_role and TeamRepo::remove_member                       *)
(* (crates/rustify-db/src/repos/teams.rs), as the routes call them.  They  *)
(* run under READ COMMITTED: every statement sees what was committed when  *)
(* it started plus the writes of its own transaction, a row that is        *)
(* written stays locked until its transaction ends, and a count locks      *)
(* nothing.  One action is one statement.                                  *)
(***************************************************************************)
EXTENDS Naturals, FiniteSets

CONSTANTS
  Users, Creator,
  Clients, Nobody,   \* requests in flight; nobody holds a lock
  MaxJoins           \* bound on the rows ever inserted

ASSUME TeamAssumption ==
  /\ Creator \in Users
  /\ Nobody \notin Clients
  /\ MaxJoins \in Nat \ {0}

VARIABLES
  root,     \* whether this is the root team (id 0), for good
  exists,   \* the teams row
  role,     \* committed team_user.role, "none" for no row
  rowId,    \* id of that row: members are promoted in the order they joined
  joins,    \* rows inserted so far
  lock,     \* who has each user's row locked
  pc, op,   \* where each request is, and what it asks for
  draft,    \* what its transaction has written: "same" or a new role
  raced     \* whether another transaction committed since it last counted

tableVars == <<root, exists, role, rowId, joins>>
teamVars == <<root, exists, role, rowId, joins, lock, pc, op, draft, raced>>

-----------------------------------------------------------------------------
Roles == {"member", "admin", "owner"}

Rank(r) == CASE r = "member" -> 1 [] r = "admin" -> 2 [] r = "owner" -> 3

Ops == [kind: {"set", "remove"}, acting: Roles, target: Users, role: Roles, heir: Users]

Idle == [kind |-> "set", acting |-> "member", target |-> Creator, role |-> "member",
         heir |-> Creator]

TeamTypeOK ==
  /\ root \in BOOLEAN
  /\ exists \in BOOLEAN
  /\ role \in [Users -> Roles \cup {"none"}]
  /\ rowId \in [Users -> 0..MaxJoins]
  /\ joins \in 0..MaxJoins
  /\ lock \in [Users -> Clients \cup {Nobody}]
  /\ pc \in [Clients -> {"idle", "target", "select", "owners", "update", "total", "delete",
                         "remaining", "drop", "gone", "recount", "promote", "commit"}]
  /\ op \in [Clients -> Ops]
  /\ draft \in [Clients -> [Users -> Roles \cup {"none", "same"}]]
  /\ raced \in [Clients -> BOOLEAN]

(* The creator joins a new team as an admin; the root team has an owner.   *)
TeamInit ==
  /\ root \in BOOLEAN
  /\ exists = TRUE
  /\ role = [u \in Users |->
       IF u # Creator THEN "none" ELSE IF root THEN "owner" ELSE "admin"]
  /\ rowId = [u \in Users |-> IF u = Creator THEN 1 ELSE 0]
  /\ joins = 1
  /\ lock = [u \in Users |-> Nobody]
  /\ pc = [c \in Clients |-> "idle"]
  /\ op = [c \in Clients |-> Idle]
  /\ draft = [c \in Clients |-> [u \in Users |-> "same"]]
  /\ raced = [c \in Clients |-> FALSE]

(* What a statement of c sees.                                             *)
View(c) == [u \in Users |-> IF draft[c][u] = "same" THEN role[u] ELSE draft[c][u]]

MembersIn(view) == {u \in Users : view[u] # "none"}
OwnersIn(view) == {u \in Users : view[u] = "owner"}

Proceed(c, next) == pc' = [pc EXCEPT ![c] = next]

(* c may write the row of u: nobody else has it locked.                    *)
CanLock(c, u) == lock[u] \in {c, Nobody}

WriteRow(c, u, r) ==
  /\ lock' = [lock EXCEPT ![u] = c]
  /\ draft' = [draft EXCEPT ![c][u] = r]

(* The request of c ends, and its transaction with it.                     *)
End(c) ==
  /\ Proceed(c, "idle")
  /\ op' = [op EXCEPT ![c] = Idle]
  /\ lock' = [u \in Users |-> IF lock[u] = c THEN Nobody ELSE lock[u]]
  /\ draft' = [draft EXCEPT ![c] = [u \in Users |-> "same"]]

Rollback(c) ==
  /\ End(c)
  /\ raced' = [raced EXCEPT ![c] = FALSE]
  /\ UNCHANGED tableVars

-----------------------------------------------------------------------------
(* accept_invitation and add_member insert a row unless there is one.  The *)
(* foreign key makes them wait for a transaction that deletes the team.    *)
Join(u, r) ==
  /\ exists /\ role[u] = "none" /\ lock[u] = Nobody
  /\ \A c \in Clients : pc[c] # "gone"
  /\ joins < MaxJoins           \* bound
  /\ role' = [role EXCEPT ![u] = r]
  /\ joins' = joins + 1
  /\ rowId' = [rowId EXCEPT ![u] = joins + 1]
  /\ UNCHANGED <<root, exists, lock, pc, op, draft, raced>>

(* set_member_role and remove_member read the role of the acting user ...  *)
Authorize(c, kind, actor, target, r) ==
  /\ pc[c] = "idle"
  /\ role[actor] \in {"admin", "owner"}
  /\ op' = [op EXCEPT ![c] = [kind |-> kind, acting |-> role[actor], target |-> target,
                              role |-> r, heir |-> Creator]]
  /\ Proceed(c, "target")
  /\ UNCHANGED <<tableVars, lock, draft, raced>>

(* ... then of the target, and begin the transaction.                      *)
CheckTarget(c) ==
  LET o == op[c] IN
  /\ pc[c] = "target"
  /\ IF /\ role[o.target] # "none"
        /\ Rank(role[o.target]) <= Rank(o.acting)
        /\ o.kind = "set" => Rank(o.role) <= Rank(o.acting)
       THEN /\ Proceed(c, IF o.kind = "set" THEN "select" ELSE "total")
            /\ UNCHANGED <<tableVars, lock, op, draft, raced>>
       ELSE Rollback(c)

(* set_role: SELECT role ... FOR UPDATE                                    *)
SelectForUpdate(c) ==
  LET o == op[c] IN
  /\ pc[c] = "select"
  /\ CanLock(c, o.target)
  /\ IF role[o.target] = "none" THEN Rollback(c)
     ELSE /\ lock' = [lock EXCEPT ![o.target] = c]
          /\ Proceed(c, IF role[o.target] = "owner" /\ o.role # "owner"
                          THEN "owners" ELSE "update")
          /\ UNCHANGED <<tableVars, op, draft, raced>>

(* set_role: the only owner is not demoted.                                *)
CountOwners(c) ==
  /\ pc[c] = "owners"
  /\ IF Cardinality(OwnersIn(View(c))) <= 1 THEN Rollback(c)
     ELSE Proceed(c, "update") /\ UNCHANGED <<tableVars, lock, op, draft, raced>>

UpdateRole(c) ==
  /\ pc[c] = "update"
  /\ WriteRow(c, op[c].target, op[c].role)
  /\ Proceed(c, "remaining")
  /\ UNCHANGED <<tableVars, op, raced>>

(* remove_member: the sole member of the root team stays.                  *)
CountMembers(c) ==
  /\ pc[c] = "total"
  /\ IF root /\ Cardinality(MembersIn(View(c))) <= 1 THEN Rollback(c)
     ELSE /\ Proceed(c, "delete")
          /\ raced' = [raced EXCEPT ![c] = FALSE]
          /\ UNCHANGED <<tableVars, lock, op, draft>>

DeleteMember(c) ==
  /\ pc[c] = "delete"
  /\ CanLock(c, op[c].target)
  /\ IF role[op[c].target] = "none" THEN Rollback(c)
     ELSE /\ WriteRow(c, op[c].target, "none")
          /\ Proceed(c, "remaining")
          /\ UNCHANGED <<tableVars, op, raced>>

-----------------------------------------------------------------------------
(* reconcile_ownership, in the transaction of its caller                   *)

CountRemaining(c) ==
  /\ pc[c] = "remaining"
  /\ Proceed(c, IF MembersIn(View(c)) # {} THEN "recount"
                ELSE IF root THEN "commit" ELSE "drop")
  /\ UNCHANGED <<tableVars, lock, op, draft, raced>>

(* DELETE FROM teams: the cascade takes every row there is by now.         *)
DropTeam(c) ==
  /\ pc[c] = "drop"
  /\ \A d \in Clients : pc[d] # "gone"
  /\ \A u \in MembersIn(role) : CanLock(c, u)
  /\ lock' = [u \in Users |-> IF role[u] # "none" THEN c ELSE lock[u]]
  /\ draft' = [draft EXCEPT ![c] = [u \in Users |-> IF role[u] # "none" THEN "none" ELSE @[u]]]
  /\ Proceed(c, "gone")
  /\ UNCHANGED <<tableVars, op, raced>>

(* Mutant: the count of owners is left out.                                *)
RecountNothing(c) ==
  /\ pc[c] = "recount"
  /\ Proceed(c, "commit")
  /\ raced' = [raced EXCEPT ![c] = @ /\ MembersIn(View(c)) = {}]
  /\ UNCHANGED <<tableVars, lock, op, draft>>

(* The second count: when no owner is left, the subquery of the UPDATE     *)
(* names the member who joined first, if there still is one.               *)
RecountOwners(c) ==
  LET members == MembersIn(View(c)) IN
  /\ pc[c] = "recount"
  /\ IF OwnersIn(View(c)) # {} \/ members = {}
       THEN Proceed(c, "commit") /\ UNCHANGED op
       ELSE \E u \in members :
              /\ \A v \in members : rowId[u] <= rowId[v]
              /\ op' = [op EXCEPT ![c].heir = u]
              /\ Proceed(c, "promote")
  /\ raced' = [raced EXCEPT ![c] = @ /\ members = {}]
  /\ UNCHANGED <<tableVars, lock, draft>>

(* Mutant: the heir's row is written even if it is gone by now.            *)
PromoteBlindly(c) ==
  /\ pc[c] = "promote"
  /\ CanLock(c, op[c].heir)
  /\ WriteRow(c, op[c].heir, "owner")
  /\ Proceed(c, "commit")
  /\ UNCHANGED <<tableVars, op, raced>>

(* The UPDATE, once the heir's row is free: it may be gone by then.        *)
Promote(c) ==
  LET u == op[c].heir IN
  /\ pc[c] = "promote"
  /\ CanLock(c, u)
  /\ IF View(c)[u] = "none" THEN UNCHANGED <<lock, draft>> ELSE WriteRow(c, u, "owner")
  /\ Proceed(c, "commit")
  /\ UNCHANGED <<tableVars, op, raced>>

Commit(c) ==
  /\ pc[c] \in {"commit", "gone"}
  /\ role' = View(c)
  /\ rowId' = [u \in Users |-> IF View(c)[u] = "none" THEN 0 ELSE rowId[u]]
  /\ exists' = (exists /\ pc[c] # "gone")
  /\ raced' = [d \in Clients |-> d # c /\ pc[d] # "idle"]
  /\ End(c)
  /\ UNCHANGED <<root, joins>>

(* An error (PostgreSQL fails one of two removals that each want to promote *)
(* the other's target) or the death of the process ends the request.       *)
Abort(c) == pc[c] # "idle" /\ Rollback(c)

(* TeamRepo::delete: one statement, never for the root team.               *)
DeleteTeam ==
  /\ exists /\ ~root
  /\ \E u \in Users : role[u] \in {"admin", "owner"}
  /\ \A u \in Users : lock[u] = Nobody
  /\ exists' = FALSE
  /\ role' = [u \in Users |-> "none"]
  /\ rowId' = [u \in Users |-> 0]
  /\ raced' = [c \in Clients |-> pc[c] # "idle"]
  /\ UNCHANGED <<root, joins, lock, pc, op, draft>>

-----------------------------------------------------------------------------
Statement(c) ==
  \/ CheckTarget(c) \/ SelectForUpdate(c) \/ CountOwners(c) \/ UpdateRole(c)
  \/ CountMembers(c) \/ DeleteMember(c) \/ CountRemaining(c) \/ DropTeam(c)
  \/ RecountOwners(c) \/ Promote(c) \/ Commit(c)

TeamNext ==
  \/ \E u \in Users, r \in Roles : Join(u, r)
  \/ \E c \in Clients :
       \/ \E actor, target \in Users, r \in Roles : Authorize(c, "set", actor, target, r)
       \/ \E actor, target \in Users : Authorize(c, "remove", actor, target, "member")
       \/ Statement(c) \/ Abort(c)
  \/ DeleteTeam

TeamSpec == TeamInit /\ [][TeamNext]_teamVars

-----------------------------------------------------------------------------
HasOwner == OwnersIn(role) # {}

(* set_role and remove_member take the last owner of a team away only when *)
(* another transaction commits between their last count and their commit:  *)
(* run one after the other they keep the promise of set_role.              *)
LossNeedsRace ==
  [][HasOwner /\ ~HasOwner' /\ exists' =>
       \E c \in Clients : pc[c] = "commit" /\ raced[c]]_teamVars

(* Nobody becomes a member except by joining: a role change or a promotion *)
(* that waits for a row does not bring a removed member back.              *)
OnlyJoiningAdds ==
  [][\A u \in Users : role[u] = "none" /\ role'[u] # "none" => joins' = joins + 1]_teamVars

(* A transaction in flight has written only rows that it still holds and   *)
(* that are still there, so no update is lost to a concurrent one, and no  *)
(* lock survives the transaction that took it.                             *)
WritesHeld ==
  /\ \A c \in Clients, u \in Users :
       draft[c][u] # "same" => lock[u] = c /\ role[u] # "none"
  /\ \A u \in Users : lock[u] # Nobody => pc[lock[u]] \notin {"idle", "target", "total"}

=============================================================================
