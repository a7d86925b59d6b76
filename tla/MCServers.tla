----------------------------- MODULE MCServers -----------------------------
(* A small instance of Servers.                                            *)
EXTENDS Servers, TLC
Alike == Permutations(Workers) \cup Permutations(Machines)

(* Somebody else connects beside one worker at most, and nothing fails.    *)
Bounded ==
  budget.visits < MaxVisits =>
    /\ Cardinality({w \in Workers : work[w].pc # "idle"}) <= 1
    /\ budget.faults = MaxFaults
=============================================================================
