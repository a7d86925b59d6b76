-------------------------- MODULE MCTeamOwnership --------------------------
(* Small instances of TeamOwnership.                                       *)
EXTENDS TeamOwnership, TLC

CONSTANTS u1, u2, u3

MCUsers == {u1, u2, u3}

(* The requests, and the users who are not the creator, are alike.         *)
Symmetry == Permutations(Clients) \cup Permutations(MCUsers \ {Creator})
=============================================================================
