--------------------------- MODULE MCCloudServers ---------------------------
(* A small instance of CloudServers: two requests in one region, and one   *)
(* for Hetzner beside one for AWS.                                         *)
EXTENDS CloudServers, TLC
CONSTANTS r1, r2
Pairs == {r1 :> "many" @@ r2 :> "one", r1 :> "hetzner" @@ r2 :> "one"}
=============================================================================
