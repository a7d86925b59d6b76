---------------------------- MODULE MCPreviews ----------------------------
(* Small instances of Previews.                                            *)
EXTENDS Previews, TLC

(* Workers are alike; the properties checked are invariants and an action  *)
(* property, none of them names a worker.                                  *)
WorkersAreAlike == Permutations(Workers)
=============================================================================
