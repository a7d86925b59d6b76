\* Two requests, of two machines at most, one edit and two faults.
SPECIFICATION FairSpec
CONSTANTS
  r1 = r1
  r2 = r2
  Requests = {r1, r2}
  Orders <- Pairs
  Count = 2
  NoNode = NoNode
  MaxEdits = 1
  MaxFaults = 2
INVARIANTS TruthfulAnswer RolesAreReal
PROPERTIES PowerConverges
\* Every request is answered.
CHECK_DEADLOCK FALSE
