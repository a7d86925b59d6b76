\* A team of up to three members and two requests in flight.
SPECIFICATION TeamSpec
CONSTANTS
  u1 = u1
  u2 = u2
  u3 = u3
  Users <- MCUsers
  Creator = u1
  Clients = {c1, c2}
  Nobody = Nobody
  MaxJoins = 3
SYMMETRY Symmetry
PROPERTIES LossNeedsRace OnlyJoiningAdds
\* A team that was deleted stays deleted.
CHECK_DEADLOCK FALSE
