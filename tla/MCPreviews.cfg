\* Three deliveries, two workers, a queue of one job, one trouble; jobs have one
\* attempt: one that fails is dropped and stays in the table, one whose process
\* dies is run again.
SPECIFICATION Spec
CONSTANTS
  Deliveries = {1, 2, 3}
  Workers = {w1, w2}
  NoWorker = NoWorker
  NoDelivery = NoDelivery
  Limit = 1
  MaxAttempts = 1
  MaxPushes = 1
  MaxTroubles = 1
SYMMETRY WorkersAreAlike
INVARIANTS Manageable SingleComment
PROPERTIES LimitHolds
\* Every delivery is over.
CHECK_DEADLOCK FALSE
