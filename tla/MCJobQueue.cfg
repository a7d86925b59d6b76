\* Two workers and two jobs, leases of two ticks renewed every tick and at most
\* one tick late: every statement reaches the table before the lease expires.
SPECIFICATION FairSpec
CONSTANTS
  Jobs = {j1, j2}
  Workers = {w1, w2}
  NoJob = NoJob
  NoWorker = NoWorker
  MaxAttempts = 2
  StaleTimeout = 2
  BackoffBase = 1
  Delays = {0}
  Latency = 1
  OverdueCap = 1
  MaxRestarts = 1
  MaxPanics = 1
  MaxLostResults = 1
INVARIANT OneRunner
PROPERTIES DroppedStaysDropped ImplementsStore EverySettles Drains
