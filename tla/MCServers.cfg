\* Two machines, two jobs of any kind, two workers, one edit, one fault or one visit;
\* MUX_MAX_AGE is shorter than a tick: a master is reused until the next one.
SPECIFICATION Spec
CONSTANTS
  Machines = {m1, m2}
  Hostname = Hostname
  Nowhere = Nowhere
  Jobs = {1, 2}
  Workers = {w1, w2}
  NoWorker = NoWorker
  NoJob = NoJob
  MaxAttempts = 2
  MaxAge = 0
  MaxEdits = 1
  MaxFaults = 1
  MaxVisits = 1
CONSTRAINT Bounded
SYMMETRY Alike
INVARIANTS RowFollows AddressKept
PROPERTIES StaleMasterExpires
\* Every job is over.
CHECK_DEADLOCK FALSE
