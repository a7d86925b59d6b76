\* One workload of any kind, two jobs, two workers, one edit, one crash and one fault.
SPECIFICATION FairSpec
CONSTANTS
  Kinds = {"service", "database", "application"}
  Jobs = {1, 2}
  Workers = {w1, w2}
  NoWorker = NoWorker
  NoJob = NoJob
  MaxAttempts = 2
  MaxEdits = 1
  MaxCrashes = 1
  MaxFaults = 1
CONSTRAINT Bounded
INVARIANTS StatusFollows
PROPERTIES PersistOnce StatusConverges
\* Every job is over.
CHECK_DEADLOCK FALSE
