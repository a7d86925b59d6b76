\* Up to three executions, two workers, two policies, a clock of three seconds, and
\* one edit, restart or failure.
SPECIFICATION Spec
CONSTANTS
  Execs = {1, 2, 3}
  Workers = {w1, w2}
  NoWorker = NoWorker
  NoExec = NoExec
  NoFile = NoFile
  Absent = Absent
  Partial = Partial
  Policies <- MCPolicies
  Sizes = {2}
  DueMinutes = {0, 1}
  MaxSeconds = 2
  MinuteOf <- MCMinuteOf
  MaxAttempts = 2
  MaxUpdates = 1
  MaxRestarts = 1
  MaxDbErrors = 1
  MaxSshLosses = 1
  MaxEvents = 1
SYMMETRY Symmetry
CONSTRAINT Bounded
INVARIANTS OncePerMinute PromisedCopyIsThere
PROPERTIES LastBackupKept PrunedLeavesNothing
\* The clock stops at its bound.
CHECK_DEADLOCK FALSE
