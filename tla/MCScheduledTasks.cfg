\* Two tasks, the second one of a service, two executions, one worker, a clock of three seconds, and one edit,
\* restart or failure.
SPECIFICATION FairSpec
CONSTANTS
  Tasks = {1, 2}
  ServiceTasks = {2}
  Execs = {1, 2}
  Workers = {w1}
  NoWorker = NoWorker
  NoTask = NoTask
  NoExec = NoExec
  MaxSeconds = 2
  MinuteOf <- MCMinuteOf
  DueMinutes <- MCDueMinutes
  Tries = 2
  Retention = 1
  MaxAttempts = 2
  MaxTriggers = 1
  MaxEdits = 1
  MaxRestarts = 1
  MaxDbErrors = 1
  MaxSshLosses = 1
  MaxEvents = 1
INVARIANTS OncePerMinute OutcomeIsReal
PROPERTIES EveryExecutionEnds
\* The clock stops at its bound.
CHECK_DEADLOCK FALSE
