\* Three deployments of two applications, two workers and one build slot, and
\* either a shutdown or one remote command whose answer is not seen.
SPECIFICATION Spec
CONSTANTS
  Deps = {1, 2, 3}
  a = a
  b = b
  Apps <- MCApps
  AppOf <- MCAppOf
  Workers = {w1, w2}
  NoWorker = NoWorker
  NoJob = NoJob
  ConcurrentBuilds = 1
  MaxAttempts = 2
  MaxRestarts = 0
  MaxStops = 1
  MaxDbErrors = 0
  MaxSshLosses = 1
SYMMETRY Symmetry
CONSTRAINT OneFault
INVARIANTS AdmittedOnce HelperOwned StopIsClean
PROPERTY LegalTransitions
\* The system stops when every request is served or the workers have left.
CHECK_DEADLOCK FALSE
