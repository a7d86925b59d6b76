\* Two deployments of one application, with a crash and a database error, each
\* at any moment; a job that meets the error is retried.
SPECIFICATION FairSpec
CONSTANTS
  Deps = {1, 2}
  a = a
  b = b
  Apps <- MCApps
  AppOf <- MCAppOf
  Workers = {w1, w2}
  NoWorker = NoWorker
  NoJob = NoJob
  ConcurrentBuilds = 1
  MaxAttempts = 2
  MaxRestarts = 1
  MaxStops = 0
  MaxDbErrors = 1
  MaxSshLosses = 0
INVARIANTS DoneMeansOver NoneForgotten
PROPERTY EveryDeploymentEnds
\* The system stops when every request is served.
CHECK_DEADLOCK FALSE
