\* Two deployments of production, at once or one after the other, the first
\* of them attempted once or twice.
SPECIFICATION Spec
CONSTANTS
  Apps <- MCApps
  Deployments = {1, 2}
  Runs = {1, 2, 3}
  DeploymentOf <- MCDeploymentOf
  Slots = 2
  PullOf <- MCPullOf
  MaxCommit = 2
  BuildServers = {1}
  Pinned = 1
  Forced = {2}
  MaxPushes = 1
  MaxPrunes = 1
  MaxTokenLosses = 1
  MaxDeaths = 1
  MaxEdits = 1
  MaxEvents = 2
CONSTRAINT Bounded
INVARIANTS CommitIsCurrent  FilesOfItsCommit MissingNeedsPrune
CHECK_DEADLOCK FALSE
