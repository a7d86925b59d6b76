\* Two production runs, at once or one after the other, and one of a preview,
\* with a stop, restart or cleanup job in between; the preview has no health check.
SPECIFICATION ContainersSpec
CONSTANTS
  Runs = {1, 2, 4}
  PullRequest <- MCPullRequest
  Recreating = {}
  Unchecked = {4}
  MaxInFlight = 2
  MaxJobs = 1
  NoRun = 0
CONSTRAINT Bounded
PROPERTIES ZeroDowntime NothingStale PreviewsApart
\* Every run ends.
CHECK_DEADLOCK FALSE
