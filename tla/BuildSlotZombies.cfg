\* A builder that outlives its lease, and a project deleted under its build.
SPECIFICATION FairSpec
CONSTANTS
  Builders = {b1, b2}
  Projects = {p1, p2}
  SlowBuilders = {b1}
  DeletableProjects = {p1}
  CommitFaults = {"refused", "unacknowledged"}
INVARIANTS LiveBuildKeepsTheSlot
PROPERTIES HistoryIsFinal DeadBuildsReleaseTheSlot
CHECK_DEADLOCK FALSE
