\* A validation and a case query beside a rebuild.
SPECIFICATION Spec
CONSTANTS
  Builders = {b1}
  Projects = {p}
  SlowBuilders = {}
  DeletableProjects = {}
  CommitFaults = {}
  MaxVersion = 2
  Parts = {d1}
  Validators = {v}
  Queries = {q}
  SearchFaults = {"rejected"}
INVARIANT ReadyWasBuilt
CHECK_DEADLOCK FALSE
