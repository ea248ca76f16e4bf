SPECIFICATION Spec
CONSTANTS
  Builders = {b1, b2}
  Projects = {p}
  SlowBuilders = {}
  DeletableProjects = {}
  CommitFaults = {}
  MaxVersion = 2
  Parts = {d1, d2}
  Validators = {}
  Queries = {}
  SearchFaults = {"rejected", "unanswered"}
SYMMETRY Interchangeable
INVARIANTS OneBuildAtATime AnswerableIsWhole BuiltIsAnswerable RecordNeverRunsAhead
PROPERTIES WrittenOnlyWhileUnanswerable SlotProtocol
CHECK_DEADLOCK FALSE
