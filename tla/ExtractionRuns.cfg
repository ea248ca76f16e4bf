\* Two extractions of a document in two batches; people, and two processes that crash.
SPECIFICATION Spec
CONSTANTS
  LastRun = 2
  LastBatch = 2
  Contents = {1, 2}
  BatchOf <- OneEach
  MaxInterventions = 2
  Processes = {p1, p2}
SYMMETRY ProcessSymmetry
INVARIANTS
  QueueIsReplacedNotEmptied
  DecisionsAreMadeByPeople
  CarriedFromFinishedRuns
  CompletedMeansCovered
  ShownRunningIsAlive
CHECK_DEADLOCK FALSE
