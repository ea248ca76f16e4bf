SPECIFICATION Spec
CONSTANTS
  LastRun = 2
  LastBatch = 1
  Contents = {1}
  BatchOf <- OneEach
  MaxInterventions = 2
  Processes = {p1}
PROPERTY HumanDecisionStands
CHECK_DEADLOCK FALSE
