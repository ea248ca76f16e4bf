\* Two projects that share two documents, deleted side by side.
SPECIFICATION Spec
CONSTANTS
  Projects = {p1, p2}
  Documents = {d1, d2}
  None = None
  Faults = {}
SYMMETRY Symmetry
INVARIANTS
  TypeOK
  SharedSourceStays
  CleanMeansGone
PROPERTIES
  OthersEvidenceStays
  RetainedStaysSearchable
CHECK_DEADLOCK FALSE
