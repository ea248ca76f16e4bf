\* Commits may be lost in both directions; every safety property that survives it.
SPECIFICATION Spec
CONSTANTS
  Calls = {c1, c2, c3}
  Keys = {k1}
  Requests = {r1, r2}
  Verdicts = {permit, deny}
  NoKey = NoKey
  NoVerdict = NoVerdict
  NoRow = NoRow
  CommitFaults = {"refused", "unacknowledged"}
SYMMETRY CallSymmetry
INVARIANTS
  OneModelRunPerKey
  VerdictAnswersTheRequest
  SameKeySameVerdict
  DecidedIsCitable
CHECK_DEADLOCK FALSE
