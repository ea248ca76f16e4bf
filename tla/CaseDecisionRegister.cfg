\* Each Idempotency-Key is a register that is settled once, and is settled.
SPECIFICATION FairSpec
CONSTANTS
  Calls = {c1, c2}
  Keys = {k1}
  Requests = {r1, r2}
  Verdicts = {permit, deny}
  NoKey = NoKey
  NoVerdict = NoVerdict
  NoRow = NoRow
  CommitFaults = {"refused"}
INVARIANTS
  ShownStaysCitable
PROPERTIES
  KeysAreRegisters
  PendingIsSettled
CHECK_DEADLOCK FALSE
