SPECIFICATION Spec
CONSTANTS
  Workers = {w1, w2}
  Clients = {}
  Askers = {a1}
  None = None
  NumItems = 2
  MaxTries = 2
  MaxRetries = 2
  MaxCrashes = 1
  MaxFaults = 1
  MaxOverruns = 1
  MaxEvictions = 0
  DatabaseFails = TRUE
SYMMETRY Symmetry
INVARIANTS
  BatchIsExact
  CountersMatchRuns
PROPERTIES
  RedeliveryIsIdempotent
  GateFailsForCause
  KeepsLedger
CHECK_DEADLOCK FALSE
