SPECIFICATION Spec
CONSTANTS
  Workers = {w1, w2}
  Clients = {c1}
  Askers = {}
  None = None
  NumItems = 2
  MaxTries = 2
  MaxRetries = 2
  MaxCrashes = 1
  MaxFaults = 1
  MaxOverruns = 0
  MaxEvictions = 1
  DatabaseFails = TRUE
SYMMETRY Symmetry
INVARIANTS
  TypeOK
  BatchIsExact
  CancelBound
  CompletedMeansPublished
CHECK_DEADLOCK FALSE
