SPECIFICATION Spec
CONSTANTS
  Workers = {w1}
  Clients = {c1}
  Askers = {}
  None = None
  NumItems = 2
  MaxTries = 1
  MaxRetries = 1
  MaxCrashes = 0
  MaxFaults = 0
  MaxOverruns = 0
  MaxEvictions = 0
  DatabaseFails = TRUE
SYMMETRY Symmetry
PROPERTIES
  CancelHonoured
CHECK_DEADLOCK FALSE
