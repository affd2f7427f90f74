SPECIFICATION Spec
CONSTANTS
  Workers = {w1}
  Clients = {}
  Askers = {}
  None = None
  NumItems = 1
  MaxTries = 2
  MaxRetries = 2
  MaxCrashes = 0
  MaxFaults = 1
  MaxOverruns = 0
  MaxEvictions = 0
  DatabaseFails = TRUE
SYMMETRY Symmetry
PROPERTIES
  CompletedStays
CHECK_DEADLOCK FALSE
