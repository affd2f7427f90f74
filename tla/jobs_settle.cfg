SPECIFICATION FairSpec
CONSTANTS
  Workers = {w1}
  Clients = {c1}
  Askers = {}
  None = None
  NumItems = 1
  MaxTries = 3
  MaxRetries = 3
  MaxCrashes = 1
  MaxFaults = 1
  MaxOverruns = 0
  MaxEvictions = 1
  DatabaseFails = FALSE
PROPERTIES
  Settles
CHECK_DEADLOCK FALSE
