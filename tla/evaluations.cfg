SPECIFICATION FairSpec
CONSTANTS
  Requests = {r1, r2, r3}
  MaxConcurrency = 2
  MaxCalls = 2
  Overrides = {o1, o2}
  Default = Default
  None = None
INVARIANTS
  TypeOK
  BoundedConcurrency
  
PROPERTIES
  BusyMeansFull
  NoSessionOnlyInFirstUse
  Answered
CHECK_DEADLOCK FALSE
