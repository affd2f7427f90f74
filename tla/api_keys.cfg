SPECIFICATION Spec
CONSTANTS
  Requests = {r1, r2, r3}
  None = None
  Day = 2
  Interval = 1
  MaxDays = 2
  MaxTime = 5
  MaxFaults = 1
SYMMETRY Symmetry
INVARIANTS
  TypeOK
  RevokedStaysOut
  ReplacedBeforeDisabled
  ExpiryInherited
CHECK_DEADLOCK FALSE
