SPECIFICATION Spec
CONSTANTS
  Requests = {r1, r2, r3, r4, r5}
  MaxRequests = 2
  FailClosed = FALSE
  MaxWindows = 3
  MaxFaults = 2
SYMMETRY Symmetry
INVARIANTS
  TypeOK
  NoOverAdmission
  NoEarlyRefusal
  Tended
PROPERTY ChecksAtomically
CHECK_DEADLOCK FALSE
