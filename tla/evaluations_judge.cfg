SPECIFICATION Spec
CONSTANTS
  Requests = {r1, r2}
  MaxConcurrency = 2
  MaxCalls = 1
  Overrides = {o1}
  Default = Default
  None = None
SYMMETRY Symmetry
INVARIANTS
  JudgeHonoursConfig
CHECK_DEADLOCK FALSE
