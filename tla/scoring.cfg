SPECIFICATION Spec
CONSTANTS
  Metrics = {m1, m2, m3}
  Error = Error
  NoText = NoText
  Quotes = {q1, q2}
  Ids = {i1, i2}
  Blank = Blank
  MaxCalls = 3
  MaxScore = 2
  MaxWeight = 3
SYMMETRY Symmetry
INVARIANTS
  TypeOK
  AverageWhenComplete
  MissingIsNotZero
  GatesAgree
  JobGateSpeaksForRuns
  RegressionIsGate
  ComparisonTurnsAround
  OutageNeverHelps
  SourcesAreMonotone
CHECK_DEADLOCK FALSE
