SPECIFICATION FairSpec
CONSTANTS
  Requests = {r1, r2, r3}
INVARIANTS
  TypeOK
  OneCreator
  AnsweredIsCounted
  EvaluationIsAnswered
PROPERTIES
  FirstUseEnds
CHECK_DEADLOCK FALSE
