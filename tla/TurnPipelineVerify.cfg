\* Are answers verified when tools were used?
SPECIFICATION Spec
CONSTANTS
  MaxIterations = 3
  MaxCorrections = 2
  MaxBatch = 1
  MaxMessages = 5
  MaxTurns = 1
INVARIANT ToolAnswersVerified
CHECK_DEADLOCK FALSE
