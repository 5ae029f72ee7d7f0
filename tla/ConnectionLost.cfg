SPECIFICATION Spec
CONSTANTS
  QueueSize = 2
  MaxAnswers = 2
  PathFailures = TRUE
PROPERTY TxResetShutsRx
CHECK_DEADLOCK FALSE
