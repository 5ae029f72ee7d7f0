SPECIFICATION Spec
CONSTANTS
  QueueSize = 2
  MaxAnswers = 2
  PathFailures = TRUE
INVARIANTS TypeOK LossIsLastRxTask RemovedIsQuiet FlagMatchesPaths
PROPERTIES SetupResolves StopCompletes ShutdownIsNoticed
CHECK_DEADLOCK FALSE
