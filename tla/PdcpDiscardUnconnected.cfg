SPECIFICATION Spec
CONSTANTS
  SnMod = 8
  CountMod = 32
  RlcSduQueue = 2
  QueueSize = 2
  RlcWindow = 2
  Start = 6
  MaxCountHard = 9
  FiniteDiscard = TRUE
  StatusReports = FALSE
  F1uLoss = FALSE
  MaxMessages = 2
  MaxReports = 1
  MaxReests = 1
INVARIANT DiscardFindsF1u
CHECK_DEADLOCK FALSE
