SPECIFICATION Spec
CONSTANTS
  SnMod = 4
  CountMod = 16
  RlcSduQueue = 2
  QueueSize = 2
  RlcWindow = 2
  Start = 2
  MaxCountHard = 5
  FiniteDiscard = TRUE
  StatusReports = TRUE
  F1uLoss = TRUE
  MaxMessages = 3
  MaxReports = 1
  MaxReests = 2
INVARIANTS StateOrdered InOrderDelivery NothingLost
CHECK_DEADLOCK FALSE
