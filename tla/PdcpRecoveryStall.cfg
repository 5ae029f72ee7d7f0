SPECIFICATION FairSpec
CONSTANTS
  SnMod = 8
  CountMod = 32
  RlcSduQueue = 2
  QueueSize = 2
  RlcWindow = 2
  Start = 6
  MaxCountHard = 9
  FiniteDiscard = FALSE
  StatusReports = TRUE
  F1uLoss = FALSE
  MaxMessages = 2
  MaxReports = 1
  MaxReests = 1
PROPERTY SendingResumes
CHECK_DEADLOCK FALSE
