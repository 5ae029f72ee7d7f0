SPECIFICATION Spec
CONSTANTS
  Mod = 6
  SduLen <- TwoSdus
  Start = 5
  MaxFlight = 2
  Overtaking = TRUE
  QueueSize = 2
  MaxWindow = 1
  PollPdu = 2
  PollByte = 0
  MaxRetxThresh = 1
  MaxDlPdu = 9
  Refusals = TRUE
  MaxSnPerStatus = 3
  PullRefusals = FALSE
  MaxUpdates = 1
  MaxGrant = 1
  MaxFit = 1
INVARIANTS TypeOK NoFailure RetxIsOfSentBytes RxStateOrdered WindowsAgree NoLostWakeup NoSilentStall
PROPERTY ServiceSpec
CHECK_DEADLOCK FALSE
