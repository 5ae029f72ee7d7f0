SPECIFICATION FairSpec
CONSTANTS
  Mod = 8
  SduLen <- ShortPair
  Start = 7
  MaxFlight = 1
  Overtaking = FALSE
  QueueSize = 2
  MaxWindow = 0
  PollPdu = 0
  PollByte = 0
  MaxRetxThresh = 2
  MaxDlPdu = 9
  Refusals = FALSE
  MaxSnPerStatus = 2
  PullRefusals = FALSE
  MaxUpdates = 1
  MaxGrant = 1
  MaxFit = 0
PROPERTY ExpiryIsFollowedByPoll
CHECK_DEADLOCK FALSE
