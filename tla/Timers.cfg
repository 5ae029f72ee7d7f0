SPECIFICATION FairSpec
CONSTANTS
  t1 = t1
  t2 = t2
  Timers <- TwoTimers
  Reserved <- Pooled
  Durations <- LapDurations
  WheelSize = 2
  TimeMod = 8
  ExecCapacity = 1
  MaxCmdId <- MCMaxCmdId
INVARIANTS TypeOK ExpiryFindsRunning NoLostTimeout ExpiresOnTime PooledIsAtRest BackendPointersValid
PROPERTY TimeoutDelivered
CHECK_DEADLOCK FALSE
