SPECIFICATION Spec
CONSTANTS
  NBackends = 2
  FailureCap = 1
  SuccessCap = 2
  MaxPending = 1
  Configs <- MCLiveConfigs
  Request = {r1, r2}
  MaxAttempts = 2
PROPERTIES RecoveredReturns ChecksKeepRunning RequestAnswered
