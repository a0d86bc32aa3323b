SPECIFICATION DetachedSpec
CONSTANTS
  NBackends = 2
  FailureCap = 1
  SuccessCap = 2
  MaxPending = 1
  Configs <- MCConfigs
  Request = {r1}
  MaxAttempts = 2
  Nobody = Nobody
PROPERTIES ChecksKeepRunning
