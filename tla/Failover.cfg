SPECIFICATION SafetySpec
CONSTANTS
  NBackends = 2
  FailureCap = 1
  SuccessCap = 2
  MaxPending = 2
  Configs <- MCConfigs
  Request = {r1, r2}
  MaxAttempts = 3
SYMMETRY Symmetry
INVARIANTS TypeOK TableFresh HealthyIffNoFailures HealthyIsVindicated
PROPERTIES FailoverIsExhaustive UnhealthyIsLastResort
