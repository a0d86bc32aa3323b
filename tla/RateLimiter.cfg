SPECIFICATION Spec
CONSTANTS
  IP = {i1, i2}
  Conn = {c1, c2, c3}
  NoIp = NoIp
  MaxConnPerIp = 2
  MaxConnPerMin = 2
  OneMinute = 3
  OneSecond = 1
  CleanupInterval = 2
  ConcurrentRetryAfter = 3
  MaxTime = 6
SYMMETRY Symmetry
INVARIANTS TypeOK ExactAccounting RetryAfterIsClose WindowBound
PROPERTY ImplementsTokenBucket
