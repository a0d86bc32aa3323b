SPECIFICATION Spec
CONSTANTS
  Request = {r1, r2}
  Shape <- MCShape
  NoShape = NoShape
  MaxAttempts = 2
  MaxRetries = 1
  MaxEarlyData = 2
  Env = {"e1", "e2", "e3"}
  Key = {"a", "b"}
  KeyOf <- MCKeyOf
  MaxEnvCacheEntries = 1
  MaxConnPerIp = 1
  MaxManagers = 1
INVARIANTS TypeOK SocketsAreClosed HoldersAreExact AnswerNeverAborted
PROPERTIES ImplementsExchange
CHECK_DEADLOCK FALSE
