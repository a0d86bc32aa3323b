SPECIFICATION Spec
CONSTANTS
  Conn = {c1, c2, c3}
  UUID = {u1}
  IP = {i1, i2, i3}
  NoUuid = NoUuid
  NoIp = NoIp
  MaxConnections = 1
  MaxConnPerIp = 1
INVARIANT LiveWithinCap
