SPECIFICATION Spec
CONSTANTS
  Conn = {c1, c2, c3}
  UUID = {u1}
  IP = {i1}
  NoUuid = NoUuid
  NoIp = NoIp
  MaxConnections = 2
  MaxConnPerIp = 3
INVARIANT SameIpReplaced
