SPECIFICATION Spec
CONSTANTS
  Conn = {c1, c2, c3, c4}
  UUID = {u1, u2}
  IP = {i1, i2, i3}
  NoUuid = NoUuid
  NoIp = NoIp
  MaxConnections = 2
  MaxConnPerIp = 2
SYMMETRY Symmetry
INVARIANTS TypeOK TrackedAreLive TrackedWithinCap SlotsAreExact ReentrantCallsAgree
PROPERTY TrackedIsReplaced
