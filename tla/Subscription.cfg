SPECIFICATION Spec
CONSTANTS
  Key = {k1, k2, k3}
  Null = Null
  MaxEntries = 2
  MaxBytes = 6
  Ttl = 3
  CleanupInterval = 2
  Request = {r1, r2}
  Timeout = 2
  MaxResponseSize = 3
  InitialBuffer = 1
  MCLengths = {3, 4}
  Bodies <- MCBodies
  Growth = {0, 1, 4}
  MaxTime = 5
SYMMETRY Symmetry
INVARIANTS TypeOK ListIsSound BytesAreExact CachedAreWhole ServedIsRecent
PROPERTIES ImplementsLru NoLongStepBack
