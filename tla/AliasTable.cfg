SPECIFICATION Spec
CONSTANTS
  MaxSize = 4
  MaxWeight = 4
  One = 10
CHECK_DEADLOCK FALSE
INVARIANTS TypeOK SharesAreProportional
