SPECIFICATION Spec
CONSTANTS
  MaxLen = 4
INVARIANTS
  TypeOK
  Attributable
  RangeIsKept
  NothingLost
CHECK_DEADLOCK FALSE
