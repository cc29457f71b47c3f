SPECIFICATION Spec
CONSTANTS
  MinClassSize = 2
  NumClasses = 3
  HugePageSize = 4
  Sizings <- MCSizings
INVARIANTS
  TypeOK
  BuffersAreApart
  NeverShort
  NothingLost
CHECK_DEADLOCK FALSE
