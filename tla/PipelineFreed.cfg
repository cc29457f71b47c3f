SPECIFICATION Spec
CONSTANTS
  Setups <- MCSetupsTooMuch
  IntMax = 511
  UlongMax = 1023
INVARIANT RegisterAfterAllocation
CHECK_DEADLOCK FALSE
