SPECIFICATION Spec
CONSTANTS
  Setups <- MCSetupsChain
  IntMax = 511
  UlongMax = 1023
INVARIANT ConnectsAsListed
CHECK_DEADLOCK FALSE
