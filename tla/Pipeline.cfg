SPECIFICATION FairSpec
CONSTANTS
  Setups <- MCSetups
  IntMax = 511
  UlongMax = 1023
INVARIANTS
  TypeOK
  QuotaConserved
  GaveBack
  ParamsAreLive
  RunningIsWired
  RoutesAgree
PROPERTIES
  StartupSettles
  NoHostStranded
  HostsLearn
CHECK_DEADLOCK FALSE
