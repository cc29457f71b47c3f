SPECIFICATION FairSpec
CONSTANTS
  RqDepth = 4
  CqDepth = 4
  ChannelTypes <- MCChannelTypes
INVARIANTS
  TypeOK
  OwnerBitTells
  ReleasedOnce
  NothingDangles
  CopyIsCurrent
  ChannelGone
  RuleWholeOrNone
PROPERTIES
  PriorServed
CHECK_DEADLOCK FALSE
