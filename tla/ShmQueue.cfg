\* The worker as consumer; stores become visible in program order.
CONSTANTS
  Size = 4
  Buffers = {b1, b2, b3}
  Null = Null
  Threshold = 1
  Ordered = TRUE
SPECIFICATION FairSpec
INVARIANTS
  TypeOK
  SizeIsKept
PROPERTIES
  Drains
  FifoSpec
