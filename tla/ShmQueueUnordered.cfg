\* __collect_tx_pkts as consumer; the tail may be visible before the slot it publishes.
CONSTANTS
  Size = 4
  Buffers = {b1, b2, b3}
  Null = Null
  Threshold = 0
  Ordered = FALSE
SPECIFICATION Spec
INVARIANT LoadsAfterStore
