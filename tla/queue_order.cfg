SPECIFICATION Spec
CONSTANTS
  Ids = {a, b, c}
  Hashes = {H1}
  ConsumedLimit = 2
  MaxPushes = 4
  MaxRequeues = 1
  MaxTakes = 2
  MaxOpen = 1
SYMMETRY Symmetry
INVARIANT Fifo
CHECK_DEADLOCK FALSE
