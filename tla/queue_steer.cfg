SPECIFICATION Spec
CONSTANTS
  Ids = {a, b}
  Hashes = {H1, H2}
  ConsumedLimit = 1
  MaxPushes = 4
  MaxRequeues = 1
  MaxTakes = 2
  MaxOpen = 2
SYMMETRY Symmetry
INVARIANTS
  TypeOK
  ItemInOnePlace
  LiveHandleIsMapped
  HeldNeverReplayed
  DeliveredOnce
  
  DiscardedNeverQueued
  WaiterNotStranded
CHECK_DEADLOCK FALSE
