SPECIFICATION LiveSpec
CONSTANTS
  k1 = k1
  k2 = k2
  Key = {k1, k2}
  First = k1
  None = None
  Capacity = 2
  MaxEvents = 4
  MaxCuts = 1
INVARIANTS TypeOK NothingSkipped 
 
CHECK_DEADLOCK FALSE
