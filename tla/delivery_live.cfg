SPECIFICATION LiveSpec
CONSTANTS
  m1 = m1
  p1 = p1
  p2 = p2
  Messages = {m1}
  Procs = {p1, p2}
  MaxDrops = 0
  MaxOps = 1
  MaxSteers = 1
  MaxResends = 0
  MaxAborts = 0
PROPERTIES QueuedSettles OpsAnswered
CHECK_DEADLOCK FALSE
