SPECIFICATION LiveSpec
CONSTANTS
  m1 = m1
  m2 = m2
  p1 = p1
  Messages = {m1, m2}
  Procs = {p1}
  MaxDrops = 1
  MaxOps = 0
  MaxSteers = 0
  MaxResends = 0
  MaxAborts = 0
PROPERTIES PromptReachesProcess
CHECK_DEADLOCK FALSE
