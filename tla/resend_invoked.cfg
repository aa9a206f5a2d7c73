SPECIFICATION Spec
CONSTANTS
  m1 = m1
  p1 = p1
  p2 = p2
  Messages = {m1}
  Procs = {p1, p2}
  MaxDrops = 0
  MaxOps = 0
  MaxSteers = 0
  MaxResends = 1
  MaxAborts = 0
PROPERTIES InvokedNeverQueued
CHECK_DEADLOCK FALSE
