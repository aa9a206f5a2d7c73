SPECIFICATION Spec
CONSTANTS
  m1 = m1
  p1 = p1
  p2 = p2
  Messages = {m1}
  Procs = {p1, p2}
  MaxDrops = 1
  MaxOps = 1
  MaxSteers = 1
  MaxResends = 1
  MaxAborts = 1
INVARIANTS TypeOK InvokedWasTaken UnprovenNotQueued  TakenOncePerProcess
CHECK_DEADLOCK FALSE
