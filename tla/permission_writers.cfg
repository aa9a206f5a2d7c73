SPECIFICATION Spec
CONSTANTS
  Req = {r1}
  Proc = {p1, p2}
  None = None
  MaxCuts = 1
  MaxCancels = 1
INVARIANTS MirrorIsRow 
 
CHECK_DEADLOCK FALSE
