SPECIFICATION Spec
CONSTANTS
  Initial = 1
  Page = 2
  Visible = 3
  History = 4
  Older = 4
  MaxMessages = 5
  Stored = 3
  MaxCuts = 1
  MaxRewinds = 0
  MaxFailures = 0
  MaxScrolls = 0
INVARIANTS HeadReached
CHECK_DEADLOCK FALSE
