SPECIFICATION Spec
CONSTANTS
  Initial = 1
  Page = 1
  Visible = 3
  History = 4
  Older = 4
  MaxMessages = 5
  Stored = 3
  MaxCuts = 1
  MaxRewinds = 1
  MaxFailures = 1
  MaxScrolls = 1
INVARIANTS TypeOK NoHole NoGhost ProvisionalEnds SyncingIsRunning
PROPERTIES LoadedStays
CHECK_DEADLOCK FALSE
