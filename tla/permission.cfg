SPECIFICATION LiveSpec
CONSTANTS
  Req = {r1, r2}
  Proc = {p1}
  None = None
  MaxCuts = 1
  MaxCancels = 1
INVARIANTS TypeOK NoHiddenWait AnswersReachTheProcess
PROPERTIES AnswerIsRecorded AskedIsShown
CHECK_DEADLOCK FALSE
