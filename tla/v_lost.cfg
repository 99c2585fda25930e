SPECIFICATION FairSpec
CONSTANTS
  MaxTasks = 8
  MaxDecomposeDepth = 1
  MaxRuns = 5
  EventChSize = 4
  MaxKids = 2
  Links = {"none"}
  Verdicts = {"graph"}
  RunsMayFail = FALSE
  Budgets <- OneMessage
PROPERTIES JobEnds
CHECK_DEADLOCK FALSE
