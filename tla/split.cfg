SPECIFICATION Spec
CONSTANTS
  MaxTasks = 6
  MaxDecomposeDepth = 1
  MaxRuns = 2
  EventChSize = 2
  MaxKids = 2
  Links = {"none","chain","cycle"}
  Verdicts = {"graph","no_graph","split","nothing"}
  RunsMayFail = TRUE
  Budgets <- Tools
INVARIANTS DepthIsCapped OperatorRunsSerially
PROPERTIES NoRevival
CHECK_DEADLOCK FALSE
