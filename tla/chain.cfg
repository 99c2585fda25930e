SPECIFICATION Spec
CONSTANTS
  MaxTasks = 7
  MaxDecomposeDepth = 1
  MaxRuns = 4
  EventChSize = 2
  MaxKids = 3
  Links = {"chain", "none"}
  Verdicts = {"graph"}
  RunsMayFail = FALSE
  Budgets <- OneMessage
INVARIANTS RunsAfterDependencies DecomposesAfterDependencies OneRunPerTask CompletedJobHasNoWork
CHECK_DEADLOCK FALSE
