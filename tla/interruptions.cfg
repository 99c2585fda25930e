SPECIFICATION FairSpec
CONSTANTS
  MaxTasks = 4
  MaxDecomposeDepth = 1
  MaxRuns = 2
  EventChSize = 2
  MaxKids = 1
  Links = {"none"}
  Verdicts = {"graph","no_graph"}
  RunsMayFail = TRUE
  Budgets <- Interruptions
INVARIANTS InProgressIsOwned
PROPERTIES StartedTasksFinish RecoveryAdvances LifecycleSpec
CHECK_DEADLOCK FALSE
