\* One task, nobody cancels anything.
SPECIFICATION FairSpec
CONSTANTS
  Tasks = {t1}
  Runs = {r1}
  NoRun = NoRun
  Nodes = 2
  MaxDeaths = 0
  MaxRetries = 0
  MaxCancels = 0
  MaxVerdicts = 0
  t1 = t1
  r1 = r1
PROPERTY ShutdownLeavesResumable
CHECK_DEADLOCK FALSE
