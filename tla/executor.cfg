\* One task can have an old run in its callbacks and a new one, or two at work when a
\* verdict has contested it; tasks meet only in the drain and in CancelJob.
SPECIFICATION FairSpec
CONSTANTS
  Tasks = {t1}
  Runs = {r1, r2}
  NoRun = NoRun
  Nodes = 2
  MaxDeaths = 2
  MaxRetries = 2
  MaxCancels = 1
  MaxVerdicts = 1
  t1 = t1
  r1 = r1
  r2 = r2
INVARIANTS OneGraphPerTask DrainedRunsAreSettled  ObsoleteCheckpointIsGone
PROPERTY ShutdownEnds
CHECK_DEADLOCK FALSE
