SPECIFICATION FairSpec
CONSTANTS
  Asks = {"op", "node"}
  OperatorAsks = {"op"}
  Calls = {c1, c2}
  NoCall = NoCall
  MaxRestarts = 1
INVARIANTS OneAnswerIsAccepted QueueHasAskers OutcomesAreTransient UncontestedOutcomeIsRecorded
PROPERTIES CallsReturn WaitsEnd
CHECK_DEADLOCK FALSE
