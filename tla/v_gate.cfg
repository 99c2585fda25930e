SPECIFICATION FairSpec
CONSTANTS
  Calls = {"m1"}
  NoTurn = "none"
  EventChSize = 1
  MaxSwaps = 1
  MaxEvents = 0
  MaxTexts = 0
PROPERTIES GateOpens
CHECK_DEADLOCK FALSE
