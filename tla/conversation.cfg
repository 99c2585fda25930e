SPECIFICATION FairSpec
CONSTANTS
  Calls = {"m1", "m2"}
  NoTurn = "none"
  EventChSize = 2
  MaxSwaps = 1
  MaxEvents = 1
  MaxTexts = 2
INVARIANTS TurnTextIsLabelled GateCoversTurn RepliesRecordedOnce
PROPERTIES ServedTurnOpensGate
CHECK_DEADLOCK FALSE
