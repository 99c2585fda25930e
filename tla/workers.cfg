SPECIFICATION FairSpec
CONSTANTS
  Sessions = {"s1", "s2"}
  NoSession = "none"
  Capacity = 1
  MaxDepth = 1
  Watched = {"s1"}
  MaxTurns = 2
  MaxLingering = 1
  MaxCancels = 1
INVARIANTS SlotsAreHeld OrphansAreCancelled SuccessIsCompletion ShutdownLeavesNobody
PROPERTIES CancelledSessionsEnd SessionsEnd
CHECK_DEADLOCK FALSE
