SPECIFICATION FairSpec
CONSTANTS
  Clients = {"c1"}
  Handlers = {"h1", "h2"}
  MaxConns = 1
  ChanSize = 2
  RingSize = 2
  WireSize = 1
  NoHandler = "none"
  MaxEvents = 4
  MaxCuts = 1
  MaxRestarts = 1
INVARIANTS InOrderOnce HolesAreAdmitted ServedWithinLimit
PROPERTIES ClientsReturn
CHECK_DEADLOCK FALSE
