SPECIFICATION Spec
CONSTANTS
  None = None
  Requested = 1
  WantsStop = TRUE
  WantsTarget = TRUE
  MaxMarks = 9
  MaxExits = 2
  MarketEntry = FALSE
  Timeout = TRUE
  Fallback = FALSE
  Signal = FALSE
  PartialEntry = FALSE
  Overlap = FALSE
  Asked = {"cancel"}
  FaultKinds = {}
  MaxFaults = 0
  MaxCloseTries = 2
INVARIANT AbortedHeldNothing
CHECK_DEADLOCK FALSE
