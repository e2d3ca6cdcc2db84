SPECIFICATION Spec
CONSTANTS
  None = None
  Requested = 2
  WantsStop = TRUE
  WantsTarget = TRUE
  MaxMarks = 8
  MaxExits = 2
  MarketEntry = FALSE
  Timeout = TRUE
  Fallback = TRUE
  Signal = TRUE
  PartialEntry = FALSE
  Overlap = FALSE
  Asked = {"close", "part", "reconcile"}
  FaultKinds = {"list", "reject", "edit", "drop", "hand"}
  MaxFaults = 1
  MaxCloseTries = 2
INVARIANT SentAlone
INVARIANT CloseRestsAlone
INVARIANT DoneIsDone
INVARIANT SoldOnce
CHECK_DEADLOCK FALSE
