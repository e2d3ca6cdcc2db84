SPECIFICATION FairSpec
CONSTANTS
  None = None
  Requested = 1
  WantsStop = TRUE
  WantsTarget = TRUE
  MaxMarks = 9
  MaxExits = 2
  MarketEntry = FALSE
  Timeout = TRUE
  Fallback = FALSE
  Signal = FALSE
  PartialEntry = FALSE
  Overlap = FALSE
  Asked = {"close", "reconcile"}
  FaultKinds = {"nowhere", "list", "reject", "timeout", "edit",
                "drop", "hand", "crash"}
  MaxFaults = 1
  MaxCloseTries = 2
INVARIANT DoneIsDone
PROPERTY NeverQuietlyNaked
PROPERTY ExitsComeOff
PROPERTY CloseFinishes
CHECK_DEADLOCK FALSE
