SPECIFICATION FairSpec
CONSTANTS
  None = None
  Requested = 1
  WantsStop = TRUE
  WantsTarget = TRUE
  MaxMarks = 9
  MaxExits = 2
  MarketEntry = FALSE
  Timeout = TRUE
  Fallback = FALSE
  Signal = FALSE
  PartialEntry = FALSE
  Overlap = FALSE
  Asked = {}
  FaultKinds = {"list", "reject", "edit", "drop"}
  MaxFaults = 2
  MaxCloseTries = 2
PROPERTY NeverQuietlyNaked
PROPERTY CatchesUp
PROPERTY EntryGivesUp
CHECK_DEADLOCK FALSE
