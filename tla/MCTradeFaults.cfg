SPECIFICATION Spec
CONSTANTS
  None = None
  Requested = 2
  WantsStop = TRUE
  WantsTarget = TRUE
  MaxMarks = 6
  MaxExits = 2
  MarketEntry = FALSE
  Timeout = TRUE
  Fallback = TRUE
  Signal = TRUE
  PartialEntry = TRUE
  Overlap = FALSE
  Asked = {"close", "cancel"}
  FaultKinds = {"read", "nowhere", "list", "reject", "empty", "timeout",
                "cancel", "edit", "drop", "hand", "crash"}
  MaxFaults = 1
  MaxCloseTries = 2
INVARIANT TypeOK
INVARIANT OneOfEach
INVARIANT BookedIsReal
PROPERTY NeverForgets
CHECK_DEADLOCK FALSE
