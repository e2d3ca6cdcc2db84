SPECIFICATION Spec
CONSTANTS
  Large = Large
  Small = Small
  Trade = {Large, Small}
  Lots <- Sizes
  None = None
  Buttons = {Large, Small}
  MaxHand = 1
  MaxBadReads = 2
  MaxFailed = 1
  MaxCrash = 1
CONSTRAINT FewFaults
INVARIANT TypeOK
PROPERTIES WrittenOffFlat SiblingsLeftAlone StartKeepsShares
CHECK_DEADLOCK FALSE
