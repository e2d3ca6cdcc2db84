SPECIFICATION FairSpec
CONSTANTS
  A = A
  B = B
  Trade = {A, B}
  Stop <- MCStop
  Top = 2
  Run <- MCRun
  Confirm = 1
  None = None
  MaxTrouble = 1
INVARIANT ClosedOnce
PROPERTIES UnbrokenLooks StopActs
CHECK_DEADLOCK FALSE
