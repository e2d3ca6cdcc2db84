SPECIFICATION FairTermSpec
CONSTANTS
  p1 = p1
  p2 = p2
  p3 = p3
  Proc = {p1, p2, p3}
  NoProc = NoProc
  Steady = {p2}
  Heartbeat = 1
  Fresh = 3
  Stale = 6
  Keep = 5
  ReplyDelay = 1
  ThawInTakeover = FALSE
INVARIANT OneDesk
PROPERTIES TermsInTurn HolderNotDeposed DeskComesBack
CHECK_DEADLOCK FALSE
