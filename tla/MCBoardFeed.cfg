SPECIFICATION FairSpec
CONSTANTS
  Old = Old
  New = New
  Contract = {Old, New}
  Mortal = {Old}
  Stale = 3
  PollEvery = 2
  Ttl = 3
  Prune = 4
  BackoffMax = 4
  Reply = 3
  Handshake = 2
  None = None
  MaxQuiet = 0
  MaxFaults = 2
INVARIANT NoLongGap
PROPERTIES DelistedGoes SocketComesBack
CHECK_DEADLOCK FALSE
