SPECIFICATION FairSpec
CONSTANTS
  s4h = s4h
  s5m = s5m
  x = x
  y = y
  z = z
  a1 = a1
  a2 = a2
  Signal = {s4h, s5m}
  Strategy = {x, y, z}
  Account = {a1, a2}
  Idle = Idle
  TfSec <- MCTfSec
  SideOf <- MCSideOf
  AccountOf <- MCAccountOf
  Takes <- MCTakes
  List <- MCList
  Reentry = {a1}
  Entries = 2
  MaxOpen = 3
  Cap = 4
  SideCap = 2
  Answering = {a1}
  MaxTurns = 3
  TicketUsed = {a1}
  Switched = {x}
  MaxFaults = 1
INVARIANTS TypeOK CapsHeld NeverMultiply
PROPERTIES SoldOnce LongestFirst OwnLine
CHECK_DEADLOCK FALSE
