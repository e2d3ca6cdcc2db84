SPECIFICATION Spec
CONSTANTS
  Day = 3
  Exit = 1
  Grace = 1
  RunDays = {0, 1}
  Legs = {CE}
  Entry = 2
  Start = 2
  Sessions <- MCSessions
  Looks = 1
  None = None
  MaxNow = 5
  EditTimes = {0, 2}
  MaxUpsets = 1
PROPERTY StaysStopped
CHECK_DEADLOCK FALSE
