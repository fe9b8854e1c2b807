SPECIFICATION Spec
ACTION_CONSTRAINT Bound
SYMMETRY Symmetry
CONSTANTS
  MItems <- MCItems
  Milli = 1
  Clock <- MCClock
  ReqTime <- MCReqTime
  Isu <- MCIsu
  Count <- MCCount
  Handler = {h1, h2}
  Delay = 1
  Period = 1
  MaxClicks = 2
  MaxBuys = 1
  MaxOthers = 0
  MaxFaults = 1
  MaxOnWay = 1
INVARIANTS PendingHasCause OneLoop ReadYourWrites
PROPERTY DisplayMonotone
CHECK_DEADLOCK FALSE
