SPECIFICATION FairSpec
CONSTANTS
  MItems <- MCItems
  Milli = 1
  Clock = {2}
  ReqTime = {1, 3}
  Isu <- MCIsu
  Count <- MCCount
  Handler = {h1}
  Delay = 1
  Period = 0
  MaxClicks = 0
  MaxBuys = 1
  MaxOthers = 1
  MaxFaults = 1
  MaxOnWay = 1
PROPERTIES BuyEnds 
CHECK_DEADLOCK FALSE
