SPECIFICATION BoundedSpec
CONSTANTS
  MItems <- MCItems
  Milli <- MCMilli
  Clock <- MCClock
  ReqTime <- MCReqTime
  Isu <- MCIsu
  Count <- MCCount
INVARIANT NeverNegative
