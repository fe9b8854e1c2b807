SPECIFICATION BoundedSpec
CONSTANTS
  MItems <- MCItems
  Milli <- MCMilli
  Clock <- MCClock
  ReqTime <- MCReqTime
  Isu <- MCIsu
  Count <- MCCount
INVARIANTS OrdinalsContiguous Solvent
PROPERTY PastKept
