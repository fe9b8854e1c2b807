SPECIFICATION Spec
CONSTANTS
  MItems <- MCItems
  Milli <- MCMilli
  Clock = {0, 2}
  ReqTime <- MCReqTime
  Isu <- MCIsu
  Count <- MCCount
  Horizon = 3
  Radix = 3
  Digits = 2
  Undefined = Undefined
  Values = {1, 2, 3}
  Fns <- SomeFns
  MaxLen = 4
  MaxInt = 4
  MaxPos = 1
  MaxSize = 2
INVARIANTS ShownExact EnabledIfAffordable FormsAgree LoopsComputeThose
PROPERTY ShapesCollide
CHECK_DEADLOCK FALSE
