SPECIFICATION FairSpec
ACTION_CONSTRAINT Bound
CONSTANTS
  Request <- MCRequest
  Nobody = Nobody
  h3 = h3
  Handler = {h1, h2, h3}
  PoolSize = 2
  MaxRequests = 3
  MItems <- MCItems
  Milli <- MCMilli
  Clock <- MCClock
  ReqTime <- MCReqTime
  Isu <- MCIsu
  Count <- MCCount
INVARIANTS Serialized ConnectionsAccounted SuccessKept
PROPERTIES RoomSpec HandlersReturn
