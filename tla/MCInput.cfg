SPECIFICATION InputSpec
CONSTANTS
  Nothing = Nothing
  PadCount = 2
  MaxChanges = 5
  Obj = {o1}
  Finger = {f1, f2}
  MaxPresses = 2
  Touches = 2
  MouseBacks = 2
  TouchBacks = 1
  BackTime = 1
  MaxDrag = 1
  Sites <- TwoSites
  Angles = {0, 1}
  Sizes <- Mirror
  OneSite <- Site
  OtherAngles = {0, 2, 3}
  OtherSizes <- Flat
  Coordinates <- NearAndFar
  Half = 2
INVARIANTS  DragFollowsGrip HitsPicture
CHECK_DEADLOCK FALSE
SYMMETRY Fingers
