SPECIFICATION Spec
CONSTANTS
  Node = {root, e1, e2, e3}
  Two = {root, e2, e3}
  Root = root
  Listening = {e3}
  Music = {m1, m2}
  Solo = {m1}
  Plain = {f1}
  Once = {w1}
  None = None
  TreeCalls = 1
  PairCalls = 2
  MaxLinks = 3
  SceneList <- FourScenes
  StartLabel = "title"
  AutoPause = TRUE
  SceneDepth = 5
  PanelDepth = 3
  MaxAssets = 3
  Steps = 2
  OneLevel = {2}
  Levels = {2, 4}
  MaxFades = 2
  MaxList = 3
  FireDepth = 2
  MaxFires = 2
  FrameTimes = {2, 3}
  MaxTime = 5
  MaxSkew = 1
  Cols = 2
  Rows = 3
  Specs <- SheetSpecs
  MaxTicks = 16
  Task <- Tasks
  Unit = 2
  DefaultDuration = 4
  StackDepth = 12
  MaxValue = 9
  MaxTasks = 3
  MaxControls = 4
  BoxWidths = {2, 4}
  Radii = {2}
  MaxLines = 3
  TextSize = 5
  Padding = 1
  CharWidths = {1, 2}
  AreaWidths = {1, 2, 3, 5}
  Wide = 2
  MaxChars = 4
  MaxParagraphs = 2
  Offsets <- FarAndNear
  Halves = {0, 1, 3}
  LineSize = 2
INVARIANTS   FiresReachListeners TimeAddsUp TextIsShown
PROPERTIES TreeIsWalkedOnce ScenesFollow TweensRunInOrder
SYMMETRY Symmetry
CHECK_DEADLOCK FALSE
