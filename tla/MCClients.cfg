SPECIFICATION Spec
CONSTANTS
  \* The page: one item, two rooms. Items do not meet each other in a view.
  ItemId = {1}
  ShownIcons = 1
  MaxBuilt = 2
  MaxStarts = 2
  \* A player of the benchmark: two goroutines on one connection.
  Goroutine = {g1, g2}
  MaxRequests = 3
  MaxAnswers = 2
  \* The leaderboard: two teams and the staff, two of whom ask for the page; one rank is shown.
  Team = {admin, t1, t2}
  Admin = admin
  NoTeam = NoTeam
  Score = {1, 2}
  NoScore = 0
  rankingPickLatest = 1
  MaxResults = 2
  MaxPages = 2
  \* Two calls of /initialize and the requests of one small room.
  Caller = {1, 2}
  MaxIsu = 4
  MItems <- SmallItems
  Milli = 2
  Clock = {0, 1, 2}
  ReqTime = {1, 2}
  Isu = {2}
  Count = {0, 1}
INVARIANTS  AnswersFindTheirRequest  InitializeIsSafe
SYMMETRY Symmetry
CHECK_DEADLOCK FALSE
