SPECIFICATION Spec
CONSTANTS
  t1 = t1
  t2 = t2
  r1 = r1
  r2 = r2
  n1 = n1
  n2 = n2
  g1 = g1
  g2 = g2
  Team <- MCTeam
  Requester <- MCRequester
  TeamOf <- SameTeam
  Node <- MCNode
  Group <- MCGroup
  GroupOfTeam <- AllTogether
  GroupOfNode <- NodesTogether
  Score = {1, 2}
  MaxJobs = 2
  KillAfter = 1
  ReplyDelay = 1
  TimeoutAfter = 2
INVARIANT OneActiveJob
