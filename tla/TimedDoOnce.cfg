SPECIFICATION FairSpec
CONSTANTS
  fast = fast
  slow = slow
  o1 = o1
  o2 = o2
  NoId = NoId
  Ids <- TwoIds
  Ops = {o1, o2}
  StartTimeout <- TwoStartTimeout
  StopTimeout <- TwoStopTimeout
  CheckTimeout = 2
  Grace = 1
  Slack = 0
PROPERTY ImplementsDoOnce
