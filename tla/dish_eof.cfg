SPECIFICATION FairSpec
CONSTANTS
  SkipHoming = TRUE
  Patience = 1
  Ops = {"move", "waitidle"}
  Times = {}
  MaxTime = 0
  QueueMax = 2
PROPERTY EofExits
CHECK_DEADLOCK FALSE
