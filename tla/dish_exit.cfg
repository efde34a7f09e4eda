SPECIFICATION FairSpec
CONSTANTS
  SkipHoming = FALSE
  Patience = 1
  Ops = {"move", "waitidle", "errexit", "exit", "flush"}
  Times = {}
  MaxTime = 0
  QueueMax = 2
INVARIANTS FlushImmediate ExitsPoweredOff
PROPERTIES ExitHonoured ErrorExits
CHECK_DEADLOCK FALSE
