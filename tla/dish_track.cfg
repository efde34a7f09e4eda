SPECIFICATION Spec
CONSTANTS
  SkipHoming = TRUE
  Patience = 1
  Ops = {"move", "track", "exit", "flush", "waitidle"}
  Times = {1, 2, 3}
  MaxTime = 3
  QueueMax = 2
INVARIANTS DishInv InterpSafe
PROPERTIES TrackingEndsClean
CHECK_DEADLOCK FALSE
