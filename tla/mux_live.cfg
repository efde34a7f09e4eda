SPECIFICATION FairSpec
CONSTANTS
  a = a
  b = b
  c = c
  NoOne = NoOne
  Claimants = {a, b}
  Prio <- Prio2
  BuffCap = 1
  PipeCap = 1
  StartMayFail = TRUE
PROPERTIES IdleStops ChildReaped Releases
CHECK_DEADLOCK FALSE
