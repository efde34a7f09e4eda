SPECIFICATION Spec
CONSTANTS
  a = a
  b = b
  c = c
  NoOne = NoOne
  Claimants = {a, b, c}
  Prio <- Prio3
  BuffCap = 1
  PipeCap = 1
  StartMayFail = TRUE
INVARIANTS TypeOK MuxInv ExclusiveCopy WatcherNeverWedges Undisturbed
PROPERTIES OutputKept ImplementsExclusiveControl
SYMMETRY SamePriority
CHECK_DEADLOCK FALSE
