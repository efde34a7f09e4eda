CONSTANTS
  Frequency = 2
  MinPos <- MCMinPos
  MaxPos = 1
  MaxVelHard = 2
  MaxAccel = 4
  Targets <- MCTargets
  TargetVels = {2}
  Speeds <- MCSpeeds
  Reach = 2
  Far = 2
  SemMax = 1
  OtherFirst = FALSE
SPECIFICATION DriveSpec
INVARIANTS DriveInv InStep
PROPERTIES SpeedKept BroughtBack MoveEnds Settles
