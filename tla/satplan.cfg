CONSTANTS
  Elevations <- MCElevations
  Azimuths <- MCAzimuths
  Thresholds = {2, 4}
  Passes = 3
  Mocks <- MCMocks
  ListInc = 3
  ListSamples = 3
  FirstInc = 2
  FirstSamples = 5
  FineSamples = 7
  Grid = 1
SPECIFICATION SatSpec
INVARIANTS SatInv FoundIsPass NoneSkipped SmoothTrack
CHECK_DEADLOCK FALSE
