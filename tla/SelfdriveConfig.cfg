SPECIFICATION FairSpec
CONSTANTS
  Modes <- TwoModes
  StoredParams <- OneStored
  DISTANCE_LONG_PRESS = 2
  MAX_PRESSES = 1
  MAX_REPLAYS = 1
  MAX_CHANGES = 1
PROPERTIES LatchSpec PersonalityConverges ExperimentalSettles
