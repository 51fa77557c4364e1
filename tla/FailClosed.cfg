SPECIFICATION FairSpec
CONSTANTS
  SOFT_DISABLE_FRAMES = 1
  MAX_LAG = 1
INVARIANT FaultOnItsWay
PROPERTIES FaultEndsEngagement
