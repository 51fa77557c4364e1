SPECIFICATION FairSpec
CONSTANTS
  SOFT_DISABLE_FRAMES = 1
  MISMATCH_LIMIT = 1
  HEARTBEAT_LIMIT = 2
  MAX_CRASHES = 1
PROPERTIES DeathStopsActuation StopReachesCar LostPartnerDisengages
