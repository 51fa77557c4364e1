SPECIFICATION FairSpec
CONSTANTS
  SOFT_DISABLE_FRAMES = 2
  MISMATCH_LIMIT = 2
  Inputs <- PcmInputs
  Configs <- PcmConfigs
PROPERTIES SoftFaultDisengages PausedResumes
