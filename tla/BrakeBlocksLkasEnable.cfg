SPECIFICATION Spec
CONSTANTS
  SOFT_DISABLE_FRAMES = 2
  MISMATCH_LIMIT = 2
  Inputs <- ButtonInputs
  Configs <- DisengageConfigs
PROPERTY BrakeBlocksLkasEnable
