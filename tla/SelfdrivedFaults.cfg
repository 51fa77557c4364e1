SPECIFICATION Spec
CONSTANTS
  SOFT_DISABLE_FRAMES = 2
  MISMATCH_LIMIT = 2
  Inputs <- FaultInputs
  Configs <- FaultConfigs
INVARIANTS MismatchBounded
PROPERTIES ImmediateDisableStops LateralLossAnnounced ActivatesOnlyWhenDrivable
