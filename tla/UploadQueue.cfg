SPECIFICATION FairSpec
CONSTANTS
  Handler = {h1, h2}
  Worker = {w1}
  Id <- MCId
  Url <- MCUrl
  MAX_RETRY_COUNT = 1
INVARIANTS TypeOK OneOwner CancelHolds
PROPERTY EveryUploadEnds
