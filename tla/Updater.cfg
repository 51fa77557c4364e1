SPECIFICATION FairSpec
CONSTANTS
  Release <- MCRelease
  AGNOS_VERSION <- MCAgnos
INVARIANTS TypeOK ConsistentMeansWhole RunsWhatItWasMadeFor DownloadAtBootOnlyAfterSwap
CHECK_DEADLOCK FALSE
PROPERTY UpdateComesThrough
