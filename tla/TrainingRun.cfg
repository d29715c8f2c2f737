\* A run may end and never be started again.
CHECK_DEADLOCK FALSE
SPECIFICATION FairSpec
CONSTANTS
  Batches = 2
  LrDrop = 1
  Losses = {1, 2}
  DblMax = 9
  NaN = NaN
  MaxEpochs = 2
  MaxRuns = 2
  MaxCrashes = 2
  MaxFails = 1
INVARIANTS
  TypeOK
  WeightsMatchEpoch
  DropOncePerRun
  NoPartAhead
  RecordedBestIsOnDisk
PROPERTIES
  ImplementsResumableRun
  TrainingEnds
