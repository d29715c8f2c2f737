\* Nothing crashes.
CHECK_DEADLOCK FALSE
SPECIFICATION Spec
CONSTANTS
  Batches = 1
  LrDrop = 1
  Losses = {1, 2}
  DblMax = 9
  NaN = NaN
  MaxEpochs = 3
  MaxRuns = 1
  MaxCrashes = 0
  MaxFails = 0
INVARIANT EvaluatesTrainedNetwork
