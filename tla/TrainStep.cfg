SPECIFICATION Spec
CONSTANTS
  Jobs <- MCJobs
  MaxObjects = 2
INVARIANT SizesThatRun
INVARIANT EveryModelTakesItsSize
INVARIANT DnLeaksNothing
INVARIANT ReconstructsItsOwnObject
INVARIANT EveryLayerTaughtOnce
CHECK_DEADLOCK FALSE
