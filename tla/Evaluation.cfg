SPECIFICATION Spec
CONSTANTS
  Cases <- MCCases
  SizeOf <- MCSizeOf
  Blank <- MCBlank
  Objects <- MCObjects
  NumClasses = 2
  ImgSz = 4
  TopK = 3
  IouThrs <- MCIouThrs
  AreaRng <- MCAreaRng
  MaxDets <- MCMaxDets
  RecThrs <- MCRecThrs
  Unit = 12
  Malformed = Malformed
  Absent = Absent
  Outside = Outside
INVARIANTS
  MatchesBestLeft
  PrecisionIsBest
  OrderDoesNotMatter
  EvaluatesTheSplit
  LoadedAsAnnotated
\* a command ends
CHECK_DEADLOCK FALSE
