SPECIFICATION FairSpec
CONSTANTS
  Problems <- MCProblems
  NaN = NaN
  Inf = Inf
  NoAnswer = NoAnswer
INVARIANTS
  PotentialsFeasible
  UndefinedOnlyWithoutPairing
PROPERTIES
  ImplementsOptimalAssignment
  CallReturns
\* the function returns
CHECK_DEADLOCK FALSE
