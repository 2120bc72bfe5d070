CONSTANTS
  Builds <- MCBuilds
  Order = 6
  GenOrder = 3
  NN_MAX_BIT_LEN = 7
  Scalars <- MCScalars
  Unset = Unset
SPECIFICATION FairSpec
INVARIANTS
  TypeOK
  IInv
  ResultCorrect
  IterationsFixed
  CheckExitsOnlyAtInfinity
PROPERTIES
  CallEnds
  ImplementsPointMul
\* The program may exit.
CHECK_DEADLOCK FALSE
