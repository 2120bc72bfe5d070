CONSTANTS
  Builds <- IncompleteLadder
  Order = 5
  GenOrder = 5
  NN_MAX_BIT_LEN = 7
  Scalars <- MCScalars
  Unset = Unset
SPECIFICATION Spec
INVARIANT
  ResultCorrect
\* The program may exit.
CHECK_DEADLOCK FALSE
