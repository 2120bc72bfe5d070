CONSTANTS
  p = 59
  R = 64
  Setups <- MCOtherA
  Scalars <- MCScalars
  Windows = {3, 5}
  Inputs = {0, 1, 60}
  Scales = {3}
  WNAF_SIZE = 7
SPECIFICATION Spec
INVARIANT ResultCorrect
\* The program may exit.
CHECK_DEADLOCK FALSE
