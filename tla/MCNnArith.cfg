CONSTANTS
  WORD_BITS = 4
  ClzBits = 4
  NN_MAX_WORD_LEN = 7
  MaxWlen = 3
  Loads <- MCLoads
  MaxCalls = 2
  Counts = {0, 3, 4, 9}
SPECIFICATION Spec
INVARIANTS
  TypeOK
  ShiftsCorrect
  ProductsCorrect
  ReciprocalCorrect
  DivisionCorrect
  CoefsCorrect
  GcdCorrect
  InverseCorrect
\* The program may exit.
CHECK_DEADLOCK FALSE
