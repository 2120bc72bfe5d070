CONSTANTS
  WORD_BITS = 2
  P = 61
  NN_MAX_WORD_LEN = 9
  Regs = {x,y}
  Exponents = {0, 5}
SYMMETRY Symmetry
SPECIFICATION Spec
INVARIANTS
  ProductsCorrect
\* The program may exit.
CHECK_DEADLOCK FALSE
