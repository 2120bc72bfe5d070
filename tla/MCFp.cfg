CONSTANTS
  WORD_BITS = 2
  P = 11
  NN_MAX_WORD_LEN = 7
  Regs = {x,y,z}
  Exponents = {0, 5}
SYMMETRY Symmetry
SPECIFICATION Spec
INVARIANTS
  TypeOK
  WidthBounded
  ValueBounded
  AdditionsCorrect
  ProductsCorrect
  EqOrOppCorrect
\* The program may exit.
CHECK_DEADLOCK FALSE
