CONSTANTS
  p = 5
  R = 8
  Regs = {r1, r2}
  Setups <- MCSetups
  Imports <- MCImports
  Uninit = Uninit
  Lost = Lost
SPECIFICATION Spec
SYMMETRY Symmetry
INVARIANTS
  TypeOK
  GroupLaw
  ComparisonsCorrect
  Reimportable
\* The program may exit.
CHECK_DEADLOCK FALSE
