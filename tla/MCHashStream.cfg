CONSTANTS
  Algs <- MCAlgs
  ByteBits = 4
  Texts <- MCTexts
  MaxChunk = 15
  Junk = Junk
SPECIFICATION Spec
INVARIANTS
  TypeOK
  StreamInv
  DigestCorrect
