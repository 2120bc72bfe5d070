CONSTANTS
  q = 7
  QBits = 3
  Curves <- MCCurves
  ByteBits = 2
  HashBytes = 3
  Hash <- MCHash
  Messages <- MCMessages
  MaxLen = 2
  Chunks <- MCChunks
  MaxFinals = 1
  Keys = {3, 5}
  Builds <- MCBuilds
  NoMsg = NoMsg
  PrivBufs = {0, 9}
  PubBufs = {0, 1, 4}
  ec_maps <- MCEcMaps
  UNKNOWN_CURVE = 0
  Unlisted = {"WEI25519"}
  curve_name = "SECP256R1"
SPECIFICATION Spec
INVARIANTS
  RestartedSignatureValid
\* The program may exit.
CHECK_DEADLOCK FALSE
