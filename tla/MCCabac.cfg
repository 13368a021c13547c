CONSTANTS
  Contexts <- ResidualContexts
  InitValues = {255}
  QPs = {0, 51}
  Alphabets <- MCAlphabets
SPECIFICATION Spec
CHECK_DEADLOCK FALSE
INVARIANTS
  TypeOK
  CarryHasRoom
  WritesFit
  RoundTrip
  StopBitFound
