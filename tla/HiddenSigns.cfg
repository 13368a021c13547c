CONSTANTS
  Contexts <- ResidualContexts
  InitValues = {154}
  QPs = {26}
  Alphabets <- HidingAlphabets
SPECIFICATION Spec
CHECK_DEADLOCK FALSE
INVARIANT
  SignsRecovered
