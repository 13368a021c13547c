\* Every file of few NAL units, read with and without seeking back.
SPECIFICATION FairSpec
CONSTANTS
  Bodies <- MCBodies
  MaxUnits = 3
  MaxZeros = 3
INVARIANTS TypeOK LocationIsPayload
PROPERTIES ImplementsUnitSource ReadsToEnd
