\* Small pictures, cut and coded in every way the options allow.
SPECIFICATION Spec
CONSTANT
  Layouts <- MCLayouts
CHECK_DEADLOCK FALSE
INVARIANTS
  TypeOK
  DecoderInStep
  SlicesAreLegal
  TrialInStep
