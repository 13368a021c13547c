\* Access points of every class, leading and trailing pictures, in every order
\* the buffer allows; POCs wrap around.
SPECIFICATION Spec
CONSTANTS
  MaxDecPicBuf <- Buffer3
  NumReorderPics <- Reorder1
  MaxPocLsb = 8
  MaxTemporalLayer = 0
  Slots = {1, 2, 3, 4, 5}
  MaxInt = 1000
  SkipFrame = 0
  MaxPics = 4
  MaxSlices = 1
  MaxExtras = 0
  MaxLosses = 0
  FirstTypes = {"IDR_W_RADL"}
  Types = {"IDR_W_RADL", "CRA", "BLA_W_LP", "RADL_R", "RASL_R", "TRAIL_R", "TRAIL_N"}
  Pocs <- FromMinus1To4
  Extras = {}
  Dependent = FALSE
  PicOutputFlags = {TRUE}
  NoPriorFlags = {FALSE}
INVARIANTS
  TypeOK
  NoFailure
  OutputConforms
  NothingConcealed
  PocIsRight
  RefPicsAreRight
PROPERTIES
  NoPictureVanishes
