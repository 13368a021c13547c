\* One picture is lost on the way.
SPECIFICATION FairSpec
CONSTANTS
  MaxDecPicBuf <- Buffer3
  NumReorderPics <- Reorder1
  MaxPocLsb = 16
  MaxTemporalLayer = 0
  Slots = {1, 2, 3, 4, 5}
  MaxInt = 1000
  SkipFrame = 0
  MaxPics = 4
  MaxSlices = 1
  MaxExtras = 0
  MaxLosses = 1
  FirstTypes = {"IDR_W_RADL"}
  Types = {"IDR_W_RADL", "RADL_R", "TRAIL_R"}
  Pocs <- FromMinus2To3
  Extras = {}
  Dependent = FALSE
  PicOutputFlags = {TRUE}
  NoPriorFlags = {FALSE}
INVARIANTS
  LossIsSurvived
  OutputOnce
  OpenPictureIsHeld
PROPERTIES
  Terminates
