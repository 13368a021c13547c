\* The comment at TDecTop.cpp:777: decode() returns when a new picture is found.
SPECIFICATION Spec
CONSTANTS
  MaxDecPicBuf <- Buffer3
  NumReorderPics <- Reorder1
  MaxPocLsb = 16
  MaxTemporalLayer = 0
  Slots = {1, 2, 3, 4, 5}
  MaxInt = 1000
  SkipFrame = 0
  MaxPics = 3
  MaxSlices = 1
  MaxExtras = 0
  MaxLosses = 0
  FirstTypes = {"CRA"}
  Types = {"CRA", "IDR_N_LP", "TRAIL_R"}
  Pocs <- From0To3
  Extras = {}
  Dependent = FALSE
  PicOutputFlags = {TRUE}
  NoPriorFlags = {FALSE}
INVARIANTS
  SlicesStayTogether
