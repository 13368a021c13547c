\* The options -s 1 and -t 1: decoding begins at an access point inside the
\* bitstream and takes two of three temporal sub-layers.
SPECIFICATION Spec
CONSTANTS
  MaxDecPicBuf <- BufferOfThreeLayers
  NumReorderPics <- ReorderOfThreeLayers
  MaxPocLsb = 8
  MaxTemporalLayer = 1
  Slots = {1, 2, 3, 4, 5}
  MaxInt = 1000
  SkipFrame = 1
  MaxPics = 5
  MaxSlices = 1
  MaxExtras = 0
  MaxLosses = 0
  FirstTypes = {"IDR_W_RADL"}
  Types = {"CRA", "RASL_R", "TRAIL_R", "STSA_R"}
  Pocs <- Sparse
  Extras = {}
  Dependent = FALSE
  PicOutputFlags = {TRUE}
  NoPriorFlags = {FALSE}
INVARIANTS
  SkipsPictures
  OutputInOrder
  PocIsRight
