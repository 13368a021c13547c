\* TAppDecTop.h:93: all remaining pictures are flushed to the file.
SPECIFICATION Spec
CONSTANTS
  MaxDecPicBuf <- Buffer3
  NumReorderPics <- Reorder1
  MaxPocLsb = 16
  MaxTemporalLayer = 0
  Slots = {1, 2, 3, 4, 5}
  MaxInt = 1000
  SkipFrame = 0
  MaxPics = 3
  MaxSlices = 1
  MaxExtras = 1
  MaxLosses = 0
  FirstTypes = {"IDR_W_RADL"}
  Types = {"IDR_W_RADL", "TRAIL_R", "TRAIL_N"}
  Pocs <- From0To3
  Extras = {"EOS"}
  Dependent = FALSE
  PicOutputFlags = {TRUE}
  NoPriorFlags = {FALSE}
INVARIANTS
  OutputConforms
