\* The assert of TComSlice.cpp:1135 on a conforming bitstream with an end of sequence.
SPECIFICATION Spec
CONSTANTS
  MaxDecPicBuf <- Buffer3
  NumReorderPics <- Reorder1
  MaxPocLsb = 16
  MaxTemporalLayer = 0
  Slots = {1, 2, 3, 4, 5}
  MaxInt = 1000
  SkipFrame = 0
  MaxPics = 4
  MaxSlices = 1
  MaxExtras = 1
  MaxLosses = 0
  FirstTypes = {"CRA"}
  Types = {"CRA", "TRAIL_R"}
  Pocs <- From0To3
  Extras = {"EOS"}
  Dependent = FALSE
  PicOutputFlags = {TRUE}
  NoPriorFlags = {FALSE}
INVARIANTS
  NoAbort
