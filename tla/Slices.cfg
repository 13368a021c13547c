\* What begins and ends pictures and sequences: slices, dependent slice segments,
\* other NAL units between them, ends of sequences, prior pictures dropped.
SPECIFICATION Spec
CONSTANTS
  MaxDecPicBuf <- Buffer3
  NumReorderPics <- Reorder1
  MaxPocLsb = 16
  MaxTemporalLayer = 0
  Slots = {1, 2, 3, 4, 5}
  MaxInt = 1000
  SkipFrame = 0
  MaxPics = 3
  MaxSlices = 2
  MaxExtras = 1
  MaxLosses = 0
  FirstTypes = {"IDR_W_RADL"}
  Types = {"BLA_N_LP", "TRAIL_R"}
  Pocs <- From0To2
  Extras = {"EOS", "SEI", "RSV", "OTHER"}
  Dependent = TRUE
  PicOutputFlags = {TRUE, FALSE}
  NoPriorFlags = {TRUE, FALSE}
INVARIANTS
  SlicesStayTogether
  DependentsContinue
  RetryStartsPicture
  OpenPictureIsUnfiltered
  OutputConformsButLast
