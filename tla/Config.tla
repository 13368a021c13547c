------------------------------- MODULE Config -------------------------------
(***************************************************************************)
(* What the encoder and the decoder share: the values of the active SPS,   *)
(* and the decoder's choice of temporal layers.                            *)
(***************************************************************************)
EXTENDS Integers, NalTypes

CONSTANTS
  MaxDecPicBuf,     \* sps.getMaxDecPicBuffering(tid), one entry per sub-layer
  NumReorderPics,   \* sps.getNumReorderPics(tid), one entry per sub-layer
  MaxPocLsb,        \* 1 << sps.getBitsForPOC()
  MaxTemporalLayer  \* m_iMaxTemporalLayer: the highest layer decoded

ASSUME MaxDecPicBufAssumption ==
  /\ 0 \in DOMAIN MaxDecPicBuf /\ DOMAIN MaxDecPicBuf \subseteq Nat
  /\ \A tid \in DOMAIN MaxDecPicBuf : MaxDecPicBuf[tid] \in Nat \ {0}

ASSUME NumReorderPicsAssumption ==
  /\ DOMAIN NumReorderPics = DOMAIN MaxDecPicBuf
  /\ \A tid \in DOMAIN MaxDecPicBuf : NumReorderPics[tid] \in 0..MaxDecPicBuf[tid] - 1

ASSUME MaxPocLsbAssumption == MaxPocLsb \in Nat \ {0}

ASSUME MaxTemporalLayerAssumption == MaxTemporalLayer \in DOMAIN MaxDecPicBuf

Tids == DOMAIN MaxDecPicBuf

(* Short-term reference picture sets: POC differences and used_by_curr.    *)
RpsSet == SUBSET [delta : Int, used : BOOLEAN]
=============================================================================
