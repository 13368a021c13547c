------------------------------ MODULE NalTypes ------------------------------
(***************************************************************************)
(* The coded slice NAL unit types (NalUnitType) and the classes of types   *)
(* the decoder's control path distinguishes.                               *)
(***************************************************************************)

IdrTypes == {"IDR_W_RADL", "IDR_N_LP"}
BlaTypes == {"BLA_W_LP", "BLA_W_RADL", "BLA_N_LP"}

(* getRapPicFlag(): the types of pictures decoding may start at. *)
RapTypes == IdrTypes \cup BlaTypes \cup {"CRA"}

RadlTypes == {"RADL_N", "RADL_R"}
RaslTypes == {"RASL_N", "RASL_R"}
LeadingTypes == RadlTypes \cup RaslTypes

TsaTypes == {"TSA_N", "TSA_R"}
TrailingTypes == {"TRAIL_N", "TRAIL_R", "STSA_N", "STSA_R"} \cup TsaTypes

(* nonReferenceFlag of xDecodeSlice(): sub-layer non-reference pictures. *)
NonReferenceTypes == {"TRAIL_N", "TSA_N", "STSA_N", "RADL_N", "RASL_N"}

SliceTypes == RapTypes \cup LeadingTypes \cup TrailingTypes

(* isReferenceNalu() *)
ReferenceTypes == SliceTypes \ NonReferenceTypes

(* NAL_UNIT_INVALID *)
NoType == "INVALID"

(* The types xUpdatePreviousTid0POC() lets anchor the POC derivation. *)
AnchorTypes == ReferenceTypes \ LeadingTypes
=============================================================================
