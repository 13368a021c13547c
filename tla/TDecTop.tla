------------------------------- MODULE TDecTop -------------------------------
(***************************************************************************)
(* The decoder: TDecTop::decode() and what it calls to turn a NAL unit     *)
(* into decoded slices, up to but not including the application's loop.    *)
(* decode() of a slice runs in up to four steps, one per phase:            *)
(*   "decode"    header parsed, picture skipped or found to be new         *)
(*   "conceal"   one lost reference picture replaced, or slice activated   *)
(*   "lists"     reference pictures looked up                              *)
(* and leaves phase "returned" with newPicture as its return value.        *)
(* An assert that fails leaves "aborted", undefined behaviour "crashed".   *)
(* A NAL unit n is a record: kind, and for a slice the id of the coded     *)
(* picture, first (address 0), dep (dependent_slice_segment_flag) and the  *)
(* header's type, tid, lsb, rps, pof and noPrior.                          *)
(***************************************************************************)
EXTENDS Dpb

CONSTANT MaxInt   \* MAX_INT; larger than any POC

ASSUME MaxIntAssumption == MaxInt \in Nat

VARIABLES
  phase,
  newPicture,              \* what decode() returns: bNewPicture
  dpb,                     \* m_cListPic and the objects in it
  curPic,                  \* m_pcPic, a slot or NoPic
  sliceIdx,                \* m_uiSliceIdx
  pilot,                   \* m_apcSlicePilot: the header being decoded
  refPics,                 \* m_apcRefPicList, as [poc, ids] records
  firstSliceInPicture, firstSliceInSequence, firstSliceInBitstream,
  prevPOC, prevTid0POC,
  pocRandomAccess, pocCRA, associatedIRAPType, craNoRaslOutputFlag,
  prevSliceSkipped, skippedPOC,
  isNoOutputPriorPics, lastPOCNoOutputPriorPics,
  iSkipFrame,              \* the caller's counter, passed by reference
  prefixSEIs               \* how many units m_prefixSEINALUs holds

NoPic == -1

headerVars == <<prevTid0POC, craNoRaslOutputFlag, isNoOutputPriorPics,
                lastPOCNoOutputPriorPics>>
skipVars == <<prevSliceSkipped, skippedPOC, iSkipFrame>>
irapVars == <<pocCRA, associatedIRAPType>>
firstVars == <<firstSliceInPicture, firstSliceInSequence, firstSliceInBitstream>>
pictureVars == <<dpb, curPic, sliceIdx, refPics>>

decVars == <<phase, newPicture, pilot, pictureVars, headerVars, skipVars,
             irapVars, firstVars, prevPOC, pocRandomAccess, prefixSEIs>>

(* A fresh slice object, which the pilot is once it has become a slice.    *)
NoPilot ==
  [id |-> Fill, first |-> FALSE, dep |-> FALSE, type |-> "IDR_W_RADL", tid |-> 0,
   poc |-> 0, pof |-> TRUE, rps |-> {}, irap |-> 0, irapType |-> NoType,
   noOutputPriorPics |-> FALSE]

DecInit ==
  /\ phase = "read"
  /\ newPicture = FALSE
  /\ dpb = EmptyDpb
  /\ curPic = NoPic
  /\ sliceIdx = 0
  /\ pilot = NoPilot
  /\ refPics = {}
  /\ firstSliceInPicture = TRUE
  /\ firstSliceInSequence = TRUE
  /\ firstSliceInBitstream = TRUE
  /\ prevPOC = MaxInt
  /\ prevTid0POC = 0
  /\ pocRandomAccess = MaxInt
  /\ pocCRA = 0
  /\ associatedIRAPType = NoType
  /\ craNoRaslOutputFlag = FALSE
  /\ prevSliceSkipped = FALSE
  /\ skippedPOC = 0
  /\ isNoOutputPriorPics = FALSE
  /\ lastPOCNoOutputPriorPics = -1
  /\ prefixSEIs = 0

Return(isNew) == phase' = "returned" /\ newPicture' = isNew

-----------------------------------------------------------------------------
(* The slice header: parseSliceHeader() and lines 655-750 of xDecodeSlice. *)

(* Mutant: the LSBs never wrap around. *)
DerivedPoc_NoWrap(lsb, type) ==
  (IF type \in BlaTypes THEN 0 ELSE prevTid0POC - (prevTid0POC % MaxPocLsb)) + lsb

(* slice_pic_order_cnt_lsb, completed to the POC nearest to prevTid0POC.   *)
DerivedPoc(lsb, type) ==
  LET prevLsb == prevTid0POC % MaxPocLsb
      prevMsb == prevTid0POC - prevLsb
      msb == IF type \in BlaTypes THEN 0
             ELSE IF lsb < prevLsb /\ 2 * (prevLsb - lsb) >= MaxPocLsb
               THEN prevMsb + MaxPocLsb
             ELSE IF lsb > prevLsb /\ 2 * (lsb - prevLsb) > MaxPocLsb
               THEN prevMsb - MaxPocLsb
             ELSE prevMsb
  IN msb + lsb

(* A dependent segment takes over the header of the slice before it, or    *)
(* the POC of the skipped picture it continues.                            *)
HeaderPoc(n) ==
  IF n.dep THEN IF prevSliceSkipped THEN skippedPOC ELSE dpb[curPic].poc
  ELSE IF n.type \in IdrTypes THEN 0
  ELSE DerivedPoc(n.lsb, n.type)

(* Mutant: a picture of any temporal layer is an anchor. *)
UpdatedPrevTid0POC_AnyLayer(n, poc) == IF n.type \in AnchorTypes THEN poc ELSE prevTid0POC

(* xUpdatePreviousTid0POC() *)
UpdatedPrevTid0POC(n, poc) ==
  IF n.tid = 0 /\ n.type \in AnchorTypes THEN poc ELSE prevTid0POC

NoRaslOutputFlag(n) ==
  n.type \in IdrTypes \cup BlaTypes \/ (n.type = "CRA" /\ firstSliceInSequence)

CraNoRasl(n) == IF n.type = "CRA" THEN NoRaslOutputFlag(n) ELSE craNoRaslOutputFlag

(* NoOutputPriorPicsFlag, parsed for IRAP pictures and inferred for a CRA  *)
(* picture that starts a sequence.                                         *)
NoOutputPriorPics(n) ==
  /\ n.type \in RapTypes
  /\ NoRaslOutputFlag(n) /\ ~firstSliceInBitstream
  /\ n.type = "CRA" \/ n.noPrior

(* A CRA picture that starts a sequence loses the MSBs of its POC.         *)
FinalPoc(n) ==
  IF n.type = "CRA" /\ CraNoRasl(n) THEN HeaderPoc(n) % MaxPocLsb ELSE HeaderPoc(n)

(* PicOutputFlag is inferred to be 0 for the RASL pictures of such a CRA.  *)
PicOutputFlag(n) == n.pof /\ ~(n.type \in RaslTypes /\ CraNoRasl(n))

Pilot(n) ==
  [id |-> n.id, first |-> n.first, dep |-> n.dep, type |-> n.type, tid |-> n.tid,
   poc |-> FinalPoc(n), pof |-> PicOutputFlag(n),
   rps |-> IF n.type \in IdrTypes \cup BlaTypes THEN {} ELSE n.rps,
   irap |-> pocCRA, irapType |-> associatedIRAPType,
   noOutputPriorPics |-> NoOutputPriorPics(n)]

ParseHeader(n) ==
  /\ prevTid0POC' = UpdatedPrevTid0POC(n, FinalPoc(n))
  /\ craNoRaslOutputFlag' = CraNoRasl(n)
  /\ isNoOutputPriorPics' = NoOutputPriorPics(n)
  /\ lastPOCNoOutputPriorPics' =
       IF NoOutputPriorPics(n) THEN HeaderPoc(n) ELSE lastPOCNoOutputPriorPics

-----------------------------------------------------------------------------
(* Skipping: isRandomAccessSkipPicture() and isSkipPictureForBLA().        *)

NoRandomAccessPoint == pocRandomAccess = MaxInt

(* Mutant: the counter is decremented too late. *)
SkippedForRandomAccess_OneMore(p) ==
  \/ iSkipFrame > 0
  \/ NoRandomAccessPoint /\ (prevSliceSkipped \/ p.type \notin RapTypes)
  \/ ~NoRandomAccessPoint /\ p.poc < pocRandomAccess /\ p.type \in RaslTypes

SkippedForRandomAccess(p) ==
  \/ iSkipFrame > 0
  \/ NoRandomAccessPoint /\ p.type \notin RapTypes
  \/ ~NoRandomAccessPoint /\ p.poc < pocRandomAccess /\ p.type \in RaslTypes

SkippedForBla(p) ==
  associatedIRAPType \in BlaTypes /\ p.poc < pocCRA /\ p.type \in RaslTypes

(* m_pocRandomAccess once the picture p has not been skipped.              *)
RandomAccessPoc(p) ==
  IF ~NoRandomAccessPoint THEN pocRandomAccess
  ELSE IF p.type \in IdrTypes THEN -MaxInt
  ELSE p.poc

(* A CRA or BLA picture that SkippedForBla() would skip does not exist, so *)
(* a skip never sets m_pocRandomAccess.                                    *)
SkipSlice(n) ==
  /\ phase = "decode" /\ n.kind = "slice"
  /\ LET p == Pilot(n)
     IN /\ SkippedForRandomAccess(p) \/ SkippedForBla(p)
        /\ skippedPOC' = p.poc
  /\ prevSliceSkipped' = TRUE
  /\ iSkipFrame' = IF iSkipFrame > 0 THEN iSkipFrame - 1 ELSE 0
  /\ sliceIdx' = IF firstSliceInPicture THEN 0 ELSE sliceIdx
  /\ ParseHeader(n)
  /\ Return(FALSE)
  /\ UNCHANGED <<pilot, dpb, curPic, refPics, irapVars, firstVars, prevPOC, pocRandomAccess,
                 prefixSEIs>>

(* Mutant: a new picture is told by its POC. *)
StartsPicture_ByPoc(n) == n.first /\ ~firstSliceInPicture /\ FinalPoc(n) # prevPOC

(* The first slice of a picture, while another one is open. *)
StartsPicture(n) == ~n.dep /\ n.first /\ ~firstSliceInPicture

(* The header of a slice to be decoded.  The first slice of a picture,     *)
(* when another one is open, ends the call: the caller finishes the open   *)
(* picture and calls again with the same NAL unit.                         *)
BeginSlice(n) ==
  /\ phase = "decode" /\ n.kind = "slice"
  /\ LET p == Pilot(n)
     IN /\ ~SkippedForRandomAccess(p) /\ ~SkippedForBla(p)
        /\ pocRandomAccess' = RandomAccessPoc(p)
        /\ IF StartsPicture(n) /\ prevPOC >= RandomAccessPoc(p)
             THEN Return(TRUE) /\ UNCHANGED pilot
             ELSE phase' = "conceal" /\ pilot' = p /\ UNCHANGED newPicture
        /\ prevPOC' = IF StartsPicture(n) THEN p.poc ELSE prevPOC
  /\ ParseHeader(n)
  /\ sliceIdx' = IF firstSliceInPicture THEN 0 ELSE sliceIdx
  /\ refPics' = {}
  /\ prevSliceSkipped' = FALSE
  /\ UNCHANGED <<dpb, curPic, irapVars, firstVars, skippedPOC, iSkipFrame,
                 prefixSEIs>>

-----------------------------------------------------------------------------
(* Lost reference pictures: the loop of xDecodeSlice over                  *)
(* checkThatAllRefPicsAreAvailable(), whose result poc + 1 ends the loop   *)
(* when it is not positive, and xCreateLostPicture().                      *)

(* Mutant: only pictures that precede the current one are looked for. *)
MustConceal_OnlyPreceding(poc) ==
  poc < pilot.poc /\ poc \in LostPocs(dpb, pilot, pocRandomAccess)

MustConceal(poc) == IsReportedLost(LostPocs(dpb, pilot, pocRandomAccess), poc, pilot.poc)
                      /\ poc + 1 > 0

(* The fill picture is a referenced picture to be output; its fresh slice  *)
(* counts as an IDR of layer 0 for xUpdatePreviousTid0POC().               *)
CreateLostPicture ==
  /\ phase = "conceal"
  /\ \E r \in pilot.rps, s \in Slots :
       LET poc == pilot.poc + r.delta
       IN /\ MustConceal(poc)
          /\ IsNewPicBuffer(dpb, 0, s)
          /\ dpb' = [dpb EXCEPT ![s] =
                       [Recreated(dpb, s) EXCEPT !.poc0 = poc, !.poc = poc, !.ref = TRUE,
                          !.recon = TRUE, !.out = TRUE, !.ids = {Fill}]]
          /\ prevTid0POC' = poc
  /\ UNCHANGED <<phase, newPicture, pilot, curPic, sliceIdx, refPics, craNoRaslOutputFlag,
                 isNoOutputPriorPics, lastPOCNoOutputPriorPics, skipVars, irapVars,
                 firstVars, prevPOC, pocRandomAccess, prefixSEIs>>

NothingToConceal == ~\E r \in pilot.rps : MustConceal(pilot.poc + r.delta)

-----------------------------------------------------------------------------
(* Activation: xActivateParameterSets() makes the pilot a slice of a       *)
(* picture, and checkCRA() keeps track of the associated IRAP picture.     *)

(* The asserts of checkCRA(); a POC of -1 compares as MAX_UINT there.      *)
RefsFollowCra(p) ==
  pocCRA # -1 /\ p.poc > pocCRA => \A r \in p.rps : p.poc + r.delta >= pocCRA

(* Mutant: any picture is taken for an IRAP picture. *)
CheckCRA_AnyType(p) == pocCRA' = p.poc /\ associatedIRAPType' = p.type

CheckCRA(p) ==
  IF p.type \in RapTypes
    THEN pocCRA' = p.poc /\ associatedIRAPType' = p.type
    ELSE UNCHANGED irapVars

AbortDecoding ==
  /\ phase' = "aborted"
  /\ UNCHANGED <<newPicture, pilot, pictureVars, headerVars, skipVars, irapVars, firstVars,
                 prevPOC, pocRandomAccess, prefixSEIs>>

(* Undefined behaviour, such as the use of a deleted picture.              *)
Crash ==
  /\ phase' = "crashed"
  /\ UNCHANGED <<newPicture, pilot, pictureVars, headerVars, skipVars, irapVars, firstVars,
                 prevPOC, pocRandomAccess, prefixSEIs>>

SliceActivated(p) ==
  /\ phase' = IF p.dep THEN "returned" ELSE "lists"
  /\ prevPOC' = IF p.dep THEN prevPOC ELSE p.poc
  /\ IF p.dep THEN UNCHANGED irapVars ELSE CheckCRA(p)
  /\ firstSliceInSequence' = FALSE
  /\ firstSliceInBitstream' = FALSE
  /\ firstSliceInPicture' = IF p.dep THEN FALSE ELSE firstSliceInPicture
  /\ sliceIdx' = IF p.dep THEN sliceIdx + 1 ELSE sliceIdx
  /\ pilot' = IF p.dep THEN NoPilot ELSE p
  /\ newPicture' = FALSE
  /\ prefixSEIs' = 0
  /\ UNCHANGED <<refPics, headerVars, skipVars, pocRandomAccess>>

(* The first slice of a picture: reference marking, then a buffer.         *)
ActivateFirstSlice ==
  /\ phase = "conceal" /\ NothingToConceal
  /\ firstSliceInPicture
  /\ LET marked == ApplyRps(dpb, pilot)
     IN IF /\ LeadingPicturesAreLegal(dpb, pilot)
           /\ RpsIsLegal(marked, pilot)
           /\ RefsFollowCra(pilot)
          THEN /\ \E s \in Slots :
                    /\ IsNewPicBuffer(marked, pilot.tid, s)
                    /\ dpb' = [marked EXCEPT ![s] =
                                 [Recreated(marked, s) EXCEPT !.poc0 = pilot.poc,
                                    !.poc = pilot.poc, !.ref = TRUE, !.tid = pilot.tid,
                                    !.pof = pilot.pof, !.type = pilot.type,
                                    !.irap = pilot.irap, !.ids = {pilot.id}]]
                    /\ curPic' = s
               /\ SliceActivated(pilot)
          ELSE AbortDecoding

(* A further slice of the open picture.                                    *)
ActivateNextSlice ==
  /\ phase = "conceal" /\ NothingToConceal
  /\ ~firstSliceInPicture
  /\ IF curPic \notin Held(dpb) THEN Crash
     ELSE IF dpb[curPic].slices + 1 # sliceIdx + 1 \/ (~pilot.dep /\ ~RefsFollowCra(pilot))
       THEN AbortDecoding
       ELSE /\ dpb' = [dpb EXCEPT ![curPic].slices = @ + 1, ![curPic].poc = pilot.poc,
                                  ![curPic].tid = pilot.tid,
                                  ![curPic].ids = @ \cup {pilot.id}]
            /\ UNCHANGED curPic
            /\ SliceActivated(pilot)

(* setRefPicList(), then the slice data; a picture that is not in the list *)
(* is looked for beyond its end.                                           *)
SetRefPicList ==
  /\ phase = "lists"
  /\ IF \A poc \in UsedPocs(pilot) : \E s \in Slots : IsRefPic(dpb, s, poc)
       THEN /\ refPics' = {[poc |-> dpb[s].poc, ids |-> dpb[s].ids, ref |-> dpb[s].ref] :
                             s \in {t \in Slots : \E poc \in UsedPocs(pilot) :
                                                     IsRefPic(dpb, t, poc)}}
            /\ firstSliceInPicture' = FALSE
            /\ sliceIdx' = sliceIdx + 1
            /\ pilot' = NoPilot
            /\ Return(FALSE)
            /\ UNCHANGED <<dpb, curPic, headerVars, skipVars, irapVars,
                           firstSliceInSequence, firstSliceInBitstream, prevPOC,
                           pocRandomAccess, prefixSEIs>>
       ELSE Crash

-----------------------------------------------------------------------------
(* The other NAL units decode() handles.                                   *)

EndOfSequence(n) ==
  /\ phase = "decode" /\ n.kind = "EOS"
  /\ associatedIRAPType' = NoType
  /\ pocCRA' = 0
  /\ pocRandomAccess' = MaxInt
  /\ prevPOC' = MaxInt
  /\ prevSliceSkipped' = FALSE
  /\ skippedPOC' = 0
  /\ Return(FALSE)
  /\ UNCHANGED <<pilot, pictureVars, headerVars, iSkipFrame, firstVars, prefixSEIs>>

PrefixSEI(n) ==
  /\ phase = "decode" /\ n.kind = "SEI"
  /\ prefixSEIs' = prefixSEIs + 1
  /\ Return(FALSE)
  /\ UNCHANGED <<pilot, pictureVars, headerVars, skipVars, irapVars, firstVars, prevPOC,
                 pocRandomAccess>>

(* A reserved VCL type: xParsePrefixSEIsForUnknownVCLNal() deletes the     *)
(* front of the queue without removing it, again and again.                *)
ReservedVcl(n) ==
  /\ phase = "decode" /\ n.kind = "RSV"
  /\ IF prefixSEIs > 0 THEN Crash
     ELSE /\ Return(FALSE)
          /\ UNCHANGED <<pilot, pictureVars, headerVars, skipVars, irapVars, firstVars,
                         prevPOC, pocRandomAccess, prefixSEIs>>

(* EOB, access unit delimiters, filler data, reserved and unspecified      *)
(* types: nothing this module keeps changes.                               *)
OtherNal(n) ==
  /\ phase = "decode" /\ n.kind = "OTHER"
  /\ Return(FALSE)
  /\ UNCHANGED <<pilot, pictureVars, headerVars, skipVars, irapVars, firstVars, prevPOC,
                 pocRandomAccess, prefixSEIs>>

DecNext(n) ==
  \/ SkipSlice(n) \/ BeginSlice(n)
  \/ CreateLostPicture
  \/ ActivateFirstSlice \/ ActivateNextSlice
  \/ SetRefPicList
  \/ EndOfSequence(n) \/ PrefixSEI(n) \/ ReservedVcl(n) \/ OtherNal(n)

-----------------------------------------------------------------------------
(* What the application calls once a picture is complete.                  *)

(* executeLoopFilters(): filterPicture() marks the picture reconstructed   *)
(* and to be output, the list is sorted for output.                        *)
Filtered ==
  Sorted([dpb EXCEPT ![curPic].out = dpb[curPic].pof, ![curPic].recon = TRUE])

(* checkNoOutputPriorPics() *)
WithoutPriorPics ==
  [s \in Slots |->
     IF s \in Held(dpb) /\ dpb[s].poc # lastPOCNoOutputPriorPics
       THEN [dpb[s] EXCEPT !.out = FALSE] ELSE dpb[s]]
=============================================================================
