------------------------------- MODULE Decoding -------------------------------
(***************************************************************************)
(* The decoder application reading a bitstream: StreamSource sends NAL     *)
(* units, TAppDecTop decodes them and writes pictures.                     *)
(***************************************************************************)
EXTENDS TAppDecTop, StreamSource

CONSTANT SkipFrame   \* the option -s, the number of pictures to skip

ASSUME SkipFrameAssumption == SkipFrame \in Nat

vars == <<decVars, appVars, streamVars>>

Init ==
  /\ StreamInit
  /\ iSkipFrame = SkipFrame
  /\ AppInit

(* byteStreamNALUnit() and read(): the next NAL unit, if it is not lost.   *)
ReadNal ==
  /\ phase = "read"
  /\ Send
  /\ phase' = IF nal' = NoNal THEN "read" ELSE "decode"
  /\ newPicture' = FALSE
  /\ UNCHANGED <<headerAndSkipVars, dpb, firstVars, appVars>>

DecoderStep == AppNext(nal, last) /\ UNCHANGED streamVars

Stopped == phase \in {"done", "aborted", "crashed"}

Next == ReadNal \/ DecoderStep \/ (Stopped /\ UNCHANGED vars)

Spec == Init /\ [][Next]_vars

(* The program runs on as long as it can, and the file has an end.         *)
FairSpec == Spec /\ WF_vars(Next)

-----------------------------------------------------------------------------
Phases == {"read", "decode", "conceal", "lists", "returned", "bump1", "prior",
           "flush", "output2", "bump2", "final", "done", "aborted", "crashed"}

ObjectsOK ==
  /\ phase \in Phases
  /\ dpb \in [Slots -> Picture]
  /\ curPic \in Slots \cup {NoPic}
  /\ pilot \in Header
  /\ associatedIRAPType \in RapTypes \cup {NoType}

FlagsOK ==
  /\ newPicture \in BOOLEAN /\ listSet \in BOOLEAN /\ loopFiltered \in BOOLEAN
  /\ firstSliceInPicture \in BOOLEAN
  /\ firstSliceInSequence \in BOOLEAN
  /\ firstSliceInBitstream \in BOOLEAN
  /\ prevSliceSkipped \in BOOLEAN
  /\ isNoOutputPriorPics \in BOOLEAN
  /\ craNoRaslOutputFlag \in BOOLEAN

NumbersOK ==
  /\ {prevPOC, prevTid0POC, pocRandomAccess, pocCRA, skippedPOC,
      lastPOCNoOutputPriorPics, iPOCLastDisplay} \subseteq Int
  /\ {numPicsNotYetDisplayed, dpbFullness} \subseteq Int
  /\ {sliceIdx, iSkipFrame, prefixSEIs} \subseteq Nat

TypeOK == StreamTypeOK /\ ObjectsOK /\ FlagsOK /\ NumbersOK

(* On a conforming stream no assert of the decoder fires.                  *)
NoAbort == phase # "aborted"

(* The decoder meets no undefined behaviour: no reference picture beyond   *)
(* the end of the list, no slice added to a deleted picture.               *)
NoCrash == phase # "crashed"

(* Neither happens.                                                        *)
NoFailure == NoAbort /\ NoCrash

-----------------------------------------------------------------------------
(* Slices, pictures and references.                                        *)

(* A buffer receives slices of one picture only.                           *)
SlicesStayTogether == \A s \in Held(dpb) : Cardinality(dpb[s].ids) <= 1

(* The decoder gives a picture the POC the encoder gave it, through LSB    *)
(* wrap-arounds, skipped pictures and dropped temporal layers.             *)
PocIsRight ==
  /\ \A s \in Held(dpb) : \A id \in dpb[s].ids \ {Fill} : dpb[s].poc = Poc(id)
  /\ phase = "conceal" => pilot.poc = Poc(pilot.id)

(* After a loss decoding goes on: lost reference pictures are replaced     *)
(* before they are looked up, unless one of them has a negative POC, which *)
(* ends the loop of xDecodeSlice() early; and asserts fire on leading      *)
(* pictures only, whose IRAP picture may be the lost one.                  *)
LossIsSurvived ==
  /\ phase = "crashed" =>
       \E poc \in UsedPocs(pilot) : poc < 0 /\ ~\E s \in Slots : IsRefPic(dpb, s, poc)
  /\ phase = "aborted" => nal.type \in LeadingTypes

(* Every picture a slice refers to is held as a reference picture, is the  *)
(* one the encoder referred to, and belongs to the same sequence.          *)
RefPicsAreRight ==
  phase = "returned" =>
    \A r \in refPics : r.ref /\ \E id \in SequenceIds : r.ids = {id} /\ Poc(id) = r.poc

(* No picture is made up for a reference picture that was not lost.        *)
NothingConcealed == \A s \in Held(dpb) : Fill \notin dpb[s].ids

(* The NAL unit that made decode() return bNewPicture finds, when it is    *)
(* decoded again, that a new picture may begin: it is not handed back for  *)
(* ever.                                                                   *)
RetryStartsPicture == newPicture /\ phase = "decode" => firstSliceInPicture

(* A picture whose first slice has been decoded stays in the list while    *)
(* more slices of it may arrive: m_pcPic does not dangle.                  *)
OpenPictureIsHeld ==
  ~firstSliceInPicture /\ ~firstSliceInSequence /\ phase \notin {"final", "done"}
    => curPic \in Held(dpb)

(* A dependent slice segment takes over the header of a slice of its own   *)
(* picture, or is skipped with it.                                         *)
DependentsContinue ==
  phase = "decode" /\ nal.kind = "slice" /\ nal.dep /\ ~IsNotDecoded(nal) =>
    prevSliceSkipped \/ (curPic \in Held(dpb) /\ nal.id \in dpb[curPic].ids)

(* Between two NAL units of a sequence there is an open picture, neither   *)
(* filtered nor output yet: none is filtered twice.                        *)
OpenPictureIsUnfiltered ==
  phase \in {"read", "returned"} /\ ~firstSliceInSequence =>
    curPic \in Held(dpb) /\ ~dpb[curPic].recon /\ ~dpb[curPic].out

-----------------------------------------------------------------------------
(* Output.                                                                 *)

WrittenIds == [i \in DOMAIN written |-> written[i].ids]

Singletons(s) == [i \in DOMAIN s |-> {s[i]}]

(* At the end of the file the pictures written are those a conforming      *)
(* decoder outputs, in the same order, each once.                          *)
OutputConforms == phase = "done" => WrittenIds = Singletons(FinalOutput)

(* Pictures that the start of the next sequence is to drop and that have   *)
(* the POC of its first picture.                                           *)
SparedIds ==
  {j \in DOMAIN coded : \E k \in j + 1..Len(coded) :
     /\ coded[k].starts /\ \A i \in j + 1..k - 1 : ~coded[i].starts
     /\ coded[k].noPrior \/ coded[k].type = "CRA"
     /\ Poc(j) = Poc(k)}

(* The last picture that can be decoded. *)
ButLast(s) == SelectSeq(s, LAMBDA id : \E later \in references : later > id)

(* The same, but for two pictures: the very last one may be missing after  *)
(* an end of sequence, and of the prior pictures that are to be dropped    *)
(* the one that checkNoOutputPriorPics() takes for the new picture may be  *)
(* written.  All others are dropped, or written in their order.            *)
OutputConformsButLast ==
  LET others == DOMAIN coded \ SparedIds
  IN phase = "done" =>
       \E s \in {FinalOutput, ButLast(FinalOutput)} :
         SelectSeq(WrittenIds, LAMBDA ids : ids \cap others # {})
           = Singletons(SelectSeq(s, LAMBDA id : id \in others))

(* No picture is written twice, whatever is lost.                          *)
OutputOnce ==
  \A i, j \in DOMAIN written : i # j => written[i].ids \cap written[j].ids \subseteq {Fill}

(* Two pictures are in different sequences. *)
Separated(a, b) ==
  \E k \in IrapIds : coded[k].starts /\ ((a < k /\ k <= b) \/ (b < k /\ k <= a))

(* The pictures of a sequence are written in the order of their POCs.      *)
OutputInOrder ==
  \A i, j \in DOMAIN written : \A a \in written[i].ids, b \in written[j].ids :
    i < j /\ {a, b} \subseteq DOMAIN coded /\ ~Separated(a, b) => Poc(a) < Poc(b)

(* A picture that has received slices leaves the buffer only once it has   *)
(* been written (where every picture is to be output).                     *)
NoPictureVanishes ==
  [][\A s \in Held(dpb) : \A id \in dpb[s].ids :
       \/ \E t \in Held(dpb') : id \in dpb'[t].ids
       \/ \E i \in DOMAIN written' : id \in written'[i].ids]_vars

-----------------------------------------------------------------------------
(* The option -s.                                                          *)

SkippedTo == {id \in IrapIds : id > SkipFrame}

(* Decoding begins with the first IRAP picture behind the skipped ones;    *)
(* RASL pictures that precede the next one cannot be decoded, and higher   *)
(* sub-layers are not wanted.                                              *)
AccessibleIds ==
  {id \in DOMAIN coded : coded[id].tid <= MaxTemporalLayer /\
     \E r \in SkippedTo : /\ r <= id /\ \A q \in SkippedTo : r <= q
                          /\ coded[id].type \in RaslTypes => \E q \in SkippedTo : r < q /\ q < id}

(* The manual: -s "defines the number of pictures in decoding order to     *)
(* skip".  No skipped picture is written, and all that can be decoded from *)
(* the first IRAP picture behind them is.  If that picture is the first    *)
(* behind them, nothing else is written.  What becomes of pictures before  *)
(* it is left open: by the comment on isRandomAccessSkipPicture() their    *)
(* decoding is attempted, by its warning they are discarded.               *)
SkipsPictures ==
  phase = "done" =>
    LET shown == {written[i].ids : i \in DOMAIN written}
    IN /\ {{id} : id \in AccessibleIds} \subseteq shown
       /\ shown \subseteq {{id} : id \in SkipFrame + 1..Len(coded)}
       /\ SkipFrame + 1 \in IrapIds => shown \subseteq {{id} : id \in AccessibleIds}

-----------------------------------------------------------------------------
(* Every file is decoded to its end, or the decoder aborts: no NAL unit is *)
(* handed back and forth for ever, bumping and flushing end.               *)
Terminates == <>(phase \in {"done", "aborted", "crashed"})
=============================================================================
