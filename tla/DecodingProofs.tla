---------------------------- MODULE DecodingProofs ----------------------------
(***************************************************************************)
(* Proofs about the decoder reading a bitstream, for every stream, buffer  *)
(* size, number of temporal layers and number of losses.                   *)
(***************************************************************************)
EXTENDS Decoding, FiniteSetTheorems, TLAPS

-----------------------------------------------------------------------------
(* The operations on the picture list: each of them leaves a list of       *)
(* pictures, and which of them removes a picture from it.                  *)

List == [Slots -> Picture]

(* The sub-layers and the types a fresh picture has.                       *)
LEMMA FreshValues == 0 \in Tids /\ "IDR_W_RADL" \in SliceTypes
  BY MaxDecPicBufAssumption DEF Tids, SliceTypes, RapTypes, IdrTypes

(* A picture object is created as a picture outside the list.              *)
LEMMA NewPictureType == NewPicture \in Picture /\ NewPicture.pos = 0
  BY FreshValues DEF NewPicture, Picture

(* The list begins empty.                                                  *)
LEMMA EmptyDpbType == EmptyDpb \in List
  BY NewPictureType DEF EmptyDpb, List

(* A set of pictures in the list is finite.                                *)
LEMMA FiniteSlots ==
  ASSUME NEW S \in SUBSET Slots
  PROVE  IsFiniteSet(S) /\ Cardinality(S) \in Nat /\ (S # {} => Cardinality(S) > 0)
<1>1. IsFiniteSet(S)
  BY SlotsAssumption, FS_Subset
<1> QED
  BY <1>1, FS_CardinalityType, FS_EmptySet

(* A record of the list whose fields are replaced stays a picture in its   *)
(* place.                                                                  *)
LEMMA RecreatedType ==
  ASSUME NEW d \in List, NEW s \in Slots
  PROVE  Recreated(d, s) \in Picture /\ Recreated(d, s).pos > 0
<1>1. CASE s \in Held(d)
  <2>1. d[s].pos \in Nat /\ d[s].pos > 0 /\ d[s].tid \in Tids
    BY <1>1 DEF List, Held, Picture
  <2>2. Recreated(d, s) = [NewPicture EXCEPT !.pos = d[s].pos, !.tid = d[s].tid]
    BY <1>1 DEF Recreated
  <2> QED
    BY <2>1, <2>2, NewPictureType DEF Picture
<1>2. CASE s \notin Held(d)
  <2>1. Size(d) + 1 \in Nat /\ Size(d) + 1 > 0
    BY FiniteSlots DEF Size, Held
  <2>2. Recreated(d, s) = [NewPicture EXCEPT !.pos = Size(d) + 1]
    BY <1>2 DEF Recreated
  <2> QED
    BY <2>1, <2>2, NewPictureType DEF Picture
<1> QED
  BY <1>1, <1>2

(* sortPicList() permutes the list: no picture leaves it or enters it.     *)
LEMMA SortedType ==
  ASSUME NEW d \in List
  PROVE  Sorted(d) \in List /\ Held(Sorted(d)) = Held(d)
<1> DEFINE precedes(s, t) == \/ d[s].poc0 < d[t].poc0
                             \/ d[s].poc0 = d[t].poc0 /\ d[s].pos >= d[t].pos
           place(t) == Cardinality({s \in Held(d) : precedes(s, t)})
<1>1. CASE Size(d) < 2
  BY <1>1 DEF Sorted
<1>2. CASE ~(Size(d) < 2)
  <2>1. ASSUME NEW t \in Held(d)
        PROVE  place(t) \in Nat /\ place(t) > 0
    <3>1. d[t].pos \in Nat /\ d[t].poc0 \in Int
      BY DEF List, Held, Picture
    <3>2. t \in {s \in Held(d) : precedes(s, t)}
      BY <3>1
    <3>3. {s \in Held(d) : precedes(s, t)} \in SUBSET Slots
      BY DEF Held
    <3> QED
      BY <3>2, <3>3, FiniteSlots
  <2> HIDE DEF place
  <2>2. Sorted(d) = [t \in Slots |->
                       IF t \in Held(d)
                         THEN [d[t] EXCEPT !.pos = place(t), !.poc = d[t].poc0]
                         ELSE d[t]]
    BY <1>2 DEF Sorted, place
  <2>3. ASSUME NEW t \in Slots
        PROVE  Sorted(d)[t] \in Picture /\ (Sorted(d)[t].pos > 0 <=> d[t].pos > 0)
    <3>1. d[t] \in Picture
      BY DEF List
    <3>2. CASE t \in Held(d)
      BY <2>1, <2>2, <3>1, <3>2 DEF Picture, Held
    <3>3. CASE t \notin Held(d)
      BY <2>2, <3>1, <3>3
    <3> QED
      BY <3>2, <3>3
  <2> QED
    BY <2>2, <2>3 DEF List, Held
<1> QED
  BY <1>1, <1>2

(* applyReferencePictureSet() marks pictures and removes none.             *)
LEMMA ApplyRpsType ==
  ASSUME NEW d \in List, NEW p \in Header
  PROVE  ApplyRps(d, p) \in List /\ Held(ApplyRps(d, p)) = Held(d)
<1>1. ASSUME NEW s \in Slots
      PROVE  ApplyRps(d, p)[s] \in Picture /\ ApplyRps(d, p)[s].pos = d[s].pos
  <2> DEFINE entries == {r \in p.rps : d[s].poc0 = p.poc + r.delta}
  <2>1. d[s] \in Picture
    BY DEF List
  <2>2. ApplyRps(d, p)[s] =
          IF s \notin Held(d) \/ ~d[s].ref THEN d[s]
          ELSE IF entries # {} THEN [d[s] EXCEPT !.used = \E r \in entries : r.used]
          ELSE IF d[s].poc0 # p.poc THEN [d[s] EXCEPT !.ref = FALSE, !.used = FALSE]
          ELSE d[s]
    BY DEF ApplyRps
  <2>3. (\E r \in entries : r.used) \in BOOLEAN
    OBVIOUS
  <2> HIDE DEF entries
  <2> QED
    BY <2>1, <2>2, <2>3 DEF Picture
<1>2. ApplyRps(d, p) = [s \in Slots |-> ApplyRps(d, p)[s]]
  BY DEF ApplyRps
<1> QED
  BY <1>1, <1>2 DEF List, Held

-----------------------------------------------------------------------------
(* Every NAL unit StreamSource sends is well-typed.                        *)

(* NAL units without slice data are in the base layer.                     *)
LEMMA OtherNalType ==
  ASSUME NEW kind \in {"NONE", "EOS", "SEI", "RSV", "OTHER"}
  PROVE  [kind |-> kind, tid |-> 0] \in OtherNals
  BY MaxDecPicBufAssumption DEF OtherNals, Tids

(* The stream begins well-typed.                                           *)
LEMMA StreamInitType == StreamInit => StreamTypeOK
<1> SUFFICES ASSUME StreamInit PROVE StreamTypeOK
  OBVIOUS
<1>1. nal \in SliceNal \cup OtherNals
  BY OtherNalType DEF StreamInit, NoNal
<1>2. last \in BOOLEAN /\ sequenceEnd \in BOOLEAN
  BY DEF StreamInit
<1>3. coded = << >> /\ moreSlices = 0 /\ references = {} /\ losses = 0
  BY DEF StreamInit
<1> QED
  BY <1>1, <1>2, <1>3 DEF StreamTypeOK

(* A slice of a coded picture is a slice NAL unit.                         *)
LEMMA SliceOfType ==
  ASSUME NEW c \in CodedPicture, NEW id \in Nat, NEW first \in BOOLEAN, NEW dep \in BOOLEAN
  PROVE  SliceOf(c, id, first, dep) \in SliceNal
<1>1. c.poc % MaxPocLsb \in Int
  BY MaxPocLsbAssumption DEF CodedPicture
<1> QED
  BY <1>1 DEF SliceOf, SliceNal, CodedPicture

(* A NAL unit that is delivered or lost leaves a NAL unit to be decoded.   *)
LEMMA DeliverType ==
  ASSUME NEW n \in SliceNal \cup OtherNals, Deliver(n) \/ Lose, losses \in Nat
  PROVE  nal' \in SliceNal \cup OtherNals /\ last' \in BOOLEAN /\ losses' \in Nat
<1>1. nal' \in SliceNal \cup OtherNals
  BY OtherNalType DEF Deliver, Lose, NoNal
<1>2. last' \in BOOLEAN
  BY Zenon DEF Deliver, Lose
<1>3. losses' \in {losses, losses + 1}
  BY Zenon DEF Deliver, Lose
<1>4. losses' \in Nat
  BY <1>3
<1> QED
  BY <1>1, <1>2, <1>4

(* A new picture refers to pictures coded before it.                       *)
LEMMA SendPictureType ==
  ASSUME StreamTypeOK, SendPicture
  PROVE  StreamTypeOK'
<1>1. /\ FirstTypes \subseteq SliceTypes /\ Types \subseteq SliceTypes /\ Pocs \subseteq Int
      /\ PicOutputFlags \subseteq BOOLEAN /\ NoPriorFlags \subseteq BOOLEAN
      /\ MaxSlices \in Nat
  BY StreamAssumption DEF SliceTypes
<1>2. PICK type \in SliceTypes, poc \in Int, tid \in Tids, pof \in BOOLEAN, noPrior \in BOOLEAN,
           kept \in SUBSET references, used \in SUBSET references :
         /\ kept \subseteq MayKeep(type, poc, tid)
         /\ SendFirstSlice(PictureOf(type, poc, tid, pof, noPrior, kept, used), kept)
  <2>1. PICK type \in IF coded = << >> THEN FirstTypes ELSE Types, poc \in Pocs, tid \in Tids,
             pof \in PicOutputFlags, noPrior \in NoPriorFlags :
          \E kept \in SUBSET MayKeep(type, poc, tid) :
            \E used \in SUBSET (kept \cap MayUse(type, poc, tid)) :
              SendFirstSlice(PictureOf(type, poc, tid, pof, noPrior, kept, used), kept)
    BY SMTT(30) DEF SendPicture
  <2>2. type \in SliceTypes /\ poc \in Int /\ pof \in BOOLEAN /\ noPrior \in BOOLEAN
    BY <1>1
  <2>3. PICK kept \in SUBSET MayKeep(type, poc, tid) :
          \E used \in SUBSET kept :
            SendFirstSlice(PictureOf(type, poc, tid, pof, noPrior, kept, used), kept)
    BY <2>1
  <2>4. kept \in SUBSET references
    BY DEF MayKeep
  <2> QED
    BY <2>2, <2>3, <2>4
<1> DEFINE c == PictureOf(type, poc, tid, pof, noPrior, kept, used)
<1>3. kept \subseteq references
  BY <1>2 DEF MayKeep
<1>4. coded \in Seq(CodedPicture) /\ references \subseteq 1..Len(coded) /\ losses \in Nat
  BY DEF StreamTypeOK
<1>5. \A k \in kept : Poc(k) \in Int
  <2> SUFFICES ASSUME NEW k \in kept PROVE Poc(k) \in Int
    OBVIOUS
  <2>1. coded[k] \in CodedPicture
    BY <1>3, <1>4
  <2> QED
    BY <2>1 DEF CodedPicture, Poc
<1>6. \A k \in kept : [delta |-> Poc(k) - poc, used |-> k \in used] \in [delta : Int, used : BOOLEAN]
  <2> SUFFICES ASSUME NEW k \in kept
               PROVE  [delta |-> Poc(k) - poc, used |-> k \in used] \in [delta : Int, used : BOOLEAN]
    OBVIOUS
  <2>1. Poc(k) - poc \in Int
    BY <1>5
  <2>2. (k \in used) \in BOOLEAN
    OBVIOUS
  <2> QED
    BY <2>1, <2>2, Zenon
<1>7. {[delta |-> Poc(k) - poc, used |-> k \in used] : k \in kept} \in RpsSet
  BY <1>6 DEF RpsSet
<1>8. StartsSequence(type) \in BOOLEAN
  BY Zenon DEF StartsSequence
<1>9. c \in CodedPicture
  BY <1>7, <1>8 DEF CodedPicture, PictureOf
<1> HIDE DEF c
<1>10. /\ coded' = Append(coded, c)
       /\ references' \in {kept \cup {Len(coded) + 1}, references}
       /\ \E n \in 1..MaxSlices : moreSlices' = n - 1
       /\ Deliver(SliceOf(c, Len(coded) + 1, TRUE, FALSE)) \/ Lose
  BY <1>2 DEF c, SendFirstSlice
<1>11. coded' \in Seq(CodedPicture) /\ Len(coded') = Len(coded) + 1 /\ Len(coded) \in Nat
  BY <1>4, <1>9, <1>10
<1>12. nal' \in SliceNal \cup OtherNals /\ last' \in BOOLEAN /\ losses' \in Nat
  <2>1. SliceOf(c, Len(coded) + 1, TRUE, FALSE) \in SliceNal
    <3>1. Len(coded) + 1 \in Nat
      BY <1>11
    <3> QED
      BY <1>9, <3>1, SliceOfType, Zenon
  <2> QED
    BY <1>4, <1>10, <2>1, DeliverType
<1>13. references' \subseteq 1..Len(coded')
  BY <1>3, <1>4, <1>10, <1>11
<1>14. moreSlices' \in Nat
  BY <1>1, <1>10
<1>15. sequenceEnd' \in BOOLEAN
  BY DEF SendPicture
<1>16. coded' # << >>
  BY <1>11
<1> QED
  BY <1>11, <1>12, <1>13, <1>14, <1>15, <1>16 DEF StreamTypeOK

(* So does whatever else is sent.                                          *)
LEMMA SendType ==
  ASSUME StreamTypeOK, Send
  PROVE  StreamTypeOK'
<1>1. CASE SendPicture
  BY <1>1, SendPictureType
<1>2. CASE SendSlice
  <2>1. coded[Len(coded)] \in CodedPicture /\ Len(coded) \in Nat
    BY <1>2 DEF SendSlice, StreamTypeOK
  <2>2. \A dep \in BOOLEAN : SliceOf(coded[Len(coded)], Len(coded), FALSE, dep) \in SliceNal
    BY <2>1, SliceOfType
  <2>3. PICK dep \in BOOLEAN : \/ Deliver(SliceOf(coded[Len(coded)], Len(coded), FALSE, dep))
                              \/ Lose
    BY <1>2, StreamAssumption DEF SendSlice
  <2>4. nal' \in SliceNal \cup OtherNals /\ last' \in BOOLEAN /\ losses' \in Nat
    BY <2>2, <2>3, DeliverType DEF StreamTypeOK
  <2>5. moreSlices' \in Nat /\ coded # << >>
    BY <1>2 DEF SendSlice, StreamTypeOK
  <2>6. UNCHANGED <<coded, sequenceEnd, references>>
    BY <1>2 DEF SendSlice
  <2> QED
    BY <2>4, <2>5, <2>6 DEF StreamTypeOK
<1>3. CASE SendExtra
  <2>1. PICK kind \in Extras : /\ sequenceEnd' = (sequenceEnd \/ kind = "EOS")
                               /\ Deliver([kind |-> kind, tid |-> 0])
    BY <1>3 DEF SendExtra
  <2>2. [kind |-> kind, tid |-> 0] \in OtherNals
    BY StreamAssumption, OtherNalType
  <2>3. nal' \in SliceNal \cup OtherNals /\ last' \in BOOLEAN /\ losses' \in Nat
    BY <2>1, <2>2, DeliverType DEF StreamTypeOK
  <2>4. sequenceEnd' \in BOOLEAN
    BY <2>1
  <2>5. UNCHANGED <<coded, moreSlices, references>>
    BY <1>3 DEF SendExtra
  <2> QED
    BY <2>3, <2>4, <2>5 DEF StreamTypeOK
<1>4. CASE SendEndOfBitstream
  <2>1. [kind |-> "OTHER", tid |-> 0] \in OtherNals
    BY OtherNalType
  <2>2. last' = TRUE /\ UNCHANGED <<coded, moreSlices, losses, sequenceEnd, references>>
    BY <1>4 DEF SendEndOfBitstream
  <2> QED
    BY <1>4, <2>1, <2>2 DEF SendEndOfBitstream, StreamTypeOK
<1> QED
  BY <1>1, <1>2, <1>3, <1>4 DEF Send

-----------------------------------------------------------------------------
(* A NAL unit that is handed back begins a picture.                        *)

(* The phases of an iteration after a picture has been finished, and the   *)
(* decoding of the same NAL unit that follows it.                          *)
AfterFinish == {"bump1", "prior", "flush", "output2", "bump2", "decode"}

(* Strengthens RetryStartsPicture: only a slice is handed back, and from   *)
(* the moment the open picture is finished until that slice is decoded     *)
(* again no picture is open.                                               *)
RetryInv ==
  /\ newPicture /\ phase \in AfterFinish \cup {"returned"} => nal.kind = "slice"
  /\ newPicture /\ phase \in AfterFinish => firstSliceInPicture

USE DEF AfterFinish

(* Nothing is handed back before the first NAL unit has been read.         *)
LEMMA InitRetryInv == Init => RetryInv
  BY DEF Init, AppInit, DecInit, RetryInv

(* Reading a NAL unit begins with none handed back.                        *)
LEMMA ReadNalKeepsRetryInv == RetryInv /\ ReadNal => RetryInv'
  BY DEF ReadNal, RetryInv

(* decode() hands back slices only, and only while a picture is open.      *)
LEMMA DecodeKeepsRetryInv ==
  ASSUME RetryInv, Decode(nal), UNCHANGED nal
  PROVE  RetryInv'
<1>1. CASE SkipSlice(nal)
  BY <1>1 DEF SkipSlice, Return, RetryInv
<1>2. CASE BeginSlice(nal)
  <2>1. phase' \in {"returned", "conceal"} /\ nal.kind = "slice"
    BY <1>2 DEF BeginSlice, Return
  <2> QED
    BY <2>1 DEF RetryInv
<1>3. CASE CreateLostPicture
  BY <1>3 DEF CreateLostPicture, RetryInv
<1>4. CASE ActivateFirstSlice \/ ActivateNextSlice
  <2>1. newPicture' = FALSE \/ phase' \in {"aborted", "crashed"}
    BY <1>4 DEF ActivateFirstSlice, ActivateNextSlice, SliceActivated, AbortDecoding, Crash
  <2> QED
    BY <2>1 DEF RetryInv
<1>5. CASE SetRefPicList
  <2>1. newPicture' = FALSE \/ phase' = "crashed"
    BY <1>5 DEF SetRefPicList, Return, Crash
  <2> QED
    BY <2>1 DEF RetryInv
<1>6. CASE EndOfSequence(nal) \/ PrefixSEI(nal) \/ ReservedVcl(nal) \/ OtherNal(nal)
  <2>1. newPicture' = FALSE \/ phase' = "crashed"
    BY <1>6 DEF EndOfSequence, PrefixSEI, ReservedVcl, OtherNal, Return, Crash
  <2> QED
    BY <2>1 DEF RetryInv
<1> QED
  BY <1>1, <1>2, <1>3, <1>4, <1>5, <1>6 DEF Decode, DecNext

(* The open picture is finished when a slice has been handed back: the     *)
(* file is good then, whatever was filtered before.                        *)
LEMMA FinishPictureKeepsRetryInv ==
  ASSUME RetryInv, FinishPicture(nal, last), UNCHANGED nal
  PROVE  RetryInv'
<1>1. phase = "returned" /\ newPicture' = newPicture
  BY DEF FinishPicture
<1>2. newPicture => firstSliceInPicture'
  <2>1. newPicture => IsOver(nal, last) /\ (Filters(nal, last) <=> ~firstSliceInSequence)
    BY DEF IsOver, Filters, FileIsGood
  <2> QED
    BY <2>1 DEF FinishPicture
<1> QED
  BY <1>1, <1>2 DEF RetryInv

(* What follows in the iteration opens no picture unless the sequence has  *)
(* ended, and then no slice has been handed back.                          *)
LEMMA OutputKeepsRetryInv ==
  ASSUME RetryInv,
         \/ Bump \/ EndBump(last) \/ CheckNoOutputPriorPics(nal)
         \/ FlushPicture \/ EndFlush \/ BeginSecondOutput(nal, last),
         UNCHANGED nal
  PROVE  RetryInv'
<1>1. CASE Bump \/ FlushPicture
  BY <1>1 DEF Bump, FlushPicture, firstVars, RetryInv
<1>2. CASE EndBump(last)
  BY <1>2 DEF EndBump, firstVars, RetryInv
<1>3. CASE CheckNoOutputPriorPics(nal)
  BY <1>3 DEF CheckNoOutputPriorPics, firstVars, RetryInv
<1>4. CASE EndFlush
  BY <1>4 DEF EndFlush, firstVars, RetryInv
<1>5. CASE BeginSecondOutput(nal, last)
  BY <1>5 DEF BeginSecondOutput, RetryInv
<1> QED
  BY <1>1, <1>2, <1>3, <1>4, <1>5

(* The strengthened invariant is inductive.                                *)
LEMMA NextRetryInv == RetryInv /\ [Next]_vars => RetryInv'
<1> SUFFICES ASSUME RetryInv, [Next]_vars PROVE RetryInv'
  OBVIOUS
<1>1. CASE ReadNal
  BY <1>1, ReadNalKeepsRetryInv
<1>2. CASE DecoderStep
  <2>1. UNCHANGED nal /\ AppNext(nal, last)
    BY <1>2 DEF DecoderStep, streamVars
  <2>2. CASE IgnoreLayer(nal)
    BY <2>2 DEF IgnoreLayer, Return, RetryInv
  <2> QED
    BY <2>1, <2>2, DecodeKeepsRetryInv, FinishPictureKeepsRetryInv, OutputKeepsRetryInv
    DEF AppNext
<1>3. CASE UNCHANGED vars
  BY <1>3 DEF vars, decVars, streamVars, firstVars, RetryInv
<1> QED
  BY <1>1, <1>2, <1>3 DEF Next

(* A NAL unit for which decode() returns bNewPicture is decoded again with *)
(* no picture open, so that decode() does not return bNewPicture for it a  *)
(* second time: the application's loop does not reread it for ever.        *)
THEOREM RetrySucceeds == Spec => []RetryStartsPicture
<1>1. RetryInv => RetryStartsPicture
  BY DEF RetryInv, RetryStartsPicture
<1> QED
  BY <1>1, InitRetryInv, NextRetryInv, PTL DEF Spec
-----------------------------------------------------------------------------
(* Types.  A dependent slice segment takes its POC from the open picture,  *)
(* so that there must be one.                                              *)

Settled == prevSliceSkipped \/ curPic \in Slots

(* Dependent slice segments are sent when nothing is lost, behind a slice  *)
(* of the same temporal layer.                                             *)
DependentSent ==
  /\ nal.kind = "slice" /\ nal.dep => Dependent
  /\ Dependent /\ moreSlices > 0 => nal.kind = "slice" /\ nal.tid = coded[Len(coded)].tid

(* Once a slice has been decoded, unless it is handed back, there is a     *)
(* picture or the slice was skipped.                                       *)
DependentInv ==
  /\ DependentSent
  /\ phase = "read" => ~newPicture
  /\ /\ nal.kind = "slice" /\ ~IsNotDecoded(nal) /\ ~newPicture
     /\ phase \in (AfterFinish \ {"decode"}) \cup {"returned", "read"}
     => Settled
  /\ newPicture /\ phase \in AfterFinish \cup {"returned"} => ~nal.dep
  /\ nal.kind = "slice" /\ ~IsNotDecoded(nal) /\ nal.dep /\ phase = "decode" => Settled

(* Strengthens OpenPictureIsHeld: the list is cleared only when no picture *)
(* is open, and an end of sequence begins a sequence before it unsets      *)
(* m_bFirstSliceInPicture.                                                 *)
HeldInv ==
  /\ OpenPictureIsHeld
  /\ phase = "lists" => curPic \in Held(dpb)
  /\ phase = "flush" => newPicture
  /\ nal.kind = "EOS" /\ phase \in {"bump1", "prior", "flush", "output2"}
       => firstSliceInSequence

(* What is in the list is an object.                                       *)
LEMMA HeldIsSlot == \A d : Held(d) \subseteq Slots
  BY DEF Held

(* The POC of a slice is an integer, its header a header.                  *)
LEMMA PilotType ==
  ASSUME TypeOK, NEW n \in SliceNal, n.dep => Settled
  PROVE  /\ HeaderPoc(n) \in Int /\ FinalPoc(n) \in Int /\ Pilot(n) \in Header
         /\ Pilot(n).poc = FinalPoc(n) /\ Pilot(n).type = n.type /\ Pilot(n).dep = n.dep
         /\ UpdatedPrevTid0POC(n, FinalPoc(n)) \in Int
         /\ CraNoRasl(n) \in BOOLEAN /\ NoOutputPriorPics(n) \in BOOLEAN
<1>1. /\ n.id \in Nat /\ n.first \in BOOLEAN /\ n.dep \in BOOLEAN /\ n.type \in SliceTypes
      /\ n.tid \in Tids /\ n.lsb \in Int /\ n.rps \in RpsSet /\ n.pof \in BOOLEAN
      /\ n.noPrior \in BOOLEAN
  BY DEF SliceNal
<1>2. /\ prevTid0POC \in Int /\ skippedPOC \in Int /\ pocCRA \in Int
      /\ craNoRaslOutputFlag \in BOOLEAN /\ associatedIRAPType \in RapTypes \cup {NoType}
      /\ dpb \in [Slots -> Picture]
  BY DEF TypeOK, ObjectsOK, FlagsOK, NumbersOK
<1>3. DerivedPoc(n.lsb, n.type) \in Int
  <2>1. prevTid0POC % MaxPocLsb \in Int /\ MaxPocLsb \in Int
    BY <1>2, MaxPocLsbAssumption
  <2> QED
    BY <1>1, <1>2, <2>1 DEF DerivedPoc
<1>4. HeaderPoc(n) \in Int
  <2>1. n.dep /\ ~prevSliceSkipped => dpb[curPic].poc \in Int
    BY <1>2 DEF Settled, Picture
  <2> QED
    BY <1>2, <1>3, <2>1 DEF HeaderPoc
<1>5. FinalPoc(n) \in Int
  <2>1. HeaderPoc(n) % MaxPocLsb \in Int
    BY <1>4, MaxPocLsbAssumption
  <2> QED
    BY <1>4, <2>1 DEF FinalPoc
<1>6. CraNoRasl(n) \in BOOLEAN /\ NoOutputPriorPics(n) \in BOOLEAN /\ PicOutputFlag(n) \in BOOLEAN
  BY <1>2, Zenon DEF CraNoRasl, NoRaslOutputFlag, NoOutputPriorPics, PicOutputFlag
<1>7. (IF n.type \in IdrTypes \cup BlaTypes THEN {} ELSE n.rps) \in RpsSet
  BY <1>1 DEF RpsSet
<1>8. Pilot(n) \in Header
  BY <1>1, <1>2, <1>5, <1>6, <1>7 DEF Pilot, Header
<1>9. Pilot(n).poc = FinalPoc(n) /\ Pilot(n).type = n.type /\ Pilot(n).dep = n.dep
  BY DEF Pilot
<1> QED
  BY <1>2, <1>4, <1>5, <1>6, <1>8, <1>9 DEF UpdatedPrevTid0POC

(* The initial state is well-typed.                                        *)
LEMMA InitType == Init => TypeOK
<1> SUFFICES ASSUME Init PROVE TypeOK
  OBVIOUS
<1>1. StreamTypeOK
  BY StreamInitType DEF Init
<1>2. ObjectsOK
  <2>1. pilot \in Header
    BY FreshValues DEF Init, AppInit, DecInit, NoPilot, Header, RpsSet, Fill
  <2>2. dpb \in [Slots -> Picture]
    BY EmptyDpbType DEF Init, AppInit, DecInit, List
  <2> QED
    BY <2>1, <2>2 DEF Init, AppInit, DecInit, ObjectsOK, Phases
<1>3. FlagsOK
  BY DEF Init, AppInit, DecInit, FlagsOK
<1>4. NumbersOK
  BY SkipFrameAssumption, MaxIntAssumption DEF Init, AppInit, DecInit, NumbersOK
<1> QED
  BY <1>1, <1>2, <1>3, <1>4 DEF TypeOK

USE DEF headerVars, skipVars, irapVars, firstVars, pictureVars, headerAndSkipVars,
        counterVars, appVars

DecTypeOK == ObjectsOK /\ FlagsOK /\ NumbersOK

(* Parsing a header keeps the types of what it remembers.                  *)
LEMMA ParseHeaderType ==
  ASSUME TypeOK, NEW n \in SliceNal, n.dep => Settled, ParseHeader(n)
  PROVE  /\ prevTid0POC' \in Int /\ lastPOCNoOutputPriorPics' \in Int
         /\ craNoRaslOutputFlag' \in BOOLEAN /\ isNoOutputPriorPics' \in BOOLEAN
  BY PilotType DEF ParseHeader, TypeOK, NumbersOK

(* Skipping a slice.                                                       *)
LEMMA SkipSliceType ==
  ASSUME TypeOK, nal \in SliceNal, nal.dep => Settled, SkipSlice(nal), UNCHANGED appVars
  PROVE  DecTypeOK'
<1>1. ParseHeader(nal)
  BY DEF SkipSlice
<1>2. skippedPOC' \in Int
  BY PilotType DEF SkipSlice
<1>3. iSkipFrame' \in Nat /\ sliceIdx' \in Nat
  BY DEF SkipSlice, TypeOK, NumbersOK
<1>4. ObjectsOK'
  BY DEF SkipSlice, Return, TypeOK, ObjectsOK, Phases
<1>5. FlagsOK'
  BY <1>1, ParseHeaderType DEF SkipSlice, Return, TypeOK, FlagsOK
<1>6. NumbersOK'
  BY <1>1, <1>2, <1>3, ParseHeaderType DEF SkipSlice, TypeOK, NumbersOK
<1> QED
  BY <1>4, <1>5, <1>6 DEF DecTypeOK

(* A slice that is not skipped.                                            *)
LEMMA BeginSliceType ==
  ASSUME TypeOK, nal \in SliceNal, nal.dep => Settled, BeginSlice(nal), UNCHANGED appVars
  PROVE  DecTypeOK'
<1>1. ParseHeader(nal)
  BY DEF BeginSlice
<1>2. Pilot(nal) \in Header /\ Pilot(nal).poc \in Int
  BY PilotType
<1>3. RandomAccessPoc(Pilot(nal)) \in Int
  BY <1>2, MaxIntAssumption DEF RandomAccessPoc, TypeOK, NumbersOK
<1>4. pocRandomAccess' \in Int /\ prevPOC' \in Int /\ sliceIdx' \in Nat
  BY <1>2, <1>3 DEF BeginSlice, TypeOK, NumbersOK
<1>5. ObjectsOK'
  BY <1>2 DEF BeginSlice, Return, TypeOK, ObjectsOK, Phases
<1>6. FlagsOK'
  <2>1. newPicture' \in BOOLEAN
    BY DEF BeginSlice, Return, TypeOK, FlagsOK
  <2> QED
    BY <1>1, <2>1, ParseHeaderType DEF BeginSlice, TypeOK, FlagsOK
<1>7. NumbersOK'
  BY <1>1, <1>4, ParseHeaderType DEF BeginSlice, TypeOK, NumbersOK
<1> QED
  BY <1>5, <1>6, <1>7 DEF DecTypeOK

(* A picture record whose fields are set is a picture in its place.        *)
LEMMA StoredType ==
  ASSUME NEW d \in List, NEW s \in Slots, NEW rec \in Picture, rec.pos > 0
  PROVE  /\ [d EXCEPT ![s] = rec] \in List
         /\ Held([d EXCEPT ![s] = rec]) = Held(d) \cup {s}
  BY DEF List, Held

(* The record of a picture made up for a lost one.                         *)
LEMMA FilledType ==
  ASSUME NEW pic \in Picture, pic.pos > 0, NEW poc \in Int
  PROVE  LET rec == [pic EXCEPT !.poc0 = poc, !.poc = poc, !.ref = TRUE, !.recon = TRUE,
                                !.out = TRUE, !.ids = {Fill}]
         IN rec \in Picture /\ rec.pos > 0
<1>1. {Fill} \in SUBSET Nat
  BY DEF Fill
<1> QED
  BY <1>1 DEF Picture

(* Making up a picture for a lost one.                                     *)
LEMMA CreateLostPictureType ==
  ASSUME TypeOK, CreateLostPicture, UNCHANGED appVars
  PROVE  /\ DecTypeOK'
         /\ Held(dpb) \subseteq Held(dpb')
<1>1. PICK r \in pilot.rps, s \in Slots :
        /\ dpb' = [dpb EXCEPT ![s] =
                     [Recreated(dpb, s) EXCEPT !.poc0 = pilot.poc + r.delta,
                        !.poc = pilot.poc + r.delta, !.ref = TRUE, !.recon = TRUE,
                        !.out = TRUE, !.ids = {Fill}]]
        /\ prevTid0POC' = pilot.poc + r.delta
  BY DEF CreateLostPicture
<1>2. pilot.poc + r.delta \in Int
  BY DEF TypeOK, ObjectsOK, Header, RpsSet
<1>3. dpb \in List
  BY DEF TypeOK, ObjectsOK, List
<1> DEFINE rec == [Recreated(dpb, s) EXCEPT !.poc0 = pilot.poc + r.delta,
                        !.poc = pilot.poc + r.delta, !.ref = TRUE, !.recon = TRUE,
                        !.out = TRUE, !.ids = {Fill}]
<1>4. rec \in Picture /\ rec.pos > 0
  <2>1. Recreated(dpb, s) \in Picture /\ Recreated(dpb, s).pos > 0
    BY <1>3, RecreatedType
  <2> QED
    BY <1>2, <2>1, FilledType DEF rec
<1> HIDE DEF rec
<1>5. dpb' \in List /\ Held(dpb') = Held(dpb) \cup {s}
  BY <1>1, <1>3, <1>4, StoredType DEF rec
<1>6. ObjectsOK'
  BY <1>5 DEF CreateLostPicture, TypeOK, ObjectsOK, List
<1>7. FlagsOK'
  BY DEF CreateLostPicture, TypeOK, FlagsOK
<1>8. NumbersOK'
  BY <1>1, <1>2 DEF CreateLostPicture, TypeOK, NumbersOK
<1> QED
  BY <1>5, <1>6, <1>7, <1>8 DEF DecTypeOK

(* An assert that fails, or undefined behaviour, changes the phase only.   *)
LEMMA StopType ==
  ASSUME TypeOK, AbortDecoding \/ Crash, UNCHANGED appVars
  PROVE  DecTypeOK' /\ dpb' = dpb
<1>1. ObjectsOK' /\ dpb' = dpb
  BY DEF AbortDecoding, Crash, TypeOK, ObjectsOK, Phases
<1>2. FlagsOK'
  BY DEF AbortDecoding, Crash, TypeOK, FlagsOK
<1>3. NumbersOK'
  BY DEF AbortDecoding, Crash, TypeOK, NumbersOK
<1> QED
  BY <1>1, <1>2, <1>3 DEF DecTypeOK

(* What the activation of a slice does besides choosing a picture for it.  *)
LEMMA SliceActivatedType ==
  ASSUME TypeOK, SliceActivated(pilot), UNCHANGED appVars,
         dpb' \in List, curPic' \in Slots
  PROVE  DecTypeOK' /\ phase' \in {"returned", "lists"} /\ newPicture' = FALSE
<1>1. pilot \in Header /\ pilot.poc \in Int /\ pilot.type \in SliceTypes
  BY DEF TypeOK, ObjectsOK, Header
<1>2. NoPilot \in Header
  BY FreshValues DEF NoPilot, Header, RpsSet, Fill
<1>3. pilot' \in Header /\ phase' \in {"returned", "lists"} /\ newPicture' = FALSE
  BY <1>1, <1>2 DEF SliceActivated
<1>4. associatedIRAPType' \in RapTypes \cup {NoType} /\ pocCRA' \in Int
  BY <1>1 DEF SliceActivated, CheckCRA, TypeOK, ObjectsOK, NumbersOK
<1>5. ObjectsOK'
  BY <1>3, <1>4 DEF ObjectsOK, Phases, List
<1>6. FlagsOK'
  BY DEF SliceActivated, TypeOK, FlagsOK
<1>7. sliceIdx' \in Nat /\ prevPOC' \in Int
  BY <1>1 DEF SliceActivated, TypeOK, NumbersOK
<1>8. NumbersOK'
  BY <1>4, <1>7 DEF SliceActivated, TypeOK, NumbersOK
<1> QED
  BY <1>3, <1>5, <1>6, <1>8 DEF DecTypeOK

(* The record of a picture that receives its first slice.                  *)
LEMMA FirstSliceType ==
  ASSUME NEW pic \in Picture, pic.pos > 0, NEW p \in Header
  PROVE  LET rec == [pic EXCEPT !.poc0 = p.poc, !.poc = p.poc, !.ref = TRUE, !.tid = p.tid,
                                !.pof = p.pof, !.type = p.type, !.irap = p.irap, !.ids = {p.id}]
         IN rec \in Picture /\ rec.pos > 0
<1>1. {p.id} \in SUBSET Nat
  BY DEF Header
<1>2. /\ p.poc \in Int /\ p.tid \in Tids /\ p.pof \in BOOLEAN /\ p.type \in SliceTypes
      /\ p.irap \in Int
  BY DEF Header
<1> QED
  BY <1>1, <1>2 DEF Picture

(* The first slice of a picture puts one into the list and removes none.   *)
LEMMA ActivateFirstSliceType ==
  ASSUME TypeOK, ActivateFirstSlice, UNCHANGED appVars
  PROVE  /\ DecTypeOK' /\ Held(dpb) \subseteq Held(dpb')
         /\ \/ phase' \in {"returned", "lists"} /\ curPic' \in Held(dpb') /\ newPicture' = FALSE
            \/ phase' = "aborted" /\ UNCHANGED <<curPic, firstVars>>
<1>1. CASE AbortDecoding
  <2>1. phase' = "aborted" /\ UNCHANGED <<curPic, firstVars>>
    BY <1>1 DEF AbortDecoding
  <2> QED
    BY <1>1, <2>1, StopType
<1>2. ASSUME NEW s \in Slots,
             dpb' = [ApplyRps(dpb, pilot) EXCEPT ![s] =
                       [Recreated(ApplyRps(dpb, pilot), s) EXCEPT !.poc0 = pilot.poc,
                          !.poc = pilot.poc, !.ref = TRUE, !.tid = pilot.tid,
                          !.pof = pilot.pof, !.type = pilot.type,
                          !.irap = pilot.irap, !.ids = {pilot.id}]],
             curPic' = s,
             SliceActivated(pilot)
      PROVE  /\ DecTypeOK' /\ Held(dpb) \subseteq Held(dpb')
             /\ phase' \in {"returned", "lists"} /\ curPic' \in Held(dpb') /\ newPicture' = FALSE
  <2> DEFINE marked == ApplyRps(dpb, pilot)
             rec == [Recreated(marked, s) EXCEPT !.poc0 = pilot.poc,
                       !.poc = pilot.poc, !.ref = TRUE, !.tid = pilot.tid,
                       !.pof = pilot.pof, !.type = pilot.type,
                       !.irap = pilot.irap, !.ids = {pilot.id}]
  <2>1. pilot \in Header /\ dpb \in List
    BY DEF TypeOK, ObjectsOK, List
  <2>2. marked \in List /\ Held(marked) = Held(dpb)
    BY <2>1, ApplyRpsType
  <2>3. Recreated(marked, s) \in Picture /\ Recreated(marked, s).pos > 0
    BY <2>2, RecreatedType
  <2>4. rec \in Picture /\ rec.pos > 0
    BY <2>1, <2>3, FirstSliceType
  <2>5. dpb' = [marked EXCEPT ![s] = rec]
    BY <1>2
  <2> HIDE DEF marked, rec
  <2>6. dpb' \in List /\ Held(dpb') = Held(dpb) \cup {s}
    BY <2>2, <2>4, <2>5, StoredType
  <2> QED
    BY <1>2, <2>6, SliceActivatedType
<1> QED
  BY <1>1, <1>2 DEF ActivateFirstSlice

(* A further slice finds its picture in the list.                          *)
LEMMA ActivateNextSliceType ==
  ASSUME TypeOK, ActivateNextSlice, UNCHANGED appVars
  PROVE  /\ DecTypeOK' /\ Held(dpb) \subseteq Held(dpb')
         /\ \/ phase' \in {"returned", "lists"} /\ curPic' \in Held(dpb') /\ newPicture' = FALSE
            \/ phase' \in {"aborted", "crashed"} /\ UNCHANGED <<curPic, firstVars>>
<1>1. CASE AbortDecoding \/ Crash
  <2>1. phase' \in {"aborted", "crashed"} /\ UNCHANGED <<curPic, firstVars>>
    BY <1>1 DEF AbortDecoding, Crash
  <2> QED
    BY <1>1, <2>1, StopType
<1>2. ASSUME curPic \in Held(dpb), curPic' = curPic, SliceActivated(pilot),
             dpb' = [dpb EXCEPT ![curPic].slices = @ + 1, ![curPic].poc = pilot.poc,
                                ![curPic].tid = pilot.tid,
                                ![curPic].ids = @ \cup {pilot.id}]
      PROVE  /\ DecTypeOK' /\ Held(dpb) \subseteq Held(dpb')
             /\ phase' \in {"returned", "lists"} /\ curPic' \in Held(dpb') /\ newPicture' = FALSE
  <2>1. /\ pilot.id \in Nat /\ pilot.poc \in Int /\ pilot.tid \in Tids /\ dpb \in List
        /\ curPic \in Slots /\ dpb[curPic] \in Picture /\ dpb[curPic].pos > 0
    BY <1>2 DEF TypeOK, ObjectsOK, Header, List, Held
  <2> DEFINE rec == [dpb[curPic] EXCEPT !.slices = @ + 1, !.poc = pilot.poc,
                       !.tid = pilot.tid, !.ids = @ \cup {pilot.id}]
  <2>2. dpb' = [dpb EXCEPT ![curPic] = rec]
    BY <1>2, <2>1 DEF List, Picture
  <2>3. rec \in Picture /\ rec.pos > 0
    <3>1. dpb[curPic].ids \cup {pilot.id} \in SUBSET Nat /\ dpb[curPic].slices + 1 \in Nat
      BY <2>1 DEF Picture
    <3> QED
      BY <2>1, <3>1 DEF Picture
  <2> HIDE DEF rec
  <2>4. dpb' \in List /\ Held(dpb') = Held(dpb) \cup {curPic}
    BY <2>1, <2>2, <2>3, StoredType
  <2> QED
    BY <1>2, <2>1, <2>4, SliceActivatedType
<1> QED
  BY <1>1, <1>2 DEF ActivateNextSlice

(* The reference picture lists, and the end of the slice.                  *)
LEMMA SetRefPicListType ==
  ASSUME TypeOK, SetRefPicList, UNCHANGED appVars
  PROVE  /\ DecTypeOK' /\ UNCHANGED <<dpb, curPic>>
         /\ \/ phase' = "returned" /\ newPicture' = FALSE
            \/ phase' = "crashed" /\ UNCHANGED firstVars
<1>1. CASE Crash
  <2>1. phase' = "crashed" /\ UNCHANGED <<dpb, curPic, firstVars>>
    BY <1>1 DEF Crash
  <2> QED
    BY <1>1, <2>1, StopType
<1>2. CASE ~Crash
  <2>1. NoPilot \in Header
    BY FreshValues DEF NoPilot, Header, RpsSet, Fill
  <2>2. /\ firstSliceInPicture' = FALSE /\ sliceIdx' = sliceIdx + 1 /\ pilot' = NoPilot
        /\ phase' = "returned" /\ newPicture' = FALSE
        /\ UNCHANGED <<dpb, curPic, headerVars, skipVars, irapVars, firstSliceInSequence,
                       firstSliceInBitstream, prevPOC, pocRandomAccess, prefixSEIs>>
    BY <1>2 DEF SetRefPicList, Return
  <2>3. ObjectsOK'
    BY <2>1, <2>2 DEF TypeOK, ObjectsOK, Phases
  <2>4. FlagsOK'
    BY <2>2 DEF TypeOK, FlagsOK
  <2>5. NumbersOK'
    BY <2>2 DEF TypeOK, NumbersOK
  <2> QED
    BY <2>2, <2>3, <2>4, <2>5 DEF DecTypeOK
<1> QED
  BY <1>1, <1>2

(* A NAL unit without slice data.                                          *)
LEMMA OtherNalUnitType ==
  ASSUME TypeOK, UNCHANGED appVars,
         EndOfSequence(nal) \/ PrefixSEI(nal) \/ ReservedVcl(nal) \/ OtherNal(nal)
  PROVE  /\ DecTypeOK' /\ UNCHANGED <<dpb, curPic, firstVars>> /\ nal.kind # "slice"
         /\ phase' \in {"returned", "crashed"}
<1>1. CASE Crash /\ ReservedVcl(nal)
  BY <1>1, StopType DEF Crash, ReservedVcl
<1>2. CASE ~Crash
  <2>1. /\ UNCHANGED <<dpb, curPic, firstVars, pilot>> /\ nal.kind # "slice"
        /\ phase' = "returned" /\ newPicture' = FALSE
        /\ associatedIRAPType' \in {associatedIRAPType, NoType}
    BY <1>2 DEF EndOfSequence, PrefixSEI, ReservedVcl, OtherNal, Return
  <2>2. ObjectsOK'
    BY <2>1 DEF TypeOK, ObjectsOK, Phases
  <2>3. FlagsOK'
    BY <1>2, <2>1 DEF EndOfSequence, PrefixSEI, ReservedVcl, OtherNal, TypeOK, FlagsOK
  <2>4. NumbersOK'
    <3>1. /\ pocCRA' \in {pocCRA, 0} /\ skippedPOC' \in {skippedPOC, 0}
          /\ pocRandomAccess' \in {pocRandomAccess, MaxInt}
          /\ prevPOC' \in {prevPOC, MaxInt} /\ prefixSEIs' \in {prefixSEIs, prefixSEIs + 1}
          /\ UNCHANGED <<prevTid0POC, lastPOCNoOutputPriorPics, iPOCLastDisplay,
                         numPicsNotYetDisplayed, dpbFullness, sliceIdx, iSkipFrame>>
      BY <1>2 DEF EndOfSequence, PrefixSEI, ReservedVcl, OtherNal
    <3> QED
      BY <3>1, MaxIntAssumption DEF TypeOK, NumbersOK
  <2> QED
    BY <2>1, <2>2, <2>3, <2>4 DEF DecTypeOK
<1>3. CASE Crash /\ ~ReservedVcl(nal)
  <2>1. phase' = "crashed"
    BY <1>3 DEF Crash
  <2>2. phase' = "returned"
    BY <1>3 DEF EndOfSequence, PrefixSEI, OtherNal, Return
  <2> QED
    BY <2>1, <2>2
<1> QED
  BY <1>1, <1>2, <1>3

(* Any step of decode(), of a slice with a header to take over.            *)
LEMMA DecodeType ==
  ASSUME TypeOK, Decode(nal), nal.kind = "slice" /\ nal.dep /\ phase = "decode" => Settled
  PROVE  DecTypeOK'
<1>1. UNCHANGED appVars /\ DecNext(nal)
  BY DEF Decode
<1>2. nal.kind = "slice" => nal \in SliceNal
  BY DEF TypeOK, StreamTypeOK, OtherNals
<1>3. CASE SkipSlice(nal)
  BY <1>1, <1>2, <1>3, SkipSliceType DEF SkipSlice
<1>4. CASE BeginSlice(nal)
  BY <1>1, <1>2, <1>4, BeginSliceType DEF BeginSlice
<1> QED
  BY <1>1, <1>3, <1>4, CreateLostPictureType, ActivateFirstSliceType, ActivateNextSliceType,
     SetRefPicListType, OtherNalUnitType DEF DecNext

-----------------------------------------------------------------------------
(* The picture that is over is filtered in its place, the list sorted.     *)
LEMMA FilteredType ==
  ASSUME TypeOK
  PROVE  Filtered \in List /\ Held(Filtered) = Held(dpb)
<1> DEFINE d == [dpb EXCEPT ![curPic].out = dpb[curPic].pof, ![curPic].recon = TRUE]
<1>1. dpb \in List
  BY DEF TypeOK, ObjectsOK, List
<1>2. d \in List /\ Held(d) = Held(dpb)
  <2>1. CASE curPic \in Slots
    <3>1. dpb[curPic] \in Picture
      BY <1>1, <2>1 DEF List
    <3>2. /\ [dpb[curPic] EXCEPT !.out = dpb[curPic].pof, !.recon = TRUE] \in Picture
          /\ [dpb[curPic] EXCEPT !.out = dpb[curPic].pof, !.recon = TRUE].pos = dpb[curPic].pos
      BY <3>1 DEF Picture
    <3>3. d = [dpb EXCEPT ![curPic] =
                 [dpb[curPic] EXCEPT !.out = dpb[curPic].pof, !.recon = TRUE]]
      BY <1>1, <2>1, <3>1 DEF List, Picture
    <3> HIDE DEF d
    <3> QED
      BY <1>1, <2>1, <3>2, <3>3 DEF List, Held
  <2>2. CASE curPic \notin Slots
    <3>1. d = dpb
      BY <1>1, <2>2 DEF List
    <3> QED
      BY <1>1, <3>1
  <2> QED
    BY <2>1, <2>2
<1> HIDE DEF d
<1>3. Filtered = Sorted(d)
  BY DEF Filtered, d
<1> QED
  BY <1>2, <1>3, SortedType

(* The counts of xWriteOutput() are natural numbers.                       *)
LEMMA CountPicturesType ==
  ASSUME NEW d, CountPictures(d)
  PROVE  numPicsNotYetDisplayed' \in Int /\ dpbFullness' \in Int
<1>1. /\ ToDisplay(d) \in SUBSET Slots
      /\ ToDisplay(d) \cup {s \in Held(d) : d[s].ref} \in SUBSET Slots
  BY DEF ToDisplay, Held
<1> QED
  BY <1>1, FiniteSlots DEF CountPictures

(* What a finished iteration leads to.                                     *)
LEMMA NextPhaseType ==
  \A eof : /\ NextPhase(eof) \in {"decode", "final", "read"}
           /\ NextPhase(eof) = "read" => ~newPicture
           /\ NextPhase(eof) = "decode" => newPicture
  BY DEF NextPhase
(* A NAL unit of a layer that is not decoded.                              *)
LEMMA IgnoreLayerType ==
  ASSUME TypeOK, IgnoreLayer(nal)
  PROVE  DecTypeOK' /\ dpb' = dpb
<1>1. ObjectsOK' /\ dpb' = dpb
  BY DEF IgnoreLayer, Return, TypeOK, ObjectsOK, Phases
<1>2. FlagsOK'
  BY DEF IgnoreLayer, Return, TypeOK, FlagsOK
<1>3. NumbersOK'
  BY DEF IgnoreLayer, TypeOK, NumbersOK
<1> QED
  BY <1>1, <1>2, <1>3 DEF DecTypeOK

(* The next NAL unit.                                                      *)
LEMMA ReadNalType ==
  ASSUME TypeOK, ReadNal
  PROVE  TypeOK' /\ dpb' = dpb
<1>1. StreamTypeOK'
  BY SendType DEF ReadNal, TypeOK
<1>2. ObjectsOK' /\ dpb' = dpb
  BY DEF ReadNal, TypeOK, ObjectsOK, Phases
<1>3. FlagsOK'
  BY DEF ReadNal, TypeOK, FlagsOK
<1>4. NumbersOK'
  BY DEF ReadNal, TypeOK, NumbersOK
<1> QED
  BY <1>1, <1>2, <1>3, <1>4 DEF TypeOK

(* Finishing a picture removes none.                                       *)
LEMMA FinishPictureType ==
  ASSUME TypeOK, FinishPicture(nal, last)
  PROVE  DecTypeOK' /\ Held(dpb') = Held(dpb)
<1>1. dpb' \in List /\ Held(dpb') = Held(dpb)
  <2>1. dpb' \in {Filtered, dpb} /\ dpb \in List
    BY DEF FinishPicture, TypeOK, ObjectsOK, List
  <2> QED
    BY <2>1, FilteredType
<1>2. phase' \in Phases
  BY NextPhaseType DEF FinishPicture, Phases
<1>3. ObjectsOK'
  BY <1>1, <1>2 DEF FinishPicture, TypeOK, ObjectsOK, List
<1>4. FlagsOK'
  <2>1. listSet \in BOOLEAN /\ loopFiltered \in BOOLEAN /\ firstSliceInSequence \in BOOLEAN
        /\ firstSliceInPicture \in BOOLEAN
    BY DEF TypeOK, FlagsOK
  <2>2. listSet' \in BOOLEAN /\ loopFiltered' \in BOOLEAN /\ firstSliceInSequence' \in BOOLEAN
        /\ firstSliceInPicture' \in BOOLEAN
    BY <2>1, Zenon DEF FinishPicture
  <2> QED
    BY <2>2 DEF FinishPicture, TypeOK, FlagsOK
<1>5. NumbersOK'
  <2>1. numPicsNotYetDisplayed' \in Int /\ dpbFullness' \in Int
    <3>1. (\E d : CountPictures(d)) \/ UNCHANGED counterVars
      BY DEF FinishPicture
    <3> QED
      BY <3>1, CountPicturesType DEF TypeOK, NumbersOK
  <2> QED
    BY <2>1 DEF FinishPicture, TypeOK, NumbersOK
<1> QED
  BY <1>1, <1>3, <1>4, <1>5 DEF DecTypeOK

(* Bumping writes a picture and leaves it in the list.                     *)
LEMMA BumpType ==
  ASSUME TypeOK, Bump
  PROVE  DecTypeOK' /\ Held(dpb') = Held(dpb)
<1>1. PICK s \in Slots : /\ IsFirst(dpb, s, ToDisplay(dpb))
                         /\ iPOCLastDisplay' = dpb[s].poc
                         /\ dpb' = [dpb EXCEPT ![s] = Displayed(@)]
                         /\ numPicsNotYetDisplayed' = numPicsNotYetDisplayed - 1
                         /\ dpbFullness' = IF dpb[s].ref THEN dpbFullness ELSE dpbFullness - 1
  BY DEF Bump
<1>2. dpb \in List /\ s \in Held(dpb) /\ dpb[s] \in Picture /\ dpb[s].pos > 0
  BY <1>1 DEF TypeOK, ObjectsOK, List, IsFirst, ToDisplay, Held
<1>3. Displayed(dpb[s]) \in Picture /\ Displayed(dpb[s]).pos > 0
  <2>1. (dpb[s].ref /\ dpb[s].recon) \in BOOLEAN
    OBVIOUS
  <2> QED
    BY <1>2, <2>1 DEF Displayed, Picture
<1>4. dpb' \in List /\ Held(dpb') = Held(dpb)
  <2>1. dpb' = [dpb EXCEPT ![s] = Displayed(dpb[s])]
    BY <1>1
  <2>2. Held(dpb) \cup {s} = Held(dpb)
    BY <1>2
  <2> QED
    BY <1>2, <1>3, <2>1, <2>2, StoredType
<1>5. ObjectsOK'
  BY <1>4 DEF Bump, TypeOK, ObjectsOK, List
<1>6. FlagsOK'
  BY DEF Bump, TypeOK, FlagsOK
<1>7. iPOCLastDisplay' \in Int /\ numPicsNotYetDisplayed' \in Int /\ dpbFullness' \in Int
  BY <1>1, <1>2 DEF Picture, TypeOK, NumbersOK
<1>8. NumbersOK'
  BY <1>7 DEF Bump, TypeOK, NumbersOK
<1> QED
  BY <1>4, <1>5, <1>6, <1>8 DEF DecTypeOK
(* The end of bumping.                                                     *)
LEMMA EndBumpType ==
  ASSUME TypeOK, EndBump(last)
  PROVE  DecTypeOK' /\ dpb' = dpb
<1>1. phase' \in Phases
  BY NextPhaseType DEF EndBump, Phases
<1>2. ObjectsOK' /\ dpb' = dpb
  BY <1>1 DEF EndBump, TypeOK, ObjectsOK
<1>3. FlagsOK'
  BY DEF EndBump, TypeOK, FlagsOK
<1>4. NumbersOK'
  BY DEF EndBump, TypeOK, NumbersOK
<1> QED
  BY <1>2, <1>3, <1>4 DEF DecTypeOK

(* Prior pictures that are not to be output remain in the list.            *)
LEMMA CheckNoOutputPriorPicsType ==
  ASSUME TypeOK, CheckNoOutputPriorPics(nal)
  PROVE  DecTypeOK' /\ Held(dpb') = Held(dpb)
<1>1. dpb \in List
  BY DEF TypeOK, ObjectsOK, List
<1>2. WithoutPriorPics \in List /\ Held(WithoutPriorPics) = Held(dpb)
  <2>1. ASSUME NEW s \in Slots
        PROVE  WithoutPriorPics[s] \in Picture /\ WithoutPriorPics[s].pos = dpb[s].pos
    <3>1. dpb[s] \in Picture
      BY <1>1 DEF List
    <3>2. [dpb[s] EXCEPT !.out = FALSE] \in Picture
          /\ [dpb[s] EXCEPT !.out = FALSE].pos = dpb[s].pos
      BY <3>1 DEF Picture
    <3>3. WithoutPriorPics[s] \in {dpb[s], [dpb[s] EXCEPT !.out = FALSE]}
      BY DEF WithoutPriorPics
    <3> QED
      BY <3>1, <3>2, <3>3
  <2>2. WithoutPriorPics = [s \in Slots |-> WithoutPriorPics[s]]
    BY DEF WithoutPriorPics
  <2> QED
    BY <1>1, <2>1, <2>2 DEF List, Held
<1>3. dpb' \in List /\ Held(dpb') = Held(dpb)
  <2>1. dpb' \in {WithoutPriorPics, dpb}
    BY DEF CheckNoOutputPriorPics
  <2> QED
    BY <1>1, <1>2, <2>1
<1>4. ObjectsOK'
  BY <1>3 DEF CheckNoOutputPriorPics, TypeOK, ObjectsOK, Phases, List
<1>5. FlagsOK'
  <2>1. isNoOutputPriorPics' \in BOOLEAN
    BY Zenon DEF CheckNoOutputPriorPics
  <2> QED
    BY <2>1 DEF CheckNoOutputPriorPics, TypeOK, FlagsOK
<1>6. NumbersOK'
  BY DEF CheckNoOutputPriorPics, TypeOK, NumbersOK
<1> QED
  BY <1>3, <1>4, <1>5, <1>6 DEF DecTypeOK

(* A flush deletes a picture.                                              *)
LEMMA FlushPictureType ==
  ASSUME TypeOK, FlushPicture
  PROVE  DecTypeOK'
<1>1. PICK s \in Slots :
        /\ iPOCLastDisplay' = IF Held(dpb) = {s} THEN -MaxInt
                              ELSE IF dpb[s].out THEN dpb[s].poc ELSE iPOCLastDisplay
        /\ dpb' = [dpb EXCEPT ![s] = NewPicture]
  BY DEF FlushPicture
<1>2. dpb \in [Slots -> Picture] /\ dpb' \in [Slots -> Picture]
  BY <1>1, NewPictureType DEF TypeOK, ObjectsOK
<1>3. ObjectsOK'
  BY <1>2 DEF FlushPicture, TypeOK, ObjectsOK
<1>4. FlagsOK'
  BY DEF FlushPicture, TypeOK, FlagsOK
<1>5. iPOCLastDisplay' \in Int
  <2>1. dpb[s].poc \in Int
    BY <1>2 DEF Picture
  <2> QED
    BY <1>1, <2>1, MaxIntAssumption DEF TypeOK, NumbersOK
<1>6. NumbersOK'
  BY <1>5 DEF FlushPicture, TypeOK, NumbersOK
<1> QED
  BY <1>3, <1>4, <1>6 DEF DecTypeOK

(* The end of a flush.                                                     *)
LEMMA EndFlushType ==
  ASSUME TypeOK, EndFlush
  PROVE  DecTypeOK' /\ dpb' = dpb
<1>1. ObjectsOK' /\ dpb' = dpb
  BY DEF EndFlush, TypeOK, ObjectsOK, Phases
<1>2. FlagsOK'
  BY DEF EndFlush, TypeOK, FlagsOK
<1>3. NumbersOK'
  BY DEF EndFlush, TypeOK, NumbersOK
<1> QED
  BY <1>1, <1>2, <1>3 DEF DecTypeOK

(* The output that follows.                                                *)
LEMMA BeginSecondOutputType ==
  ASSUME TypeOK, BeginSecondOutput(nal, last)
  PROVE  DecTypeOK' /\ dpb' = dpb
<1>1. phase' \in Phases
  BY NextPhaseType DEF BeginSecondOutput, Phases
<1>2. ObjectsOK' /\ dpb' = dpb
  BY <1>1 DEF BeginSecondOutput, TypeOK, ObjectsOK
<1>3. FlagsOK'
  BY DEF BeginSecondOutput, TypeOK, FlagsOK
<1>4. numPicsNotYetDisplayed' \in Int /\ dpbFullness' \in Int
  <2>1. CountPictures(dpb) \/ UNCHANGED counterVars
    BY DEF BeginSecondOutput
  <2> QED
    BY <2>1, CountPicturesType DEF TypeOK, NumbersOK
<1>5. NumbersOK'
  BY <1>4 DEF BeginSecondOutput, TypeOK, NumbersOK
<1> QED
  BY <1>2, <1>3, <1>5 DEF DecTypeOK

-----------------------------------------------------------------------------
(* Dependent slice segments.                                               *)

(* A slice of a coded picture is sent with its temporal layer.             *)
LEMMA SendKeepsDependentSent ==
  ASSUME StreamTypeOK, DependentSent, Send
  PROVE  /\ DependentSent'
         /\ nal'.kind = "slice" /\ nal'.dep =>
              nal.kind = "slice" /\ nal.tid = nal'.tid
<1>1. Dependent => ~Lose
  BY LossAssumption, StreamAssumption DEF Lose, StreamTypeOK
<1>2. NoNal.kind = "NONE"
  BY DEF NoNal
<1>3. CASE SendPicture
  <2>1. PICK c : /\ coded' = Append(coded, c)
                 /\ Deliver(SliceOf(c, Len(coded) + 1, TRUE, FALSE)) \/ Lose
    <3>1. PICK type, poc, tid, pof, noPrior, kept, used :
            SendFirstSlice(PictureOf(type, poc, tid, pof, noPrior, kept, used), kept)
      BY <1>3, SMTT(30) DEF SendPicture
    <3> QED
      BY <3>1 DEF SendFirstSlice
  <2>2. coded \in Seq(CodedPicture)
    BY DEF StreamTypeOK
  <2>3. coded'[Len(coded')] = c
    BY <2>1, <2>2
  <2>4. CASE Deliver(SliceOf(c, Len(coded) + 1, TRUE, FALSE))
    <3>1. nal'.kind = "slice" /\ nal'.tid = c.tid /\ nal'.dep = FALSE
      BY <2>4 DEF Deliver, SliceOf
    <3> QED
      BY <2>3, <3>1 DEF DependentSent
  <2>5. CASE Lose
    <3>1. nal'.kind = "NONE" /\ ~Dependent
      BY <1>1, <1>2, <2>5 DEF Lose
    <3> QED
      BY <3>1 DEF DependentSent
  <2> QED
    BY <2>1, <2>4, <2>5
<1>4. CASE SendSlice
  <2>1. PICK dep \in {FALSE, Dependent} :
          Deliver(SliceOf(coded[Len(coded)], Len(coded), FALSE, dep)) \/ Lose
    BY <1>4 DEF SendSlice
  <2>2. moreSlices > 0 /\ coded' = coded
    BY <1>4 DEF SendSlice
  <2>3. CASE Deliver(SliceOf(coded[Len(coded)], Len(coded), FALSE, dep))
    <3>1. nal'.kind = "slice" /\ nal'.tid = coded[Len(coded)].tid /\ nal'.dep = dep
      BY <2>3 DEF Deliver, SliceOf
    <3> QED
      BY <2>1, <2>2, <3>1 DEF DependentSent
  <2>4. CASE Lose
    <3>1. nal'.kind = "NONE" /\ ~Dependent
      BY <1>1, <1>2, <2>4 DEF Lose
    <3> QED
      BY <3>1 DEF DependentSent
  <2> QED
    BY <2>1, <2>3, <2>4
<1>5. CASE SendExtra \/ SendEndOfBitstream
  <2>1. moreSlices' = 0
    BY <1>5 DEF SendExtra, SendEndOfBitstream
  <2>2. nal'.kind # "slice"
    <3>1. CASE SendExtra
      <4>1. PICK kind \in Extras : nal' = [kind |-> kind, tid |-> 0]
        BY <3>1 DEF SendExtra, Deliver
      <4> QED
        BY <4>1, StreamAssumption
    <3>2. CASE SendEndOfBitstream
      BY <3>2 DEF SendEndOfBitstream
    <3> QED
      BY <1>5, <3>1, <3>2
  <2> QED
    BY <2>1, <2>2 DEF DependentSent
<1> QED
  BY <1>3, <1>4, <1>5 DEF Send
-----------------------------------------------------------------------------
(* The invariants of the whole, each of which needs the others.            *)
Inv == TypeOK /\ RetryInv /\ DependentInv /\ HeldInv

(* They hold initially.                                                    *)
LEMMA InitInv == Init => Inv
<1> SUFFICES ASSUME Init PROVE Inv
  OBVIOUS
<1>1. /\ phase = "read" /\ newPicture = FALSE /\ firstSliceInPicture = TRUE
      /\ nal.kind = "NONE" /\ moreSlices = 0
  BY DEF Init, AppInit, DecInit, StreamInit, NoNal
<1>2. DependentInv
  BY <1>1 DEF DependentInv, DependentSent
<1>3. HeldInv
  BY <1>1 DEF HeldInv, OpenPictureIsHeld
<1> QED
  BY <1>2, <1>3, InitType, InitRetryInv DEF Inv

(* The next NAL unit continues what the one before it began.               *)
LEMMA ReadNalKeepsInv ==
  ASSUME Inv, ReadNal
  PROVE  Inv'
<1>1. /\ phase = "read" /\ ~newPicture /\ newPicture' = FALSE /\ Send
      /\ phase' = IF nal' = NoNal THEN "read" ELSE "decode"
      /\ UNCHANGED <<dpb, curPic, firstVars, prevSliceSkipped>>
  BY DEF ReadNal, Inv, DependentInv
<1>2. TypeOK' /\ RetryInv'
  BY ReadNalType, ReadNalKeepsRetryInv DEF Inv
<1>3. DependentSent' /\ (nal'.kind = "slice" /\ nal'.dep => nal.kind = "slice" /\ nal.tid = nal'.tid)
  BY <1>1, SendKeepsDependentSent DEF Inv, DependentInv, TypeOK
<1>4. nal'.kind = "slice" /\ nal'.dep /\ ~IsNotDecoded(nal)' => Settled'
  <2> SUFFICES ASSUME nal'.kind = "slice", nal'.dep, ~IsNotDecoded(nal)' PROVE Settled'
    OBVIOUS
  <2>1. Settled
    BY <1>1, <1>3 DEF Inv, DependentInv, IsNotDecoded
  <2> QED
    BY <1>1, <2>1 DEF Settled
<1>5. DependentInv'
  <2>1. nal' = NoNal => nal'.kind = "NONE"
    BY DEF NoNal
  <2> QED
    BY <1>1, <1>3, <1>4, <2>1 DEF DependentInv
<1>6. HeldInv'
  BY <1>1 DEF Inv, HeldInv, OpenPictureIsHeld
<1> QED
  BY <1>2, <1>5, <1>6 DEF Inv

(* decode() hands back no dependent slice segment, and keeps the picture   *)
(* it has opened.                                                          *)
LEMMA DecodeKeepsInv ==
  ASSUME Inv, Decode(nal), UNCHANGED streamVars
  PROVE  Inv'
<1> USE DEF streamVars
<1>1. UNCHANGED appVars /\ DecNext(nal) /\ ~IsNotDecoded(nal)
  BY DEF Decode
<1>2. StreamTypeOK'
  BY DEF Inv, TypeOK, StreamTypeOK
<1>3. DecTypeOK'
  BY <1>1, DecodeType DEF Inv, DependentInv
<1>4. TypeOK' /\ RetryInv'
  BY <1>2, <1>3, DecodeKeepsRetryInv DEF Inv, TypeOK, DecTypeOK
<1>5. DependentSent' /\ (IsNotDecoded(nal)' <=> IsNotDecoded(nal))
  BY DEF Inv, DependentInv, DependentSent, IsNotDecoded
<1>6. ASSUME phase' \in {"returned", "conceal", "lists", "aborted", "crashed"},
             phase' = "returned" /\ ~newPicture' /\ nal.kind = "slice" => Settled',
             phase' = "returned" /\ newPicture' => ~nal.dep
      PROVE  DependentInv'
  BY <1>5, <1>6 DEF DependentInv
<1>7. ASSUME phase' \in {"returned", "conceal", "lists", "aborted", "crashed"},
             phase \in {"decode", "conceal", "lists"},
             Held(dpb) \subseteq Held(dpb'),
             curPic' \in Held(dpb') \/ UNCHANGED <<curPic, firstVars>>,
             phase' = "lists" => curPic' \in Held(dpb')
      PROVE  HeldInv'
  BY <1>7 DEF Inv, HeldInv, OpenPictureIsHeld
<1>8. CASE SkipSlice(nal)
  <2>1. /\ phase = "decode" /\ phase' = "returned" /\ newPicture' = FALSE
        /\ prevSliceSkipped' = TRUE
        /\ UNCHANGED <<dpb, curPic, firstVars>>
    BY <1>8 DEF SkipSlice, Return
  <2> QED
    BY <1>4, <1>6, <1>7, <2>1 DEF Settled, Inv
<1>9. CASE BeginSlice(nal)
  <2>1. /\ phase = "decode" /\ phase' \in {"returned", "conceal"}
        /\ phase' = "returned" => newPicture' = TRUE /\ ~nal.dep
        /\ UNCHANGED <<dpb, curPic, firstVars>>
    BY <1>9 DEF BeginSlice, Return, StartsPicture
  <2> QED
    BY <1>4, <1>6, <1>7, <2>1 DEF Inv
<1>10. CASE CreateLostPicture
  <2>1. /\ phase = "conceal" /\ phase' = "conceal" /\ Held(dpb) \subseteq Held(dpb')
        /\ UNCHANGED <<curPic, firstVars>>
    BY <1>1, <1>10, CreateLostPictureType DEF CreateLostPicture, Inv
  <2> QED
    BY <1>4, <1>6, <1>7, <2>1 DEF Inv
<1>11. CASE ActivateFirstSlice \/ ActivateNextSlice
  <2>1. /\ phase = "conceal" /\ Held(dpb) \subseteq Held(dpb')
        /\ \/ /\ phase' \in {"returned", "lists"} /\ curPic' \in Held(dpb')
              /\ newPicture' = FALSE
           \/ phase' \in {"aborted", "crashed"} /\ UNCHANGED <<curPic, firstVars>>
    BY <1>1, <1>11, ActivateFirstSliceType, ActivateNextSliceType
    DEF ActivateFirstSlice, ActivateNextSlice, Inv
  <2>2. curPic' \in Held(dpb') => Settled'
    BY HeldIsSlot DEF Settled
  <2> QED
    BY <1>4, <1>6, <1>7, <2>1, <2>2 DEF Inv
<1>12. CASE SetRefPicList
  <2>1. /\ phase = "lists" /\ UNCHANGED <<dpb, curPic>>
        /\ (phase' = "returned" /\ newPicture' = FALSE) \/ phase' = "crashed"
    BY <1>1, <1>12, SetRefPicListType DEF SetRefPicList, Inv
  <2>2. curPic' \in Held(dpb') /\ Settled'
    BY <2>1, HeldIsSlot DEF Inv, HeldInv, Settled
  <2> QED
    BY <1>4, <1>6, <1>7, <2>1, <2>2 DEF Inv
<1>13. CASE EndOfSequence(nal) \/ PrefixSEI(nal) \/ ReservedVcl(nal) \/ OtherNal(nal)
  <2>1. /\ phase = "decode" /\ phase' \in {"returned", "crashed"} /\ nal.kind # "slice"
        /\ UNCHANGED <<dpb, curPic, firstVars>>
    BY <1>1, <1>13, OtherNalUnitType DEF EndOfSequence, PrefixSEI, ReservedVcl, OtherNal, Inv
  <2>2. phase' = "returned" => ~newPicture'
    BY <1>4, <2>1 DEF RetryInv
  <2> QED
    BY <1>4, <1>6, <1>7, <2>1, <2>2 DEF Inv
<1> QED
  BY <1>1, <1>8, <1>9, <1>10, <1>11, <1>12, <1>13 DEF DecNext
(* The steps of the application keep the open picture: the list is cleared *)
(* only when a slice has been handed back.                                 *)
LEMMA AppStepKeepsInv ==
  ASSUME Inv, UNCHANGED streamVars,
         \/ IgnoreLayer(nal) \/ FinishPicture(nal, last)
         \/ Bump \/ EndBump(last) \/ CheckNoOutputPriorPics(nal)
         \/ FlushPicture \/ EndFlush \/ BeginSecondOutput(nal, last)
  PROVE  Inv'
<1> USE DEF streamVars
<1>1. StreamTypeOK'
  BY DEF Inv, TypeOK, StreamTypeOK
<1>2. DecTypeOK' => TypeOK'
  BY <1>1 DEF TypeOK, DecTypeOK
<1>3. DependentSent' /\ (IsNotDecoded(nal)' <=> IsNotDecoded(nal))
  BY DEF Inv, DependentInv, DependentSent, IsNotDecoded
<1>4. ASSUME phase \in (AfterFinish \ {"decode"}) \cup {"returned", "final"},
             phase' \in AfterFinish \cup {"read", "final", "done"},
             phase' = "read" => ~newPicture, phase' = "decode" => newPicture,
             phase = "final" => phase' \in {"final", "done"},
             UNCHANGED <<newPicture, curPic, prevSliceSkipped>>
      PROVE  DependentInv'
  BY <1>3, <1>4 DEF Inv, DependentInv, Settled
<1>5. ASSUME Held(dpb') = Held(dpb), UNCHANGED <<firstVars, curPic, newPicture>>,
             \/ phase' = phase
             \/ phase = "bump1" /\ phase' = "prior"
             \/ phase = "prior" /\ phase' \in {"output2", "flush"} /\ (phase' = "flush" => newPicture)
             \/ phase = "flush" /\ phase' = "output2"
             \/ phase' \in {"read", "decode", "final", "done"} /\ phase \notin {"final", "done"}
             \/ phase = "final" /\ phase' = "done"
      PROVE  HeldInv'
  BY <1>5 DEF Inv, HeldInv, OpenPictureIsHeld
<1>6. CASE IgnoreLayer(nal)
  <2>1. /\ phase = "decode" /\ phase' = "returned" /\ newPicture' = FALSE /\ IsNotDecoded(nal)
        /\ UNCHANGED <<dpb, curPic, firstVars>>
    BY <1>6 DEF IgnoreLayer, Return
  <2>2. TypeOK'
    BY <1>2, <1>6, IgnoreLayerType DEF Inv
  <2>3. DependentInv' /\ RetryInv'
    BY <1>3, <2>1 DEF DependentInv, RetryInv
  <2>4. HeldInv'
    BY <2>1 DEF Inv, HeldInv, OpenPictureIsHeld
  <2> QED
    BY <2>2, <2>3, <2>4 DEF Inv
<1>7. CASE FinishPicture(nal, last)
  <2>1. /\ phase = "returned" /\ UNCHANGED <<newPicture, curPic, prevSliceSkipped>>
        /\ phase' \in {"bump1", "prior", "decode", "final", "read"}
        /\ phase' = "read" => ~newPicture
        /\ phase' = "decode" => newPicture
    BY <1>7, NextPhaseType DEF FinishPicture
  <2>2. TypeOK' /\ Held(dpb') = Held(dpb)
    BY <1>2, <1>7, FinishPictureType DEF Inv
  <2>3. DependentInv' /\ RetryInv'
    BY <1>4, <1>7, <2>1, FinishPictureKeepsRetryInv DEF Inv
  <2>4. /\ ~firstSliceInPicture' /\ ~firstSliceInSequence'
              => ~firstSliceInPicture /\ ~firstSliceInSequence
        /\ nal.kind = "EOS" => firstSliceInSequence'
    BY <1>7 DEF FinishPicture, IsOver
  <2>5. HeldInv'
    BY <2>1, <2>2, <2>4 DEF Inv, HeldInv, OpenPictureIsHeld
  <2> QED
    BY <2>2, <2>3, <2>5 DEF Inv
<1>8. CASE Bump
  <2>1. /\ phase \in {"bump1", "bump2"} /\ phase' = phase
        /\ UNCHANGED <<newPicture, curPic, prevSliceSkipped, firstVars>>
    BY <1>8 DEF Bump
  <2>2. TypeOK' /\ Held(dpb') = Held(dpb)
    BY <1>2, <1>8, BumpType DEF Inv
  <2> QED
    BY <1>4, <1>5, <1>8, <2>1, <2>2, OutputKeepsRetryInv DEF Inv
<1>9. CASE EndBump(last)
  <2>1. /\ phase \in {"bump1", "bump2"}
        /\ phase = "bump1" => phase' = "prior"
        /\ phase = "bump2" => phase' \in {"decode", "final", "read"}
        /\ phase' = "read" => ~newPicture
        /\ phase' = "decode" => newPicture
        /\ UNCHANGED <<newPicture, dpb, curPic, prevSliceSkipped, firstVars>>
    BY <1>9, NextPhaseType DEF EndBump
  <2>2. TypeOK'
    BY <1>2, <1>9, EndBumpType DEF Inv
  <2> QED
    BY <1>4, <1>5, <1>9, <2>1, <2>2, OutputKeepsRetryInv DEF Inv
<1>10. CASE CheckNoOutputPriorPics(nal)
  <2>1. /\ phase = "prior" /\ phase' \in {"output2", "flush"}
        /\ phase' = "flush" => newPicture
        /\ UNCHANGED <<newPicture, curPic, prevSliceSkipped, firstVars>>
    BY <1>10 DEF CheckNoOutputPriorPics, FlushesList
  <2>2. TypeOK' /\ Held(dpb') = Held(dpb)
    BY <1>2, <1>10, CheckNoOutputPriorPicsType DEF Inv
  <2> QED
    BY <1>4, <1>5, <1>10, <2>1, <2>2, OutputKeepsRetryInv DEF Inv
<1>11. CASE FlushPicture
  <2>1. /\ phase \in {"flush", "final"} /\ phase' = phase
        /\ UNCHANGED <<newPicture, curPic, prevSliceSkipped, firstVars>>
    BY <1>11 DEF FlushPicture
  <2>2. TypeOK' /\ RetryInv' /\ DependentInv'
    BY <1>2, <1>4, <1>11, <2>1, FlushPictureType, OutputKeepsRetryInv DEF Inv
  <2>3. phase = "flush" => firstSliceInPicture'
    BY <2>1 DEF Inv, HeldInv, RetryInv
  <2>4. HeldInv'
    BY <2>1, <2>3 DEF Inv, HeldInv, OpenPictureIsHeld
  <2> QED
    BY <2>2, <2>4 DEF Inv
<1>12. CASE EndFlush
  <2>1. /\ \/ phase = "flush" /\ phase' = "output2"
           \/ phase = "final" /\ phase' = "done"
        /\ UNCHANGED <<newPicture, dpb, curPic, prevSliceSkipped, firstVars>>
    BY <1>12 DEF EndFlush
  <2>2. TypeOK'
    BY <1>2, <1>12, EndFlushType DEF Inv
  <2> QED
    BY <1>4, <1>5, <1>12, <2>1, <2>2, OutputKeepsRetryInv DEF Inv
<1>13. CASE BeginSecondOutput(nal, last)
  <2>1. /\ phase = "output2" /\ phase' \in {"bump2", "decode", "final", "read"}
        /\ phase' = "read" => ~newPicture
        /\ phase' = "decode" => newPicture
        /\ UNCHANGED <<newPicture, dpb, curPic, prevSliceSkipped, firstSliceInSequence>>
        /\ nal.kind # "EOS" => UNCHANGED firstSliceInPicture
    BY <1>13, NextPhaseType DEF BeginSecondOutput
  <2>2. TypeOK' /\ RetryInv' /\ DependentInv'
    BY <1>2, <1>4, <1>13, <2>1, BeginSecondOutputType, OutputKeepsRetryInv DEF Inv
  <2>3. HeldInv'
    BY <2>1 DEF Inv, HeldInv, OpenPictureIsHeld
  <2> QED
    BY <2>2, <2>3 DEF Inv
<1> QED
  BY <1>6, <1>7, <1>8, <1>9, <1>10, <1>11, <1>12, <1>13

(* The invariants are inductive.                                           *)
LEMMA NextInv == Inv /\ [Next]_vars => Inv'
<1> SUFFICES ASSUME Inv, [Next]_vars PROVE Inv'
  OBVIOUS
<1>1. CASE ReadNal
  BY <1>1, ReadNalKeepsInv
<1>2. CASE DecoderStep
  BY <1>2, DecodeKeepsInv, AppStepKeepsInv DEF DecoderStep, AppNext
<1>3. CASE UNCHANGED vars
  <2> USE <1>3 DEF vars, decVars, streamVars
  <2>1. TypeOK'
    BY DEF Inv, TypeOK, StreamTypeOK, ObjectsOK, FlagsOK, NumbersOK
  <2>2. RetryInv' /\ DependentInv'
    BY DEF Inv, RetryInv, DependentInv, DependentSent, Settled, IsNotDecoded
  <2>3. HeldInv'
    BY DEF Inv, HeldInv, OpenPictureIsHeld
  <2> QED
    BY <2>1, <2>2, <2>3 DEF Inv
<1> QED
  BY <1>1, <1>2, <1>3 DEF Next

-----------------------------------------------------------------------------
(* Every variable of the decoder, the application and the stream keeps its *)
(* type; in particular no POC is taken from a picture that does not exist. *)
THEOREM DecodingTypeCorrect == Spec => []TypeOK
<1>1. Inv => TypeOK
  BY DEF Inv
<1> QED
  BY <1>1, InitInv, NextInv, PTL DEF Spec

(* A picture some slices of which have been decoded is in the list as long *)
(* as more of them may arrive: whatever is bumped, concealed, dropped or   *)
(* flushed, m_pcPic does not dangle before the final flush.                *)
THEOREM OpenPictureStays == Spec => []OpenPictureIsHeld
<1>1. Inv => OpenPictureIsHeld
  BY DEF Inv, HeldInv
<1> QED
  BY <1>1, InitInv, NextInv, PTL DEF Spec
=============================================================================
