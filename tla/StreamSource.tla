----------------------------- MODULE StreamSource -----------------------------
(***************************************************************************)
(* The bitstream the decoder reads, one NAL unit at a time: any coded      *)
(* video sequence of at most MaxPics pictures that obeys the rules a       *)
(* conforming encoder obeys, among them the constraints TComSlice asserts  *)
(* (leading pictures, reference picture sets), and the pictures a          *)
(* conforming decoder outputs for it, in output order.  NAL units may be   *)
(* lost on the way when MaxLosses is positive.  External to the decoder.      *)
(***************************************************************************)
EXTENDS Sequences, FiniteSets, Config

CONSTANTS
  MaxPics,        \* bound on the coded pictures
  MaxSlices,      \* bound on the slices of a picture
  MaxExtras,      \* bound on the NAL units that are not slices
  MaxLosses,      \* bound on the slices lost on the way
  FirstTypes,     \* the slice types of a first picture
  Types,          \* the slice types of the others
  Pocs,           \* the picture order counts it uses
  Extras,         \* the other NAL units it sends: of "EOS", "SEI", "RSV", "OTHER"
  Dependent,      \* whether it uses dependent slice segments
  PicOutputFlags, \* the values of pic_output_flag it uses
  NoPriorFlags    \* the values of no_output_of_prior_pics_flag it uses

ASSUME StreamAssumption ==
  /\ {MaxPics, MaxSlices, MaxExtras, MaxLosses} \subseteq Nat
  /\ FirstTypes \subseteq RapTypes
  /\ Types \subseteq SliceTypes /\ Pocs \subseteq Int
  /\ Extras \subseteq {"EOS", "SEI", "RSV", "OTHER"}
  /\ {Dependent} \cup PicOutputFlags \cup NoPriorFlags \subseteq BOOLEAN

(* Slices of a lost picture would be taken for the next one's.             *)
ASSUME LossAssumption == MaxLosses > 0 => ~Dependent

VARIABLES
  nal,        \* the NAL unit the decoder is handed
  last,       \* whether the end of the file was met while reading it
  coded,      \* the pictures coded so far; a picture's id is its index
  moreSlices, \* slices of the last picture still to be sent
  extras,     \* other NAL units sent so far
  losses,     \* slices lost so far
  sequenceEnd,\* an end of sequence has been sent: a new sequence is due
  references, \* ids the encoder keeps as reference pictures
  waiting,    \* [id, poc] of what a conforming decoder still has to output
  output      \* ids it has output, in order

streamVars == <<nal, last, coded, moreSlices, extras, losses, sequenceEnd, references,
                waiting, output>>

NoNal == [kind |-> "NONE", tid |-> 0]

StreamInit ==
  /\ nal = NoNal
  /\ last = FALSE
  /\ coded = << >>
  /\ moreSlices = 0
  /\ extras = 0
  /\ losses = 0
  /\ sequenceEnd = TRUE
  /\ references = {}
  /\ waiting = {}
  /\ output = << >>

-----------------------------------------------------------------------------
(* The pictures of the current sequence.                                   *)

Poc(id) == coded[id].poc

IrapIds == {id \in DOMAIN coded : coded[id].type \in RapTypes}

CurrentIrap == CHOOSE id \in IrapIds : \A j \in IrapIds : j <= id

(* An IRAP picture that starts a sequence: nothing before it is used.      *)
StartsSequence(type) == type \in IdrTypes \cup BlaTypes \/ (type = "CRA" /\ sequenceEnd)

(* The ids of the current sequence. *)
SequenceIds ==
  LET starts == {id \in IrapIds : coded[id].starts}
  IN IF starts = {} THEN {} ELSE {id \in DOMAIN coded : \E s \in starts :
                                   id >= s /\ \A t \in starts : t <= s}

(* The POC the next picture's LSBs are completed from.                     *)
AnchorPoc ==
  LET anchors == {id \in SequenceIds : coded[id].tid = 0 /\ coded[id].type \in AnchorTypes}
  IN Poc(CHOOSE id \in anchors : \A j \in anchors : j <= id)

(* A RASL picture of an IRAP picture that starts a sequence cannot be      *)
(* decoded: neither output nor referenced by what can.                     *)
Decodable(c) == c.type \in RaslTypes => ~coded[CurrentIrap].starts

-----------------------------------------------------------------------------
(* Rules on a picture with that type, POC and temporal layer.              *)

PocIsLegal(type, poc) ==
  IF type \in IdrTypes THEN poc = 0
  ELSE IF StartsSequence(type) THEN poc \in 0..MaxPocLsb - 1
  ELSE /\ \A id \in SequenceIds : Poc(id) # poc
       /\ 2 * (poc - AnchorPoc) < MaxPocLsb /\ 2 * (AnchorPoc - poc) < MaxPocLsb

LayerIsLegal(type, tid) ==
  /\ type \in RapTypes => tid = 0
  /\ type \in TsaTypes \cup {"STSA_N", "STSA_R"} => tid > 0

(* Leading pictures follow their IRAP picture in decoding order, before    *)
(* any trailing one, and precede it in output order; RASL pictures precede *)
(* RADL pictures in output order, follow the previous IRAP picture, and    *)
(* RADL pictures follow everything before the IRAP picture.                *)
OrderIsConforming(type, poc) ==
  IF StartsSequence(type) THEN TRUE
  ELSE IF type = "CRA" THEN \A id \in SequenceIds : Poc(id) < poc
  ELSE LET irap == CurrentIrap
           own  == {id \in SequenceIds : id > irap}
           before == {id \in SequenceIds : id < irap}
       IN IF type \in TrailingTypes THEN poc > Poc(irap)
          ELSE /\ poc < Poc(irap)
               /\ \A id \in own : coded[id].type \in LeadingTypes
               /\ type \in RadlTypes =>
                    /\ coded[irap].type \notin {"IDR_N_LP", "BLA_N_LP"}
                    /\ \A id \in before : Poc(id) < poc
                    /\ \A id \in own : coded[id].type \in RaslTypes => Poc(id) < poc
               /\ type \in RaslTypes =>
                    /\ coded[irap].type \in {"CRA", "BLA_W_LP"}
                    /\ \A id \in own : coded[id].type \in RadlTypes => poc < Poc(id)
                    /\ \A id \in before \cap IrapIds : Poc(id) < poc

(* The ids the picture may keep, and those of them it may use.             *)
MayKeep(type, poc, tid) ==
  IF StartsSequence(type) THEN {}
  ELSE {id \in references :
          /\ type \in TrailingTypes \cup {"CRA"} =>
               id >= CurrentIrap /\ Poc(id) >= Poc(CurrentIrap)
          /\ type \in TsaTypes => coded[id].tid < tid}

MayUse(type, poc, tid) ==
  IF type \in RapTypes THEN {}
  ELSE {id \in MayKeep(type, poc, tid) :
          /\ coded[id].tid <= tid
          /\ coded[id].tid = tid => coded[id].type \notin NonReferenceTypes
          /\ type \in RadlTypes =>
               id = CurrentIrap \/ (id > CurrentIrap /\ coded[id].type \in RadlTypes)}

-----------------------------------------------------------------------------
(* Output by bumping, as a conforming decoder does it: before a picture is *)
(* stored, and after it has been decoded.                                  *)

(* The ids of a set of waiting pictures, in output order. *)
InOutputOrder(S) ==
  LET order == CHOOSE q \in [1..Cardinality(S) -> S] :
                 \A i, j \in DOMAIN q : i < j => q[i].poc < q[j].poc
  IN [i \in 1..Cardinality(S) |-> order[i].id]

(* The fewest first pictures of W whose output leaves no more than it may. *)
Bumped(W, IsEnough(_)) ==
  LET prefixes == {B \in SUBSET W : /\ \A b \in B, w \in W \ B : b.poc < w.poc
                                    /\ W \ B = {} \/ IsEnough(W \ B)}
  IN CHOOSE B \in prefixes : \A C \in prefixes : Cardinality(B) <= Cardinality(C)

FewEnoughWait(S) == Cardinality(S) <= NumReorderPics[MaxTemporalLayer]

(* C.5.2.2: before a picture is stored, with the references it keeps. *)
BumpedBeforeStore(W, kept) ==
  LET IsEnough(S) ==
        /\ FewEnoughWait(S)
        /\ Cardinality({w.id : w \in S} \cup kept) < MaxDecPicBuf[MaxTemporalLayer]
  IN Bumped(W, IsEnough)

(* POCs of the current sequence that have been output. *)
OutputPocs == {Poc(id) : id \in SequenceIds \cap {output[i] : i \in DOMAIN output}}

(* What a conforming decoder has output at the end of the bitstream. *)
FinalOutput == output \o InOutputOrder(waiting)

-----------------------------------------------------------------------------
(* Sending.                                                                *)

SliceOf(c, id, first, dep) ==
  [kind |-> "slice", id |-> id, first |-> first, dep |-> dep, type |-> c.type,
   tid |-> c.tid, lsb |-> c.poc % MaxPocLsb, rps |-> c.rps, pof |-> c.pof,
   noPrior |-> c.noPrior]

(* A NAL unit arrives, possibly as the last one, or is lost: the reader    *)
(* sees nothing of it.                                                     *)
Deliver(n) ==
  /\ nal' = n
  /\ last' \in {FALSE, moreSlices' = 0}
  /\ losses' = losses

Lose ==
  /\ losses < MaxLosses
  /\ nal' = NoNal
  /\ last' = FALSE
  /\ losses' = losses + 1

(* The pictures that wait after c, number id, has been decoded, and what   *)
(* has been output: what is bumped before it is stored, or, when it starts *)
(* a sequence, all that waits unless it is to be dropped; then the         *)
(* additional bumping of C.5.2.3.                                          *)
OutputAround(c, id, kept) ==
  LET before == IF c.starts THEN waiting ELSE BumpedBeforeStore(waiting, kept)
      drops  == c.starts /\ (c.noPrior \/ c.type = "CRA")
      stored == (waiting \ before) \cup IF c.pof THEN {[id |-> id, poc |-> c.poc]} ELSE {}
      after  == Bumped(stored, FewEnoughWait)
      shown  == IF drops THEN << >> ELSE InOutputOrder(before)
  IN /\ c.pof /\ ~c.starts =>
          \A q \in OutputPocs \cup {b.poc : b \in before} : q < c.poc
     /\ waiting' = stored \ after
     /\ output' = output \o shown \o InOutputOrder(after)

PictureOf(type, poc, tid, pof, noPrior, kept, used) ==
  [type |-> type, poc |-> poc, tid |-> tid, pof |-> pof, noPrior |-> noPrior,
   starts |-> StartsSequence(type),
   rps |-> {[delta |-> Poc(k) - poc, used |-> k \in used] : k \in kept}]

(* The picture c, which keeps kept, is coded and its first slice sent.     *)
SendFirstSlice(c, kept) ==
  /\ coded' = Append(coded, c)
  /\ references' = IF Decodable(c) THEN kept \cup {Len(coded) + 1} ELSE references
  /\ \E n \in 1..MaxSlices : moreSlices' = n - 1
  /\ Deliver(SliceOf(c, Len(coded) + 1, TRUE, FALSE)) \/ Lose

(* There is room for it in the buffer of every sub-layer it belongs to.    *)
KeepAndOutput(c, kept) ==
  LET UpTo(t) == {k \in kept : coded[k].tid <= t}
  IN /\ \A t \in Tids : t >= c.tid => Cardinality(UpTo(t)) < MaxDecPicBuf[t]
     /\ IF Decodable(c) /\ c.tid <= MaxTemporalLayer
          THEN OutputAround(c, Len(coded) + 1, UpTo(MaxTemporalLayer))
          ELSE UNCHANGED <<waiting, output>>

(* The first slice of a new picture, which keeps kept and uses used.       *)
SendPicture ==
  /\ moreSlices = 0 /\ Len(coded) < MaxPics
  /\ \E type \in IF coded = << >> THEN FirstTypes ELSE Types, poc \in Pocs, tid \in Tids,
        pof \in PicOutputFlags, noPrior \in NoPriorFlags :
     /\ sequenceEnd => StartsSequence(type)
     /\ noPrior => StartsSequence(type) /\ type # "CRA"
     /\ PocIsLegal(type, poc) /\ LayerIsLegal(type, tid) /\ OrderIsConforming(type, poc)
     /\ \E kept \in SUBSET MayKeep(type, poc, tid) :
        \E used \in SUBSET (kept \cap MayUse(type, poc, tid)) :
          /\ KeepAndOutput(PictureOf(type, poc, tid, pof, noPrior, kept, used), kept)
          /\ SendFirstSlice(PictureOf(type, poc, tid, pof, noPrior, kept, used), kept)
  /\ sequenceEnd' = FALSE
  /\ UNCHANGED extras

SendSlice ==
  /\ moreSlices > 0
  /\ moreSlices' = moreSlices - 1
  /\ LET id == Len(coded)
     IN \/ \E dep \in {FALSE, Dependent} : Deliver(SliceOf(coded[id], id, FALSE, dep))
        \/ Lose
  /\ UNCHANGED <<coded, extras, sequenceEnd, references, waiting, output>>

(* Another NAL unit between two pictures; a prefix SEI belongs to the      *)
(* slice, or the reserved NAL unit, that follows it.                       *)
SendExtra ==
  /\ moreSlices = 0 /\ extras < MaxExtras
  /\ UNCHANGED <<coded, moreSlices, references, waiting, output>>
  /\ extras' = extras + 1
  /\ \E kind \in Extras :
       /\ kind = "EOS" => ~sequenceEnd /\ nal.kind # "SEI"
       /\ sequenceEnd' = (sequenceEnd \/ kind = "EOS")
       /\ Deliver([kind |-> kind, tid |-> 0])

(* The file ends with a slice or with an end of bitstream NAL unit.        *)
SendEndOfBitstream ==
  /\ moreSlices = 0
  /\ nal' = [kind |-> "OTHER", tid |-> 0]
  /\ last' = TRUE
  /\ UNCHANGED <<coded, moreSlices, extras, losses, sequenceEnd, references, waiting, output>>

Send == SendPicture \/ SendSlice \/ SendExtra \/ SendEndOfBitstream

-----------------------------------------------------------------------------
CodedPicture ==
  [type : SliceTypes, poc : Int, tid : Tids, pof : BOOLEAN, noPrior : BOOLEAN,
   starts : BOOLEAN, rps : RpsSet]

SliceNal ==
  [kind : {"slice"}, id : Nat, first : BOOLEAN, dep : BOOLEAN, type : SliceTypes,
   tid : Tids, lsb : Int, rps : RpsSet, pof : BOOLEAN, noPrior : BOOLEAN]

OtherNals == [kind : {"NONE", "EOS", "SEI", "RSV", "OTHER"}, tid : Tids]

StreamTypeOK ==
  /\ nal \in SliceNal \cup OtherNals
  /\ last \in BOOLEAN /\ sequenceEnd \in BOOLEAN
  /\ coded \in Seq(CodedPicture)
  /\ moreSlices \in Nat /\ losses \in Nat
  /\ moreSlices > 0 => coded # << >>
  /\ references \subseteq 1..Len(coded)
=============================================================================
