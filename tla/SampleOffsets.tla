---------------------------- MODULE SampleOffsets ----------------------------
(***************************************************************************)
(* Two more of HM's syntax structures.  The sample adaptive offsets (SAO)  *)
(* of a coding tree unit (CTU) are those of the CTU to the left or above,  *)
(* or of each component off, band offsets for four bands that follow each  *)
(* other cyclically, or edge offsets, whose signs go by the class; Cr has  *)
(* the type of Cb.  An element of them is                                  *)
(*   enabled             the components that have SAO in the slice,        *)
(*   leftAvail, aboveAvail   the CTUs to merge with that there are,        *)
(*   maxOffset           the largest size of an offset, seven at least,    *)
(*   v                   merge, and unless merged the components' types,   *)
(*                       first bands and offsets by class.                 *)
(* The prediction of chroma residual from luma has a factor, a power of    *)
(* two up to eight, for each chroma block of the units that may use it.    *)
(***************************************************************************)
EXTENDS PredictionInfo

NUM_SAO_BO_CLASSES == 32

SAO_TYPE_OFF == -1

SAO_TYPE_BO == 4                \* 0..3 are the types of edge offsets

SAO_CLASS_EO_PLAIN == 2

SaoComponents == <<0, 1, 2>>

IsFirstOfChannel(c) == c < 2

OffComponent == [type |-> SAO_TYPE_OFF, band |-> 0, offset |-> << >>]

(* The classes of the four offsets of a component that has them. *)
OffsetClasses(type, band) ==
  IF type = SAO_TYPE_BO THEN [i \in 1..4 |-> (band + i - 1) % NUM_SAO_BO_CLASSES]
  ELSE SelectSeq(<<0, 1, 2, 3, 4>>, LAMBDA class : class # SAO_CLASS_EO_PLAIN)

-----------------------------------------------------------------------------
(* The encoder.                                                            *)

SaoMergeContext == <<"saoMerge", 0, 0>>

SaoTypeContext == <<"saoType", 0, 0>>

(* codeSaoMaxUvlc(). *)
MaxUvlc(v, max) ==
  [i \in 1..(IF v < max THEN v + 1 ELSE max) |-> Bypass(Flag(i <= v), 1)]

(* codeSAOOffsetParam(). *)
SaoTypeCalls(type) ==
  CASE type = SAO_TYPE_OFF -> <<Bin(SaoTypeContext, 0)>>
    [] type = SAO_TYPE_BO  -> <<Bin(SaoTypeContext, 1), Bypass(0, 1)>>
    [] OTHER               -> <<Bin(SaoTypeContext, 1), Bypass(1, 1)>>

SaoOffsetCalls(e, c) ==
  LET p       == e.v.components[c + 1]
      classes == OffsetClasses(p.type, p.band)
      offset  == [i \in 1..4 |-> p.offset[classes[i]]]
      signed  == SelectSeq(offset, LAMBDA n : n # 0)
  IN FlattenSeq([i \in 1..4 |-> MaxUvlc(Magnitude(offset[i]), e.maxOffset)])
       \o IF p.type = SAO_TYPE_BO
            THEN [i \in DOMAIN signed |-> Bypass(Flag(signed[i] < 0), 1)] \o <<Bypass(p.band, 5)>>
          ELSE IF IsFirstOfChannel(c) THEN <<Bypass(p.type, 2)>> ELSE << >>

SaoComponentCalls(e, c) ==
  LET type == e.v.components[c + 1].type
  IN IF ~e.enabled[c + 1] THEN << >>
     ELSE (IF IsFirstOfChannel(c) THEN SaoTypeCalls(type) ELSE << >>)
            \o (IF type # SAO_TYPE_OFF THEN SaoOffsetCalls(e, c) ELSE << >>)

(* codeSAOBlkParam(). *)
SaoCalls(e) ==
  (IF e.leftAvail THEN <<Bin(SaoMergeContext, Flag(e.v.merge = "left"))>> ELSE << >>)
    \o (IF e.aboveAvail /\ e.v.merge # "left"
          THEN <<Bin(SaoMergeContext, Flag(e.v.merge = "above"))>> ELSE << >>)
    \o (IF e.v.merge = "none"
          THEN FlattenSeq([i \in 1..3 |-> SaoComponentCalls(e, SaoComponents[i])]) ELSE << >>)

-----------------------------------------------------------------------------
(* The decoder.                                                            *)

(* parseSaoMaxUvlc(); a largest size of one, which it would read another   *)
(* bin for, needs fewer bits per sample than eight.                        *)
ReadMaxUvlc(d, max) == ReadOnes(d, max)

(* parseSAOBlkParam(): its loop over four offsets, and their signs. *)
RECURSIVE ReadSizes(_, _, _)
ReadSizes(d, max, n) ==
  IF n = 0 THEN Result(d, << >>)
  ELSE Then(ReadMaxUvlc(d, max), LAMBDA f, v :
       Then(ReadSizes(f, max, n - 1), LAMBDA g, rest : Result(g, <<v>> \o rest)))

RECURSIVE ReadSigns(_, _)
ReadSigns(d, sizes) ==
  IF sizes = << >> THEN Result(d, << >>)
  ELSE Then(IF Head(sizes) = 0 THEN Result(d, 0) ELSE DecodeBins(d, 1), LAMBDA f, sign :
       Then(ReadSigns(f, Tail(sizes)), LAMBDA g, rest :
         Result(g, <<IF sign = 1 THEN -Head(sizes) ELSE Head(sizes)>> \o rest)))

ByClass(classes, offsets) ==
  [class \in Range(classes) |-> offsets[CHOOSE i \in 1..4 : classes[i] = class]]

ReadBands(d, sizes) ==
  Then(ReadSigns(d, sizes), LAMBDA f, offsets :
  Then(DecodeBins(f, 5), LAMBDA g, band :
    Result(g, [type |-> SAO_TYPE_BO, band |-> band,
               offset |-> ByClass(OffsetClasses(SAO_TYPE_BO, band), offsets)])))

(* Valleys are lifted and peaks are lowered. *)
EdgeOffsets(sizes) ==
  (SAO_CLASS_EO_PLAIN :> 0)
    @@ ByClass(OffsetClasses(0, 0), <<sizes[1], sizes[2], -sizes[3], -sizes[4]>>)

ReadEdges(d, c, sizes, type) ==
  Then(IF IsFirstOfChannel(c) THEN DecodeBins(d, 2) ELSE Result(d, type), LAMBDA f, class :
    Result(f, [type |-> class, band |-> 0, offset |-> EdgeOffsets(sizes)]))

(* parseSaoTypeIdx(): edge offsets have their type still to be read. *)
ReadSaoType(d) ==
  Then(DecodeBin(d, SaoTypeContext), LAMBDA f, on :
    IF on = 0 THEN Result(f, SAO_TYPE_OFF)
    ELSE Then(DecodeBins(f, 1), LAMBDA g, edge : Result(g, IF edge = 1 THEN 0 ELSE SAO_TYPE_BO)))

ReadSaoComponent(d, e, c, done) ==
  IF ~e.enabled[c + 1] THEN Result(d, OffComponent)
  ELSE Then(IF IsFirstOfChannel(c) THEN ReadSaoType(d) ELSE Result(d, done[c].type), LAMBDA f, type :
         IF type = SAO_TYPE_OFF THEN Result(f, OffComponent)
         ELSE Then(ReadSizes(f, e.maxOffset, 4), LAMBDA g, sizes :
                IF type = SAO_TYPE_BO THEN ReadBands(g, sizes) ELSE ReadEdges(g, c, sizes, type)))

RECURSIVE ReadSaoComponents(_, _, _)
ReadSaoComponents(d, e, done) ==
  IF Len(done) = 3 THEN Result(d, [merge |-> "none", components |-> done])
  ELSE Then(ReadSaoComponent(d, e, Len(done), done), LAMBDA f, p :
         ReadSaoComponents(f, e, Append(done, p)))

ReadSao(d, e) ==
  Then(ReadIf(d, e.leftAvail, SaoMergeContext), LAMBDA f, left :
  Then(ReadIf(f, e.aboveAvail /\ left = 0, SaoMergeContext), LAMBDA g, above :
    IF left = 1 THEN Result(g, [merge |-> "left", components |-> << >>])
    ELSE IF above = 1 THEN Result(g, [merge |-> "above", components |-> << >>])
    ELSE ReadSaoComponents(g, e, << >>)))

-----------------------------------------------------------------------------
(* The factor of a chroma block's prediction from luma; an intra unit may  *)
(* use it if its chroma direction is that of luma.                         *)

AlphaContext(e, i) == <<"crossComponent", 0, 5 * (e.c - 1) + i>>

HasAlpha(e) == e.enabled /\ (~e.intra \/ e.chroma = DM_CHROMA_IDX)

AlphaSize(e) == [c |-> AlphaContext(e, 2), next |-> AlphaContext(e, 3), max |-> 2]

(* codeCrossComponentPrediction(). *)
AlphaCalls(e) ==
  LET size == Magnitude(e.v)
  IN IF ~HasAlpha(e) THEN << >>
     ELSE IF e.v = 0 THEN <<Bin(AlphaContext(e, 0), 0)>>
     ELSE <<Bin(AlphaContext(e, 0), 1), Bin(AlphaContext(e, 1), Flag(size > 1))>>
            \o (IF size > 1 THEN UnaryMax(AlphaSize(e) @@ [v |-> Log2(size) - 1]) ELSE << >>)
            \o <<Bin(AlphaContext(e, 4), Flag(e.v < 0))>>

(* parseCrossComponentPrediction(). *)
ReadAlphaSize(d, e) ==
  Then(DecodeBin(d, AlphaContext(e, 1)), LAMBDA f, more :
    IF more = 0 THEN Result(f, 0)
    ELSE Then(ReadUnaryMax(f, AlphaSize(e)), LAMBDA g, n : Result(g, n + 1)))

ReadAlpha(d, e) ==
  IF ~HasAlpha(e) THEN Result(d, 0)
  ELSE Then(DecodeBin(d, AlphaContext(e, 0)), LAMBDA f, nonZero :
         IF nonZero = 0 THEN Result(f, 0)
         ELSE Then(ReadAlphaSize(f, e), LAMBDA g, log2 :
              Then(DecodeBin(g, AlphaContext(e, 4)), LAMBDA h, sign :
                Result(h, IF sign = 1 THEN -Pow2(log2) ELSE Pow2(log2)))))
=============================================================================
