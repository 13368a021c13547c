------------------------------ MODULE SliceData ------------------------------
(***************************************************************************)
(* The slice segments of a picture, encoded by SliceEncoder and decoded by *)
(* TDecGop and TDecSlice.  The decoder knows what the NAL units carry, and *)
(* a CTU can be decoded only by a coder in the state it was coded in.      *)
(***************************************************************************)
EXTENDS SliceEncoder

VARIABLES
  streams,         \* ppcSubstreams
  decoder,         \* the decoder's contexts, palette predictor and state
  decSync,         \* TDecSlice's m_entropyCodingSync...State
  decSegmentEnd,   \* TDecSlice's m_lastSliceSegmentEnd...State
  decSegments      \* the slice segments of the picture as far as it knows them

decoderVars == <<streams, decoder, decSync, decSegmentEnd, decSegments>>
vars == <<encoderVars, decoderVars>>

-----------------------------------------------------------------------------
(* The header of a segment: a dependent one takes the slice's header; the  *)
(* end is not known yet.                                                   *)
ReadHeader(nal) ==
  LET start == RsToTs(nal.address)
  IN [sliceStart |-> IF nal.dependent THEN decSegments[Len(decSegments)].sliceStart ELSE start,
      sliceEnd |-> N, start |-> start, end |-> N, dependent |-> nal.dependent]

(* extractSubstream(), for each substream size and for the rest. *)
Extracted(nal) ==
  LET from[i \in 1..Len(nal.sizes) + 1] == IF i = 1 THEN 0 ELSE from[i - 1] + nal.sizes[i - 1]
  IN [i \in 1..Len(nal.sizes) + 1 |->
        SubSeq(nal.data, from[i] + 1,
               IF i <= Len(nal.sizes) THEN from[i + 1] ELSE Len(nal.data))]

DecBeginSegment(seg) ==
  IF /\ dependentSliceSegmentsEnabled /\ seg.dependent /\ ~FirstOfTile(seg.start)
     /\ TileOf(seg.start).width >= 2 \/ ~wavefronts
    THEN Load(Fresh(seg), decSegmentEnd)
    ELSE Fresh(seg)

(* The palette predictor is reset with the contexts. *)
DecBeginCtu_ResetsPalette(c, segs, seg, ts) ==
  IF FirstOfTile(ts) THEN IF ts = seg.start THEN c ELSE Fresh(seg)
  ELSE IF ~StartsRow(ts) THEN c
  ELSE LET reset == IF ts = seg.start THEN c ELSE Fresh(seg)
       IN IF TopRightAvailable(segs, ts) THEN Load(reset, decSync) ELSE reset

(* decompressSlice(), before a CTU. *)
DecBeginCtu(c, segs, seg, ts) ==
  IF FirstOfTile(ts) THEN IF ts = seg.start THEN c ELSE Fresh(seg)
  ELSE IF ~StartsRow(ts) THEN c
  ELSE LET reset == IF ts = seg.start THEN c ELSE ResetEntropy(c, seg)
       IN IF TopRightAvailable(segs, ts) THEN Load(reset, decSync) ELSE reset

DecodeSlice ==
  /\ phase = "decodeSlice"
  /\ phase' = "decodeCtu"
  /\ LET nal == nals[index]
         seg == ReadHeader(nal)
     IN /\ streams' = Extracted(nal)
        /\ decSegments' = Append(decSegments, seg)
        /\ decoder' = DecBeginSegment(seg)
        /\ ctu' = seg.start
  /\ UNCHANGED <<fixedVars, segments, index, coder, sync, segmentEnd, trial, substreams, sizes,
                 nals, decSync, decSegmentEnd>>

Decoded == decSegments[Len(decSegments)]

(* What decodeCtu() finds at the front of a substream: the CTU, then       *)
(* whether it is the segment's last, then, at the end of a substream that  *)
(* is not, a terminating bit.                                              *)
Expected(begin, isLast) ==
  <<CtuData(begin, ctu), Flag(IF isLast THEN 1 ELSE 0)>>
    \o (IF ~isLast /\ EndsSubstream(ctu) THEN <<Flag(1)>> ELSE << >>)

Starts(s, t) == Len(s) <= Len(t) /\ SubSeq(t, 1, Len(s)) = s

Stream == Substream(ctu) - Substream(Decoded.start) + 1
Begun  == DecBeginCtu(decoder, decSegments, Decoded, ctu)

Finds(isLast) ==
  /\ Stream \in DOMAIN streams
  /\ Starts(Expected(Begun, isLast), streams[Stream])
  /\ isLast \/ ctu + 1 < N

FinishDecode(after) ==
  /\ LET ended == [Decoded EXCEPT !.end = ctu + 1,
                                  !.sliceEnd = IF Decoded.dependent THEN @ ELSE ctu + 1]
     IN decSegments' = [decSegments EXCEPT ![Len(decSegments)] = ended]
  /\ decSegmentEnd' = IF dependentSliceSegmentsEnabled THEN after ELSE decSegmentEnd
  /\ phase' = IF index < Len(nals) THEN "decodeSlice" ELSE "done"
  /\ index' = IF index < Len(nals) THEN index + 1 ELSE index
  /\ UNCHANGED ctu

(* One turn of decompressSlice()'s loop. *)
Decode(isLast) ==
  LET after == CodeCtu(Begun, ctu)
  IN /\ streams' = [streams EXCEPT ![Stream] =
                      SubSeq(@, Len(Expected(Begun, isLast)) + 1, Len(@))]
     /\ decoder' = [after EXCEPT !.running = ~isLast /\ ~EndsSubstream(ctu)]
     /\ decSync' = IF SecondOfRow(ctu) THEN after ELSE decSync
     /\ IF isLast THEN FinishDecode(after)
        ELSE /\ ctu' = ctu + 1
             /\ UNCHANGED <<phase, index, decSegments, decSegmentEnd>>

(* The decoder has lost its place: it goes on with garbage, or aborts.     *)
LosePlace ==
  /\ phase' = "lost"
  /\ UNCHANGED <<ctu, index, decoderVars>>

DecodeCtu ==
  /\ phase = "decodeCtu"
  /\ \/ \E isLast \in BOOLEAN : Finds(isLast) /\ Decode(isLast)
     \/ (\A isLast \in BOOLEAN : ~Finds(isLast)) /\ LosePlace
  /\ UNCHANGED <<fixedVars, segments, coder, sync, segmentEnd, trial, substreams, sizes, nals>>

Init ==
  /\ EncoderInit
  /\ streams = << >> /\ decSegments = << >>
  /\ decoder = NoState /\ decSync = NoState /\ decSegmentEnd = NoState

Next == (EncoderNext /\ UNCHANGED decoderVars) \/ DecodeSlice \/ DecodeCtu

Spec == Init /\ [][Next]_vars

-----------------------------------------------------------------------------
Phases == {"compressSlice", "compressCtu", "encodeSlice", "encodeCtu",
           "decodeSlice", "decodeCtu", "done", "lost"}

Addresses == 0..N
States    == [contexts : Seq(Addresses), palette : Seq(Addresses), running : BOOLEAN]
Segments  == [sliceStart : Addresses, sliceEnd : Addresses, start : Addresses,
              end : Addresses, dependent : BOOLEAN]
Elements  == [ctu : Addresses, coder : States] \cup [flag : {0, 1}]

TypeOK ==
  /\ layout \in Layouts /\ phase \in Phases /\ {ctu, index} \subseteq Nat
  /\ picSym.tsToRs \in [Addresses -> Addresses]
  /\ {coder, sync, segmentEnd, decoder, decSync, decSegmentEnd} \subseteq States
  /\ trial \in [0..N - 1 -> States]
  /\ segments \in Seq(Segments) /\ decSegments \in Seq(Segments)
  /\ sizes \in Seq(Nat)
  /\ \A s \in DOMAIN substreams : substreams[s] \in Seq(Elements)
  /\ \A s \in DOMAIN streams : streams[s] \in Seq(Elements)
  /\ nals \in Seq([address : Addresses, dependent : BOOLEAN, sizes : Seq(Nat), data : Seq(Elements)])

(* The decoder finds every CTU where it looks for it, in the substream     *)
(* getSubstreamForCtuAddr() names, and decodes it with the contexts, the   *)
(* palette predictor and the restarts of the arithmetic coder it was coded *)
(* with: across slices, dependent segments, tiles and wavefront rows.  In  *)
(* the end it has read everything and knows every segment.                 *)
DecoderInStep ==
  /\ phase # "lost"
  /\ phase = "done" =>
       /\ \A s \in DOMAIN streams : streams[s] = << >>
       /\ Len(decSegments) = Len(segments)
       /\ \A i \in DOMAIN segments :
            [decSegments[i] EXCEPT !.sliceEnd = 0] = [segments[i] EXCEPT !.sliceEnd = 0]

(* The CTUs of a slice or of a segment: with wavefronts, "if a slice does  *)
(* not start at the beginning of a CTB row, it must end within the same    *)
(* CTB row" (TEncSlice.cpp:1742); it lies in one tile or holds whole tiles. *)
IsLegal(from, to) ==
  /\ from < to
  /\ wavefronts /\ X(from) # TileOf(from).x => Y(to - 1) = Y(from)
  /\ \/ TileIdx(from) = TileIdx(to - 1)
     \/ /\ FirstOfTile(from)
        /\ to = N \/ FirstOfTile(to)

(* The slices and the segments the encoder cuts cover the picture, each    *)
(* CTU once, and are legal, wherever CTU counts, byte limits, tiles and    *)
(* rows make them end.                                                     *)
SlicesAreLegal ==
  phase \notin {"compressSlice", "compressCtu"} =>
    /\ segments[1].start = 0 /\ segments[Len(segments)].end = N
    /\ \A i \in DOMAIN segments :
         /\ IsLegal(segments[i].start, segments[i].end)
         /\ i < Len(segments) => segments[i + 1].start = segments[i].end
         /\ LET last == CHOOSE j \in DOMAIN segments :
                          /\ segments[j].sliceStart = segments[i].sliceStart
                          /\ j < Len(segments) => ~segments[j + 1].dependent
            IN IsLegal(segments[i].sliceStart, segments[last].end)

(* The trial pass codes each CTU in the state the final pass codes it in,  *)
(* so that what it decides and the bytes it counts are right; but not in a *)
(* dependent segment of limited bytes, which begins with the state its     *)
(* first CTU left when it was tried at the end of the segment before.      *)
TrialInStep ==
  phase = "encodeCtu" =>
    \/ trial[ctu] = BeginCtu(coder, Encoded, ctu)
    \/ /\ layout.segmentMode = "bytes"
       /\ \E i \in 1..index :
            segments[i].dependent /\ segments[i].sliceStart = Encoded.sliceStart
=============================================================================
