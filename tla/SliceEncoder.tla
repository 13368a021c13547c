---------------------------- MODULE SliceEncoder ----------------------------
(***************************************************************************)
(* The encoder's slice data: how TEncGOP and TEncSlice cut a picture into  *)
(* slices and slice segments, and which contexts and which palette         *)
(* predictor each CTU is coded with, first on trial (compressSlice), then  *)
(* for good (encodeSlice), across segments, tiles and wavefront rows.      *)
(*                                                                         *)
(* A coder's contexts are represented by what has adapted them: the first  *)
(* CTU of the slice that initialised them, then the CTUs coded with them.  *)
(* The palette predictor is the sequence of CTUs that have updated it.     *)
(* Two coders agree on a CTU if and only if these are equal.               *)
(***************************************************************************)
EXTENDS CtuScan, FiniteSets

CONSTANT Layouts   \* the pictures and the slice options of an encoding

Modes == {"none", "ctus", "bytes", "tiles"}

ASSUME LayoutsAssumption ==
  \A l \in Layouts :
    /\ {l.picture.width, l.picture.height, l.sliceArgument, l.segmentArgument} \subseteq Nat \ {0}
    /\ AreEnds(l.picture.columnEnds, l.picture.width)
    /\ AreEnds(l.picture.rowEnds, l.picture.height)
    /\ l.wavefronts \in BOOLEAN /\ {l.sliceMode, l.segmentMode} \subseteq Modes

VARIABLES
  layout,       \* the picture and the options
  picSym,       \* the maps of TComPicSym
  phase,        \* what runs, or is about to
  ctu,          \* ctuTsAddr
  segments,     \* the slice segments (TComSlice) of the picture
  index,        \* the segment encodeSlice() works on
  coder,        \* its contexts, its palette predictor and its state
  sync,         \* m_entropyCodingSyncContextState and -PaletteState
  segmentEnd,   \* m_lastSliceSegmentEndContextState and -PaletteState
  trial,        \* history: the state each CTU was tried with
  substreams,   \* substreamsOut
  sizes,        \* the substream sizes of the segment
  nals          \* the coded slice segments

encoderVars == <<layout, picSym, phase, ctu, segments, index, coder, sync, segmentEnd,
                 trial, substreams, sizes, nals>>
fixedVars   == <<layout, picSym>>

-----------------------------------------------------------------------------
(* Where a CTU lies.                                                       *)

picture    == layout.picture
wavefronts == layout.wavefronts
N          == picSym.numCtusInFrame

(* m_ctuTsToRsAddrMap, m_ctuRsToTsAddrMap, m_puiTileIdxMap and             *)
(* m_tileParameters.                                                       *)
PicSymOf(p) ==
  LET tsToRs == CtuTsToRsAddrMap(p)
  IN [numCtusInFrame |-> NumCtus(p),
      tsToRs  |-> tsToRs,
      rsToTs  |-> [rs \in 0..NumCtus(p) |-> CHOOSE ts \in 0..NumCtus(p) : tsToRs[ts] = rs],
      tileIdx |-> [rs \in 0..NumCtus(p) - 1 |-> TileIdxMap(p, rs)],
      tiles   |-> [t \in 0..NumTiles(p) - 1 |-> Tile(p, t)]]

(* The PPS allows dependent segments when segments are asked for at all.   *)
dependentSliceSegmentsEnabled == layout.segmentMode # "none"

Rs(ts)         == picSym.tsToRs[ts]
RsToTs(rs)     == picSym.rsToTs[rs]
X(ts)          == Rs(ts) % picture.width
Y(ts)          == Rs(ts) \div picture.width
TileIdx(ts)    == picSym.tileIdx[Rs(ts)]
TileOf(ts)     == picSym.tiles[TileIdx(ts)]
TileStart(ts)  == RsToTs(TileOf(ts).y * picture.width + TileOf(ts).x)
Substream(ts)  == SubstreamForCtuAddr(picture, wavefronts, Rs(ts))

FirstOfTile(ts) == X(ts) = TileOf(ts).x /\ Y(ts) = TileOf(ts).y
StartsRow(ts)   == X(ts) = TileOf(ts).x /\ wavefronts
SecondOfRow(ts) == X(ts) = TileOf(ts).x + 1 /\ wavefronts

EndsSubstream(ts) ==
  /\ X(ts) + 1 = TileOf(ts).x + TileOf(ts).width
  /\ Y(ts) + 1 = TileOf(ts).y + TileOf(ts).height \/ wavefronts

(* The first CTU of the slice a CTU is in. *)
SliceOf(segs, ts) ==
  LET before == {i \in DOMAIN segs : segs[i].start <= ts}
  IN segs[CHOOSE i \in before : \A j \in before : j <= i].sliceStart

(* The CTU above and to the right is in the picture, the slice and the     *)
(* tile (getCtuAbove, CUIsFromSameSliceAndTile).                           *)
TopRightAvailable(segs, ts) ==
  /\ Y(ts) > 0 /\ X(ts) + 1 < picture.width
  /\ LET topRight == RsToTs(Rs(ts) - picture.width + 1)
     IN /\ TileIdx(topRight) = TileIdx(ts)
        /\ SliceOf(segs, topRight) = SliceOf(segs, ts)

-----------------------------------------------------------------------------
(* The state of a coder.                                                   *)

Fresh(seg) == [contexts |-> <<seg.sliceStart>>, palette |-> << >>, running |-> TRUE]

(* resetEntropy() starts the arithmetic coder; the palette predictor stays. *)
ResetEntropy(c, seg) == [c EXCEPT !.contexts = <<seg.sliceStart>>, !.running = TRUE]

Load(c, stored) == [c EXCEPT !.contexts = stored.contexts, !.palette = stored.palette]

(* What coding a CTU does to it. *)
CodeCtu(c, ts) ==
  [c EXCEPT !.contexts = Append(@, ts),
            !.palette  = IF ts \in layout.palettes THEN Append(@, ts) ELSE @]

(* A dependent segment goes on with the state its predecessor ended in,    *)
(* but at the beginning of a tile or of a row that is one CTU wide.        *)
Continues(seg) ==
  /\ dependentSliceSegmentsEnabled /\ seg.dependent
  /\ ~FirstOfTile(seg.start)
  /\ TileOf(seg.start).width >= 2 \/ ~wavefronts

BeginSegment(seg) == IF Continues(seg) THEN Load(Fresh(seg), segmentEnd) ELSE Fresh(seg)

(* encodeSlice(), before a CTU. *)
BeginCtu(c, seg, ts) ==
  IF FirstOfTile(ts) THEN IF ts = seg.start THEN c ELSE Fresh(seg)
  ELSE IF ~StartsRow(ts) THEN c
  ELSE LET reset == IF ts = seg.start THEN c ELSE ResetEntropy(c, seg)
       IN IF TopRightAvailable(segments, ts) THEN Load(reset, sync) ELSE reset

(* The synchronisation with the row above is left to the final pass. *)
BeginTrial_NoSync(c, seg, ts) ==
  IF FirstOfTile(ts) THEN Fresh(seg)
  ELSE IF StartsRow(ts) THEN ResetEntropy(c, seg) ELSE c

(* compressSlice(), before a CTU. *)
BeginTrial(c, seg, ts) ==
  IF FirstOfTile(ts) THEN Fresh(seg)
  ELSE IF ~StartsRow(ts) THEN c
  ELSE LET reset == ResetEntropy(c, seg)
       IN IF TopRightAvailable(segments, ts) THEN Load(reset, sync) ELSE reset

-----------------------------------------------------------------------------
(* Where slices and slice segments end.                                    *)

Least(a, b) == IF a < b THEN a ELSE b

(* The CTUs of the tiles from tile t on, n of them at most. *)
CtusOfTiles(t, n) ==
  Cardinality({ts \in 0..N - 1 : TileIdx(ts) \in t..t + n - 1})

(* The end is not limited to the picture. *)
AskedBound_Unlimited(start, mode, argument) ==
  CASE mode = "ctus"  -> start + argument
    [] mode = "tiles" -> start + CtusOfTiles(TileIdx(start), argument)
    [] OTHER          -> N

(* calculateBoundingCtuTsAddrForSlice() before its adjustment. *)
AskedBound(start, mode, argument) ==
  CASE mode = "ctus"  -> Least(start + argument, N)
    [] mode = "tiles" -> Least(start + CtusOfTiles(TileIdx(start), argument), N)
    [] OTHER          -> N

(* The rule for wavefronts is left out. *)
BoundingCtuTsAddr_AnyRow(start, mode, argument) ==
  IF mode \in {"none", "tiles"} THEN AskedBound(start, mode, argument)
  ELSE Least(AskedBound(start, mode, argument),
             TileStart(start) + TileOf(start).width * TileOf(start).height)

(* A slice that does not start a row must end within the row, and within   *)
(* its tile.                                                               *)
BoundingCtuTsAddr(start, mode, argument) ==
  LET asked   == AskedBound(start, mode, argument)
      tile    == TileOf(start)
      column  == (start - TileStart(start)) % tile.width
      rowEnd  == IF wavefronts /\ column # 0 THEN start + tile.width - column ELSE asked
      tileEnd == IF NumTiles(picture) > 1 THEN TileStart(start) + tile.width * tile.height
                 ELSE asked
  IN IF mode \in {"none", "tiles"} THEN asked ELSE Least(asked, Least(rowEnd, tileEnd))

(* xDetermineStartAndBoundingCtuTsAddr() *)
Bounded(seg) ==
  LET sliceEnd == BoundingCtuTsAddr(seg.sliceStart, layout.sliceMode, layout.sliceArgument)
  IN [seg EXCEPT !.sliceEnd = sliceEnd,
                 !.end = Least(BoundingCtuTsAddr(seg.start, layout.segmentMode,
                                                 layout.segmentArgument), sliceEnd)]

-----------------------------------------------------------------------------
(* Trial: compressSlice() cuts the picture into segments.                  *)

NoState == [contexts |-> << >>, palette |-> << >>, running |-> FALSE]

EncoderInit ==
  /\ layout \in Layouts
  /\ picSym = PicSymOf(picture)
  /\ phase = "compressSlice"
  /\ ctu = 0 /\ index = 1
  /\ segments = <<[sliceStart |-> 0, sliceEnd |-> N, start |-> 0, end |-> N, dependent |-> FALSE]>>
  /\ coder = NoState /\ sync = NoState /\ segmentEnd = NoState
  /\ trial = [ts \in 0..N - 1 |-> NoState]
  /\ substreams = << >> /\ sizes = << >> /\ nals = << >>

Compressed == segments[Len(segments)]

CompressSlice ==
  /\ phase = "compressSlice"
  /\ phase' = "compressCtu"
  /\ segments' = [segments EXCEPT ![Len(segments)] = Bounded(@)]
  /\ ctu' = Compressed.start
  /\ coder' = BeginSegment(Compressed)
  /\ UNCHANGED <<fixedVars, index, sync, segmentEnd, trial, substreams, sizes, nals>>

(* The segment as it is cut when the bytes of the slice or of the segment  *)
(* exceed their limit with this CTU.                                       *)
Cut(seg, overSlice, overSegment) ==
  LET validEnd == IF ctu = seg.start THEN ctu + 1 ELSE ctu
  IN IF overSlice THEN [seg EXCEPT !.end = validEnd, !.sliceEnd = validEnd]
     ELSE IF overSegment THEN [seg EXCEPT !.end = validEnd]
     ELSE seg

(* A segment that leaves a part of its slice is followed by a dependent    *)
(* one.                                                                    *)
NextSegment(seg) ==
  LET dependent == seg.end < seg.sliceEnd
  IN [seg EXCEPT !.start = seg.end, !.dependent = dependent,
                 !.sliceStart = IF dependent THEN @ ELSE seg.end]

(* The segment is complete: its successor is allocated, or, at the end of  *)
(* the picture, coding begins.                                             *)
FinishCompress(seg, c) ==
  /\ segmentEnd' = IF dependentSliceSegmentsEnabled THEN c ELSE segmentEnd
  /\ segments' = IF seg.end < N
                   THEN Append([segments EXCEPT ![Len(segments)] = seg], NextSegment(seg))
                   ELSE [segments EXCEPT ![Len(segments)] = seg]
  /\ phase' = IF seg.end < N THEN "compressSlice" ELSE "encodeSlice"
  /\ UNCHANGED ctu

(* One turn of compressSlice()'s loop.  A CTU that exceeds a limit has     *)
(* been coded on trial, and then belongs to the next segment.              *)
CompressCtu ==
  /\ phase = "compressCtu"
  /\ \E overSlice   \in {FALSE} \cup (IF layout.sliceMode = "bytes" THEN {TRUE} ELSE {}),
        overSegment \in {FALSE} \cup (IF layout.segmentMode = "bytes" THEN {TRUE} ELSE {}) :
       LET seg   == Cut(Compressed, overSlice, overSegment)
           begin == BeginTrial(coder, Compressed, ctu)
           after == CodeCtu(begin, ctu)
       IN /\ trial' = [trial EXCEPT ![ctu] = begin]
          /\ IF seg.end <= ctu
               THEN /\ coder' = [after EXCEPT !.palette = begin.palette]
                    /\ UNCHANGED sync
               ELSE /\ coder' = after
                    /\ sync' = IF SecondOfRow(ctu) THEN after ELSE sync
          /\ IF ctu + 1 < seg.end
               THEN /\ ctu' = ctu + 1
                    /\ UNCHANGED <<phase, segments, segmentEnd>>
               ELSE FinishCompress(seg, coder')
  /\ UNCHANGED <<fixedVars, index, substreams, sizes, nals>>

-----------------------------------------------------------------------------
(* Coding: encodeSlice() writes the substreams of a segment, TEncGOP joins *)
(* them.                                                                   *)

Encoded == segments[index]

NumSubstreams ==
  (IF wavefronts THEN picture.height ELSE Len(picture.rowEnds)) * NumTileColumns(picture)

(* What a decoder must know to decode a CTU.                               *)
CtuData(c, ts) == [ctu |-> ts, coder |-> c]
Flag(bit)      == [flag |-> bit]

EncodeSlice ==
  /\ phase = "encodeSlice"
  /\ phase' = "encodeCtu"
  /\ substreams' = [s \in 0..NumSubstreams - 1 |-> << >>]
  /\ sizes' = << >>
  /\ ctu' = Encoded.start
  /\ coder' = BeginSegment(Encoded)
  /\ UNCHANGED <<fixedVars, segments, index, sync, segmentEnd, trial, nals>>

(* The substreams of the segment, one behind the other. *)
Joined(streams, first, n) ==
  LET joined[i \in 0..n] == IF i = 0 THEN << >> ELSE joined[i - 1] \o streams[first + i - 1]
  IN joined[n]

NalOf(seg, streams) ==
  [address |-> Rs(seg.start), dependent |-> seg.dependent, sizes |-> sizes,
   data |-> Joined(streams, Substream(seg.start), Len(sizes) + 1)]

(* One turn of encodeSlice()'s loop: the CTU and its flag (finishCU), a    *)
(* terminating bit at the end of a substream.                              *)
EncodeCtu ==
  /\ phase = "encodeCtu"
  /\ LET seg   == Encoded
         begin == BeginCtu(coder, seg, ctu)
         after == CodeCtu(begin, ctu)
         last  == ctu + 1 = seg.end
         terminates == last \/ EndsSubstream(ctu)
         written == substreams[Substream(ctu)] \o <<CtuData(begin, ctu)>>
                      \o (IF last THEN << >> ELSE <<Flag(0)>>)
                      \o (IF terminates THEN <<Flag(1)>> ELSE << >>)
     IN /\ substreams' = [substreams EXCEPT ![Substream(ctu)] = written]
        /\ coder' = [after EXCEPT !.running = ~terminates]
        /\ sync' = IF SecondOfRow(ctu) THEN after ELSE sync
        /\ IF last
             THEN /\ segmentEnd' = IF dependentSliceSegmentsEnabled THEN after ELSE segmentEnd
                  /\ nals' = Append(nals, NalOf(seg, substreams'))
                  /\ phase' = IF index < Len(segments) THEN "encodeSlice" ELSE "decodeSlice"
                  /\ index' = IF index < Len(segments) THEN index + 1 ELSE 1
                  /\ UNCHANGED <<ctu, sizes>>
             ELSE /\ ctu' = ctu + 1
                  /\ sizes' = IF terminates THEN Append(sizes, Len(written)) ELSE sizes
                  /\ UNCHANGED <<segmentEnd, nals, phase, index>>
  /\ UNCHANGED <<fixedVars, segments, trial>>

EncoderNext == CompressSlice \/ CompressCtu \/ EncodeSlice \/ EncodeCtu
=============================================================================
