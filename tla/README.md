# TLA+ models of the HM codec with R-MED

The repository is the hand-over of a video laboratory: the HEVC reference
software HM (`src/HEVC R-MED`), the VVC reference software VTM
(`src/VVC R-MED`), both with the laboratory's residual coding (R-MED), C models
of a JPEG core, Matlab simulations, and documents. This directory models the
part of HM whose correctness depends on order, state and agreement between two
programs: how the decoder takes NAL units from a file, tells pictures and
sequences apart, keeps its picture buffer and writes pictures in output order;
how encoder and decoder cut a picture into slices and substreams and carry
their contexts across; how they code syntax elements, the residual of R-MED
among them, into bytes; and the byte level below.

Line numbers refer to `src/HEVC R-MED/source/` unless a path says otherwise.

## Inventory

| Component | State | Operations | What makes it correct |
|---|---|---|---|
| NAL unit layer (`NALwrite.cpp`, `NALread.cpp`, padding in `TEncGOP.cpp`, `TComBitStream.cpp`) | bytes of one unit, zero run, escape locations | `write`, `cabac_zero_word_padding`, `countStartCodeEmulations`, `convertPayloadToRBSP`, `readNalUnitHeader` | no start code inside a unit, no zero at its end, reader returns what was written |
| Entry points (`TEncGOP.cpp`, `TDecCAVLC.cpp:1770-1830`) | sizes of substreams, escape locations | offsets counted with escapes, corrected for escapes removed | decoder cuts where the encoder joined |
| Byte stream (`AnnexBread`, `AnnexBwrite`, seek in `TAppDecTop.cpp:143-196`) | file position, look-ahead bytes, end-of-file mark | `writeAnnexB`, `byteStreamNALUnit`, `seekg` | every unit found once, and found again after a seek back |
| Decoder control (`TDecTop`) | picture list, open picture, slice pilot, POC anchors, access point, flags of first slices | `decode`, `xDecodeSlice`, `xActivateParameterSets`, `xCreateLostPicture`, `executeLoopFilters`, `checkNoOutputPriorPics` | slices go to their picture, POCs are right, references are there |
| Decoder application (`TAppDecTop`) | main loop, POC of the last picture written, counters | `decode`, `xWriteOutput`, `xFlushOutput` | every picture written once and in order; termination |
| Picture list and slice rules (`TComSlice`, `TComPic`) | marks of pictures | `sortPicList`, `applyReferencePictureSet`, `checkThatAllRefPicsAreAvailable`, `checkLeadingPictureRestrictions`, `checkCRA`, `setRefPicList` | marks agree with the reference picture sets |
| Slice encoding and CTU order (`TEncSlice`, `TEncGOP`, `TComPicSym`) | slices and segments, contexts stored for rows and segments, substreams | `compressSlice`, `encodeSlice`, `calculateBoundingCtuTsAddrForSlice`, `xInitTiles` | slices are legal, trial and final pass agree |
| Slice decoding (`TDecSlice`, `TDecGop`) | contexts stored for rows and segments, substreams | `decompressSlice` | every CTU decoded in the state it was coded in |
| CABAC engines (`TEncBinCoderCABAC`, `TDecBinCoderCABAC`) | interval, byte that waits, bytes of 0xff outstanding, contexts | encode and decode bins, align, terminate, finish, PCM | decoder returns the bins encoded; carries |
| Entropy syntax (`TEncSbac`, `TDecSbac`) | contexts, Rice statistics | binarisations, `codeCoeffNxN` and `parseCoeffNxN` with R-MED | both ends agree on the syntax |
| Parameter sets (`ParameterSetManager`) | sets by id, changed marks | `storePS`, `activatePPS` | a slice is decoded with the sets it names |
| SEI | none of its own | parse, write | both ends agree on the syntax |
| Encoder control (`TEncTop`, `TEncGOP`) | picture list, reference picture sets | `compressGOP`, `selectReferencePictureSet` | streams conform |
| Rate control (`TEncRateCtrl`) | bits left, CPB fullness | `initRCPic`, `updateAfterPicture`, `updateCpbState` | the bit budget is kept |
| Coding units (`TEncCu`, `TDecCu`, `TComDataCU`, `TComTU`, `TEncEntropy`, `TDecEntropy`) | depths, skip marks, QPs and coded block flags of a CTU's parts, the flag that a QP is still to be coded | `xEncodeCU`, `xDecodeCU`, `getRefQP`, `xCheckDQP`, `xEncodeTransform`, `xDecodeTransform` | both ends derive the same division, contexts, flags and QPs |
| Prediction, transform, filters | sample arrays | - | numerical |
| VTM decoder, encoder, tools | as HM's, with `ParameterSetManager` maps and APS | as HM's | as HM's |
| JPEG C model (`jcem.c`, `jdem.c`, variants) | bit buffer, DC predictors, restart counter | encode and decode blocks | decoder inverts encoder |
| Matlab simulations, benchmark scripts, documents | - | - | numerical experiments, no protocol |

**Interactions.** Both programs are single-threaded, so the hard behaviour is
not in threads but in a control flow that goes twice through the same input, and
in two programs that must derive the same state from different sides.

- The main loop reads a NAL unit and calls `TDecTop::decode`. When the unit
  begins a new picture, `decode` returns `bNewPicture` without decoding it; the
  main loop closes the open picture (filter, output, flush), seeks the file
  back, and hands the same unit in again. Both sides keep flags across the two
  calls (`m_bFirstSliceInPicture`, `m_prevPOC`, `m_apcSlicePilot`,
  `loopFiltered`), and both change the picture list: the application sets output
  marks and destroys pictures that the decoder may still refer to. Losses,
  skipped leading pictures, ends of sequences and access points change these
  flags in different places.
- The encoder goes twice through a picture too: on trial, which cuts it into
  slices and segments, and for good. Contexts and palette predictor are stored
  behind the second CTU of a row and behind a segment, and loaded at rows and
  segments; the decoder does the same with what it has read so far. Substreams
  are joined in one function, sized in another, escaped in a third.
- A syntax element goes through a binarisation, a context choice and the
  arithmetic coder. The encoder chooses with the whole block before it, the
  decoder with the part it has read. A coding unit that codes no QP has one all
  the same: each end infers it from the units around, and later QPs are
  predicted from it. R-MED replaces the coefficients between
  quantisation, which has prepared them for sign hiding, and coding.

What is hard to test follows from that; `hazards` of `PROJECT.json` lists it
line by line.

## Modules

| Module | Models | State and actions |
|---|---|---|
| `NalTypes` | classes of NAL unit types | constants |
| `Config` | values of the active SPS, decoded sub-layer | constants with assumptions |
| `Dpb` | `m_cListPic` and `TComSlice`'s operations on it | operators: `Reusable`, `Recreated`, `Sorted`, `ApplyRps`, `LostPocs`, `LeadingPicturesAreLegal` |
| `TDecTop` | `TDecTop::decode` and what it calls | one variable per member; a slice runs through phases `decode`, `conceal` (one lost picture per step, then activation), `lists`, `returned` |
| `TAppDecTop` | the application's main loop | `IgnoreLayer`, `Decode`, `FinishPicture`, `Bump` (one picture written) and `EndBump`, `CheckNoOutputPriorPics`, `FlushPicture`, `EndFlush`, `BeginSecondOutput` |
| `StreamSource` | the bitstream (external): any sequence that obeys an encoder's rules, and the output a conforming decoder gives for it; losses | `SendPicture`, `SendSlice`, `SendExtra`, `SendEndOfBitstream` |
| `Decoding` | the composition, and its properties | `ReadNal`, `DecoderStep` |
| `EntryPoints` | entry points of a slice header: counted by the encoder, corrected by the decoder | operators |
| `NalUnit` | one unit written, padded and read back, a byte per step | `WriteByte`, `WriteEnd`, `PadWord`, `EndPadding`, `ReadByte`, `ReadEnd`, `StripZero`, `ReadNalUnitHeader` |
| `ByteStream` | a file of units, read through the look-ahead buffer | `WriteUnit`, `LeadingZero`, `ReadStartCode`, `ReadByte`, `EndUnit`, `TrailingZero`, `FoundStartCode`, `SeekBack`, `GoOn` |
| `UnitSource` | abstract specification of `ByteStream`: units in order, each again on request | `Add`, `Close`, `Hand`, `Take`, `GiveBack`, `Finish` |
| `CtuScan` | tiles, scan order, substreams (`TComPicSym`, `TComPic`) | operators |
| `SliceEncoder` | `compressSlice` and `encodeSlice`, and the loops of `TEncGOP` around them | `CompressSlice`, `CompressCtu`, `EncodeSlice`, `EncodeCtu` |
| `SliceData` | `TDecGop` and `TDecSlice` on what `SliceEncoder` wrote | `DecodeSlice`, `DecodeCtu` |
| `CabacTables` | context models and the tables of the engines | operators |
| `CabacEncoder` | `TEncBinCABAC` | `Begin` (any element), `Encode`: one call, or eight bypass bins of one |
| `CabacDecoder` | `TDecBinCABAC` | operators that take the engine and return it with the value read |
| `Binarisation` | the binarisations and IPCM of `TEncSbac` and `TDecSbac` | operators |
| `Med` | the prediction of R-MED, its inverse, the choice between them | operators |
| `Residual` | `codeCoeffNxN`, `parseCoeffNxN` | operators |
| `CodingTree` | the quadtrees of a slice and the QPs of their units: `xEncodeCU`, `xDecodeCU`, `getRefQP`, `getLastCodedQP`, `xCheckDQP` | operators |
| `TransformTree` | `xEncodeTransform`, `xDecodeTransform`, `codeQtCbf`, `parseQtCbf` | operators |
| `PredictionInfo` | `codePartSize`, `codeIntraDirLumaAng`, `codeInterDir`, `codeRefFrmIdx`, `codeMvd` and the like, `encodePUWise`, their readers, `getIntraDirPredictor` | operators |
| `SampleOffsets` | `codeSAOBlkParam`, `parseSAOBlkParam`, `codeCrossComponentPrediction`, `parseCrossComponentPrediction` | operators |
| `Cabac` | a substream: elements, bins, bytes, elements | `Write`, `EncodeCall`, `Terminate`, `StartReading`, `ReadNext`, `ReadEnd` |
| `DecodingProofs`, `IntactProofs`, `OutputProofs`, `NalUnitProofs`, `ByteStreamProofs`, `CabacProofs`, `MedProofs`, `SliceDataProofs` | proofs | |
| `MCDecoding`, `MCNalUnit`, `MCByteStream`, `MCSliceData`, `MCCabac` | instances for TLC | |

**Decoder.** A picture object is a record in a slot: `pos` is its place in the
list, `recon`, `out`, `ref`, `used` its marks, `poc` and `poc0` the POC of its
picture and of its first slice. Slice data is abstracted to `ids`, the set of
coded pictures whose slices have been decoded into the buffer; a picture made up
by `xCreateLostPicture` holds `Fill`. A correct buffer has one id, and a correct
output file is a sequence of single ids, which lets the properties speak of
whole pictures.

`StreamSource` is a specification of what the decoder is promised, not of HM's
encoder: picture types, POCs, reference picture sets, buffer sizes and
sub-layers are chosen freely under the constraints of the standard that
`TComSlice` asserts. It carries the output of a conforming decoder (the bumping
process) as `output` and `waiting`, so that `OutputConforms` compares HM's way
of output with the reference one. `StreamSource` reads units in order and again
on request, which `ByteStream` is shown to provide (`ImplementsUnitSource`).
`ByteStream` in turn assumes of a unit what `NalUnit` shows the writer to
provide (`NoStartCodeInside`, `NoTrailingZero`).

**Slice data.** A coder's contexts are represented by what has adapted them: the
slice that initialised them and the CTUs coded with them. The palette predictor
is the sequence of CTUs that updated it. Coding a CTU writes the coder's state
into the substream; the decoder may take the CTU only if its own coder is in
that state, otherwise it goes to `lost`.

**Residual coding.** An element carries what both ends know of it (block size,
channel, scan, CU, tools) and its value. The encoder turns it into calls of the
engine, which write bits; the decoder sees the bits and what both know, never
the value. Only blocks of 4x4 and 8x8 are enumerated: they reach every branch
of the syntax; larger ones only have longer suffixes of the last position and
other context offsets.

**Coding units.** The trees of a slice, the transform tree of a unit, its
prediction and the SAO parameters of a CTU are elements of their own, since none
reads values of another but what the elements carry: the flag that a QP is to be
coded, and a unit's size, depth and neighbouring directions. The decoder derives
the probable directions of a unit's four parts from those it has just read. `Settled` is what the encoder's search
leaves of the QPs it has tried: without it, the QPs of units that code none
would be inputs and could not agree with the decoder's. In `ReadTree` the
decoder's last coded QP has no value before one was read (`NoQP`), so a use of
it shows as a QP that no encoder settles. A transform unit's flags are a set of
depths per part, as the bits of the code's bytes; `Transformed` lists the blocks
in the order of coding, and each is followed by its component where its levels
would be.

## Runs

| Run | Question | Bounds |
|---|---|---|
| `nal_unit` | Is every unit free of start codes, read back as it was written, and cut into its substreams where they were joined? | payloads of up to 5 bytes of {0, 1, 3, 4}, 5 headers, 2 padding words |
| `byte_stream` | Is every unit found, with and without seeking back? (refinement of `UnitSource`, termination) | 3 units of 4 shapes, up to 3 zero bytes between them and at the end |
| `Sequences` | POC, references, output and buffers of intact streams with every class of access point | 4 pictures, POCs -1..4, POC period 8, buffer of 3, reorder 1 |
| `RandomAccess` | `-s 1 -t 1`: where decoding begins at an access point, what it drops, in what order it writes, with a sub-layer left out | 5 pictures, POCs {0, 1, 2, 4, 7}, POC period 8, buffers of 2, 2, 3 |
| `Slices` | slices, dependent segments, other units between them, end of sequence, pictures dropped from output | 3 pictures of up to 2 slices, 1 other unit |
| `Loss` | a lost picture: concealment, safety, termination | 4 pictures, POCs -2..3, 1 loss |
| `slice_data` | Are slices cut legally, does the trial pass agree with the final one, and does the decoder find each CTU in the right state? | 7 pictures of up to 4x3 CTUs and 4 tiles, every pair of slice modes, limits of 1 to 5 CTUs or 1 to 2 tiles, any byte limit |
| `cabac` | Does the decoder read the elements that were written? | sequences of up to 5 basic elements; one block of 4x4 or 8x8 for each combination of tools, two for the Rice statistics; slices of 1 to 3 CTUs of 16 parts; transform trees of units of 8x8 and 16x16; the prediction of one unit; the SAO parameters of one CTU; one chroma factor |
| `MergedPictures`, `AfterEndOfSequence`, `LastPicture`, `HiddenSigns` | findings, below | |

**Why the bounds suffice.** Escaping depends on the last two bytes and the next
one: five bytes reach every combination of two adjacent escapes and of an escape
at the border of payload and padding. The four byte values are those the code
distinguishes (2 behaves as 1 does). The look-ahead of the byte stream is at most
four bytes and a start code has three or four; the shapes begin and end with
bytes of a start code. Three units are needed to seek back from one to another
that has a predecessor.
In the decoder, a buffer of three with one reordered picture is full with the
third picture, and the fourth must reuse a buffer. A chain of an access point, a
leading picture, a trailing one and another access point has four pictures; with
one skipped before it, five. A POC period of 8 with POCs up to 7 wraps around.
In `Loss`, two leading pictures of an IDR picture, of which the second refers to
the first, lose a reference of a negative POC; trailing ones lose one of a
positive POC before or behind the current picture.
Five slots stand for the objects of the list: when none is left,
`IsNewPicBuffer` has no successor and TLC reports a deadlock, so a run that
passes has not been cut off by them.
In the slice data, three CTUs are the first row that has a state to load from
its second CTU and goes on after it; rows of one CTU, a tile of one row and
tiles of unequal size are the cases the code treats apart. Where bytes are
limited, TLC chooses at every CTU whether it exceeds the limit.
In the arithmetic coder, 25700 in 16 bypass bins leaves an interval on both
sides of a carry and 100 in 8 bins keeps it there, so that bytes of 0xff pile
up and other elements then decide with or without a carry. The blocks are
chosen for the branches of the syntax: `CornerBlocks` for the three cases of the
prediction, `EightBlocks` for every neighbourhood of groups, `ApartBlocks` for
hidden signs with every combination of transform skip and RDPCM, `Escaping` for
more than eight levels and long remainders. The two pictures of the coding trees
end within a CTU on the right, or on the right and below, so that quarters are
left out in either direction and whole groups lie outside; one of them begins
its slice in the second CTU. Four divisions, every pattern of three kinds of
unit (skipped, without residual, with residual) and groups at every depth put a
unit that infers its QP before, between and behind units that code one; QPs 0
and 51, and -12 and 51 with an offset of 12, make differences that wrap around.
Transform trees have no blocks, one, a luma block with another, or all of them coded, with every chroma
format, division by flag, by size and by mode; 4:2:2 at 8x8 and 16x16 reaches
halved chroma blocks above and at the smallest size.
Intra units take every direction between neighbours that are planar, DC, angular
at either end of the range, equal and different, and four parts each of which is
probable or not. Inter units take every division at the smallest depth and above,
at 8x8 and 16x16, with and without unequal parts; indices of references and
candidates lie below, at and above the first bin without a context, and motion
differences at 0, 1, 2 and beyond. SAO bands begin where they wrap around (30,
31) and where they do not, and offsets are 0, at their largest or one below.

**Fairness.** Only `Loss`, `nal_unit` and `byte_stream` check liveness, under
`WF_vars(Next)` of the whole program: it is one thread that keeps running while
it has a step to take, and the bitstream is a file that ends. No choice is
assumed to be fair. The runs end in stuttering at `done`, `aborted` or
`crashed`; `Terminates` is the claim that retries, bumping, concealment and
flushing all end.

**What the properties are for.**
- `SlicesStayTogether`, `RetryStartsPicture`, `DependentsContinue`,
  `OpenPictureIsUnfiltered`, `OpenPictureIsHeld`: the two-pass protocol between
  decoder and application. They relate flags set in one pass to the picture list
  changed in the other.
- `PocIsRight`, `RefPicsAreRight`, `NothingConcealed`: the decoder's view of a
  picture against the encoder's, over wrap-around, skipped pictures and
  sub-layers.
- `OutputConforms` (and `OutputConformsButLast`, which excepts two pictures: the
  last one, see the findings, and a prior picture that is spared for its POC),
  `OutputInOrder`, `OutputOnce`, `SkipsPictures`: the output file against the
  conforming one. `SkipsPictures` says what is written if the picture behind the
  skipped ones is an access point; if it is none, only that nothing skipped is
  written and nothing left out from the first access point on, because there the
  source disagrees with itself (see the observations).
- `NoPictureVanishes`: an action property; a decoded picture leaves the list
  only once it has been written.
- `NoFailure` (`NoAbort` and `NoCrash`): no assert fires; no reference picture
  is missing, and no slice is added to a deleted picture.
- `LossIsSurvived`: the same after a loss, with two exceptions that the run
  reaches: a lost reference picture of a negative POC is not replaced, and a leading
  picture whose IRAP picture is lost meets the asserts on leading pictures.
- `SubstreamsFound`: entry points, counted before escaping and corrected after
  it, cut the payload where it was joined.
- `SlicesAreLegal`, `TrialInStep`, `DecoderInStep`: the shape of slices and
  segments; the state of the trial pass and of the decoder against that of the
  final pass, CTU by CTU.
- `CarryHasRoom`, `WritesFit`, `RoundTrip`, `StopBitFound`: the encoder's
  interval, the widths it writes, the elements that come back with the contexts
  and Rice statistics both ends are left with, and the stop bit the decoder
  asserts.

Each property of a passing run has a mutant in `PROJECT.json`: an operator
beside the original, named `<original>_<change>`, which breaks the property.

## Findings

Each is a disagreement between the code and what it says of itself, with a
counterexample by TLC.

1. `LastPicture`: when the file ends with the first picture after an end of
   sequence, that picture is never written. `loopFiltered` is still set from the
   end of sequence, so at the end of the file `TAppDecTop.cpp:203` skips
   `executeLoopFilters`, which would have marked the picture for output, and the
   final flush passes over it.
2. `AfterEndOfSequence`: the assert of `TComSlice.cpp:1135` compares POCs across
   an end of sequence. A CRA picture that starts a sequence drops the pictures
   of the sequence before from output but leaves them in the list, and the next
   CRA picture is compared with them.
3. `MergedPictures`: `TDecTop.cpp:778` returns at a new picture only if the
   previous POC is not below that of the access point decoding began at. After a
   CRA picture of POC 1 and an IDR picture of POC 0, the slices of the next
   picture are decoded into the IDR picture's buffer.
4. `HiddenSigns`: R-MED and sign hiding do not go together. The quantisation
   prepares the parity of each group's coefficients (`TComTrQuant.cpp:1066`);
   `codeCoeffNxN` may then replace them by prediction errors, and still leaves
   out the first sign of a group (`TEncSbac.cpp:1520`). The decoder infers a
   sign the prediction error does not have, and every cell predicted from it is
   wrong. Sign hiding is on by default; lossless coding is free of it. In
   `cabac`, blocks that hide signs are kept from being coded as prediction
   errors (`Kept`).

The models showed more, which no run states because no property of a passing
run needs it:

- A lost reference picture of a negative POC is never replaced, since
  `checkThatAllRefPicsAreAvailable` returns its POC plus 1 and the loop at
  `TDecTop.cpp:795` wants a positive value.
- `-s` counts slices, not pictures (`TDecTop.cpp:1151`), so that of a picture of
  two slices `-s 1` skips the first one only. The manual
  (`software-manual.tex:3237`) says pictures.
- Behind the skipped pictures, a picture that is no access point is skipped too,
  up to the first that is. The comment at `TDecTop.cpp:1145` says that decoding it
  is attempted, the warning the code prints at `TDecTop.cpp:1174` that the data is
  discarded "until the first CRA picture" (an IDR or BLA picture ends it as well).
  `SkipsPictures` takes neither side.
- `applyReferencePictureSet` keeps the mark of a picture whose POC equals the
  current one (`TComSlice.cpp:1274`); `checkNoOutputPriorPics` takes a prior
  picture of an equal POC for the current one (`TDecTop.cpp:263`).
- The picture list grows beyond its announced size on intact streams
  (`TDecTop.cpp:209`).
- Queued SEI units before a reserved VCL unit: `TDecTop.cpp:604-609` deletes the
  queue's front without removing it, again and again.
- One or two zero bytes at the end of a file become part of the last unit; if
  cabac_zero_words come before them, the reader's assert (`NALread.cpp:86`)
  fires. HM's writer leaves no such file.
- At a wavefront row whose top right CTU is not available, contexts are reset
  and the palette predictor is not (`TEncSlice.cpp:1524`, `TDecSlice.cpp:199`).
  Both ends agree on that.
- A dependent segment of limited bytes is tried with contexts its first CTU
  has already adapted, at the end of the segment before; `TrialInStep` excepts
  it. Only the encoder's estimates suffer.
- A prediction error of R-MED may need one bit more than the dynamic range that
  the limited binarisation of levels is sized for (`OneBitMore`).

## Proofs

TLAPS proves, for every value of the constants:

- `NalUnitProofs`: `WriterEscapes`, `WriterEndsUnit`, `ReaderNeverAborts`,
  `TypeCorrect`, that is, `[]NoStartCodeInside`, `[]NoTrailingZero`,
  `[]ReaderAccepts` and `[]TypeOK` for payloads of every length over all bytes,
  every header, every number of padding words. Beyond that `ReadsBackWritten`,
  that is, `[]RoundTrip`: the reader hands on the payload and the header's fields
  that were written; and `ReaderFindsEscapes`: the positions it notes of removed
  bytes, by which entry points are corrected, are those where the writer put one.
  `EmulationsAreCounted`, that is, `[]EmulationsCounted`: `countStartCodeEmulations`,
  by which the encoder sizes substreams it has not written yet, counts exactly
  the escapes `write` puts into the payload, though it looks for pairs of zeros
  and `write` runs a counter. `DecoderFindsSubstreams`, that is,
  `[]SubstreamsFound`, for every payload and every cut of it into header and
  substreams: the decoder finds the substreams the encoder has joined, provided
  that their offsets stay below the 2^31 `codeTilesWPPEntryPoint` asserts
  (`OffsetsFit`).
- `ByteStreamProofs`: `ByteStreamTypes`, `SeekBackIsRight`,
  `ByteStreamIsUnitSource`, that is, `[]TypeOK`, `[]LocationIsPayload` and
  `ImplementsUnitSource`, for files of any number of units and zero bytes,
  whatever is read again: the byte stream hands out the units of the file in
  order, complete, each again on request.
- `DecodingProofs`: `DecodingTypeCorrect`, `RetrySucceeds`, `OpenPictureStays`,
  that is, `[]TypeOK`, `[]RetryStartsPicture` and `[]OpenPictureIsHeld` of the
  composed decoder, for every bitstream, option, buffer size and number of
  losses.
- `IntactProofs`: for every bitstream of any length that nothing is missing from
  (`Intact`, below), any buffer size, reordering and POC period, any slices,
  segments, temporal layers and unit types: `IntactPocs`, `IntactReferences`,
  `IntactList`, `IntactSlices`, `IntactDependents`, `IntactOpenPicture`,
  `IntactRuns`, `IntactOutput`, that is, `[]PocIsRight`, `[]RefPicsAreRight`,
  `[]NothingConcealed`, `[]SlicesStayTogether`, `[]DependentsContinue`,
  `[]OpenPictureIsUnfiltered`, `[]NoFailure` and `[]OutputOnce`; and, where every
  picture is to be output, `IntactPicturesShown`, the action property
  `NoPictureVanishes`. So the decoder gives each picture the POC, the buffer and the
  references the encoder had in mind, fails no assert, and writes each picture
  at most once and before its buffer is used again.
- `OutputProofs`: for the same streams, `IntactOutputInOrder`, that is,
  `[]OutputInOrder`; and, where no stream asks for prior pictures to be dropped,
  `IntactOutputConforms`, that is, `[]OutputConforms`: at the end of the file HM's way
  of output, which bumps after a picture has been decoded and once more behind
  each slice, has written what a conforming decoder outputs, in the same order.
  Pictures may have `pic_output_flag` 0, and higher sub-layers may be dropped.
- `CabacProofs`: `EncoderTypes`, `CarriesHaveRoom`, `AllWritesFit`, that is,
  `[]EncoderTypeOK`, `[]CarryHasRoom` and `[]WritesFit` of the encoding engine
  for every sequence of calls, every set of contexts and every slice QP. The
  second one is what two asserts left in comments (`TEncBinCoderCABAC.cpp:85`)
  claim.
- `MedProofs`: `RestoredIsOriginal`, `NeverEmptied`, `OneBitMore`: for blocks of
  every width over all integers, the decoder's pass in place inverts the
  prediction, prediction errors of a block that is not zero are not all zero (so
  a last position exists), and they are at most twice as large as the largest
  coefficient.
- `SliceDataProofs`: `SlicesLegal`, that is, `[]SlicesAreLegal`: for pictures of
  every size, all tile columns and rows, every pair of slice options, with and
  without wavefronts, and wherever byte limits cut, the slices and segments of a
  picture cover it, each CTU once, and are legal. `TrialIsInStep`, that is,
  `[]TrialInStep`: the final pass codes a CTU in the state in which
  `compressSlice()` tried it, except in the slices the property names.
  `DecoderIsInStep`, that is, `[]DecoderInStep`: the decoder finds every CTU in
  the substream where it looks for it, decodes it with the state it was coded
  with, across slices, segments, tiles and rows, reads everything and knows every
  segment in the end. And `StateHasType`, that is, `[]TypeOK`.

*NAL unit.* `NoStartCodeInside` is not inductive: whether a byte may be appended
depends on the zeros before it. `IInv` adds `WriterInv` (`zeroCount` is the
number of zeros at the end of what has been written, and no two zeros lie before
them; when padding begins it is 0), `ReaderInv` (the same for the bytes before
`rd`) and `HeaderInv` (both ends agree on the two header bytes, whose second one
is never 0). One lemma per action shows that it preserves `IInv`; `AppendLemma`
is the fact about bytes they share. `ReaderAccepts` follows because the reader
rejects only what `NoStartCodeInside` excludes, and strips zeros only down to
the header's second byte. `CopyInv` holds what the round trip needs: the bytes
written so far are those of header and payload with a 3 where two zeros needed
it (`WrittenInv`), `CountInv` ties the positions of escapes to it, and `ReadInv` says
that the reader has taken out of its part of the unit the bytes the writer has
put in. `EmulationInv` is what the count of escapes needs: those written so far
and those counted from the first of the pending zeros on are all that are
counted. The count is a recursive function, of which a `CHOOSE` says nothing
until one exists (`EmulationsExist`, by the least number for which it would not).
For `SubstreamsFound` two counts have to agree: the encoder counts a substream's
escapes in the substream alone, the decoder those at places of the written unit.
`LengthLemma` says that of the bytes between two places of the unit those that
come from the payload and the escapes `Between` them are all. By `CountStep` and
`CountedLemma` the escapes up to the end of a substream are those counted: the
byte before it is not 0, so nothing pending reaches in from the substream before,
and from there both jump from escaped byte to escaped byte. `HeaderEndLemma`
follows the loop over the locations to the place where the header ends in the
unit, `OffsetsLemma` undoes the coding of the offsets in `OffsetLen` bits,
`ReadSizesLemma` sums them up to the ends of the substreams. `CopiedInv` keeps
where each byte of the payload has gone once the reader is past it, when
`ReadInv` no longer says so.

*Byte stream.* `Layout` describes the file: where each unit starts (the ghost
`starts`), that its start code lies before it and zeros around. `ReaderInv` says
for every phase where in that layout the reader is and how far it has read
ahead. What a start code search sees follows from the layout: inside a unit
never a start code nor three zeros, since `NalUnit` writes none; behind it zeros
up to the next one; and at the end of the file less than it asks for. The
refinement maps a unit that has been read to one in hand, and every step of a
byte to a stutter (`SourceStep`, one lemma per action). The end of file needs
care: with one or two zeros behind the last unit they are handed on as part of
it, which the abstract source allows by `tail`.

*Decoder.* `Inv == TypeOK /\ RetryInv /\ DependentInv /\ HeldInv`. `RetryInv`
carries the fact that a refused unit finds `m_bFirstSliceInPicture` set through
the whole of filtering, output and flushing until the second call of `decode`.
`HeldInv` strengthens `OpenPictureIsHeld` by what must hold in the middle of an
iteration: flushing happens only for a refused unit, which has closed the open
picture, and an end of sequence has set `m_bFirstSliceInSequence` before the
application clears `m_bFirstSliceInPicture`. `DependentInv` is needed because a
dependent segment changes the pilot without a header of its own: the picture it
continues has been activated or skipped. The type proof of a step uses one lemma
per action; the module begins with those about the buffer and about the
bitstream.

*Intact streams.* What the decoder knows is right only in relation to what the
encoder has sent, so the invariant has two halves, and
`IInv == Intact /\ Inv /\ SourceInv /\ DecoderInv`. `SourceInv` writes down, of the
sequence of coded pictures, the laws an encoder obeys (`Lawful`: where sequences
start, how far a POC may be from its anchor's, the order of leading and trailing
pictures; `RefsLaw`: what a reference picture set may name); it holds because
`SendPicture` respects them and a further picture changes nothing about those
before it. `DecoderInv` relates the decoder's members to the pictures that have
`Reached` it, which are all of them or all but the last one: while `Ahead` holds,
the last picture's first slice is still to be given a buffer, or has been handed
back. `IrapInv` and `AnchorInv` say that `m_pocCRA`, `m_associatedIRAPType` and
`m_prevTid0POC` belong to the last access point and anchor that arrived; with
the law of POCs, the LSBs then name the picture's POC and no other. `ListInv`
says that every picture in the list is one of the current sequence, decoded as
such (`ListShows`), that no two are the same (`ListDiffers`), and that all the
encoder still refers to are there and marked (`ListKeeps`); with it no assert on
reference sets fails and nothing is concealed. `OpenInv`, `CurrentInv`,
`HandedBackInv` and `PilotInv` follow a slice through the two passes of the
application's loop; `RefPicsInv` and `WrittenInv` are the references of a slice
and the output so far; `VanishInv` says that a picture in the list is still to be
written, has been written, or is open. One lemma per action shows that it keeps
`DecoderInv` (`...Keeps`). Before it was proved the invariant was checked by TLC
on three instances of up to 1.6 million states: `Sequences` from IDR pictures,
two pictures of two slices or segments with other units between them, and three
temporal layers.

*Output.* HM does not output as the standard's decoder does: it counts the
pictures in its list after a picture has been finished, writes one by one those
with a POC behind the last one written, and does so again behind every slice,
when the picture being decoded is in the list already. Its output is compared
with the reference one not step by step but by what both keep:
`OInv == PocsAreShown /\ IInv /\ OutputSourceInv /\ OutputDecoderInv`. Both write
in output order, which `Precedes` defines on the coded pictures alone: earlier
sequence first, then POC. An ordered sequence of pictures is determined by the
pictures in it (`OrderIsUnique`), so that it is enough that in the end both have
output all of them. Of the reference decoder `OutputSourceInv` says that what is
out is in order and before what waits (`OutputLaw`), that nothing of the sequence
is missing, and that there was room for the last picture (`RoomLaw`). Of HM,
`OrderInv` says that what is written precedes all that is `Pending`, that is, in
the list and marked, open and to be marked, or on its way to the list; and,
while the file goes on, that nothing is written that the reference decoder still
holds. The second part carries the first: HM writes a picture only when there
are more than the reference decoder would hold, which has output the first of
them at that point (`BumpChooses`, by counting: `RestFits`), so that no later
picture of the stream can precede it (`NewPictureIsLater`). `RoomInv` and
`CounterInv` are that count; `DisplayInv` says why the comparison with the last
POC written passes over nothing; `ShownInv` that nothing to be output is lost,
and `EmptyInv` that the list is empty in the end. `PocsAreShown` is the
assumption that no POC is `-MAX_INT`, which `xWriteOutput` uses for "none yet".
One lemma per action shows that it keeps `OutputDecoderInv` (`...Output`). The
conjuncts were checked by TLC on the instances named above before they were
proved.

*Arithmetic coder.* The invariant is `CarryHasRoom` with the bounds of the
registers. A call leaves an interval inside the one it found, moved to the left,
so the bound on `low + range` survives (`MoveOK`, `ScaleFits`); when a byte
leaves the register, the same bound tells that it is at most 0xff plus a carry,
and that a carry finds a byte below 0xff waiting (`WriteOutOK`). The tables
enter through lemmas that go through their entries: one renormalisation is
enough, and no context reaches state 63.

*R-MED.* The decoder restores row by row, as a recursive function of rows and
cells. That it gives the block back is an induction over the distance of a cell
from the corner. The library's induction takes a predicate as parameter, which
the provers cannot instantiate, so the induction is on sets: were any cell
wrong, a least wrong one would exist (`LeastNat`), whose neighbours are right.

*Slice data.* `picSym` holds the order of CTUs as the recursion of
`xCalculateNextCtuRSAddr` gives it, `tsToRs`, and its inverse by `CHOOSE`. The
proof replaces both by arithmetic: `Ordinal` is the number of CTUs in the tiles
before a CTU's (`First`) plus its place in its tile (`Offset`). `MapLemma` shows,
by induction along the order, that `Ordinal` and `tsToRs` are inverse to each
other (`PicSymLemma`), so that the CTUs of a tile are `First` to `First + Size - 1`
and go through it row by row (`PlaceLemma`, `SameTile`, `StepLemma`,
`CtusOfTilesLemma`). `Recursion` is needed for that: a recursive function of
TLA+ is a `CHOOSE`, of which nothing is known before one exists. `BoundLemma` is
what `calculateBoundingCtuTsAddrForSlice` gives: a bound that is within the
picture, behind the start, and such that cutting anywhere before it is legal as
well; it is where the wavefront and tile rules meet. `SlicesInv` says of the
segments so far that all but the last are `Complete`, each `Linked` to its
successor, and the last is `Opened` or, while it is tried, `IsBounded`, with `ctu`
in it; the slice a segment belongs to ends at the last segment that names it
(`Cover`), which is what `SlicesAreLegal` chooses. `CutLemma` and
`NextSegmentLemma` carry it over a byte limit and to the next segment.

*Coders in step.* Both passes and the decoder keep one running coder and two
stored ones, and what these hold depends on the whole history of the picture. The
proof names that history: once the segments are cut, `IsCoded(E, segments)` says that
`E[ts]` is the state CTU `ts` begins with, given the CTUs before it in its own
segment, the last CTU of the segment before, and the second CTU of the row above
(`Begins`). Such an `E` exists, by recursion along the order of CTUs
(`CodedExists`), and it is unique. `IsSync` says of the stored state that it is what the last second
CTU of a row left; `SyncLemma` is the reason why that suffices: where the CTU above right is
available, no other row's second CTU lies between. `CoderAt` says what the
running coder is between two CTUs. The trial pass obeys the same law on all
segments that it begins cleanly (`Law` with `Clean`, in `TrialInv`), and two
histories with one law agree (`TrialAgrees`): that is `TrialInStep`, and `Clean`
is where its exception comes from.

For the decoder the invariant is `DataInv`: some `E` is the history of the
segments, and it explains what the encoder has written (`WritesAt`) and what the
decoder has yet to read (`DecoderAt`). A substream carries one stretch of the
history (`Carries`, `Contents`), and `SubstreamStep` gives the geometry: the number
`getSubstreamForCtuAddr()` returns grows by one exactly behind a CTU that ends
a substream. So the substreams of a segment join to its data, their sizes
take that data apart again (`Joins`, `JoinedLemma`, `ExtractedLemma`), and a NAL unit is
`IsNal` of its segment. `Remains` is what is left of the unit being decoded, and
`Knows` what the decoder knows of the segments: where they start, to which slice
they belong, and, of all but the last, where they end; the last one's end it learns from
`end_of_slice_segment_flag` only. `TypeInv` stands on top of `DataInv`.

*Intact* streams lose and skip nothing, begin with an IDR picture, and hold no end
of sequence unit (and not both SEI units and reserved slice types, which crash
the decoder: a hazard of `TDecTop.cpp:604`); `MaxInt` is larger than any POC, as it is in the
program. Streams outside of `Intact` are left to the runs: after a loss, at a
CRA picture or after an end of sequence, pictures are made up or dropped and
several of these statements need other words. Two findings, `MergedPictures`
and `AfterEndOfSequence`, are violations on such streams. `AllOutput` (every picture has `pic_output_flag`,
none `no_output_of_prior_pics_flag`) is needed by `IntactPicturesShown` only:
without it pictures leave the list unwritten, as they are meant to.

*Assumptions* are `OffsetsFit` in `DecoderFindsSubstreams`, an assert of the
encoder, and those of the constants: `Config` (sub-layers have a buffer and
reorder fewer pictures than it holds), `StreamSource` (the types it sends are
slice types; slices are lost only in streams without dependent segments, since a
segment whose picture is lost would read a pilot of another), `TDecTop` (`MaxInt`
is a number), `ByteStream` (units hold no start code and do not end in zero,
which `WriterEscapes` and `WriterEndsUnit` prove of the writer), `CabacEncoder` (initialisation values are bytes, QPs are numbers),
`SliceEncoder` (the ends of tile columns and rows increase up to the picture's, as
`xInitTiles` asserts).

*Only model-checked:* liveness; output conformance where prior pictures are
dropped, that is, what `OutputConformsButLast` says beyond `OutputConforms` (which of them are depends on how few the reference process has output,
and `CHOOSE` over subsets says that in a form hard to reason about);
`SkipsPictures` and `LossIsSurvived`; the properties of `IntactProofs` and `OutputProofs` on streams
with losses, skipped pictures, a CRA picture at the
start or ended sequences; `TypeOK`, `RoundTrip` and `StopBitFound` of `Cabac`,
because the decoder is written with `RECURSIVE` operators, the coding and
transform trees among them.

## Not modelled, and abstractions

- Parameter sets are one fixed set; VPS, SPS and PPS units are the kind `OTHER`.
  Activation failure and change marks are left out.
- No long-term reference pictures, weighted prediction, field output, MCTS or
  screen content; no `HandleCraAsBla`. These need further bitstream features
  but no different control.
- A slice's type (I, P, B) and list order are abstracted: the reference pictures
  are the set of those in use.
- Losses occur in streams of one slice per picture.
- Residual blocks of 16x16 and 32x32, the separate context of transform-skipped
  significance flags; the syntax of palettes.
- What units are predicted from: candidates for merging and for motion vectors
  (their number is an input), the removal of a list from units of 8x4 and 4x8,
  and which CTUs SAO parameters can be merged with, an input as well.
- In the coding trees: merged units with residual,
  lossless units, chroma QP adjustment, colour transform, tiles and wavefronts
  (the slice data has those), CTUs of another depth. In the transform trees:
  units of 32x32 and 64x64. The asserts of `xEncodeTransform` on what the search
  has divided are the rule `Divided` by which inputs are chosen.
- The bit-counting CABAC class of the rate-distortion search and the search
  itself; rate control, whose state is floating-point arithmetic over measured
  bits.
- In the slice data, the CTU count a byte limit leads to is any; the bytes
  themselves are not counted.
- Sample decoding, filtering as such, option parsing and file output. VTM (with
  its own R-MED), the JPEG and Matlab programs and the documents are listed as
  components with the reason: they are programs of their own beside HM, or
  numerical experiments.
