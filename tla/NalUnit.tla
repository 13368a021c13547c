------------------------------- MODULE NalUnit -------------------------------
(***************************************************************************)
(* One NAL unit on its way from the encoder to the decoder: write() of     *)
(* NALwrite.cpp escapes the payload byte by byte, TEncGOP pads slice data  *)
(* with cabac_zero_words, and read() of NALread.cpp, over                  *)
(* convertPayloadToRBSP() and readNalUnitHeader(), removes the escapes,    *)
(* drops the zeros of the cabac_zero_words and checks the header.  One     *)
(* action per iteration of a loop.                                         *)
(***************************************************************************)
EXTENDS Integers, Sequences, FiniteSets

CONSTANTS
  Headers,    \* the headers the encoder writes: [type, layer, tid] records
  Payloads,   \* the byte strings among which the encoder's payloads are
  MaxWords    \* bound on the cabac_zero_words put behind slice data

Byte == 0..255

NALU == [type : 0..63, layer : 0..63, tid : 0..6]

ASSUME HeadersAssumption == Headers \subseteq NALU

ASSUME PayloadsAssumption == Payloads \subseteq Seq(Byte)

ASSUME MaxWordsAssumption == MaxWords \in Nat

VARIABLES
  phase,      \* the loop that runs: "write", "read", "strip", "header", ...
  nalu,       \* the header of the unit
  rbsp,       \* m_Bitstream: the payload the writer escapes
  it,         \* payload bytes the writer has consumed
  zeroCount,  \* zeroCount, of write() and then of convertPayloadToRBSP()
  out,        \* the bytes of the NAL unit
  escapes,    \* ghost: where the encoder put its escapes, from 0
  words,      \* cabac_zero_words put behind the unit
  rd,         \* it_read: bytes of out the reader has consumed
  buf,        \* the bytes before it_write
  locations   \* m_emulationPreventionByteLocation

vars == <<phase, nalu, rbsp, it, zeroCount, out, escapes, words, rd, buf, locations>>

Phases == {"write", "pad", "read", "strip", "header", "done", "aborted"}

(* writeNalUnitHeader(): forbidden bit, type, layer and tid + 1, 16 bits. *)
HeaderBytes(h) == << h.type * 2 + h.layer \div 32,
                     (h.layer % 32) * 8 + h.tid + 1 >>

(* nalUnitBuf[0] & 64: the bit is clear in the header of slice data. *)
IsVcl(firstByte) == (firstByte \div 64) % 2 = 0

EmulationPreventionByte == 3

(* What the encoder hands to write(): the alignment bits a payload ends    *)
(* with make its last byte differ from 0; slice data is never empty, while *)
(* EOS and EOB have no payload.                                            *)
IsPayload(h, p) ==
  /\ p # << >> => p[Len(p)] # 0
  /\ p = << >> => ~IsVcl(HeaderBytes(h)[1])

Init ==
  /\ phase = "write"
  /\ nalu \in Headers
  /\ rbsp \in Payloads /\ IsPayload(nalu, rbsp)
  /\ it = 0
  /\ zeroCount = 0
  /\ out = HeaderBytes(nalu)
  /\ escapes = {}
  /\ words = 0
  /\ rd = 0
  /\ buf = << >>
  /\ locations = {}

-----------------------------------------------------------------------------
(* The writer.                                                             *)

(* Mutant: the zeros need not be consecutive. *)
NextZeroCount_NotReset(count, v) == IF v = 0 THEN count + 1 ELSE count

NextZeroCount(count, v) == IF v = 0 THEN count + 1 ELSE 0

(* Mutant: 00 00 03 is not escaped. *)
MustEscape_NotBeforeThree(count, v) == count = 2 /\ v < 3

(* Mutant: a third zero is waited for. *)
MustEscape_TooLate(count, v) == count = 3 /\ v <= 3

(* The condition of write(): an escape is due before a byte that would     *)
(* complete 00 00 00 .. 00 00 03.                                          *)
MustEscape(count, v) == count = 2 /\ v <= 3

(* A payload that ends in zero gets a final escape. *)
MustEndWithEscape(count) == count > 0

(* One iteration of the loop of write(). *)
WriteByte ==
  /\ phase = "write"
  /\ it < Len(rbsp)
  /\ LET v      == rbsp[it + 1]
         escape == MustEscape(zeroCount, v)
     IN /\ out' = out \o IF escape THEN <<EmulationPreventionByte, v>> ELSE <<v>>
        /\ escapes' = IF escape THEN escapes \cup {Len(out)} ELSE escapes
        /\ zeroCount' = NextZeroCount(IF escape THEN 0 ELSE zeroCount, v)
  /\ it' = it + 1
  /\ UNCHANGED <<phase, nalu, rbsp, words, rd, buf, locations>>

(* After the loop. *)
WriteEnd ==
  /\ phase = "write"
  /\ it = Len(rbsp)
  /\ IF MustEndWithEscape(zeroCount)
       THEN /\ out' = Append(out, EmulationPreventionByte)
            /\ escapes' = escapes \cup {Len(out)}
       ELSE UNCHANGED <<out, escapes>>
  /\ phase' = "pad"
  /\ zeroCount' = 0
  /\ UNCHANGED <<nalu, rbsp, it, words, rd, buf, locations>>

(* Mutant: the padding is left as it is in the RBSP. *)
CabacZeroWord_NotEscaped == <<0, 0>>

(* A cabac_zero_word as the encoder writes it, behind the escaped unit.    *)
CabacZeroWord == <<0, 0, EmulationPreventionByte>>

(* One iteration of the loop of cabac_zero_word_padding(), which pads the  *)
(* last NAL unit of slice data of a picture with too many bins.            *)
PadWord ==
  /\ phase = "pad"
  /\ IsVcl(out[1]) /\ words < MaxWords
  /\ out' = out \o CabacZeroWord
  /\ escapes' = escapes \cup {Len(out) + 2}
  /\ words' = words + 1
  /\ UNCHANGED <<phase, nalu, rbsp, it, zeroCount, rd, buf, locations>>

(* The unit is complete, and arrives at the decoder. *)
EndPadding ==
  /\ phase = "pad"
  /\ phase' = "read"
  /\ UNCHANGED <<nalu, rbsp, it, zeroCount, out, escapes, words, rd, buf, locations>>

(* countStartCodeEmulations(): the escapes write() will put inside s, as   *)
(* the entry points of substreams count them.                              *)
CountStartCodeEmulations(s) ==
  LET ZeroPairs(from) == {i \in from..Len(s) - 2 : s[i] = 0 /\ s[i + 1] = 0}
      First(S) == CHOOSE i \in S : \A j \in S : i <= j
      count[from \in 1..Len(s) + 1] ==
        IF ZeroPairs(from) = {} THEN 0
        ELSE LET third == First(ZeroPairs(from)) + 2
             IN count[third] + IF s[third] <= 3 THEN 1 ELSE 0
  IN count[1]

-----------------------------------------------------------------------------
(* The reader.                                                             *)

(* assert(zeroCount < 2 || *it_read >= 0x03) *)
IllegalByte(count, b) == count >= 2 /\ b < 3

(* Mutant: a 03 behind any zero is taken for an escape. *)
IsEscape_AnyThree(count, b) == count > 0 /\ b = EmulationPreventionByte

(* Two zeros and a 03. *)
IsEscape(count, b) == count = 2 /\ b = EmulationPreventionByte

Abort ==
  /\ phase' = "aborted"
  /\ UNCHANGED <<nalu, rbsp, it, zeroCount, out, escapes, words, rd, buf, locations>>

(* One iteration of the loop of convertPayloadToRBSP(): a byte is copied,  *)
(* or an escape is dropped and the byte behind it, if any, is copied.      *)
ReadByte ==
  /\ phase = "read"
  /\ rd < Len(out)
  /\ LET b      == out[rd + 1]
         escape == IsEscape(zeroCount, b)
         last   == escape /\ rd + 1 = Len(out)
         src    == IF escape THEN rd + 2 ELSE rd + 1
     IN IF IllegalByte(zeroCount, b) \/ (escape /\ ~last /\ out[src] > 3)
          THEN Abort
          ELSE /\ locations' = IF escape THEN locations \cup {rd} ELSE locations
               /\ rd' = IF last THEN rd + 1 ELSE src
               /\ zeroCount' = IF last THEN 0
                               ELSE NextZeroCount(IF escape THEN 0 ELSE zeroCount, out[src])
               /\ buf' = IF last THEN buf ELSE Append(buf, out[src])
               /\ UNCHANGED <<phase, nalu, rbsp, it, out, escapes, words>>

(* After the loop: assert(zeroCount == 0), then the zeros of slice data go. *)
ReadEnd ==
  /\ phase = "read"
  /\ rd = Len(out)
  /\ IF zeroCount # 0
       THEN Abort
       ELSE /\ phase' = IF IsVcl(out[1]) THEN "strip" ELSE "header"
            /\ UNCHANGED <<nalu, rbsp, it, zeroCount, out, escapes, words, rd, buf, locations>>

StripZero ==
  /\ phase = "strip"
  /\ IF buf[Len(buf)] = 0
       THEN buf' = SubSeq(buf, 1, Len(buf) - 1) /\ UNCHANGED phase
       ELSE phase' = "header" /\ UNCHANGED buf
  /\ UNCHANGED <<nalu, rbsp, it, zeroCount, out, escapes, words, rd, locations>>

(* The fields readNalUnitHeader() takes from the first 16 bits. *)
ReadHeaderFields ==
  [type  |-> (buf[1] \div 2) % 64,
   layer |-> (buf[1] % 2) * 32 + buf[2] \div 8,
   tid   |-> (buf[2] % 8) - 1]

(* Types whose temporal id must be zero (BLA, IDR, CRA, VPS, SPS, EOS, EOB) *)
(* and types whose temporal id must not be (TSA, STSA).                     *)
BaseOnlyTypes == (16..21) \cup {32, 33, 36, 37}
SubLayerOnlyTypes == 2..5

LegalHeader(h) ==
  h.layer = 0 => IF h.tid # 0 THEN h.type \notin BaseOnlyTypes
                              ELSE h.type \notin SubLayerOnlyTypes

ASSUME LegalHeadersAssumption == \A h \in Headers : LegalHeader(h)

ReadNalUnitHeader ==
  /\ phase = "header"
  /\ IF buf[1] >= 128 \/ ~LegalHeader(ReadHeaderFields)
       THEN Abort
       ELSE /\ phase' = "done"
            /\ UNCHANGED <<nalu, rbsp, it, zeroCount, out, escapes, words, rd, buf, locations>>

Finished == phase \in {"done", "aborted"} /\ UNCHANGED vars

Next == \/ WriteByte \/ WriteEnd \/ PadWord \/ EndPadding
        \/ ReadByte \/ ReadEnd \/ StripZero \/ ReadNalUnitHeader
        \/ Finished

Spec == Init /\ [][Next]_vars

FairSpec == Spec /\ WF_vars(Next)

-----------------------------------------------------------------------------
(* Properties.                                                             *)

TypeOK ==
  /\ phase \in Phases
  /\ nalu \in Headers
  /\ rbsp \in Seq(Byte)
  /\ it \in 0..Len(rbsp)
  /\ zeroCount \in 0..2
  /\ out \in Seq(Byte) /\ Len(out) >= 2
  /\ escapes \subseteq Nat
  /\ words \in 0..MaxWords
  /\ rd \in 0..Len(out)
  /\ buf \in Seq(Byte)
  /\ locations \subseteq Nat

NoStartCodeIn(s) ==
  \A i \in 1..Len(s) - 2 :
    s[i] = 0 /\ s[i + 1] = 0 =>
      /\ s[i + 2] >= 3
      /\ s[i + 2] = 3 /\ i + 3 <= Len(s) => s[i + 3] <= 3

(* The comment in write() (7.4.1): 00 00 00, 00 00 01 and 00 00 02 occur   *)
(* at no position of what has been written, and 00 00 03 is followed by a  *)
(* byte of at most 3.                                                      *)
NoStartCodeInside == NoStartCodeIn(out)

(* The last byte of a finished NAL unit is not 0, so that a start code     *)
(* behind it is found where it starts.                                     *)
NoTrailingZero == phase # "write" => out[Len(out)] # 0

(* No assert of the reader fires on what the writer wrote. *)
ReaderAccepts == phase # "aborted"

(* Reading gives back what was written: the same header and the same       *)
(* payload, without the cabac_zero_words.                                  *)
RoundTrip ==
  phase = "done" => /\ ReadHeaderFields = nalu
                    /\ buf = HeaderBytes(nalu) \o rbsp

(* countStartCodeEmulations(), which sizes the substreams the encoder      *)
(* announces, counts the escapes write() puts into the payload.            *)
EmulationsCounted ==
  phase = "pad" /\ words = 0 => Cardinality(escapes) = CountStartCodeEmulations(rbsp)

(* Every unit is read to its end. *)
EveryUnitRead == <>(phase = "done")
=============================================================================
