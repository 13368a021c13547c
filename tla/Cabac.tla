------------------------------- MODULE Cabac -------------------------------
(***************************************************************************)
(* A substream of slice data through HM's arithmetic coder: TEncSbac turns *)
(* syntax elements into bins, TEncBinCABAC (CabacEncoder) codes them and   *)
(* ends the substream, and TDecBinCABAC and TDecSbac read the elements     *)
(* back from the bytes alone, one action per element.                      *)
(***************************************************************************)
EXTENDS SampleOffsets

CONSTANT
  Alphabets      \* a sequence: sets of elements a substream is made of,
                 \* each with a bound on its length

ASSUME AlphabetsAssumption == \A i \in DOMAIN Alphabets : Alphabets[i].max \in Nat

VARIABLES
  phase,    \* "encode", then "decode", then "done"
  sent,     \* the elements written
  got,      \* the elements read
  statistics,   \* the Rice statistics of the encoder
  dec       \* the decoding engine with its read position, context models
            \* and Rice statistics

vars == <<encVars, phase, sent, got, statistics, dec>>

(* What an element is written as, by the engine and by the statistics of   *)
(* levels that it leaves.                                                  *)
Written(e) ==
  CASE e.kind = "block" -> BlockCalls(e, statistics)
    [] e.kind = "tree"  -> [calls |-> TreeCalls(e), statistics |-> statistics]
    [] e.kind = "unit"  -> [calls |-> Transformed(e).calls, statistics |-> statistics]
    [] e.kind = "cu"    -> [calls |-> PredictionCalls(e), statistics |-> statistics]
    [] e.kind = "sao"   -> [calls |-> SaoCalls(e), statistics |-> statistics]
    [] e.kind = "alpha" -> [calls |-> AlphaCalls(e), statistics |-> statistics]
    [] OTHER            -> [calls |-> Calls(e), statistics |-> statistics]

(* The decoder knows from the syntax what it reads, but not its value. *)
ReadElement(d, e) ==
  CASE e.kind = "block" -> ReadBlock(d, e)
    [] e.kind = "tree"  -> ReadTree(d, e)
    [] e.kind = "unit"  -> ReadTransformTree(d, e)
    [] e.kind = "cu"    -> ReadPrediction(d, e)
    [] e.kind = "sao"   -> ReadSao(d, e)
    [] e.kind = "alpha" -> ReadAlpha(d, e)
    [] OTHER            -> ReadBasic(d, e)

-----------------------------------------------------------------------------
(* The substream.                                                          *)

Init ==
  /\ EncoderInit
  /\ phase = "encode"
  /\ sent = << >>
  /\ got = << >>
  /\ statistics = [i \in 0..3 |-> 0]
  /\ dec = [range |-> 0, value |-> 0, bitsNeeded |-> 0, pos |-> 0,
            ctx |-> ctx, statistics |-> statistics, overrun |-> FALSE]

Write ==
  /\ phase = "encode" /\ calls = << >>
  /\ \E i \in DOMAIN Alphabets :
       /\ Len(sent) < Alphabets[i].max
       /\ Range(sent) \subseteq Alphabets[i].elements
       /\ \E e \in Alphabets[i].elements :
            /\ calls' = Written(e).calls
            /\ statistics' = Written(e).statistics
            /\ sent' = Append(sent, e)
  /\ Begin
  /\ UNCHANGED <<phase, got, dec>>

EncodeCall ==
  /\ Encode
  /\ UNCHANGED <<phase, sent, got, statistics, dec>>

(* encodeTerminatingBit(1), encodeSliceFinish() and writeByteAlignment(). *)
Terminate ==
  /\ phase = "encode"
  /\ calls' = FlushWith(0, 0)
  /\ Begin
  /\ phase' = "terminate"
  /\ UNCHANGED <<sent, got, statistics, dec>>

StartReading ==
  /\ phase = "terminate" /\ calls = << >> /\ ~aborted
  /\ phase' = "decode"
  /\ dec' = StartDecoder(dec)
  /\ UNCHANGED <<encVars, statistics, sent, got>>

ReadNext ==
  /\ phase = "decode" /\ Len(got) < Len(sent)
  /\ LET e == sent[Len(got) + 1]
         r == ReadElement(dec, e)
     IN /\ dec' = r.d
        /\ got' = Append(got, IF "v" \in DOMAIN e THEN [e EXCEPT !.v = r.v] ELSE e)
  /\ UNCHANGED <<encVars, statistics, phase, sent>>

(* parseTerminatingBit(). *)
ReadEnd ==
  /\ phase = "decode" /\ Len(got) = Len(sent)
  /\ LET r == DecodeBinTrm(dec)
     IN /\ dec' = r.d
        /\ phase' = IF r.v = 1 THEN "done" ELSE "lost"
  /\ UNCHANGED <<encVars, statistics, sent, got>>

Next ==
  \/ Write
  \/ EncodeCall
  \/ Terminate
  \/ StartReading
  \/ ReadNext
  \/ ReadEnd

Spec == Init /\ [][Next]_vars

-----------------------------------------------------------------------------
(* Properties.                                                             *)

TypeOK ==
  /\ EncoderTypeOK
  /\ out \in Seq({0, 1})
  /\ phase \in {"encode", "terminate", "decode", "done", "lost"}
  /\ phase \in {"decode", "done"} =>
       /\ dec.range \in 254..510
       /\ dec.bitsNeeded \in -8..-1
       /\ dec.ctx \in [Contexts -> CodingContext]
       /\ dec.statistics \in [0..3 -> Nat]

(* What TDecSbac reads is what TEncSbac wrote, for every binarisation and  *)
(* across PCM samples, and the contexts of the two agree at the end.       *)
RoundTrip ==
  /\ \A i \in DOMAIN got : got[i] = sent[i]
  /\ ~dec.overrun
  /\ phase # "lost"
  /\ phase = "done" => dec.ctx = ctx /\ dec.statistics = statistics

(* The sign that is inferred from the parity of a group's levels is the    *)
(* sign the coefficient had, as the manual has it of sign hiding.          *)
SignsRecovered ==
  \A i \in DOMAIN got :
    got[i].kind = "block" =>
      \A p \in DOMAIN sent[i].v.coef : (got[i].v.coef[p] < 0) <=> (sent[i].v.coef[p] < 0)

(* The terminating bin ends in the last byte: the engine has read every    *)
(* byte of the substream, and below the bits it used there is a one and    *)
(* zeros - the assertions of finish() and parseRemainingBytes().           *)
StopBitFound ==
  phase = "done" =>
    LET used == 8 + dec.bitsNeeded
        last == SubSeq(out, Len(out) - 7, Len(out))
    IN /\ dec.pos = Len(out)
       /\ last[used + 1] = 1
       /\ \A i \in used + 2..8 : last[i] = 0
=============================================================================
