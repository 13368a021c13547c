---------------------------- MODULE CabacEncoder ----------------------------
(***************************************************************************)
(* The arithmetic encoder of HM, TEncBinCABAC, over the tables of          *)
(* CabacTables.  A syntax element is a sequence of calls of the engine;    *)
(* one action per call, and per chunk of eight bypass bins of one call.    *)
(*                                                                         *)
(* The register low holds 32 - bitsLeft bits of the code and, above them,  *)
(* a carry.  A byte of the code that leaves the register waits in          *)
(* bufferedByte, with the bytes of 0xff behind it only counted, until the  *)
(* next byte shows whether a carry runs through them.                      *)
(***************************************************************************)
EXTENDS CabacTables

CONSTANTS
  Contexts,      \* the context models of the syntax elements
  InitValues,    \* the values of their initialisation tables
  QPs            \* slice QPs

ASSUME InitAssumption == InitValues \subseteq 0..255 /\ QPs \subseteq Int

(* Bins one call may hand over: 32 in the code, here as many as Pow2 has.  *)
MaxBins == 30

Call == [op : {"bin"}, c : Contexts, v : {0, 1}]
          \cup {e \in [op : {"ep", "flush"}, v : Nat, n : 0..MaxBins] : e.v < Pow2(e.n)}
          \cup [op : {"trm"}, v : {0, 1}]
          \cup [op : {"align"}]

VARIABLES
  low, range, bitsLeft, numBufferedBytes, bufferedByte,   \* the engine
  out,        \* the bits of m_pcTComBitIf
  ctx,        \* the context models
  calls,      \* calls left of the syntax element being written
  aborted     \* a write of more bits than its width, an assert of write()

registers == <<low, range, bitsLeft, numBufferedBytes, bufferedByte>>

encVars == <<registers, out, ctx, calls, aborted>>

(* start(), and resetBac(), the state a substream begins with. *)
Start ==
  /\ low' = 0
  /\ range' = 510
  /\ bitsLeft' = 23
  /\ numBufferedBytes' = 0
  /\ bufferedByte' = 255

EncoderInit ==
  /\ low = 0
  /\ range = 510
  /\ bitsLeft = 23
  /\ numBufferedBytes = 0
  /\ bufferedByte = 255
  /\ out = << >>
  /\ \E qp \in QPs : ctx \in [Contexts -> {InitContext(qp, v) : v \in InitValues}]
  /\ calls = << >>
  /\ aborted = FALSE

Bits(v, n) == [i \in 1..n |-> (v \div Pow2(n - i)) % 2]

(* The bits of count equal bytes, all zeros or all ones. *)
Run(bit, count) == [i \in 1..8 * count |-> bit]

-----------------------------------------------------------------------------
(* Bits that leave the register.                                           *)

(* Mutant: the counted bytes stay 0xff when the carry runs through them. *)
Released_CarryStops(carry) ==
  Bits(bufferedByte + carry, 8) \o Run(1, numBufferedBytes - 1)

(* The byte that waits, the carry added, and the counted ones behind it.   *)
Released(carry) ==
  Bits(bufferedByte + carry, 8) \o Run(1 - carry, numBufferedBytes - 1)

(* Mutant: the bits that left stay in the register. *)
Remaining_Unmasked(l, b) == l % Pow2(25 - b)

Remaining(l, b) == l % Pow2(24 - b)

(* writeOut(), with l in low and b in bitsLeft. *)
WriteOut(l, b) ==
  LET leadByte == l \div Pow2(24 - b)
      carry    == leadByte \div 256
  IN /\ bitsLeft' = b + 8
     /\ low' = Remaining(l, b)
     /\ \/ /\ leadByte = 255
           /\ numBufferedBytes' = numBufferedBytes + 1
           /\ UNCHANGED <<bufferedByte, out, aborted>>
        \/ /\ leadByte # 255
           /\ numBufferedBytes' = 1
           /\ IF numBufferedBytes > 0
                THEN /\ bufferedByte' = leadByte % 256
                     /\ aborted' = (aborted \/ bufferedByte + carry > 255)
                     /\ out' = out \o Released(carry)
                ELSE /\ bufferedByte' = leadByte
                     /\ UNCHANGED <<out, aborted>>

(* testAndWriteOut(). *)
TestAndWriteOut(l, b) ==
  IF b < 12
    THEN WriteOut(l, b)
    ELSE /\ low' = l
         /\ bitsLeft' = b
         /\ UNCHANGED <<numBufferedBytes, bufferedByte, out, aborted>>

-----------------------------------------------------------------------------
(* The calls.                                                              *)

Returns == calls' = Tail(calls)

(* encodeBin(): the interval of the less probable symbol is on top. *)
EncodeBin(e) ==
  LET context == ctx[e.c]
      lps     == LpsRange(context, range)
      mps     == range - lps
      n       == Renorm(lps)
  IN \/ /\ e.v # Mps(context)
        /\ range' = lps * Pow2(n)
        /\ TestAndWriteOut((low + mps) * Pow2(n), bitsLeft - n)
        /\ ctx' = [ctx EXCEPT ![e.c] = UpdateLps(context)]
        /\ Returns
     \/ /\ e.v = Mps(context)
        /\ IF mps < 256
             THEN /\ range' = 2 * mps
                  /\ TestAndWriteOut(2 * low, bitsLeft - 1)
             ELSE /\ range' = mps
                  /\ UNCHANGED <<low, bitsLeft, numBufferedBytes, bufferedByte, out, aborted>>
        /\ ctx' = [ctx EXCEPT ![e.c] = UpdateMps(context)]
        /\ Returns

(* A chunk of encodeBinsEP(), and of encodeAlignedBinsEP(), where the      *)
(* range is 256; encodeBinEP() is the call with one bin.  The bins that    *)
(* are left stay in the call.                                              *)
EncodeBinsEP(e) ==
  LET n    == IF e.n > 8 THEN 8 ELSE e.n
      bins == e.v \div Pow2(e.n - n)
  IN /\ TestAndWriteOut(low * Pow2(n) + range * bins, bitsLeft - n)
     /\ calls' = IF e.n > 8
                   THEN <<[op |-> "ep", v |-> e.v % Pow2(e.n - 8), n |-> e.n - 8]>>
                          \o Tail(calls)
                   ELSE Tail(calls)
     /\ UNCHANGED <<range, ctx>>

(* align(). *)
Align ==
  /\ range' = 256
  /\ Returns
  /\ UNCHANGED <<low, bitsLeft, numBufferedBytes, bufferedByte, out, ctx, aborted>>

(* encodeBinTrm(). *)
EncodeBinTrm(e) ==
  /\ \/ /\ e.v = 1
        /\ range' = 256
        /\ TestAndWriteOut((low + range - 2) * 128, bitsLeft - 7)
     \/ /\ e.v = 0 /\ range - 2 >= 256
        /\ range' = range - 2
        /\ UNCHANGED <<low, bitsLeft, numBufferedBytes, bufferedByte, out, aborted>>
     \/ /\ e.v = 0 /\ range - 2 < 256
        /\ range' = 2 * (range - 2)
        /\ TestAndWriteOut(2 * low, bitsLeft - 1)
  /\ Returns
  /\ UNCHANGED ctx

(* Mutant: the register is cut one bit early. *)
FlushedBits_Short(rest) == Bits(rest \div 512, 23 - bitsLeft)

FlushedBits(rest) == Bits(rest \div 256, 24 - bitsLeft)

AlignZero(bits) == bits \o [i \in 1..((8 - (Len(bits) % 8)) % 8) |-> 0]

(* finish(), the bit 1 and the alignment behind it, then the bits of PCM   *)
(* samples, none at the end of a substream, and start().                   *)
Flush(e) ==
  LET width  == Pow2(32 - bitsLeft)
      carry  == IF low >= width THEN 1 ELSE 0
      rest   == low - carry * width
      waiting == IF carry = 0 /\ numBufferedBytes = 0 THEN << >> ELSE Released(carry)
  IN /\ out' = AlignZero(out \o waiting \o FlushedBits(rest) \o <<1>>)
                \o Bits(e.v, e.n)
     /\ aborted' = \/ aborted
                   \/ carry = 1 /\ bufferedByte = 255
                   \/ rest \div 256 >= Pow2(24 - bitsLeft)
     /\ Start
     /\ Returns
     /\ UNCHANGED ctx

(* The next call of the syntax element. *)
Encode ==
  /\ calls # << >>
  /\ ~aborted
  /\ LET e == Head(calls)
     IN \/ e.op = "bin" /\ EncodeBin(e)
        \/ e.op = "ep" /\ EncodeBinsEP(e)
        \/ e.op = "align" /\ Align
        \/ e.op = "trm" /\ EncodeBinTrm(e)
        \/ e.op = "flush" /\ Flush(e)

(* A syntax element comes, as the calls that write it. *)
Begin ==
  /\ calls = << >>
  /\ ~aborted
  /\ calls' \in Seq(Call)
  /\ UNCHANGED <<registers, out, ctx, aborted>>

EncoderNext == Begin \/ Encode

EncoderSpec == EncoderInit /\ [][EncoderNext]_encVars

-----------------------------------------------------------------------------
(* Properties.                                                             *)

EncoderTypeOK ==
  /\ low \in Nat
  /\ range \in 256..510
  /\ bitsLeft \in 12..23
  /\ numBufferedBytes \in Nat
  /\ bufferedByte \in 0..255
  /\ ctx \in [Contexts -> CodingContext]
  /\ calls \in Seq(Call)
  /\ aborted \in BOOLEAN

(* The interval that is left never reaches beyond one carry, and where no  *)
(* byte can take a carry - none is waiting, or the one that waits is 0xff  *)
(* - it never reaches a carry at all.  This is why the assertions in       *)
(* comments in finish() (TEncBinCoderCABAC.cpp:85-86) are true, and why a  *)
(* carry never has to run past the byte that waits.                        *)
CarryHasRoom ==
  /\ low + range <= 2 * Pow2(32 - bitsLeft)
  /\ numBufferedBytes = 0 \/ bufferedByte = 255 => low + range <= Pow2(32 - bitsLeft)

(* No byte, and no rest of the register, is written that does not fit the  *)
(* bits it is given: the assertion of TComOutputBitstream::write().        *)
WritesFit == ~aborted
=============================================================================
