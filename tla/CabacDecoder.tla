---------------------------- MODULE CabacDecoder ----------------------------
(***************************************************************************)
(* The arithmetic decoder of HM, TDecBinCABAC, over the bytes the encoder  *)
(* of CabacEncoder left in out.                                            *)
(***************************************************************************)
EXTENDS CabacEncoder

-----------------------------------------------------------------------------
(* The decoding engine.  Its operations take the engine and return it with *)
(* the value they read.                                                    *)

Result(d, v) == [d |-> d, v |-> v]

(* The read that follows the read r, from where r left the engine. *)
Then(r, Next(_, _)) == Next(r.d, r.v)

(* read() of n bits; readByte() is read(8).  Both assert that the bits are *)
(* there.                                                                  *)
Read(d, n) ==
  IF d.pos + n > Len(out)
    THEN Result([d EXCEPT !.overrun = TRUE], 0)
    ELSE LET value[i \in 0..n] == IF i = 0 THEN 0 ELSE 2 * value[i - 1] + out[d.pos + i]
         IN Result([d EXCEPT !.pos = @ + n], value[n])

StartDecoder(d) ==
  Then(Read(d, 16), LAMBDA f, v : [f EXCEPT !.range = 510, !.bitsNeeded = -8, !.value = v])

(* The register moves up by n bits; where that empties its lower byte, the *)
(* next byte of the substream fills it.                                    *)
Shifted(d, n) ==
  IF d.bitsNeeded + n >= 0
    THEN Then(Read(d, 8), LAMBDA f, v :
           [f EXCEPT !.value = @ * Pow2(n) + v * Pow2(d.bitsNeeded + n),
                     !.bitsNeeded = @ + n - 8])
    ELSE [d EXCEPT !.value = @ * Pow2(n), !.bitsNeeded = @ + n]

(* A bin whose less probable value has the range lps. *)
Decide(d, c, lps) ==
  LET mps == d.range - lps
  IN IF d.value < mps * 128
       THEN Result(Shifted([d EXCEPT !.range = IF mps < 256 THEN 2 * mps ELSE mps,
                                     !.ctx[c] = UpdateMps(@)],
                           IF mps < 256 THEN 1 ELSE 0),
                   Mps(d.ctx[c]))
       ELSE Result(Shifted([d EXCEPT !.value = @ - mps * 128,
                                     !.range = lps * Pow2(Renorm(lps)),
                                     !.ctx[c] = UpdateLps(@)],
                           Renorm(lps)),
                   1 - Mps(d.ctx[c]))

(* decodeBin(). *)
DecodeBin(d, c) == Decide(d, c, LpsRange(d.ctx[c], d.range))

(* A chunk of at most eight bins of decodeBinsEP(): the comparisons of its *)
(* loop divide the register by the range.                                  *)
DecodeChunk(d, n) ==
  LET e == Shifted(d, n)
  IN Result([e EXCEPT !.value = @ % (d.range * 128)], e.value \div (d.range * 128))

(* A chunk of decodeAlignedBinsEP(), where the range is 256: the bins are  *)
(* bits of the register.                                                   *)
DecodeAlignedChunk(d, n) ==
  Result(Shifted([d EXCEPT !.value = @ % Pow2(15 - n)], n),
         (d.value \div Pow2(15 - n)) % Pow2(n))

DecodeUpToEight(d, n) ==
  IF d.range = 256 THEN DecodeAlignedChunk(d, n) ELSE DecodeChunk(d, n)

(* decodeBinsEP(), and decodeBinEP() for one bin. *)
RECURSIVE DecodeBins(_, _)
DecodeBins(d, n) ==
  IF n <= 8 THEN DecodeUpToEight(d, n)
  ELSE Then(DecodeUpToEight(d, 8), LAMBDA f, v :
         Then(DecodeBins(f, n - 8), LAMBDA g, w : Result(g, v * Pow2(n - 8) + w)))

(* decodeBinTrm(). *)
DecodeBinTrm(d) ==
  LET mps == d.range - 2
  IN IF d.value >= mps * 128
       THEN Result([d EXCEPT !.range = mps], 1)
       ELSE Result(IF mps < 256 THEN Shifted([d EXCEPT !.range = 2 * mps], 1)
                   ELSE [d EXCEPT !.range = mps], 0)
=============================================================================
