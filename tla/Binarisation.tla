---------------------------- MODULE Binarisation ----------------------------
(***************************************************************************)
(* The binarisations of HM: the calls of the encoding engine by which      *)
(* TEncSbac writes a syntax element, and the reads of the decoding engine  *)
(* by which TDecSbac finds its value.                                      *)
(***************************************************************************)
EXTENDS CabacDecoder

COEF_REMAIN_BIN_REDUCTION == 3

Reduction == COEF_REMAIN_BIN_REDUCTION

-----------------------------------------------------------------------------
(* Binarisation, TEncSbac: the calls that write an element.                *)

Bin(c, v) == [op |-> "bin", c |-> c, v |-> v]

Bypass(v, n) == [op |-> "ep", v |-> v, n |-> n]

Ones(n) == Pow2(n) - 1

(* xWriteUnaryMaxSymbol(). *)
UnaryMax(e) ==
  IF e.max = 0 THEN << >>
  ELSE IF e.v = 0 THEN <<Bin(e.c, 0)>>
  ELSE <<Bin(e.c, 1)>> \o [i \in 1..e.v - 1 |-> Bin(e.next, 1)]
         \o IF e.v < e.max THEN <<Bin(e.next, 0)>> ELSE << >>

(* The ones of an Exp-Golomb prefix: the groups of 2^k, 2^(k+1), .. values *)
(* that lie below v.                                                       *)
Groups(v, k) == CHOOSE p \in 0..16 :
                  /\ Ones(p) * Pow2(k) <= v
                  /\ v < Ones(p + 1) * Pow2(k)

(* xWriteEpExGolomb(): prefix, zero and suffix in one call. *)
ExpGolomb(v, k) ==
  LET p == Groups(v, k)
  IN <<Bypass(2 * Ones(p) * Pow2(k + p) + v - Ones(p) * Pow2(k), 2 * p + 1 + k)>>

(* xWriteCoefRemainExGolomb(). *)
CoefRemain(e) ==
  LET code    == (e.v \div Pow2(e.r))
      escape  == code - Reduction
      longest == 32 - (Reduction + e.log2Range)
  IN IF code < Reduction
       THEN <<Bypass(2 * Ones(code), code + 1), Bypass(e.v % Pow2(e.r), e.r)>>
     ELSE IF e.limited
       THEN LET p       == IF escape >= Ones(longest) THEN longest ELSE Groups(escape, 0)
                suffix  == IF p = longest THEN e.log2Range - e.r ELSE p + 1
            IN << Bypass(Ones(p + Reduction), p + Reduction),
                  Bypass((escape - Ones(p)) * Pow2(e.r) + (e.v % Pow2(e.r)), suffix + e.r) >>
     ELSE LET v == e.v - Reduction * Pow2(e.r)
              p == Groups(v, e.r)
          IN << Bypass(2 * Ones(Reduction + p), Reduction + p + 1),
                Bypass(v - Ones(p) * Pow2(e.r), p + e.r) >>

Log2(v) == CHOOSE k \in 0..29 : Pow2(k) <= v /\ v < Pow2(k + 1)

(* xWriteTruncBinCode(); g_uhPaletteTBC is the logarithm. *)
TruncBin(e) ==
  LET thresh == Log2(e.max)
      short  == 2 * Pow2(thresh) - e.max    \* symbols with a short code
  IN IF e.v < short THEN <<Bypass(e.v, thresh)>> ELSE <<Bypass(e.v + short, thresh + 1)>>

FlushWith(v, n) == << [op |-> "trm", v |-> 1], [op |-> "flush", v |-> v, n |-> n] >>

(* codeIPCMInfo() sends the samples as they are, past the engine. *)
Calls(e) ==
  CASE e.kind = "flag"       -> <<Bin(e.c, e.v)>>
    [] e.kind = "unaryMax"   -> UnaryMax(e)
    [] e.kind = "expGolomb"  -> ExpGolomb(e.v, e.k)
    [] e.kind = "coefRemain" -> CoefRemain(e)
    [] e.kind = "truncBin"   -> TruncBin(e)
    [] e.kind = "bypass"     -> <<Bypass(e.v, e.n)>>
    [] e.kind = "align"      -> << [op |-> "align"] >>
    [] e.kind = "notLast"    -> << [op |-> "trm", v |-> 0] >>
    [] e.kind = "pcm"        -> FlushWith(e.v, e.n)

-----------------------------------------------------------------------------
(* TDecSbac: an element read bin by bin.                                   *)

(* Bypass bins up to the first zero, at most max: the ones among them. *)
RECURSIVE ReadOnes(_, _)
ReadOnes(d, max) ==
  IF max = 0 THEN Result(d, 0)
  ELSE Then(DecodeBins(d, 1), LAMBDA f, v :
         IF v = 0 THEN Result(f, 0)
         ELSE Then(ReadOnes(f, max - 1), LAMBDA g, n : Result(g, 1 + n)))

(* The same over bins with contexts. *)
RECURSIVE ReadUnary(_, _)
ReadUnary(d, contexts) ==
  IF contexts = << >> THEN Result(d, 0)
  ELSE Then(DecodeBin(d, Head(contexts)), LAMBDA f, v :
         IF v = 0 THEN Result(f, 0)
         ELSE Then(ReadUnary(f, Tail(contexts)), LAMBDA g, n : Result(g, 1 + n)))

(* xReadUnaryMaxSymbol(). *)
ReadUnaryMax(d, e) ==
  IF e.max = 0 THEN Result(d, 0)
  ELSE ReadUnary(d, <<e.c>> \o [i \in 1..e.max - 1 |-> e.next])

(* xReadEpExGolomb(). *)
ReadExpGolomb(d, k) ==
  Then(ReadOnes(d, 31), LAMBDA f, p :
    Then(DecodeBins(f, k + p), LAMBDA g, v : Result(g, Ones(p) * Pow2(k) + v)))

(* xReadCoefRemainExGolomb(). *)
ReadCoefRemain(d, e) ==
  LET longest   == 32 - (Reduction + e.log2Range)
      suffix(p) == IF p < 0 THEN 0
                   ELSE IF e.limited /\ p = longest THEN e.log2Range - e.r ELSE p
  IN Then(ReadOnes(d, IF e.limited THEN longest + Reduction ELSE 32), LAMBDA f, n :
       Then(DecodeBins(f, e.r + suffix(n - Reduction)), LAMBDA g, v :
         Result(g, v + Pow2(e.r) * IF n < Reduction THEN n
                                   ELSE Ones(n - Reduction) + Reduction)))

(* xReadTruncBinCode(). *)
ReadTruncBin(d, max) ==
  LET thresh == Log2(max)
      short  == 2 * Pow2(thresh) - max
  IN Then(DecodeBins(d, thresh), LAMBDA f, v :
       IF v < short THEN Result(f, v)
       ELSE Then(DecodeBins(f, 1), LAMBDA g, w : Result(g, 2 * v + w - short)))

(* parseIPCMInfo(), for a flag that is set: no alignment bits are skipped, *)
(* the engine has read all of the last byte.                               *)
ReadPcm(d, e) ==
  Then(DecodeBinTrm(d), LAMBDA f, flag :
    IF flag = 0 THEN Result(f, -1)
    ELSE Then(Read(f, e.n), LAMBDA g, v : Result(StartDecoder(g), v)))

ReadBasic(d, e) ==
  CASE e.kind = "flag"       -> DecodeBin(d, e.c)
    [] e.kind = "unaryMax"   -> ReadUnaryMax(d, e)
    [] e.kind = "expGolomb"  -> ReadExpGolomb(d, e.k)
    [] e.kind = "coefRemain" -> ReadCoefRemain(d, e)
    [] e.kind = "truncBin"   -> ReadTruncBin(d, e.max)
    [] e.kind = "bypass"     -> DecodeBins(d, e.n)
    [] e.kind = "align"      -> Result([d EXCEPT !.range = 256], 0)
    [] e.kind = "notLast"    -> DecodeBinTrm(d)
    [] e.kind = "pcm"        -> ReadPcm(d, e)
=============================================================================
