------------------------------ MODULE Residual ------------------------------
(***************************************************************************)
(* The residual syntax of HM with R-MED: TEncSbac::codeCoeffNxN() chooses  *)
(* between a transform block and its prediction errors (Med) and codes     *)
(* the choice, the last significant position, the significance of groups   *)
(* and coefficients, and the levels; TDecSbac::parseCoeffNxN() reads them  *)
(* and undoes the prediction.  A block is an element                       *)
(*   w, ch, scan    its width, channel type and scan,                      *)
(*   cu             what is known of its CU: "bypass" (lossless), "intra", *)
(*                  "straight" (a horizontal or vertical intra mode),      *)
(*   tools          what the parameter sets enable,                        *)
(*   v              its value: coefficients, transform skip, RDPCM mode.   *)
(***************************************************************************)
EXTENDS Binarisation, Med, SequencesExt

SBH_THRESHOLD == 4

C1FLAG_NUMBER == 8

GolombRiceIncrementDivisor == 4

-----------------------------------------------------------------------------
(* Scans, ScanGenerator: groups of 4x4 in the order of the scan, and the   *)
(* same order inside a group.                                              *)

(* The diagonal scan of n x n cells; the others are rows or columns.       *)
Diagonal ==
  [n \in {1, 2, 4} |->
     CASE n = 1 -> << <<0, 0>> >>
       [] n = 2 -> << <<0, 0>>, <<1, 0>>, <<0, 1>>, <<1, 1>> >>
       [] n = 4 -> << <<0, 0>>, <<1, 0>>, <<0, 1>>, <<2, 0>>, <<1, 1>>, <<0, 2>>,
                      <<3, 0>>, <<2, 1>>, <<1, 2>>, <<0, 3>>, <<3, 1>>, <<2, 2>>,
                      <<1, 3>>, <<3, 2>>, <<2, 3>>, <<3, 3>> >>]

InScan(n, scan, s) ==
  CASE scan = "diag" -> Diagonal[n][s + 1]
    [] scan = "hor"  -> <<s \div n, s % n>>
    [] scan = "ver"  -> <<s % n, s \div n>>

(* The group of a subset, and the cell at a scan position. *)
Group(e, i) == InScan(e.w \div 4, e.scan, i)

At(e, s) ==
  LET g == Group(e, s \div 16)
      p == InScan(4, e.scan, s % 16)
  IN <<4 * g[1] + p[1], 4 * g[2] + p[2]>>

Positions(e) == 0..e.w * e.w - 1

-----------------------------------------------------------------------------
(* Contexts.                                                               *)

ProcessContext(e) == <<"process", e.ch, IF e.w # 4 THEN 1 ELSE 0>>

(* getLastSignificantContextParameters(). *)
LastContext(e, axis, k) ==
  LET size == IF e.w = 4 THEN 0 ELSE 1
  IN <<axis, e.ch, IF e.ch = 1 THEN k \div Pow2(size) ELSE 3 * size + k \div Pow2(size)>>

Right(g) == <<g[1], g[2] + 1>>

Lower(g) == <<g[1] + 1, g[2]>>

(* getSigCoeffGroupCtxInc(). *)
GroupContext(e, g, groups) ==
  <<"group", e.ch, IF Right(g) \in groups \/ Lower(g) \in groups THEN 1 ELSE 0>>

ctxIndMap4x4 == <<0, 1, 4, 5, 2, 3, 4, 5, 6, 6, 8, 8, 7, 7, 8, 8>>

(* getSigCtxInc(), with the pattern of calcPatternSigCtx(). *)
SigContext(e, p, groups) ==
  LET g       == <<p[1] \div 4, p[2] \div 4>>
      right   == Right(g) \in groups
      lower   == Lower(g) \in groups
      near(n) == IF n = 0 THEN 2 ELSE IF n = 1 THEN 1 ELSE 0
      count   == CASE right /\ lower   -> 2
                   [] right /\ ~lower  -> near(p[1] % 4)
                   [] ~right /\ lower  -> near(p[2] % 4)
                   [] ~right /\ ~lower -> LET n == (p[1] % 4) + (p[2] % 4)
                                          IN IF n = 0 THEN 2 ELSE IF n < 3 THEN 1 ELSE 0
      first   == IF e.ch = 0 /\ e.scan # "diag" THEN 15 ELSE 9
      later   == IF e.ch = 0 /\ g # <<0, 0>> THEN 3 ELSE 0
  IN <<"sig", e.ch, IF p = <<0, 0>> THEN 0
                    ELSE IF e.w = 4 THEN ctxIndMap4x4[4 * p[1] + p[2] + 1]
                    ELSE first + later + count>>

(* getContextSetIndex(). *)
ContextSet(e, i, found) ==
  (IF e.ch = 1 THEN 4 ELSE IF i > 0 THEN 2 ELSE 0) + (IF found THEN 1 ELSE 0)

OneContext(set, c1) == <<"one", set, c1>>

AbsContext(set) == <<"abs", set, 0>>

TransformSkipContext(e) == <<"tskip", e.ch, 0>>

RdpcmContext(e) == <<"rdpcm", e.ch, 0>>

RdpcmDirContext(e) == <<"rdpcmDir", e.ch, 0>>

-----------------------------------------------------------------------------
(* What both sides derive alike.                                           *)

GroupIdx == <<0, 1, 2, 3, 4, 4, 5, 5>>

MinInGroup == <<0, 1, 2, 3, 4, 6>>

(* getGolombRiceStatisticsIndex(). *)
StatisticsIndex(e, skip) ==
  2 * e.ch + IF skip = 1 \/ "bypass" \in e.cu THEN 1 ELSE 0

BaseLevel(levels, k) ==
  IF k > C1FLAG_NUMBER THEN 1
  ELSE IF \E j \in 1..k - 1 : levels[j] >= 2 THEN 2 ELSE 3

NextRice(e, r, level) ==
  IF level <= 3 * Pow2(r) THEN r
  ELSE IF "rice" \in e.tools THEN r + 1 ELSE Lesser(r + 1, 4)

(* The statistic, by the first escape of a group. *)
Adapted(e, statistic, value) ==
  LET r == statistic \div GolombRiceIncrementDivisor
  IN IF "rice" \notin e.tools THEN statistic
     ELSE IF value >= 3 * Pow2(r) THEN statistic + 1
     ELSE IF 2 * value < Pow2(r) /\ statistic > 0 THEN statistic - 1
     ELSE statistic

RemainElement(e, value, r) ==
  [v |-> value, r |-> r, limited |-> "limited" \in e.tools, log2Range |-> 15]

HasRdpcmMode(e, skip) ==
  /\ "intra" \notin e.cu /\ "rdpcm" \in e.tools
  /\ "bypass" \in e.cu \/ skip = 1

HasSkipFlag(e) == "skip" \in e.tools /\ "bypass" \notin e.cu /\ e.w = 4

-----------------------------------------------------------------------------
(* The encoder.                                                            *)

(* beValid of codeCoeffNxN(). *)
EncoderMayHide(e) ==
  LET lossy == /\ e.v.skip = 1 /\ {"intra", "straight"} \subseteq e.cu
               /\ "rdpcm" \in e.tools
  IN /\ "bypass" \notin e.cu /\ ~lossy
     /\ "hiding" \in e.tools
     /\ ~("skip" \in e.tools /\ HasRdpcmMode(e, e.v.skip) /\ e.v.rdpcm # "off")

(* What the quantisation prepares for signs to be hidden: in a group whose *)
(* coefficients lie far apart, the sign of the first is the parity of all. *)
SignsPrepared(e) ==
  \A i \in 0..((e.w * e.w) \div 16) - 1 :
    LET sig == {s \in 16 * i..16 * i + 15 : e.v.coef[At(e, s)] # 0}
    IN sig # {} /\ Max(sig) - Min(sig) >= SBH_THRESHOLD =>
         (e.v.coef[At(e, Min(sig))] < 0)
           <=> (MapThenSumSet(LAMBDA s : Magnitude(e.v.coef[At(e, s)]), sig) % 2 = 1)

(* codeExplicitRdpcmMode(). *)
RdpcmCalls(e) ==
  IF e.v.rdpcm = "off" THEN <<Bin(RdpcmContext(e), 0)>>
  ELSE <<Bin(RdpcmContext(e), 1),
         Bin(RdpcmDirContext(e), IF e.v.rdpcm = "hor" THEN 0 ELSE 1)>>

(* codeLastSignificantXY(). *)
LastCalls(e, p) ==
  LET x == IF e.scan = "ver" THEN p[1] ELSE p[2]
      y == IF e.scan = "ver" THEN p[2] ELSE p[1]
      prefix(axis, v) ==
        LET n == GroupIdx[v + 1]
        IN [k \in 1..n |-> Bin(LastContext(e, axis, k - 1), 1)]
             \o IF n < GroupIdx[e.w] THEN <<Bin(LastContext(e, axis, n), 0)>> ELSE << >>
      suffix(v) ==
        LET n == GroupIdx[v + 1]
        IN IF n > 3 THEN <<Bypass(v - MinInGroup[n + 1], (n - 2) \div 2)>> ELSE << >>
  IN prefix("lastX", x) \o prefix("lastY", y) \o suffix(x) \o suffix(y)

(* The significance flags of a group, from the scan position below the     *)
(* last one down: the first position's is left out if it must be 1.        *)
SigCalls(e, c, i, from, groups) ==
  LET coded(s) == s > 16 * i \/ i = 0 \/ \E t \in s + 1..16 * i + 15 : c[At(e, t)] # 0
  IN FlattenSeq([k \in 1..from - 16 * i + 1 |->
       LET s == from + 1 - k
       IN IF coded(s) THEN <<Bin(SigContext(e, At(e, s), groups), IF c[At(e, s)] # 0 THEN 1 ELSE 0)>>
          ELSE << >>])

(* c1 before the k-th flag of a group. *)
C1(levels, k) ==
  IF \E j \in 1..k - 1 : levels[j] > 1 THEN 0 ELSE Lesser(k, 3)

Large(levels) ==
  SelectSeq([k \in 1..Lesser(Len(levels), C1FLAG_NUMBER) |-> k], LAMBDA k : levels[k] > 1)

HasEscapes(levels) ==
  LET large == Large(levels)
  IN \/ Len(levels) > C1FLAG_NUMBER
     \/ Len(large) > 1
     \/ Len(large) = 1 /\ levels[large[1]] > 2

GreaterCalls(levels, set) ==
  [k \in 1..Lesser(Len(levels), C1FLAG_NUMBER) |->
     Bin(OneContext(set, C1(levels, k)), IF levels[k] > 1 THEN 1 ELSE 0)]
  \o IF Large(levels) = << >> THEN << >>
     ELSE <<Bin(AbsContext(set), IF levels[Large(levels)[1]] > 2 THEN 1 ELSE 0)>>

(* The signs in scan order, the last one hidden if hide. *)
SignCalls(signs, hide) ==
  LET n == IF hide THEN Len(signs) - 1 ELSE Len(signs)
      value[k \in 0..n] == IF k = 0 THEN 0 ELSE 2 * value[k - 1] + signs[k]
  IN <<Bypass(value[n], n)>>

(* The remaining levels of a group, and the statistic after it. *)
Escapes(e, levels, statistic) ==
  LET n     == Len(levels)
      coded == {k \in 1..n : levels[k] >= BaseLevel(levels, k)}
      value(k) == levels[k] - BaseLevel(levels, k)
      rice[k \in 1..n] ==
        IF k = 1 THEN statistic \div GolombRiceIncrementDivisor
        ELSE IF k - 1 \in coded THEN NextRice(e, rice[k - 1], levels[k - 1]) ELSE rice[k - 1]
  IN IF ~HasEscapes(levels) THEN [calls |-> << >>, statistic |-> statistic]
     ELSE [calls |-> FlattenSeq([k \in 1..n |->
                       IF k \in coded THEN CoefRemain(RemainElement(e, value(k), rice[k]))
                       ELSE << >>]),
           statistic |-> IF coded = {} THEN statistic
                         ELSE Adapted(e, statistic, value(Min(coded)))]

(* The levels of a group. *)
LevelCalls(e, c, i, found, statistic) ==
  LET scan   == [k \in 1..16 |-> 16 * i + 16 - k]
      sig    == SelectSeq(scan, LAMBDA s : c[At(e, s)] # 0)
      levels == [k \in DOMAIN sig |-> Magnitude(c[At(e, sig[k])])]
      signs  == [k \in DOMAIN sig |-> IF c[At(e, sig[k])] < 0 THEN 1 ELSE 0]
      hide   == EncoderMayHide(e) /\ sig[1] - sig[Len(sig)] >= SBH_THRESHOLD
      rest   == Escapes(e, levels, statistic)
  IN IF sig = << >> THEN [calls |-> << >>, found |-> found, statistic |-> statistic]
     ELSE [calls |-> GreaterCalls(levels, ContextSet(e, i, found))
                       \o (IF HasEscapes(levels) /\ "align" \in e.tools
                             THEN << [op |-> "align"] >> ELSE << >>)
                       \o SignCalls(signs, hide) \o rest.calls,
           found |-> Large(levels) # << >>,
           statistic |-> rest.statistic]

(* codeCoeffNxN() from the last position on, subset by subset downwards.   *)
GroupCalls(e, c, statistic) ==
  LET last   == Max({s \in Positions(e) : c[At(e, s)] # 0})
      lastSet == last \div 16
      groups == {<<p[1] \div 4, p[2] \div 4>> : p \in {q \in Cells(e.w) : c[q] # 0}}
      after[i \in 0..lastSet + 1] ==
        IF i = lastSet + 1
          THEN [calls |-> LastCalls(e, At(e, last)), found |-> FALSE, statistic |-> statistic]
        ELSE LET before == after[i + 1]
                 g      == Group(e, i)
                 flag   == IF i \in {0, lastSet} THEN << >>
                           ELSE <<Bin(GroupContext(e, g, groups), IF g \in groups THEN 1 ELSE 0)>>
                 from   == IF i = lastSet THEN last - 1 ELSE 16 * i + 15
                 sig    == IF g \in groups \/ i = 0 THEN SigCalls(e, c, i, from, groups) ELSE << >>
                 levels == LevelCalls(e, c, i, before.found, before.statistic)
             IN [levels EXCEPT !.calls = before.calls \o flag \o sig \o @]
  IN after[0]

(* codeCoeffNxN(): the calls, and the Rice statistics they leave. *)
BlockCalls(e, statistics) ==
  LET b     == e.v.coef
      flag  == CodesPredicted(b, e.w)
      index == StatisticsIndex(e, e.v.skip)
      rest  == GroupCalls(e, IF flag THEN Predicted(b, e.w) ELSE b, statistics[index])
  IN [calls |-> <<Bin(ProcessContext(e), IF flag THEN 1 ELSE 0)>>
                  \o (IF HasSkipFlag(e) THEN <<Bin(TransformSkipContext(e), e.v.skip)>> ELSE << >>)
                  \o (IF HasRdpcmMode(e, e.v.skip) THEN RdpcmCalls(e) ELSE << >>)
                  \o rest.calls,
      statistics |-> [statistics EXCEPT ![index] = rest.statistic]]

-----------------------------------------------------------------------------
(* The decoder.                                                            *)

(* parseExplicitRdpcmMode(). *)
ReadRdpcm(d, e) ==
  Then(DecodeBin(d, RdpcmContext(e)), LAMBDA f, explicit :
    IF explicit = 0 THEN Result(f, "off")
    ELSE Then(DecodeBin(f, RdpcmDirContext(e)), LAMBDA g, dir :
           Result(g, IF dir = 0 THEN "hor" ELSE "ver")))

(* beValid of parseCoeffNxN(). *)
DecoderMayHide(e, skip, rdpcm) ==
  /\ "bypass" \notin e.cu
  /\ "hiding" \in e.tools
  /\ ~("skip" \in e.tools /\ HasRdpcmMode(e, skip) /\ rdpcm # "off")
  /\ ~("intra" \in e.cu /\ "rdpcm" \in e.tools /\ skip = 1 /\ "straight" \in e.cu)

(* parseLastSignificantXY(). *)
ReadLastPrefix(d, e, axis) ==
  ReadUnary(d, [k \in 1..GroupIdx[e.w] |-> LastContext(e, axis, k - 1)])

ReadLastSuffix(d, n) ==
  IF n <= 3 THEN Result(d, n)
  ELSE Then(DecodeBins(d, (n - 2) \div 2), LAMBDA f, v : Result(f, MinInGroup[n + 1] + v))

ReadLast(d, e) ==
  Then(ReadLastPrefix(d, e, "lastX"), LAMBDA f, m :
  Then(ReadLastPrefix(f, e, "lastY"), LAMBDA g, n :
  Then(ReadLastSuffix(g, m), LAMBDA h, x :
  Then(ReadLastSuffix(h, n), LAMBDA k, y :
    Result(k, IF e.scan = "ver" THEN <<x, y>> ELSE <<y, x>>)))))

(* The mark of a group; the groups marked so far are found. *)
ReadGroupFlag(d, e, i, lastSet, groups) ==
  Then(IF i \in {0, lastSet} THEN Result(d, 1)
       ELSE DecodeBin(d, GroupContext(e, Group(e, i), groups)), LAMBDA f, flag :
    Result(f, IF flag = 1 THEN groups \cup {Group(e, i)} ELSE groups))

(* The significance flags of a group from scan position s down; sig is     *)
(* the positions found, highest first.                                     *)
RECURSIVE ReadSig(_, _, _, _, _, _)
ReadSig(d, e, i, s, groups, sig) ==
  IF s < 16 * i THEN Result(d, sig)
  ELSE Then(IF s > 16 * i \/ i = 0 \/ sig # << >>
              THEN DecodeBin(d, SigContext(e, At(e, s), groups))
              ELSE Result(d, 1), LAMBDA f, v :
         ReadSig(f, e, i, s - 1, groups, IF v = 1 THEN Append(sig, s) ELSE sig))

ReadGroupSig(d, e, i, last, groups) ==
  IF Group(e, i) \notin groups THEN Result(d, << >>)
  ELSE IF i = last \div 16 THEN ReadSig(d, e, i, last - 1, groups, <<last>>)
  ELSE ReadSig(d, e, i, 16 * i + 15, groups, << >>)

(* The flags "greater than 1" of n levels. *)
RECURSIVE ReadGreater1(_, _, _, _)
ReadGreater1(d, set, n, levels) ==
  IF Len(levels) = n THEN Result(d, levels)
  ELSE Then(DecodeBin(d, OneContext(set, C1(levels, Len(levels) + 1))), LAMBDA f, v :
         ReadGreater1(f, set, n, Append(levels, 1 + v)))

(* What the flags tell of n levels: the first that is greater than 1 has a *)
(* flag of its own, those without flags are at least 1.                    *)
ReadFlags(d, set, n) ==
  Then(ReadGreater1(d, set, Lesser(n, C1FLAG_NUMBER), << >>), LAMBDA f, flags :
    LET levels == [k \in 1..n |-> IF k > C1FLAG_NUMBER THEN 1 ELSE flags[k]]
    IN IF Large(flags) = << >> THEN Result(f, levels)
       ELSE Then(DecodeBin(f, AbsContext(set)), LAMBDA g, v :
              Result(g, [levels EXCEPT ![Large(flags)[1]] = @ + v])))

(* The remaining levels from the k-th on; the statistic is adapted once.   *)
RECURSIVE ReadEscapes(_, _, _, _, _, _, _)
ReadEscapes(d, e, levels, k, r, statistic, adapted) ==
  IF k > Len(levels) THEN Result(d, [levels |-> levels, statistic |-> statistic])
  ELSE IF levels[k] # BaseLevel(levels, k)
    THEN ReadEscapes(d, e, levels, k + 1, r, statistic, adapted)
  ELSE Then(ReadCoefRemain(d, RemainElement(e, 0, r)), LAMBDA f, v :
         ReadEscapes(f, e, [levels EXCEPT ![k] = @ + v], k + 1, NextRice(e, r, levels[k] + v),
                     IF adapted THEN statistic ELSE Adapted(e, statistic, v), TRUE))

(* The levels with their signs, a bit each; a sign that is hidden is the   *)
(* parity of the levels' sum.                                              *)
Signed(levels, signs, hide) ==
  LET n       == Len(levels)
      parity  == FoldSeq(LAMBDA x, y : x + y, 0, levels) % 2
      sign(k) == IF ~hide THEN (signs \div Pow2(n - k)) % 2
                 ELSE IF k = n THEN parity ELSE (signs \div Pow2(n - 1 - k)) % 2
  IN [k \in 1..n |-> IF sign(k) = 1 THEN -levels[k] ELSE levels[k]]

(* The n levels of a group. *)
ReadLevels(d, e, n, set, statistic, hide) ==
  Then(ReadFlags(d, set, n), LAMBDA f, levels :
  Then(DecodeBins([f EXCEPT !.range = IF HasEscapes(levels) /\ "align" \in e.tools THEN 256 ELSE @],
                  IF hide THEN n - 1 ELSE n), LAMBDA g, signs :
  Then(IF ~HasEscapes(levels) THEN Result(g, [levels |-> levels, statistic |-> statistic])
       ELSE ReadEscapes(g, e, levels, 1, statistic \div GolombRiceIncrementDivisor,
                        statistic, FALSE), LAMBDA h, rest :
    Result(h, [values |-> Signed(rest.levels, signs, hide),
               found |-> Large(levels) # << >>,
               statistic |-> rest.statistic]))))

Placed(coef, e, sig, values) ==
  [p \in DOMAIN coef |->
     IF \E k \in DOMAIN sig : At(e, sig[k]) = p
       THEN values[CHOOSE k \in DOMAIN sig : At(e, sig[k]) = p]
       ELSE coef[p]]

(* A subset of parseCoeffNxN(): st holds what the ones above it left.      *)
ReadGroup(d, st, e, i, last, mayHide) ==
  Then(ReadGroupFlag(d, e, i, last \div 16, st.groups), LAMBDA f, groups :
  Then(ReadGroupSig(f, e, i, last, groups), LAMBDA g, sig :
    IF sig = << >> THEN Result(g, [st EXCEPT !.groups = groups])
    ELSE Then(ReadLevels(g, e, Len(sig), ContextSet(e, i, st.found), st.statistic,
                         mayHide /\ sig[1] - sig[Len(sig)] >= SBH_THRESHOLD), LAMBDA h, levels :
           Result(h, [groups    |-> groups,
                      found     |-> levels.found,
                      statistic |-> levels.statistic,
                      coef      |-> Placed(st.coef, e, sig, levels.values)]))))

(* The subsets from the i-th down. *)
RECURSIVE ReadGroups(_, _, _, _, _, _)
ReadGroups(d, st, e, i, last, mayHide) ==
  IF i < 0 THEN Result(d, st)
  ELSE Then(ReadGroup(d, st, e, i, last, mayHide), LAMBDA f, left :
         ReadGroups(f, left, e, i - 1, last, mayHide))

(* parseCoeffNxN() from the last position on. *)
ReadCoefficients(d, e, skip, rdpcm) ==
  LET index    == StatisticsIndex(e, skip)
      start    == [groups |-> {}, found |-> FALSE, statistic |-> d.statistics[index],
                   coef |-> [p \in Cells(e.w) |-> 0]]
      scan(at) == CHOOSE s \in Positions(e) : At(e, s) = at
  IN Then(ReadLast(d, e), LAMBDA f, at :
     Then(ReadGroups(f, start, e, scan(at) \div 16, scan(at), DecoderMayHide(e, skip, rdpcm)),
          LAMBDA g, left :
       Result([g EXCEPT !.statistics[index] = left.statistic], left.coef)))

(* parseCoeffNxN(). *)
ReadBlock(d, e) ==
  Then(DecodeBin(d, ProcessContext(e)), LAMBDA f, flag :
  Then(IF HasSkipFlag(e) THEN DecodeBin(f, TransformSkipContext(e)) ELSE Result(f, 0), LAMBDA g, skip :
  Then(IF HasRdpcmMode(e, skip) THEN ReadRdpcm(g, e) ELSE Result(g, "off"), LAMBDA h, rdpcm :
  Then(ReadCoefficients(h, e, skip, rdpcm), LAMBDA k, coef :
    Result(k, [coef  |-> IF flag = 1 THEN Restored(coef, e.w) ELSE coef,
               skip  |-> skip,
               rdpcm |-> rdpcm])))))
=============================================================================
