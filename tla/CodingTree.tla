----------------------------- MODULE CodingTree -----------------------------
(***************************************************************************)
(* The coding trees of a slice of HM: the quadtree that splits a coding    *)
(* tree unit (CTU) into coding units (CUs), and the quantisation parameter *)
(* (QP), which is sent as a difference at the first CU of a quantisation   *)
(* group that has residual and predicted from the CUs around the group.    *)
(* TEncCu and TDecCu derive the contexts and the prediction each on its    *)
(* own, from the CUs they have coded.                                      *)
(*                                                                         *)
(* A CTU is 16 parts of the smallest CU's size, in z-order; CTUs are in    *)
(* raster scan, in one tile and without wavefronts.  CUs are inter CUs     *)
(* that are not merged; their prediction and transform trees are left out. *)
(* The trees of a slice are an element                                     *)
(*   width, height  the picture's size in parts,                           *)
(*   start          the slice's first CTU; it ends with the picture,       *)
(*   sliceQp        the slice's QP,                                        *)
(*   dqpDepth       MaxCuDQPDepth, the depth of quantisation groups,       *)
(*   qpBdOffset     the offset of luma QPs by the bit depth,               *)
(*   v              the CUs in the order of coding: the CTU, the first     *)
(*                  part, the depth, and what is coded of them.            *)
(***************************************************************************)
EXTENDS Residual

MaxDepth == 2                   \* Log2DiffMaxMinCodingBlockSize

NumPartitions(depth) == 16 \div Pow2(2 * depth)

CU_DQP_TU_CMAX == 5

-----------------------------------------------------------------------------
(* Geometry.                                                               *)

(* g_auiZscanToRaster and its inverse. *)
PartX(z) == (z % 2) + 2 * ((z \div 4) % 2)

PartY(z) == ((z \div 2) % 2) + 2 * (z \div 8)

PartAt(x, y) == (x % 2) + 2 * (y % 2) + 4 * (x \div 2) + 8 * (y \div 2)

Columns(e) == (e.width + 3) \div 4

LastCtu(e) == Columns(e) * ((e.height + 3) \div 4) - 1

LeftPel(e, ctu, z) == 4 * (ctu % Columns(e)) + PartX(z)

TopPel(e, ctu, z) == 4 * (ctu \div Columns(e)) + PartY(z)

CornerInside(e, ctu, z) == LeftPel(e, ctu, z) < e.width /\ TopPel(e, ctu, z) < e.height

(* ~bBoundary of xEncodeCU() and xDecodeCU(). *)
Fits(e, ctu, z, depth) ==
  LET size == 4 \div Pow2(depth)
  IN LeftPel(e, ctu, z) + size <= e.width /\ TopPel(e, ctu, z) + size <= e.height

IsLastSubCUOfCtu(e, cu) ==
  LET size   == 4 \div Pow2(cu.depth)
      right  == LeftPel(e, cu.ctu, cu.z) + size
      bottom == TopPel(e, cu.ctu, cu.z) + size
  IN (right % 4 = 0 \/ right = e.width) /\ (bottom % 4 = 0 \/ bottom = e.height)

-----------------------------------------------------------------------------
(* What is known of the CUs coded so far.                                  *)

Covers(cu, ctu, z) == cu.ctu = ctu /\ z \in cu.z..cu.z + NumPartitions(cu.depth) - 1

IsCoded(cus, ctu, z) == \E i \in DOMAIN cus : Covers(cus[i], ctu, z)

Covering(cus, ctu, z) == cus[CHOOSE i \in DOMAIN cus : Covers(cus[i], ctu, z)]

(* getPULeft() and getPUAbove(): the CU next to a part, if it is in the    *)
(* slice; the CUs of a slice are all that cus holds.                       *)
PULeft(e, cus, ctu, z) ==
  IF PartX(z) > 0 THEN {Covering(cus, ctu, PartAt(PartX(z) - 1, PartY(z)))}
  ELSE IF ctu % Columns(e) = 0 \/ ctu - 1 < e.start THEN {}
  ELSE {Covering(cus, ctu - 1, PartAt(3, PartY(z)))}

PUAbove(e, cus, ctu, z) ==
  IF PartY(z) > 0 THEN {Covering(cus, ctu, PartAt(PartX(z), PartY(z) - 1))}
  ELSE IF ctu - Columns(e) < e.start THEN {}
  ELSE {Covering(cus, ctu - Columns(e), PartAt(PartX(z), 3))}

Count(left, above, Holds(_)) ==
  (IF \E cu \in left : Holds(cu) THEN 1 ELSE 0) + (IF \E cu \in above : Holds(cu) THEN 1 ELSE 0)

(* getCtxSplitFlag() and getCtxSkipFlag(). *)
SplitContext(e, cus, ctu, z, depth) ==
  <<"split", 0, Count(PULeft(e, cus, ctu, z), PUAbove(e, cus, ctu, z), LAMBDA cu : cu.depth > depth)>>

SkipContext(e, cus, ctu, z) ==
  <<"skip", 0, Count(PULeft(e, cus, ctu, z), PUAbove(e, cus, ctu, z), LAMBDA cu : cu.skip = 1)>>

RootCbfContext == <<"rootCbf", 0, 0>>

DeltaQpContexts == [i \in 1..CU_DQP_TU_CMAX |-> <<"dqp", 0, IF i = 1 THEN 0 ELSE 1>>]

(* setOutsideCUPart(): the depth of a part outside the picture is that of  *)
(* the quarter of a split node that was left out for it.                   *)
OutsideDepth(e, ctu, z) ==
  Min({d \in 1..MaxDepth : ~CornerInside(e, ctu, z - (z % NumPartitions(d)))})

(* getLastValidPartIdx(): the last part before z that is in the picture,   *)
(* over quarters that are not; -1 if the CTU has none.                     *)
RECURSIVE LastValidPartIdx(_, _, _, _)
LastValidPartIdx(e, cus, ctu, z) ==
  IF z = 0 \/ IsCoded(cus, ctu, z - 1) THEN z - 1
  ELSE LastValidPartIdx(e, cus, ctu, z - NumPartitions(OutsideDepth(e, ctu, z - 1)))

(* The first part of the quantisation group. *)
GroupStart(e, z) == z - (z % NumPartitions(e.dqpDepth))

(* getLastCodedQP(): before the group of part z. *)
RECURSIVE LastCodedQP(_, _, _, _)
LastCodedQP(e, cus, ctu, z) ==
  LET last == LastValidPartIdx(e, cus, ctu, z)
  IN IF last >= 0 THEN Covering(cus, ctu, last).qp
     ELSE IF ctu = e.start THEN e.sliceQp
     ELSE LastCodedQP(e, cus, ctu - 1, NumPartitions(0))

(* getRefQP(), of the group that starts at part z: the mean of the QPs     *)
(* left of it and above it in the CTU, the last one coded for one missing. *)
MeanQP(left, above) == (left + above + 1) \div 2

RefQPOfGroup(e, cus, ctu, z) ==
  MeanQP(IF PartX(z) = 0 THEN LastCodedQP(e, cus, ctu, z)
         ELSE Covering(cus, ctu, PartAt(PartX(z) - 1, PartY(z))).qp,
         IF PartY(z) = 0 THEN LastCodedQP(e, cus, ctu, z)
         ELSE Covering(cus, ctu, PartAt(PartX(z), PartY(z) - 1)).qp)

RefQP(e, cus, ctu, z) == RefQPOfGroup(e, cus, ctu, GroupStart(e, z))

-----------------------------------------------------------------------------
(* The encoder.                                                            *)

(* What xCompressCU() leaves of QPs it has tried, one in each group: a CU  *)
(* as large as a group or larger without residual gets the prediction      *)
(* (xCheckDQP), and so do, in a group of several, those before the first   *)
(* with residual (setQPSubCUs).                                            *)
SettledQP(e, done, cu) ==
  LET first     == GroupStart(e, cu.z)
      hasBefore == /\ cu.depth > e.dqpDepth
                   /\ \E i \in DOMAIN done :
                        done[i].ctu = cu.ctu /\ done[i].z >= first /\ done[i].residual = 1
  IN IF cu.residual = 1 \/ hasBefore THEN cu.qp ELSE RefQP(e, done, cu.ctu, cu.z)

Settled(e, tried) ==
  FoldLeft(LAMBDA done, cu : Append(done, [cu EXCEPT !.qp = SettledQP(e, done, cu)]), << >>, tried)

(* codeDeltaQP(): modulo the number of QPs, and what does not fit in the   *)
(* unary prefix as Exp-Golomb. *)
DeltaQP(e, qp, ref) ==
  LET half == e.qpBdOffset \div 2
  IN ((qp - ref + 78 + e.qpBdOffset + half) % (52 + e.qpBdOffset)) - 26 - half

DeltaQPCalls(delta) ==
  LET size == Magnitude(delta)
  IN UnaryMax([c |-> DeltaQpContexts[1], next |-> DeltaQpContexts[2],
               v |-> Lesser(size, CU_DQP_TU_CMAX), max |-> CU_DQP_TU_CMAX])
       \o (IF size >= CU_DQP_TU_CMAX THEN ExpGolomb(size - CU_DQP_TU_CMAX, 0) ELSE << >>)
       \o (IF size > 0 THEN <<Bypass(IF delta > 0 THEN 0 ELSE 1, 1)>> ELSE << >>)

(* finishCU(): the end of the slice is left to the substream's end. *)
FinishCalls(e, cu) ==
  IF IsLastSubCUOfCtu(e, cu) /\ cu.ctu # LastCtu(e) THEN << [op |-> "trm", v |-> 0] >> ELSE << >>

(* A leaf of xEncodeCU(); dqp is the flag that a QP is still to be coded.  *)
CuCalls(e, cu, dqp) ==
  <<Bin(SkipContext(e, e.v, cu.ctu, cu.z), cu.skip)>>
    \o (IF cu.skip = 1 THEN << >> ELSE <<Bin(RootCbfContext, cu.residual)>>)
    \o (IF cu.residual = 1 /\ dqp
          THEN DeltaQPCalls(DeltaQP(e, cu.qp, RefQP(e, e.v, cu.ctu, cu.z))) ELSE << >>)
    \o FinishCalls(e, cu)

(* xEncodeCU(); st holds the calls so far and the flag dqp. *)
RECURSIVE EncodeCU(_, _, _, _, _)
EncodeCU(e, ctu, z, depth, st) ==
  LET cu    == Covering(e.v, ctu, z)
      flag  == IF ~Fits(e, ctu, z, depth) \/ depth = MaxDepth THEN << >>
               ELSE <<Bin(SplitContext(e, e.v, ctu, z, depth), IF cu.depth > depth THEN 1 ELSE 0)>>
      dqp   == st.dqp \/ depth <= e.dqpDepth
      inner == [calls |-> st.calls \o flag, dqp |-> st.dqp \/ depth = e.dqpDepth]
  IN IF cu.depth > depth
       THEN FoldLeft(LAMBDA before, k :
                       LET part == z + k * NumPartitions(depth + 1)
                       IN IF CornerInside(e, ctu, part)
                            THEN EncodeCU(e, ctu, part, depth + 1, before) ELSE before,
                     inner, <<0, 1, 2, 3>>)
     ELSE [calls |-> st.calls \o flag \o CuCalls(e, cu, dqp),
           dqp   |-> dqp /\ cu.residual = 0]

(* encodeCtu(), CTU by CTU. *)
TreeCalls(e) ==
  FlattenSeq([i \in 1..LastCtu(e) - e.start + 1 |->
                EncodeCU(e, e.start + i - 1, 0, 0, [calls |-> << >>, dqp |-> TRUE]).calls])

-----------------------------------------------------------------------------
(* The decoder; st holds the CUs read so far, whether a QP is still to be  *)
(* read, the QP read last and whether the slice has ended.  The member     *)
(* that holds the QP has no value in a CTU where none was read yet.        *)

NoQP == 999

(* parseDeltaQP(). *)
ReadDeltaQPSize(d) ==
  Then(ReadUnary(d, DeltaQpContexts), LAMBDA f, v :
    IF v < CU_DQP_TU_CMAX THEN Result(f, v)
    ELSE Then(ReadExpGolomb(f, 0), LAMBDA g, w : Result(g, v + w)))

ReadDeltaQP(d) ==
  Then(ReadDeltaQPSize(d), LAMBDA f, size :
    IF size = 0 THEN Result(f, 0)
    ELSE Then(DecodeBins(f, 1), LAMBDA g, sign : Result(g, IF sign = 1 THEN -size ELSE size)))

DecodedQP(e, ref, delta) ==
  IF delta = 0 THEN ref
  ELSE ((ref + delta + 52 + 2 * e.qpBdOffset) % (52 + e.qpBdOffset)) - e.qpBdOffset

ReadQP(d, e, ref) == Then(ReadDeltaQP(d), LAMBDA f, delta : Result(f, DecodedQP(e, ref, delta)))

(* xFinishDecodeCU(). *)
FinishDecodeCU(d, e, st, cu) ==
  LET qp == IF st.dqp THEN RefQP(e, st.cus, cu.ctu, cu.z) ELSE st.codedQP
  IN Then(IF IsLastSubCUOfCtu(e, cu) /\ cu.ctu # LastCtu(e) THEN DecodeBinTrm(d)
          ELSE Result(d, 0), LAMBDA f, end :
       Result(f, [st EXCEPT !.cus = Append(@, [cu EXCEPT !.qp = qp]), !.ended = (end = 1)]))

(* A leaf of xDecodeCU(). *)
ReadSkipAndCbf(d, e, st, ctu, z) ==
  Then(DecodeBin(d, SkipContext(e, st.cus, ctu, z)), LAMBDA f, skip :
    IF skip = 1 THEN Result(f, [skip |-> 1, residual |-> 0])
    ELSE Then(DecodeBin(f, RootCbfContext), LAMBDA g, cbf :
           Result(g, [skip |-> 0, residual |-> cbf])))

ReadLeaf(d, e, st, ctu, z, depth) ==
  Then(ReadSkipAndCbf(d, e, st, ctu, z), LAMBDA f, read :
  Then(IF read.residual = 1 /\ st.dqp
         THEN Then(ReadQP(f, e, RefQP(e, st.cus, ctu, z)), LAMBDA h, qp :
                Result(h, [st EXCEPT !.codedQP = qp, !.dqp = FALSE]))
         ELSE Result(f, st), LAMBDA g, after :
    FinishDecodeCU(g, e, after,
                   [ctu |-> ctu, z |-> z, depth |-> depth, qp |-> NoQP,
                    skip |-> read.skip, residual |-> read.residual])))

(* The default QP of a group that read none. *)
WithDefaultQP(e, st, ctu, z, depth) ==
  IF depth # e.dqpDepth \/ ~st.dqp THEN st
  ELSE [st EXCEPT !.cus = [i \in DOMAIN @ |->
          IF @[i].ctu = ctu /\ @[i].z >= z
            THEN [@[i] EXCEPT !.qp = RefQP(e, st.cus, ctu, z)] ELSE @[i]]]

ReadSplit(d, e, st, ctu, z, depth) ==
  IF ~Fits(e, ctu, z, depth) THEN Result(d, 1)
  ELSE IF depth = MaxDepth THEN Result(d, 0)
  ELSE DecodeBin(d, SplitContext(e, st.cus, ctu, z, depth))

(* xDecodeCU(), and its loop from the k-th quarter on. *)
RECURSIVE ReadCU(_, _, _, _, _, _), ReadQuarters(_, _, _, _, _, _, _)
ReadCU(d, e, st, ctu, z, depth) ==
  Then(ReadSplit(d, e, st, ctu, z, depth), LAMBDA f, split :
    IF split = 1
      THEN Then(ReadQuarters(f, e, [st EXCEPT !.dqp = @ \/ depth = e.dqpDepth], ctu, z, depth, 0),
                LAMBDA g, after : Result(g, WithDefaultQP(e, after, ctu, z, depth)))
      ELSE ReadLeaf(f, e, [st EXCEPT !.dqp = @ \/ depth <= e.dqpDepth], ctu, z, depth))

ReadQuarters(d, e, st, ctu, z, depth, k) ==
  LET part == z + k * NumPartitions(depth + 1)
  IN IF k = 4 THEN Result(d, st)
     ELSE IF st.ended \/ ~CornerInside(e, ctu, part) THEN ReadQuarters(d, e, st, ctu, z, depth, k + 1)
     ELSE Then(ReadCU(d, e, st, ctu, part, depth + 1), LAMBDA f, after :
            ReadQuarters(f, e, after, ctu, z, depth, k + 1))

(* decodeCtu(), CTU by CTU. *)
RECURSIVE ReadCtus(_, _, _, _)
ReadCtus(d, e, cus, ctu) ==
  Then(ReadCU(d, e, [cus |-> cus, dqp |-> TRUE, codedQP |-> NoQP, ended |-> FALSE], ctu, 0, 0),
       LAMBDA f, st :
         IF st.ended \/ ctu = LastCtu(e) THEN Result(f, st.cus)
         ELSE ReadCtus(f, e, st.cus, ctu + 1))

ReadTree(d, e) == ReadCtus(d, e, << >>, e.start)
=============================================================================
