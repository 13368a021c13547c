--------------------------- MODULE TransformTree ---------------------------
(***************************************************************************)
(* The transform tree of a coding unit of HM: TEncEntropy and TDecEntropy  *)
(* divide the unit into transform units (TUs), write which blocks of the   *)
(* three components are coded, and code the QP with the first of them.     *)
(* Flags that follow from others are left out of the stream, and chroma    *)
(* blocks that would be smaller than 4x4 belong to four luma blocks.       *)
(*                                                                         *)
(* The unit's coded block flags are a byte for each part of 4x4 samples in *)
(* z-order: its bits, the set of depths in the tree at which the flag is   *)
(* set.  A unit is an element                                              *)
(*   log2           the logarithm of its size,                             *)
(*   intra, whole   its mode, and whether it is one prediction unit,       *)
(*   maxDepth, log2Min, log2Max   what the SPS allows,                     *)
(*   format         the chroma format: 400, 420, 422 or 444,               *)
(*   dqp            whether a QP is still to be coded,                     *)
(*   v              split, the nodes that are divided; cbf, the flags;     *)
(*                  delta, the QP's difference, 0 if none is coded;        *)
(*                  blocks, the blocks that are coded, in their order.     *)
(* The levels of a block are left out: its component is coded for them.    *)
(***************************************************************************)
EXTENDS CodingTree

Components(e) == IF e.format = 400 THEN <<0>> ELSE <<0, 1, 2>>

Chroma(e) == Tail(Components(e))

Parts(e, depth) == Pow2(2 * (e.log2 - depth - 2))

Size(e, depth) == Pow2(e.log2 - depth)

(* ProcessingAllQuadrants() for chroma, and in a node of 4x4 for which it  *)
(* does not hold, ProcessComponentSection(): the last quarter of four.     *)
ProcessingAllQuadrants(e, depth) == e.format = 444 \/ e.log2 - depth > 2

ProcessComponentSection(e, z, depth, c) ==
  c = 0 \/ ProcessingAllQuadrants(e, depth) \/ z % 4 = 3

(* GetAbsPartIdxTU(compID) and GetAbsPartIdxNumParts(compID). *)
FirstPart(e, z, depth, c) ==
  IF c = 0 \/ ProcessingAllQuadrants(e, depth) THEN z ELSE z - (z % 4)

NumParts(e, depth, c) ==
  IF c = 0 \/ ProcessingAllQuadrants(e, depth) THEN Parts(e, depth) ELSE 4

(* Two square blocks in a chroma block twice as high as wide. *)
IsHalved(e, c) == e.format = 422 /\ c > 0

(* canQuadSplit of codeQtCbf() and parseQtCbf(), by the chroma width. *)
CanQuadSplit(e, depth) == Size(e, depth) >= IF e.format = 444 THEN 8 ELSE 16

LowestTUDepth(e, depth, lowestLevel) ==
  depth + IF ~lowestLevel /\ ~CanQuadSplit(e, depth) THEN 1 ELSE 0

HasSubTUs(e, depth, c, lowestLevel) ==
  IsHalved(e, c) /\ (lowestLevel \/ ~CanQuadSplit(e, depth))

(* getQuadtreeTULog2MinSizeInCU(). *)
IntraSplit(e) == e.intra /\ ~e.whole

InterSplit(e) == ~e.intra /\ ~e.whole /\ e.maxDepth = 1

QuadtreeTULog2MinSizeInCU(e) ==
  LET depth == e.maxDepth - 1 + IF IntraSplit(e) \/ InterSplit(e) THEN 1 ELSE 0
  IN IF e.log2 < e.log2Min + depth THEN e.log2Min ELSE Lesser(e.log2 - depth, e.log2Max)

(* When the division of a node follows from its size and the unit's mode:  *)
(* "yes", "no", or "flag" where it is coded.                               *)
Subdivision(e, depth) ==
  LET log2 == e.log2 - depth
  IN CASE IntraSplit(e) /\ depth = 0 -> "yes"
       [] InterSplit(e) /\ depth = 0 -> IF log2 > QuadtreeTULog2MinSizeInCU(e) THEN "yes" ELSE "no"
       [] OTHER -> IF log2 > e.log2Max THEN "yes"
                   ELSE IF log2 \in {e.log2Min, QuadtreeTULog2MinSizeInCU(e)} THEN "no"
                   ELSE "flag"

SubdivContext(e, depth) == <<"subdiv", 0, 5 - (e.log2 - depth)>>

(* getCtxQtCbf(). *)
CbfContext(c, depth) ==
  IF c = 0 THEN <<"cbf", 0, IF depth = 0 THEN 1 ELSE 0>> ELSE <<"cbf", 1, depth>>

(* Where the flag of a chroma block is coded: once for four quarters that  *)
(* share it, and not where the flag above says that there is none.         *)
ChromaFlagCoded(e, cbf, z, depth, c) ==
  depth = 0 \/ (ProcessingAllQuadrants(e, depth) /\ depth - 1 \in cbf[c][z])

(* Where the flag of luma follows: something is coded in the unit. *)
LumaFlagInferred(e, cbf, z, depth) ==
  ~e.intra /\ depth = 0 /\ \A c \in Range(Chroma(e)) : 0 \notin cbf[c][z]

CodedComponents(e, cbf, z, depth) == {c \in Range(Components(e)) : depth \in cbf[c][z]}

(* The blocks of a component that a TU codes, by their first parts. *)
BlocksOfComponent(e, cbf, z, depth, c) ==
  LET first == FirstPart(e, z, depth, c)
      half  == NumParts(e, depth, c) \div 2
  IN IF ~ProcessComponentSection(e, z, depth, c) THEN << >>
     ELSE IF IsHalved(e, c)
       THEN SelectSeq(<< <<c, first>>, <<c, first + half>> >>, LAMBDA b : depth + 1 \in cbf[c][b[2]])
     ELSE SelectSeq(<< <<c, z>> >>, LAMBDA b : depth \in cbf[c][z])

BlocksOf(e, cbf, z, depth) ==
  FlattenSeq([i \in DOMAIN Components(e) |->
                BlocksOfComponent(e, cbf, z, depth, Components(e)[i])])

-----------------------------------------------------------------------------
(* The encoder.                                                            *)

Flag(condition) == IF condition THEN 1 ELSE 0

(* codeQtCbf(). *)
CbfCalls(e, z, depth, c, lowestLevel) ==
  LET lowest == LowestTUDepth(e, depth, lowestLevel)
      half   == NumParts(e, depth, c) \div 2
  IN IF HasSubTUs(e, depth, c, lowestLevel)
       THEN [i \in 1..2 |-> Bin(CbfContext(c, depth),
                                Flag(lowest + 1 \in e.v.cbf[c][z + (i - 1) * half]))]
     ELSE <<Bin(CbfContext(c, depth), Flag(lowest \in e.v.cbf[c][z]))>>

(* A leaf of xEncodeTransform(); dqp is the flag that a QP is to be coded. *)
UnitCalls(e, z, depth, dqp) ==
  (IF LumaFlagInferred(e, e.v.cbf, z, depth) THEN << >> ELSE CbfCalls(e, z, depth, 0, TRUE))
    \o (IF dqp /\ CodedComponents(e, e.v.cbf, z, depth) # {} THEN DeltaQPCalls(e.v.delta) ELSE << >>)
    \o [i \in DOMAIN BlocksOf(e, e.v.cbf, z, depth) |->
          Bypass(BlocksOf(e, e.v.cbf, z, depth)[i][1], 2)]

(* xEncodeTransform(); st holds the calls and blocks so far, and dqp. *)
RECURSIVE EncodeTransform(_, _, _, _)
EncodeTransform(e, z, depth, st) ==
  LET split  == <<z, depth>> \in e.v.split
      subdiv == IF Subdivision(e, depth) = "flag"
                  THEN <<Bin(SubdivContext(e, depth), Flag(split))>> ELSE << >>
      chroma == FlattenSeq([i \in DOMAIN Chroma(e) |->
                  IF ChromaFlagCoded(e, e.v.cbf, z, depth, Chroma(e)[i])
                    THEN CbfCalls(e, z, depth, Chroma(e)[i], ~split) ELSE << >>])
      before == st.calls \o subdiv \o chroma
  IN IF split
       THEN FoldLeft(LAMBDA done, k : EncodeTransform(e, z + k * Parts(e, depth + 1), depth + 1, done),
                     [st EXCEPT !.calls = before], <<0, 1, 2, 3>>)
     ELSE [calls  |-> before \o UnitCalls(e, z, depth, st.dqp),
           blocks |-> st.blocks \o BlocksOf(e, e.v.cbf, z, depth),
           dqp    |-> st.dqp /\ CodedComponents(e, e.v.cbf, z, depth) = {}]

Transformed(e) == EncodeTransform(e, 0, 0, [calls |-> << >>, blocks |-> << >>, dqp |-> e.dqp])

-----------------------------------------------------------------------------
(* The decoder; st holds split, cbf, delta and blocks so far, and dqp.     *)

(* setCbfSubParts() and bitwiseOrCbfPartRange(). *)
SetCbf(cbf, c, first, n, depths) ==
  [cbf EXCEPT ![c] = [p \in DOMAIN @ |-> IF p \in first..first + n - 1 THEN depths ELSE @[p]]]

OrCbf(cbf, c, first, n, depths) ==
  [cbf EXCEPT ![c] = [p \in DOMAIN @ |-> IF p \in first..first + n - 1 THEN @[p] \cup depths ELSE @[p]]]

(* parseQtCbf(). *)
Bit(flag, depth) == IF flag = 1 THEN {depth} ELSE {}

ReadSubCbfs(d, e, cbf, z, depth, c, lowest) ==
  LET half == NumParts(e, depth, c) \div 2
  IN Then(DecodeBin(d, CbfContext(c, depth)), LAMBDA f, upper :
     Then(DecodeBin(f, CbfContext(c, depth)), LAMBDA g, lower :
       Result(g, OrCbf(SetCbf(SetCbf(cbf, c, z, half, Bit(upper, lowest + 1)),
                              c, z + half, half, Bit(lower, lowest + 1)),
                       c, z, 2 * half, IF upper + lower > 0 THEN depth..lowest ELSE {}))))

ReadCbf(d, e, cbf, z, depth, c, lowestLevel) ==
  LET lowest == LowestTUDepth(e, depth, lowestLevel)
  IN IF HasSubTUs(e, depth, c, lowestLevel) THEN ReadSubCbfs(d, e, cbf, z, depth, c, lowest)
     ELSE Then(DecodeBin(d, CbfContext(c, depth)), LAMBDA f, flag :
            Result(f, SetCbf(cbf, c, z, NumParts(e, depth, c),
                             IF flag = 1 THEN depth..lowest ELSE {})))

(* The chroma flags of a node. *)
ReadChromaCbf(d, e, cbf, z, depth, c, split) ==
  IF ~ChromaFlagCoded(e, cbf, z, depth, c) THEN Result(d, cbf)
  ELSE ReadCbf(d, e, IF depth = 0 THEN SetCbf(cbf, c, z, Parts(e, 0), {}) ELSE cbf,
               z, depth, c, ~split)

ReadChromaCbfs(d, e, cbf, z, depth, split) ==
  IF e.format = 400 THEN Result(d, cbf)
  ELSE Then(ReadChromaCbf(d, e, cbf, z, depth, 1, split), LAMBDA f, after :
         ReadChromaCbf(f, e, after, z, depth, 2, split))

ReadLumaCbf(d, e, cbf, z, depth) ==
  IF LumaFlagInferred(e, cbf, z, depth)
    THEN Result(d, SetCbf(cbf, 0, z, Parts(e, depth), {depth}))
    ELSE ReadCbf(d, e, cbf, z, depth, 0, TRUE)

(* What stands for the levels of blocks. *)
RECURSIVE ReadLevelsOf(_, _)
ReadLevelsOf(d, blocks) ==
  IF blocks = << >> THEN Result(d, << >>)
  ELSE Then(DecodeBins(d, 2), LAMBDA f, c :
       Then(ReadLevelsOf(f, Tail(blocks)), LAMBDA g, rest :
         Result(g, << <<c, Head(blocks)[2]>> >> \o rest)))

(* A leaf of xDecodeTransform(). *)
ReadUnit(d, e, st, z, depth) ==
  Then(ReadLumaCbf(d, e, st.cbf, z, depth), LAMBDA f, cbf :
  Then(IF st.dqp /\ CodedComponents(e, cbf, z, depth) # {} THEN ReadDeltaQP(f)
       ELSE Result(f, st.delta), LAMBDA g, delta :
  Then(ReadLevelsOf(g, BlocksOf(e, cbf, z, depth)), LAMBDA h, blocks :
    Result(h, [st EXCEPT !.cbf = cbf, !.delta = delta, !.blocks = @ \o blocks,
                         !.dqp = @ /\ CodedComponents(e, cbf, z, depth) = {}]))))

(* A flag of a divided node is set if one of its quarters' flags is. *)
RECURSIVE Combined(_, _, _, _, _)
Combined(e, cbf, z, depth, components) ==
  IF components = << >> THEN cbf
  ELSE LET c == Head(components)
           n == Parts(e, depth + 1)
       IN Combined(e, OrCbf(cbf, c, z, 4 * n,
                            IF \E k \in 0..3 : depth + 1 \in cbf[c][z + k * n] THEN {depth} ELSE {}),
                   z, depth, Tail(components))

ReadSubdiv(d, e, depth) ==
  IF Subdivision(e, depth) = "flag" THEN DecodeBin(d, SubdivContext(e, depth))
  ELSE Result(d, IF Subdivision(e, depth) = "yes" THEN 1 ELSE 0)

(* xDecodeTransform(), and its loop from the k-th quarter on. *)
RECURSIVE ReadTransform(_, _, _, _, _), ReadTransformQuarters(_, _, _, _, _, _)
ReadTransform(d, e, st, z, depth) ==
  Then(ReadSubdiv(d, e, depth), LAMBDA f, split :
  Then(ReadChromaCbfs(f, e, st.cbf, z, depth, split = 1), LAMBDA g, cbf :
    IF split = 0 THEN ReadUnit(g, e, [st EXCEPT !.cbf = cbf], z, depth)
    ELSE Then(ReadTransformQuarters(g, e, [st EXCEPT !.cbf = cbf, !.split = @ \cup {<<z, depth>>}],
                                    z, depth, 0), LAMBDA h, after :
           Result(h, [after EXCEPT !.cbf = Combined(e, @, z, depth, Components(e))]))))

ReadTransformQuarters(d, e, st, z, depth, k) ==
  IF k = 4 THEN Result(d, st)
  ELSE Then(ReadTransform(d, e, st, z + k * Parts(e, depth + 1), depth + 1), LAMBDA f, after :
         ReadTransformQuarters(f, e, after, z, depth, k + 1))

ReadTransformTree(d, e) ==
  Then(ReadTransform(d, e, [split |-> {}, delta |-> 0, blocks |-> << >>, dqp |-> e.dqp,
                            cbf |-> [c \in 0..2 |-> [p \in 0..Parts(e, 0) - 1 |-> {}]]], 0, 0),
       LAMBDA f, st :
         Result(f, [split |-> st.split, delta |-> st.delta, blocks |-> st.blocks, cbf |-> st.cbf]))
=============================================================================
