--------------------------- MODULE PredictionInfo ---------------------------
(***************************************************************************)
(* How the prediction of a coding unit (CU) of HM is written: its mode and *)
(* its division into prediction units (PUs), intra directions as an index  *)
(* into the directions of the units around or as what is left without      *)
(* them, and the motion of inter units.  TEncSbac and TDecSbac derive what *)
(* is probable each on its own; a division that the CU's size rules out    *)
(* has no bin.  A CU is an element                                         *)
(*   log2, depth    the logarithm of its size, and its depth,              *)
(*   islice, b      whether its slice is an I or a B slice,                *)
(*   amp            whether PUs may be of unequal size,                    *)
(*   format         the chroma format,                                     *)
(*   left, above    the directions of the two parts left of it and the two *)
(*                  above, DC for those that are not there or not intra,   *)
(*   refs           the number of reference pictures in the two lists,     *)
(*   merges         the number of merge candidates,                        *)
(*   l1zero         whether list 1 of two has no differences,              *)
(*   v              intra, size, luma and chroma directions, and PUs.      *)
(* A PU is merged with a candidate, or has lists by dir, and for each list *)
(* a reference, a difference and a predictor.  The motion that they yield  *)
(* is left out, and so is the removal of a list from PUs of 8x4 and 4x8.   *)
(***************************************************************************)
EXTENDS TransformTree

Planar == 0

DC == 1

Hor == 10

Ver == 26

DM_CHROMA_IDX == 36

MaxNumMvpCandidates == 2        \* AMVP_MAX_NUM_CANDS

AtSmallest(e) == e.depth = MaxDepth

MayBeNxN(e) == AtSmallest(e) /\ e.log2 # 3

MayBeUnequal(e) == e.amp /\ ~AtSmallest(e)

NumPU(size) == CASE size = "2Nx2N" -> 1 [] size = "NxN" -> 4 [] OTHER -> 2

(* The lists that an inter direction of 1, 2 or 3 uses. *)
UsesList(dir, l) == dir \in {l, 3}

-----------------------------------------------------------------------------
(* Probable directions.                                                    *)

(* The directions left of and above the j-th part of a CU in z-order: the  *)
(* right and lower parts are next to parts of the CU.                      *)
LeftDir(e, luma, j) ==
  CASE j = 1 -> e.left[1] [] j = 2 -> luma[1] [] j = 3 -> e.left[2] [] j = 4 -> luma[3]

AboveDir(e, luma, j) ==
  CASE j = 1 -> e.above[1] [] j = 2 -> e.above[2] [] j = 3 -> luma[1] [] j = 4 -> luma[2]

(* getIntraDirPredictor(). *)
ProbableDirs(left, above) ==
  IF left = above
    THEN IF left > DC THEN <<left, ((left + 29) % 32) + 2, ((left - 1) % 32) + 2>>
         ELSE <<Planar, DC, Ver>>
    ELSE <<left, above,
           IF Planar \notin {left, above} THEN Planar ELSE IF left + above < 2 THEN Ver ELSE DC>>

IntraDirPredictor(e, luma, j) == ProbableDirs(LeftDir(e, luma, j), AboveDir(e, luma, j))

Ascending(dirs) == SortSeq(dirs, LAMBDA a, b : a < b)

(* getAllowedChromaDir(). *)
AllowedChromaDir(luma) ==
  [i \in 1..4 |-> LET dir == <<Planar, Ver, Hor, DC>>[i] IN IF dir = luma THEN 34 ELSE dir]

(* The parts of a CU that have a chroma direction of their own. *)
NumChromaDirs(e, size) ==
  IF e.format = 400 THEN 0 ELSE IF e.format = 444 /\ size = "NxN" THEN 4 ELSE 1

-----------------------------------------------------------------------------
(* The encoder.                                                            *)

PartSizeContext(i) == <<"partSize", 0, i>>

(* codePartSize(). *)
UnequalCalls(e, equal, first) ==
  IF ~MayBeUnequal(e) THEN << >>
  ELSE IF e.v.size = equal THEN <<Bin(PartSizeContext(3), 1)>>
  ELSE <<Bin(PartSizeContext(3), 0), Bypass(Flag(e.v.size # first), 1)>>

PartSizeCalls(e) ==
  LET size     == e.v.size
      bins(vs) == [i \in DOMAIN vs |-> Bin(PartSizeContext(i - 1), vs[i])]
  IN CASE e.v.intra -> IF AtSmallest(e) THEN bins(<<Flag(size = "2Nx2N")>>) ELSE << >>
       [] ~e.v.intra /\ size = "2Nx2N" -> bins(<<1>>)
       [] ~e.v.intra /\ size \in {"2NxN", "2NxnU", "2NxnD"} ->
            bins(<<0, 1>>) \o UnequalCalls(e, "2NxN", "2NxnU")
       [] ~e.v.intra /\ size \in {"Nx2N", "nLx2N", "nRx2N"} ->
            bins(IF MayBeNxN(e) THEN <<0, 0, 1>> ELSE <<0, 0>>) \o UnequalCalls(e, "Nx2N", "nLx2N")
       [] ~e.v.intra /\ size = "NxN" -> IF MayBeNxN(e) THEN bins(<<0, 0, 0>>) ELSE << >>

(* codeIntraDirLumaAng(): first which directions are probable ones, then   *)
(* for each its index, or its rank among the others.                       *)
IsProbable(e, j) == e.v.luma[j] \in Range(IntraDirPredictor(e, e.v.luma, j))

DirCalls(e, j) ==
  LET dirs == IntraDirPredictor(e, e.v.luma, j)
      dir  == e.v.luma[j]
  IN IF ~IsProbable(e, j)
       THEN <<Bypass(FoldLeft(LAMBDA d, p : IF d > p THEN d - 1 ELSE d, dir, Reverse(Ascending(dirs))), 5)>>
     ELSE IF dir = dirs[1] THEN <<Bypass(0, 1)>>
     ELSE <<Bypass(1, 1), Bypass(Flag(dir = dirs[3]), 1)>>

LumaDirCalls(e) ==
  [j \in DOMAIN e.v.luma |-> Bin(<<"intraPred", 0, 0>>, Flag(IsProbable(e, j)))]
    \o FlattenSeq([j \in DOMAIN e.v.luma |-> DirCalls(e, j)])

(* codeIntraDirChroma(). *)
ChromaDirCalls(e, j) ==
  IF e.v.chroma[j] = DM_CHROMA_IDX THEN <<Bin(<<"chromaPred", 0, 0>>, 0)>>
  ELSE LET allowed == AllowedChromaDir(e.v.luma[j])
       IN << Bin(<<"chromaPred", 0, 0>>, 1),
             Bypass((CHOOSE i \in 1..4 : allowed[i] = e.v.chroma[j]) - 1, 2) >>

(* A unary code that ends at max, of which the first bin has a context. *)
Truncated(c, v, max) ==
  [i \in 1..(IF v < max THEN v + 1 ELSE max) |->
     IF i = 1 THEN Bin(c, Flag(v # 0)) ELSE Bypass(Flag(v # i - 1), 1)]

(* codeMergeIndex(). *)
MergeCalls(e, pu) == Truncated(<<"mergeIdx", 0, 0>>, pu.index, e.merges - 1)

(* codeInterDir(); a CU of 8x8 that is divided has no PU with both lists.  *)
HasBothBin(e, size) == size = "2Nx2N" \/ e.log2 # 3

InterDirContext(i) == <<"interDir", 0, i>>

InterDirCalls(e, pu) ==
  IF ~e.b THEN << >>
  ELSE (IF HasBothBin(e, e.v.size) THEN <<Bin(InterDirContext(e.depth), Flag(pu.dir = 3))>> ELSE << >>)
         \o (IF pu.dir < 3 THEN <<Bin(InterDirContext(4), pu.dir - 1)>> ELSE << >>)

(* codeRefFrmIdx(). *)
RefCalls(e, pu, l) ==
  LET ref == pu.lists[l].ref
  IN IF e.refs[l] = 1 THEN << >>
     ELSE <<Bin(<<"ref", 0, 0>>, Flag(ref # 0))>>
            \o IF ref > 0 THEN Truncated(<<"ref", 0, 1>>, ref - 1, e.refs[l] - 2) ELSE << >>

(* codeMvd(): first of both components what has a context. *)
MvdContext(i) == <<"mvd", 0, i>>

LeavesOutMvd(e, pu, l) == e.l1zero /\ l = 2 /\ pu.dir = 3

MvdRestCalls(n) ==
  IF n = 0 THEN << >>
  ELSE (IF Magnitude(n) > 1 THEN ExpGolomb(Magnitude(n) - 2, 1) ELSE << >>) \o <<Bypass(Flag(n < 0), 1)>>

MvdCalls(e, pu, l) ==
  LET mvd == pu.lists[l].mvd
  IN IF LeavesOutMvd(e, pu, l) THEN << >>
     ELSE [i \in 1..2 |-> Bin(MvdContext(0), Flag(mvd[i] # 0))]
            \o FlattenSeq([i \in 1..2 |->
                 IF mvd[i] # 0 THEN <<Bin(MvdContext(1), Flag(Magnitude(mvd[i]) > 1))>> ELSE << >>])
            \o MvdRestCalls(mvd[1]) \o MvdRestCalls(mvd[2])

(* codeMVPIdx(). *)
MvpIndex == [c |-> <<"mvpIdx", 0, 0>>, next |-> <<"mvpIdx", 0, 1>>, max |-> MaxNumMvpCandidates - 1]

(* One PU of encodePUWise(). *)
ListCalls(e, pu, l) ==
  IF e.refs[l] = 0 \/ ~UsesList(pu.dir, l) THEN << >>
  ELSE RefCalls(e, pu, l) \o MvdCalls(e, pu, l) \o UnaryMax(MvpIndex @@ [v |-> pu.lists[l].mvp])

PUCalls(e, pu) ==
  <<Bin(<<"mergeFlag", 0, 0>>, Flag(pu.merged))>>
    \o IF pu.merged THEN MergeCalls(e, pu)
       ELSE InterDirCalls(e, pu) \o ListCalls(e, pu, 1) \o ListCalls(e, pu, 2)

(* encodePredMode(), encodePartSize() and encodePredInfo(). *)
PredictionCalls(e) ==
  (IF e.islice THEN << >> ELSE <<Bin(<<"predMode", 0, 0>>, Flag(e.v.intra))>>)
    \o PartSizeCalls(e)
    \o IF e.v.intra
         THEN LumaDirCalls(e) \o FlattenSeq([j \in DOMAIN e.v.chroma |-> ChromaDirCalls(e, j)])
         ELSE FlattenSeq([i \in DOMAIN e.v.pus |-> PUCalls(e, e.v.pus[i])])

-----------------------------------------------------------------------------
(* The decoder.                                                            *)

(* parsePartSize(): its loop counts the zeros before a one. *)
RECURSIVE ReadPartMode(_, _, _)
ReadPartMode(d, mode, longest) ==
  IF mode = longest THEN Result(d, mode)
  ELSE Then(DecodeBin(d, PartSizeContext(mode)), LAMBDA f, v :
         IF v = 1 THEN Result(f, mode) ELSE ReadPartMode(f, mode + 1, longest))

ReadUnequal(d, e, equal, first, second) ==
  IF ~MayBeUnequal(e) THEN Result(d, equal)
  ELSE Then(DecodeBin(d, PartSizeContext(3)), LAMBDA f, v :
         IF v = 1 THEN Result(f, equal)
         ELSE Then(DecodeBins(f, 1), LAMBDA g, w : Result(g, IF w = 0 THEN first ELSE second)))

ReadPartSize(d, e, intra) ==
  IF intra
    THEN IF ~AtSmallest(e) THEN Result(d, "2Nx2N")
         ELSE Then(DecodeBin(d, PartSizeContext(0)), LAMBDA f, v :
                Result(f, IF v = 1 THEN "2Nx2N" ELSE "NxN"))
    ELSE Then(ReadPartMode(d, 0, IF MayBeNxN(e) THEN 3 ELSE 2), LAMBDA f, mode :
           CASE mode = 0 -> Result(f, "2Nx2N")
             [] mode = 1 -> ReadUnequal(f, e, "2NxN", "2NxnU", "2NxnD")
             [] mode = 2 -> ReadUnequal(f, e, "Nx2N", "nLx2N", "nRx2N")
             [] mode = 3 -> Result(f, "NxN"))

(* parseIntraDirLumaAng(): luma is what has been read so far. *)
RECURSIVE ReadProbable(_, _)
ReadProbable(d, n) ==
  IF n = 0 THEN Result(d, << >>)
  ELSE Then(DecodeBin(d, <<"intraPred", 0, 0>>), LAMBDA f, v :
       Then(ReadProbable(f, n - 1), LAMBDA g, rest : Result(g, <<v>> \o rest)))

ReadDir(d, dirs, probable) ==
  IF probable = 0
    THEN Then(DecodeBins(d, 5), LAMBDA f, rank :
           Result(f, FoldLeft(LAMBDA r, p : IF r >= p THEN r + 1 ELSE r, rank, Ascending(dirs))))
    ELSE Then(DecodeBins(d, 1), LAMBDA f, v :
           IF v = 0 THEN Result(f, dirs[1])
           ELSE Then(DecodeBins(f, 1), LAMBDA g, w : Result(g, dirs[w + 2])))

RECURSIVE ReadDirs(_, _, _, _)
ReadDirs(d, e, probable, luma) ==
  LET j == Len(luma) + 1
  IN IF j > Len(probable) THEN Result(d, luma)
     ELSE Then(ReadDir(d, IntraDirPredictor(e, luma, j), probable[j]), LAMBDA f, dir :
            ReadDirs(f, e, probable, Append(luma, dir)))

(* parseIntraDirChroma(). *)
ReadChromaDir(d, luma) ==
  Then(DecodeBin(d, <<"chromaPred", 0, 0>>), LAMBDA f, v :
    IF v = 0 THEN Result(f, DM_CHROMA_IDX)
    ELSE Then(DecodeBins(f, 2), LAMBDA g, i : Result(g, AllowedChromaDir(luma)[i + 1])))

RECURSIVE ReadChromaDirs(_, _, _)
ReadChromaDirs(d, luma, n) ==
  IF n = 0 THEN Result(d, << >>)
  ELSE Then(ReadChromaDir(d, Head(luma)), LAMBDA f, dir :
       Then(ReadChromaDirs(f, Tail(luma), n - 1), LAMBDA g, rest : Result(g, <<dir>> \o rest)))

ReadIntra(d, e, size) ==
  Then(ReadProbable(d, NumPU(size)), LAMBDA f, probable :
  Then(ReadDirs(f, e, probable, << >>), LAMBDA g, luma :
  Then(ReadChromaDirs(g, luma, NumChromaDirs(e, size)), LAMBDA h, chroma :
    Result(h, [intra |-> TRUE, size |-> size, luma |-> luma, chroma |-> chroma, pus |-> << >>]))))

(* The loops of parseMergeIndex() and parseRefFrmIdx(). *)
ReadTruncated(d, c, max) ==
  IF max = 0 THEN Result(d, 0)
  ELSE Then(DecodeBin(d, c), LAMBDA f, v :
         IF v = 0 THEN Result(f, 0)
         ELSE Then(ReadOnes(f, max - 1), LAMBDA g, n : Result(g, n + 1)))

(* parseInterDir(). *)
ReadInterDir(d, e, size) ==
  IF ~e.b THEN Result(d, 1)
  ELSE Then(IF HasBothBin(e, size) THEN DecodeBin(d, InterDirContext(e.depth)) ELSE Result(d, 0),
            LAMBDA f, both :
         IF both = 1 THEN Result(f, 3)
         ELSE Then(DecodeBin(f, InterDirContext(4)), LAMBDA g, v : Result(g, v + 1)))

(* decodeRefFrmIdxPU() and parseRefFrmIdx(). *)
ReadRef(d, n) ==
  IF n = 1 THEN Result(d, 0)
  ELSE Then(DecodeBin(d, <<"ref", 0, 0>>), LAMBDA f, v :
         IF v = 0 THEN Result(f, 0)
         ELSE Then(ReadTruncated(f, <<"ref", 0, 1>>, n - 2), LAMBDA g, w : Result(g, w + 1)))

(* parseMvd(). *)
ReadIf(d, condition, c) == IF condition THEN DecodeBin(d, c) ELSE Result(d, 0)

ReadMvdRest(d, size) ==
  IF size = 0 THEN Result(d, 0)
  ELSE Then(IF size = 2 THEN ReadExpGolomb(d, 1) ELSE Result(d, 0), LAMBDA f, v :
       Then(DecodeBins(f, 1), LAMBDA g, sign :
         Result(g, IF sign = 1 THEN -(size + v) ELSE size + v)))

ReadMvd(d) ==
  Then(DecodeBin(d, MvdContext(0)), LAMBDA f, hor :
  Then(DecodeBin(f, MvdContext(0)), LAMBDA g, ver :
  Then(ReadIf(g, hor = 1, MvdContext(1)), LAMBDA h, horMore :
  Then(ReadIf(h, ver = 1, MvdContext(1)), LAMBDA i, verMore :
  Then(ReadMvdRest(i, hor + horMore), LAMBDA j, x :
  Then(ReadMvdRest(j, ver + verMore), LAMBDA k, y : Result(k, <<x, y>>)))))))

(* One list of decodePUWise(). *)
NoMotion == [ref |-> -1, mvd |-> <<0, 0>>, mvp |-> -1]

ReadList(d, e, dir, l) ==
  IF e.refs[l] = 0 \/ ~UsesList(dir, l) THEN Result(d, NoMotion)
  ELSE Then(ReadRef(d, e.refs[l]), LAMBDA f, ref :
       Then(IF LeavesOutMvd(e, [dir |-> dir], l) THEN Result(f, <<0, 0>>) ELSE ReadMvd(f), LAMBDA g, mvd :
       Then(ReadUnaryMax(g, MvpIndex), LAMBDA h, mvp :
         Result(h, [ref |-> ref, mvd |-> mvd, mvp |-> mvp]))))

ReadMotion(d, e, size) ==
  Then(ReadInterDir(d, e, size), LAMBDA f, dir :
  Then(ReadList(f, e, dir, 1), LAMBDA g, first :
  Then(ReadList(g, e, dir, 2), LAMBDA h, second :
    Result(h, [merged |-> FALSE, index |-> 0, dir |-> dir, lists |-> <<first, second>>]))))

(* decodePUWise(). *)
ReadPU(d, e, size) ==
  Then(DecodeBin(d, <<"mergeFlag", 0, 0>>), LAMBDA f, merged :
    IF merged = 0 THEN ReadMotion(f, e, size)
    ELSE Then(ReadTruncated(f, <<"mergeIdx", 0, 0>>, e.merges - 1), LAMBDA g, index :
           Result(g, [merged |-> TRUE, index |-> index, dir |-> 0, lists |-> <<NoMotion, NoMotion>>])))

RECURSIVE ReadPUs(_, _, _, _)
ReadPUs(d, e, size, n) ==
  IF n = 0 THEN Result(d, << >>)
  ELSE Then(ReadPU(d, e, size), LAMBDA f, pu :
       Then(ReadPUs(f, e, size, n - 1), LAMBDA g, rest : Result(g, <<pu>> \o rest)))

ReadInter(d, e, size) ==
  Then(ReadPUs(d, e, size, NumPU(size)), LAMBDA f, pus :
    Result(f, [intra |-> FALSE, size |-> size, luma |-> << >>, chroma |-> << >>, pus |-> pus]))

(* decodePredMode(), decodePartSize() and decodePredInfo(). *)
ReadPrediction(d, e) ==
  Then(IF e.islice THEN Result(d, 1) ELSE DecodeBin(d, <<"predMode", 0, 0>>), LAMBDA f, intra :
  Then(ReadPartSize(f, e, intra = 1), LAMBDA g, size :
    IF intra = 1 THEN ReadIntra(g, e, size) ELSE ReadInter(g, e, size)))
=============================================================================
