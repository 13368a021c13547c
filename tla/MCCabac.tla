------------------------------ MODULE MCCabac ------------------------------
(***************************************************************************)
(* Instances of Cabac.                                                     *)
(***************************************************************************)
EXTENDS Cabac

One == <<"one", 0, 1>>

Two == <<"one", 0, 2>>

(* 25700 in 16 bins leaves an interval of range 510 on both sides of a     *)
(* carry, and 100 in 8 bins keeps it there: a byte of 0xff each time, until*)
(* another element decides on one side.                                    *)
BasicElements ==
  { [kind |-> "flag", c |-> One, v |-> 0], [kind |-> "flag", c |-> One, v |-> 1],
    [kind |-> "unaryMax", c |-> One, next |-> Two, v |-> 2, max |-> 2],
    [kind |-> "unaryMax", c |-> One, next |-> Two, v |-> 1, max |-> 2],
    [kind |-> "bypass", v |-> 25700, n |-> 16],
    [kind |-> "bypass", v |-> 100, n |-> 8],
    [kind |-> "bypass", v |-> 255, n |-> 8],
    [kind |-> "expGolomb", v |-> 9, k |-> 1],
    [kind |-> "coefRemain", v |-> 32767, r |-> 0, limited |-> TRUE, log2Range |-> 15],
    [kind |-> "coefRemain", v |-> 5, r |-> 1, limited |-> FALSE, log2Range |-> 15],
    [kind |-> "truncBin", v |-> 4, max |-> 6],
    [kind |-> "align"],
    [kind |-> "notLast", v |-> 0],
    [kind |-> "pcm", v |-> 200, n |-> 8] }

CarryElements == {e \in BasicElements : e.kind \in {"flag", "bypass"}}

-----------------------------------------------------------------------------
(* Transform blocks.                                                       *)

HasCoefficient(b) == \E p \in DOMAIN b : b[p] # 0

(* The blocks of width w with values in the given cells, zero elsewhere.   *)
BlocksOver(w, cells, values) ==
  {b \in {[p \in Cells(w) |-> IF p \in cells THEN f[p] ELSE 0] : f \in [cells -> values]} :
     HasCoefficient(b)}

Values(coefs, skips, modes) == [coef : coefs, skip : skips, rdpcm : modes]

Plain(coefs) == Values(coefs, {0}, {"off"})

Blocks(w, ch, scans, cu, tools, values) ==
  [kind : {"block"}, w : {w}, ch : {ch}, scan : scans, cu : {cu}, tools : {tools}, v : values]

(* The blocks an encoder has: modes and flags the syntax allows, and where *)
(* signs may be hidden, levels the quantisation prepared.                  *)
Legal(e) ==
  /\ e.v.skip = 1 => HasSkipFlag(e)
  /\ e.v.rdpcm # "off" => HasRdpcmMode(e, e.v.skip)
  /\ EncoderMayHide(e) => SignsPrepared(e)

(* The corner, where the three branches of the prediction decide. *)
CornerBlocks ==
  BlocksOver(4, {<<0, 0>>, <<0, 1>>, <<1, 0>>, <<1, 1>>, <<1, 2>>}, {-2, 0, 3})

(* Coefficients far enough apart in the group for a sign to be hidden. *)
Apart == BlocksOver(4, {<<0, 0>>, <<0, 1>>, <<3, 3>>}, {-3, 0, 1})

(* Slopes, which are predicted well, and their mirror images, which need   *)
(* escapes, a full group of levels, and more than eight of them.           *)
Slope(h, v) == [p \in Cells(4) |-> h * p[1] - v * p[2]]

Slopes == {Slope(1, 2), Slope(40, 1), [Slope(9, 5) EXCEPT ![<<3, 3>>] = 300]}

Mirrored(b) == [p \in Cells(4) |-> IF (p[1] + p[2]) % 2 = 0 THEN b[p] ELSE -b[p]]

Escaping == Slopes \cup {Mirrored(b) : b \in Slopes}

(* One block of four groups for each choice of what the groups hold. *)
GroupBlocks ==
  {[p \in Cells(8) |-> content[<<p[1] \div 4, p[2] \div 4>>][<<p[1] % 4, p[2] % 4>>]] :
     content \in [Cells(2) -> { [q \in Cells(4) |-> 0],
                               [q \in Cells(4) |-> IF q = <<0, 0>> THEN 2 ELSE 0],
                               [q \in Cells(4) |-> IF q \in {<<0, 1>>, <<3, 2>>} THEN -1 ELSE 0] }]}

CodingUnits == {{"intra"}, {"intra", "straight"}, {}}

(* Signs that are hidden are kept from blocks coded as prediction errors:  *)
(* HiddenSigns shows what becomes of those.                                *)
Kept(e) == Legal(e) /\ (EncoderMayHide(e) => ~CodesPredicted(e.v.coef, e.w))

EightBlocks ==
  LET values == Plain({b \in GroupBlocks : HasCoefficient(b)})
  IN Blocks(8, 0, {"diag", "hor", "ver"}, {"intra"}, {}, values)
       \cup Blocks(8, 1, {"diag"}, {}, {}, values)

ApartBlocks ==
  {e \in UNION {Blocks(4, 1, {"ver"}, cu, tools, Values(Apart, {0, 1}, {"off", "hor", "ver"})) :
                  cu \in CodingUnits \cup {c \cup {"bypass"} : c \in CodingUnits},
                  tools \in SUBSET {"hiding", "skip", "rdpcm"}} : Kept(e)}

EscapingBlocks(tools) == [elements |-> Blocks(4, 0, {"hor"}, {}, tools, Plain(Escaping)), max |-> 2]

Extensions ==
  << {}, {"rice"}, {"align"}, {"limited"}, {"rice", "align"}, {"rice", "limited"},
     {"align", "limited"}, {"rice", "align", "limited"} >>

-----------------------------------------------------------------------------
(* Coding trees.                                                           *)

(* A picture whose second CTU is three parts wide, and one of four CTUs,   *)
(* the right ones two parts wide and the lower ones three parts high, with *)
(* a slice that starts at the second.                                      *)
Pictures == { <<7, 4, 0>>, <<6, 7, 1>> }

(* The nodes that are split where the picture's edge does not decide. *)
Shapes == { {}, {<<0, 0>>}, {<<0, 0>>, <<0, 1>>}, {<<0, 0>>, <<4, 1>>, <<12, 1>>} }

Kinds == { [skip |-> 1, residual |-> 0], [skip |-> 0, residual |-> 0], [skip |-> 0, residual |-> 1] }

IsSplit(e, shape, ctu, z, depth) == ~Fits(e, ctu, z, depth) \/ <<z, depth>> \in shape

(* The places of the CUs of a shape, in the order of coding. *)
Places(e, shape) ==
  LET all == [i \in 1..(LastCtu(e) - e.start + 1) * 48 |->
                <<e.start + ((i - 1) \div 48), ((i - 1) \div 3) % 16, (i - 1) % 3>>]
  IN SelectSeq(all, LAMBDA p :
       /\ p[2] % NumPartitions(p[3]) = 0 /\ CornerInside(e, p[1], p[2])
       /\ p[3] < MaxDepth => ~IsSplit(e, shape, p[1], p[2], p[3])
       /\ \A d \in 0..p[3] - 1 : IsSplit(e, shape, p[1], p[2] - (p[2] % NumPartitions(d)), d))

(* The trees of a slice with CUs of three kinds in turn, and two QPs that  *)
(* groups are tried with in turn. *)
Tree(picture, shape, kinds, dqpDepth, qpBdOffset, tried) ==
  LET e == [kind |-> "tree", width |-> picture[1], height |-> picture[2], start |-> picture[3],
            sliceQp |-> 26, dqpDepth |-> dqpDepth, qpBdOffset |-> qpBdOffset]
      places == Places(e, shape)
      group(p) == 16 * p[1] + GroupStart(e, p[2])
      cus == [i \in DOMAIN places |->
                [ctu |-> places[i][1], z |-> places[i][2], depth |-> places[i][3],
                 skip |-> kinds[(i % 3) + 1].skip, residual |-> kinds[(i % 3) + 1].residual,
                 qp |-> tried[((group(places[i]) \div NumPartitions(dqpDepth)) % 2) + 1]]]
  IN e @@ [v |-> Settled(e, cus)]

Trees ==
  {Tree(picture, shape, kinds, dqpDepth, 0, <<0, 51>>) :
     picture \in Pictures, shape \in Shapes, kinds \in [1..3 -> Kinds], dqpDepth \in 0..MaxDepth}
  \cup {Tree(<<4, 4, 0>>, {<<0, 0>>}, kinds, 1, 12, tried) :
          kinds \in [1..3 -> Kinds], tried \in { <<-12, 51>>, <<31, 21>> }}

-----------------------------------------------------------------------------
(* Transform trees.                                                        *)

(* The depth of the leaf that holds a part. *)
LeafDepth(e, split, p) ==
  CHOOSE k \in 0..3 :
    /\ <<p - (p % Parts(e, k)), k>> \notin split
    /\ \A j \in 0..k - 1 : <<p - (p % Parts(e, j)), j>> \in split

(* The blocks a unit may code: component, first part and number of parts,  *)
(* and the depth of the leaf.                                              *)
AllBlocks(e, split) ==
  LET of(c, p) ==
        LET depth == LeafDepth(e, split, p)
            z     == p - (p % Parts(e, depth))
            first == FirstPart(e, z, depth, c)
            n     == NumParts(e, depth, c)
        IN IF IsHalved(e, c)
             THEN {<<c, first, n \div 2, depth>>, <<c, first + n \div 2, n \div 2, depth>>}
             ELSE {<<c, first, n, depth>>}
  IN UNION {of(c, p) : c \in Range(Components(e)), p \in 0..Parts(e, 0) - 1}

(* The flags an encoder leaves for the blocks it codes: those of the nodes *)
(* that hold one, and where blocks are halved those of the halves.         *)
FlagsOf(e, split, coded) ==
  [c \in 0..2 |-> [p \in 0..Parts(e, 0) - 1 |->
     LET depth == LeafDepth(e, split, p)
         span(k) == LET z     == p - (p % Parts(e, k))
                        first == FirstPart(e, z, k, c)
                    IN first..first + NumParts(e, k, c) - 1
     IN {k \in 0..depth : \E b \in coded : b[1] = c /\ b[2] \in span(k)}
          \cup (IF IsHalved(e, c) /\ \E b \in coded : b[1] = c /\ p \in b[2]..b[2] + b[3] - 1
                  THEN {depth + 1} ELSE {})]]

Unit(e, split, coded, delta) ==
  LET v == [split |-> split, cbf |-> FlagsOf(e, split, coded),
            delta |-> IF e.dqp /\ coded # {} THEN delta ELSE 0, blocks |-> << >>]
  IN e @@ [v |-> [v EXCEPT !.blocks = Transformed(e @@ [v |-> v]).blocks]]

(* The divisions that the unit's size and mode allow. *)
Divided(e, split) ==
  /\ \A node \in split : node[2] = 0 \/ <<node[1] - (node[1] % Parts(e, node[2] - 1)), node[2] - 1>> \in split
  /\ \A p \in 0..Parts(e, 0) - 1 : \A k \in 0..LeafDepth(e, split, p) :
       Subdivision(e, k) # "flag" =>
         (Subdivision(e, k) = "yes" <=> <<p - (p % Parts(e, k)), k>> \in split)

(* None, one, a luma block with another, or all; an inter unit codes one.  *)
CodedSets(e, split) ==
  LET all == AllBlocks(e, split)
  IN {all} \cup {{a} : a \in all} \cup {{a, b} : a \in {c \in all : c[1] = 0}, b \in all} \cup (IF e.intra THEN {{}} ELSE {})

UnitsOf(es, splits) ==
  UNION {UNION {{Unit(e, split, coded, -7) : coded \in CodedSets(e, split)} :
                  split \in {s \in splits : Divided(e, s)}} : e \in es}

TransformUnits ==
  UnitsOf({e \in [kind : {"unit"}, log2 : {3}, intra : BOOLEAN, whole : BOOLEAN, maxDepth : {1, 2},
                  log2Min : {2}, log2Max : {5}, format : {400, 420, 422, 444}, dqp : BOOLEAN] :
             e.dqp \/ (e.format = 420 /\ e.maxDepth = 2)},
          { {}, {<<0, 0>>} })
  \cup UnitsOf([kind : {"unit"}, log2 : {4}, intra : {FALSE}, whole : {TRUE}, maxDepth : {1, 3},
                log2Min : {2}, log2Max : {3}, format : {420, 422}, dqp : {TRUE}],
               { {<<0, 0>>}, {<<0, 0>>, <<4, 1>>} })

-----------------------------------------------------------------------------
(* Prediction.                                                             *)

Dirs == 0..34

(* What is coded of intra CUs, and of inter CUs, does not depend on what   *)
(* the slice has for the others.                                           *)
Cu(params, v) == params @@ [kind |-> "cu", v |-> v]

Surroundings(left, above) ==
  [log2 |-> 3, depth |-> MaxDepth, islice |-> FALSE, b |-> TRUE, amp |-> FALSE, format |-> 420,
   left |-> left, above |-> above, refs |-> <<1, 1>>, merges |-> 1, l1zero |-> FALSE]

IntraValue(size, luma, chroma) ==
  [intra |-> TRUE, size |-> size, luma |-> luma, chroma |-> chroma, pus |-> << >>]

(* Every direction, for neighbours of all kinds. *)
WholeIntra ==
  {Cu(Surroundings(<<left, DC>>, <<above, DC>>), IntraValue("2Nx2N", <<dir>>, <<DM_CHROMA_IDX>>)) :
     left \in {0, 1, 2, 34}, above \in {0, 1, 26}, dir \in Dirs}

(* The four parts of a CU are each other's neighbours. *)
DividedIntra ==
  {Cu([Surroundings(<<10, 0>>, <<1, 34>>) EXCEPT !.islice = TRUE, !.format = 400],
      IntraValue("NxN", luma, << >>)) : luma \in [1..4 -> {0, 1, 26, 34}]}

ChromaIntra ==
  LET chromas(luma) == Range(AllowedChromaDir(luma)) \cup {DM_CHROMA_IDX}
      of(format, size, luma, chroma) ==
        Cu([Surroundings(<<10, 0>>, <<1, 34>>) EXCEPT !.format = format], IntraValue(size, luma, chroma))
  IN UNION {{of(format, "2Nx2N", <<luma>>, <<c>>) : format \in {420, 444}, c \in chromas(luma)} :
              luma \in {0, 1, 10, 26, 34}}
       \cup {of(420, "NxN", <<0, 26, 1, 5>>, <<c>>) : c \in chromas(0)}
       \cup {of(444, "NxN", <<0, 26, 1, 5>>, <<a, b, c, d>>) :
               a \in {34, 36}, b \in {0, 34}, c \in chromas(1), d \in {1, 36}}

Merged(index) ==
  [merged |-> TRUE, index |-> index, dir |-> 0, lists |-> <<NoMotion, NoMotion>>]

Motion(refs, mvds) == [ref : refs, mvd : mvds, mvp : {0, 1}]

MovedBy(dir, first, second) ==
  [merged |-> FALSE, index |-> 0, dir |-> dir, lists |-> <<first, second>>]

(* The PUs of a slice with refs pictures in its lists. *)
PUs(refs, l1zero, mvds) ==
  LET list(l) == Motion(0..refs[l] - 1, mvds)
  IN {MovedBy(1, first, NoMotion) : first \in list(1)}
       \cup {MovedBy(2, NoMotion, second) : second \in IF refs[2] = 0 THEN {} ELSE list(2)}
       \cup {MovedBy(3, first, second) :
               first \in {m \in list(1) : m.mvp = 0},
               second \in {m \in IF refs[2] = 0 THEN {} ELSE list(2) : m.mvp = 1 /\ (l1zero => m.mvd = <<0, 0>>)}}

InterCu(log2, depth, amp, refs, merges, l1zero, size, pus) ==
  Cu([log2 |-> log2, depth |-> depth, islice |-> FALSE, b |-> refs[2] > 0, amp |-> amp, format |-> 420,
      left |-> <<DC, DC>>, above |-> <<DC, DC>>, refs |-> refs, merges |-> merges, l1zero |-> l1zero],
     [intra |-> FALSE, size |-> size, luma |-> << >>, chroma |-> << >>, pus |-> pus])

(* The divisions of a CU, and PUs that a CU of that size has; a CU of 8x8  *)
(* is a smallest one.                                                      *)
MayHave(e) ==
  LET size == e.v.size
  IN /\ e.log2 = 3 => AtSmallest(e)
     /\ size = "NxN" => MayBeNxN(e)
     /\ size \in {"2NxnU", "2NxnD", "nLx2N", "nRx2N"} => MayBeUnequal(e)
     /\ ~HasBothBin(e, size) => \A i \in DOMAIN e.v.pus : e.v.pus[i].dir # 3

Sizes == {"2Nx2N", "2NxN", "Nx2N", "NxN", "2NxnU", "2NxnD", "nLx2N", "nRx2N"}

Kinded == << Merged(1),
             MovedBy(1, [ref |-> 1, mvd |-> <<-1, 3>>, mvp |-> 1], NoMotion),
             MovedBy(3, [ref |-> 0, mvd |-> <<0, -2>>, mvp |-> 0], [ref |-> 1, mvd |-> <<1, 0>>, mvp |-> 1]),
             MovedBy(2, NoMotion, [ref |-> 0, mvd |-> <<0, 0>>, mvp |-> 0]) >>

DividedInter ==
  {e \in {InterCu(log2, depth, amp, <<2, 2>>, 3, FALSE, size, [i \in 1..NumPU(size) |-> Kinded[kinds[i]]]) :
             log2 \in {3, 4}, depth \in {1, MaxDepth}, amp \in BOOLEAN, size \in Sizes,
             kinds \in {k \in [1..4 -> 1..4] : k[3] = k[1] /\ k[4] = (k[2] % 4) + 1}} : MayHave(e)}

WholeInter ==
  LET few == { <<0, 0>>, <<-2, 1>> }
      mvds == {-70, -2, -1, 0, 1, 2, 3} \X {-1, 0, 9}
      cu(refs, merges, l1zero, pu) == InterCu(4, 1, FALSE, refs, merges, l1zero, "2Nx2N", <<pu>>)
  IN {cu(<<1, 0>>, 1, FALSE, pu) : pu \in PUs(<<1, 0>>, FALSE, mvds)}
       \cup {cu(<<4, 0>>, 5, FALSE, pu) : pu \in PUs(<<4, 0>>, FALSE, few)}
       \cup {cu(<<3, 2>>, 2, l1zero, pu) : l1zero \in BOOLEAN, pu \in PUs(<<3, 2>>, TRUE, few)}
       \cup {cu(<<1, 3>>, 2, FALSE, pu) : pu \in PUs(<<1, 3>>, FALSE, few)}
       \cup {cu(<<1, 1>>, merges, FALSE, Merged(index)) : merges \in {5}, index \in 0..4}
       \cup {cu(<<1, 1>>, 1, FALSE, Merged(0)), cu(<<1, 1>>, 2, FALSE, Merged(0)), cu(<<1, 1>>, 2, FALSE, Merged(1))}

PredictedUnits == WholeIntra \cup DividedIntra \cup ChromaIntra \cup DividedInter \cup WholeInter

-----------------------------------------------------------------------------
(* Sample adaptive offsets, and factors of chroma from luma.               *)

Bands(band, offsets) ==
  [type |-> SAO_TYPE_BO, band |-> band, offset |-> ByClass(OffsetClasses(SAO_TYPE_BO, band), offsets)]

Edges(type, sizes) == [type |-> type, band |-> 0, offset |-> EdgeOffsets(sizes)]

LumaOffsets ==
  {OffComponent} \cup {Bands(band, <<a, 0, -7, b>>) : band \in {0, 13, 30}, a \in {-1, 7}, b \in {0, 6}}
    \cup {Edges(type, <<a, 7, 0, b>>) : type \in 0..3, a \in {0, 7}, b \in {0, 6}}

(* The components Cb and Cr of a CTU: with one type, and one edge class. *)
ChromaOffsets ==
  { <<OffComponent, OffComponent>>, <<Bands(31, <<1, 0, 0, -1>>), Bands(2, <<0, 7, -7, 3>>)>>,
    <<Edges(2, <<0, 0, 7, 1>>), Edges(2, <<7, 6, 0, 0>>)>> }

SaoElement(params, v) == params @@ [kind |-> "sao", v |-> v]

Offsets ==
  LET params == [enabled : { <<TRUE, TRUE, TRUE>>, <<TRUE, FALSE, FALSE>>, <<FALSE, TRUE, TRUE>> },
                 leftAvail : BOOLEAN, aboveAvail : BOOLEAN, maxOffset : {7}]
      luma(p)   == IF ~p.enabled[1] THEN {OffComponent}
                   ELSE IF p.leftAvail \/ p.aboveAvail THEN {OffComponent, Edges(1, <<1, 0, 0, 0>>)}
                   ELSE LumaOffsets
      chroma(p) == IF p.enabled[2] THEN ChromaOffsets ELSE { <<OffComponent, OffComponent>> }
  IN UNION {{SaoElement(p, [merge |-> "none", components |-> <<y>> \o uv]) : y \in luma(p), uv \in chroma(p)}
              \cup {SaoElement(p, [merge |-> m, components |-> << >>]) :
                      m \in (IF p.leftAvail THEN {"left"} ELSE {}) \cup (IF p.aboveAvail THEN {"above"} ELSE {})} :
              p \in params}

Factors ==
  {e \in [kind : {"alpha"}, enabled : BOOLEAN, intra : BOOLEAN, chroma : {DM_CHROMA_IDX, Hor}, c : {1, 2},
          v : {-8, -4, -2, -1, 0, 1, 2, 4, 8}] : ~HasAlpha(e) => e.v = 0}

MCAlphabets ==
  << [elements |-> BasicElements, max |-> 3],
     [elements |-> CarryElements, max |-> 5],
     [elements |-> Blocks(4, 0, {"diag"}, {"intra"}, {}, Plain(CornerBlocks)), max |-> 1],
     [elements |-> EightBlocks, max |-> 1],
     [elements |-> ApartBlocks, max |-> 1],
     [elements |-> Trees, max |-> 1],
     [elements |-> TransformUnits, max |-> 1],
     [elements |-> PredictedUnits, max |-> 1],
     [elements |-> Offsets, max |-> 1],
     [elements |-> Factors, max |-> 1] >>
  \o [i \in DOMAIN Extensions |-> EscapingBlocks(Extensions[i])]

(* Ramps whose signs may be hidden, which are coded either way. *)
Ramp(k, h, v) == [p \in Cells(4) |-> k + h * p[1] + v * p[2]]

HidingBlocks ==
  LET ramps == {Ramp(k, h, v) : k \in -2..2, h \in -1..1, v \in -1..1}
  IN {e \in Blocks(4, 0, {"diag"}, {"intra"}, {"hiding"}, Plain({b \in ramps : HasCoefficient(b)})) :
        Legal(e)}

HidingAlphabets == << [elements |-> HidingBlocks, max |-> 1] >>

ResidualContexts ==
  ({"process"} \X {0, 1} \X {0, 1})
  \cup ({"lastX", "lastY"} \X {0} \X (0..5)) \cup ({"lastX", "lastY"} \X {1} \X (0..2))
  \cup ({"group"} \X {0, 1} \X {0, 1})
  \cup ({"sig"} \X {0} \X (0..20)) \cup ({"sig"} \X {1} \X (0..11))
  \cup ({"one"} \X (0..5) \X (0..3)) \cup ({"abs"} \X (0..5) \X {0})
  \cup ({"tskip", "rdpcm", "rdpcmDir"} \X {1} \X {0})
  \cup ({"split", "skip"} \X {0} \X (0..2)) \cup ({"dqp"} \X {0} \X {0, 1}) \cup {RootCbfContext}
  \cup ({"predMode", "intraPred", "chromaPred", "mergeFlag", "mergeIdx", "mvpIdx"} \X {0} \X {0})
  \cup ({"partSize"} \X {0} \X (0..3)) \cup ({"interDir"} \X {0} \X (0..4))
  \cup ({"ref", "mvd"} \X {0} \X {0, 1})
  \cup ({"saoMerge", "saoType"} \X {0} \X {0}) \cup ({"crossComponent"} \X {0} \X (0..9))
  \cup ({"subdiv"} \X {0} \X (1..2)) \cup ({"cbf"} \X {0, 1} \X (0..2))
=============================================================================
