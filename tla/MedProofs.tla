----------------------------- MODULE MedProofs -----------------------------
(***************************************************************************)
(* What R-MED promises for blocks of every size and any coefficients: the  *)
(* decoder's pass undoes the encoder's, a block that has a coefficient     *)
(* keeps one, and the prediction errors need one more bit.                 *)
(***************************************************************************)
EXTENDS Med, FiniteSetTheorems, WellFoundedInduction, TLAPS

Block(w) == [Cells(w) -> Int]

-----------------------------------------------------------------------------
LEMMA NeighboursAreCells ==
  ASSUME NEW w \in Nat, NEW p \in Interior(w)
  PROVE  /\ p \in Cells(w)
         /\ p = <<p[1], p[2]>> /\ p[1] \in 1..w - 1 /\ p[2] \in 1..w - 1
         /\ <<p[1], p[2] - 1>> \in Cells(w)
         /\ <<p[1] - 1, p[2]>> \in Cells(w)
         /\ <<p[1] - 1, p[2] - 1>> \in Cells(w)
  BY DEF Cells, Interior

(* A prediction lies between two of its neighbours. *)
LEMMA MedianIsBetween ==
  ASSUME NEW left \in Int, NEW top \in Int, NEW lefttop \in Int
  PROVE  /\ Median(left, top, lefttop) \in Int
         /\ Lesser(left, top) <= Median(left, top, lefttop)
         /\ Median(left, top, lefttop) <= Greater(left, top)
  BY DEF Median, Lesser, Greater

LEMMA PredictedIsBlock ==
  ASSUME NEW w \in Nat, NEW b \in Block(w)
  PROVE  /\ Predicted(b, w) \in Block(w)
         /\ \A p \in Interior(w) : PredictionAt(b, p) \in Int
<1>1. ASSUME NEW p \in Interior(w) PROVE PredictionAt(b, p) \in Int
  <2>1. /\ b[<<p[1], p[2] - 1>>] \in Int
        /\ b[<<p[1] - 1, p[2]>>] \in Int
        /\ b[<<p[1] - 1, p[2] - 1>>] \in Int
    BY NeighboursAreCells DEF Block
  <2>. QED  BY <2>1, MedianIsBetween DEF PredictionAt
<1>2. ASSUME NEW p \in Cells(w)
      PROVE  (IF p \in Interior(w) THEN PredictionAt(b, p) - b[p] ELSE b[p]) \in Int
  BY <1>1 DEF Block
<1>. QED  BY <1>1, <1>2 DEF Predicted, Block

-----------------------------------------------------------------------------
(* The decoder's pass visits a cell after its neighbours, which are nearer *)
(* to the corner, so that the cells restored rightly are found by          *)
(* induction.  Stated without a predicate as parameter, induction over the *)
(* numbers says that a set of numbers that is not empty has a least one:   *)
(* of the cells that go wrong, one would be nearest to the corner.         *)
LEMMA LeastNat ==
  ASSUME NEW T \in SUBSET Nat, T # {}
  PROVE  \E n \in T : \A m \in T : n <= m
<1>. DEFINE Below(n) == 0..n - 1
            R == StrictSubsetOrdering(Nat)
            U == {Below(n) : n \in T}
<1>1. U \subseteq FiniteSubsetsOf(Nat) /\ U # {}
  <2>1. ASSUME NEW n \in Nat PROVE IsFiniteSet(Below(n)) /\ Below(n) \subseteq Nat
    BY FS_Interval
  <2>. QED  BY <2>1 DEF FiniteSubsetsOf
<1>2. PICK x \in U : \A y \in U : ~(<<y, x>> \in R)
  <2>1. IsWellFoundedOn(R, FiniteSubsetsOf(Nat))
    BY FS_StrictSubsetOrderingWellFounded
  <2>. HIDE DEF R, U
  <2>. QED  BY <1>1, <2>1, WFMin
<1>3. PICK n \in T : x = Below(n)
  OBVIOUS
<1>4. ASSUME NEW m \in T, m < n PROVE FALSE
  <2>1. Below(m) \subseteq Below(n) /\ n - 1 \in Below(n) /\ n - 1 \notin Below(m)
    BY <1>4
  <2>2. <<Below(m), x>> \in R
    BY <1>3, <2>1 DEF StrictSubsetOrdering
  <2>. QED  BY <1>2, <2>2
<1>. QED  BY <1>4

LEMMA FirstCell ==
  ASSUME NEW w \in Nat, NEW S \in SUBSET Cells(w), S # {}
  PROVE  \E p \in S : \A q \in S : p[1] + p[2] <= q[1] + q[2]
<1>. DEFINE T == {p[1] + p[2] : p \in S}
<1>1. T \subseteq Nat /\ T # {}
  BY DEF Cells
<1>2. PICK n \in T : \A m \in T : n <= m
  <2>. HIDE DEF T
  <2>. QED  BY <1>1, LeastNat
<1>. QED  BY <1>2

(* The neighbours are nearer to the corner. *)
LEMMA NeighboursAreNearer ==
  ASSUME NEW w \in Nat, NEW p \in Interior(w)
  PROVE  /\ p[1] \in Nat /\ p[2] \in Nat
         /\ <<p[1], p[2] - 1>>[1] + <<p[1], p[2] - 1>>[2] < p[1] + p[2]
         /\ <<p[1] - 1, p[2]>>[1] + <<p[1] - 1, p[2]>>[2] < p[1] + p[2]
         /\ <<p[1] - 1, p[2] - 1>>[1] + <<p[1] - 1, p[2] - 1>>[2] < p[1] + p[2]
  BY DEF Interior

-----------------------------------------------------------------------------
(* The decoder's pass after it has visited row k up to column l: the block *)
(* as far as it came, and the errors beyond.                               *)
Upto(b, w, k, l) ==
  [p \in Cells(w) |-> IF p[1] < k \/ (p[1] = k /\ p[2] <= l) THEN b[p]
                      ELSE Predicted(b, w)[p]]

(* The cells on the first row and column are their own errors. *)
LEMMA UptoFirst ==
  ASSUME NEW w \in Nat \ {0}, NEW b \in Block(w)
  PROVE  /\ Predicted(b, w) = Upto(b, w, 1, 0)
         /\ \A k \in 1..w - 1 : Upto(b, w, k, w - 1) = Upto(b, w, k + 1, 0)
<1>1. ASSUME NEW p \in Cells(w), p[1] = 0 \/ p[2] = 0
      PROVE  Predicted(b, w)[p] = b[p]
  <2>1. p \notin Interior(w)
    BY <1>1 DEF Interior
  <2>. QED  BY <2>1 DEF Predicted
<1>2. Predicted(b, w) = [p \in Cells(w) |-> Predicted(b, w)[p]]
  BY DEF Predicted
<1>3. ASSUME NEW p \in Cells(w)
      PROVE  p[1] \in 0..w - 1 /\ p[2] \in 0..w - 1
  BY DEF Cells
<1>4. Predicted(b, w) = Upto(b, w, 1, 0)
  <2>1. ASSUME NEW p \in Cells(w)
        PROVE  Predicted(b, w)[p] = IF p[1] < 1 \/ (p[1] = 1 /\ p[2] <= 0) THEN b[p]
                                    ELSE Predicted(b, w)[p]
    BY <1>1, <1>3
  <2>. QED  BY <1>2, <2>1 DEF Upto
<1>5. ASSUME NEW k \in 1..w - 1
      PROVE  Upto(b, w, k, w - 1) = Upto(b, w, k + 1, 0)
  <2>1. ASSUME NEW p \in Cells(w)
        PROVE  (IF p[1] < k \/ (p[1] = k /\ p[2] <= w - 1) THEN b[p]
                ELSE Predicted(b, w)[p])
             = (IF p[1] < k + 1 \/ (p[1] = k + 1 /\ p[2] <= 0) THEN b[p]
                ELSE Predicted(b, w)[p])
    BY <1>1, <1>3
  <2>. QED  BY <2>1 DEF Upto
<1>. QED  BY <1>4, <1>5

(* A cell is restored from neighbours that the pass has visited. *)
LEMMA CellRestored ==
  ASSUME NEW w \in Nat \ {0}, NEW b \in Block(w), NEW k \in 1..w - 1, NEW l \in 1..w - 1
  PROVE  RestoreAt(Upto(b, w, k, l - 1), <<k, l>>) = Upto(b, w, k, l)
<1>. DEFINE u == Upto(b, w, k, l - 1)
            q == <<k, l>>
<1>1. q \in Interior(w) /\ q \in Cells(w) /\ q[1] = k /\ q[2] = l
  BY DEF Interior, Cells
<1>2. PredictionAt(u, q) = PredictionAt(b, q)
  <2>. DEFINE left == <<k, l - 1>>
              top == <<k - 1, l>>
              lefttop == <<k - 1, l - 1>>
  <2>1. left \in Cells(w) /\ top \in Cells(w) /\ lefttop \in Cells(w)
    BY DEF Cells
  <2>2. u[left] = b[left] /\ u[top] = b[top] /\ u[lefttop] = b[lefttop]
    BY <2>1 DEF Upto
  <2>. QED  BY <2>2 DEF PredictionAt
<1>3. u[q] = PredictionAt(b, q) - b[q]
  BY <1>1 DEF Upto, Predicted
<1>4. PredictionAt(b, q) \in Int /\ b[q] \in Int
  BY <1>1, PredictedIsBlock DEF Block
<1>5. PredictionAt(u, q) - u[q] = b[q]
  BY <1>2, <1>3, <1>4
<1>6. RestoreAt(u, q) = [p \in Cells(w) |-> IF p = q THEN b[q] ELSE u[p]]
  BY <1>5 DEF RestoreAt, Upto
<1>7. ASSUME NEW p \in Cells(w)
      PROVE  (IF p = q THEN b[q] ELSE u[p])
             = IF p[1] < k \/ (p[1] = k /\ p[2] <= l) THEN b[p] ELSE Predicted(b, w)[p]
  <2>1. /\ p[1] \in Int /\ p[2] \in Int
        /\ p = q <=> p[1] = k /\ p[2] = l
    BY DEF Cells
  <2>2. u[p] = IF p[1] < k \/ (p[1] = k /\ p[2] <= l - 1) THEN b[p] ELSE Predicted(b, w)[p]
    BY DEF Upto
  <2>. QED  BY <2>1, <2>2
<1>. QED  BY <1>6, <1>7 DEF Upto

(* The columns of a row, one by one: what they leave is what the closed    *)
(* form says, or there would be a first column at which it is not.         *)
LEMMA RowRestored ==
  ASSUME NEW w \in Nat \ {0}, NEW b \in Block(w), NEW k \in 1..w - 1
  PROVE  RestoreRow(Upto(b, w, k, 0), k, w) = Upto(b, w, k + 1, 0)
<1>. DEFINE u == Upto(b, w, k, 0)
            Passes(f) == f = [l \in 0..w - 1 |-> IF l = 0 THEN u ELSE RestoreAt(f[l - 1], <<k, l>>)]
            row == CHOOSE f : Passes(f)
            closed == [l \in 0..w - 1 |-> Upto(b, w, k, l)]
            S == {l \in 0..w - 1 : row[l] # closed[l]}
<1>1. Passes(closed)
  <2>1. ASSUME NEW l \in 0..w - 1
        PROVE  Upto(b, w, k, l) = IF l = 0 THEN u ELSE RestoreAt(closed[l - 1], <<k, l>>)
    <3>1. CASE l = 0
      BY <3>1
    <3>2. CASE l # 0
      <4>1. l \in 1..w - 1 /\ l - 1 \in 0..w - 1
        BY <3>2
      <4>2. closed[l - 1] = Upto(b, w, k, l - 1)
        BY <4>1
      <4>. QED  BY <3>2, <4>1, <4>2, CellRestored
    <3>. QED  BY <3>1, <3>2
  <2>. QED  BY <2>1
<1>2. Passes(row)
  <2>. HIDE DEF closed, Passes
  <2>. QED  BY <1>1
<1>3. ASSUME S # {} PROVE FALSE
  <2>1. PICK l \in S : \A m \in S : l <= m
    <3>1. S \in SUBSET Nat /\ S # {}
      <4>. HIDE DEF row, closed
      <4>. QED  BY <1>3
    <3>. HIDE DEF S
    <3>. QED  BY <3>1, LeastNat
  <2>2. CASE l = 0
    BY <1>1, <1>2, <2>1, <2>2
  <2>3. CASE l # 0
    <3>1. l - 1 \in 0..w - 1 /\ l - 1 \notin S
      BY <2>1, <2>3
    <3>2. row[l - 1] = closed[l - 1]
      BY <3>1
    <3>3. row[l] = RestoreAt(row[l - 1], <<k, l>>)
      <4>. HIDE DEF row
      <4>. QED  BY <1>2, <2>1, <2>3
    <3>4. closed[l] = RestoreAt(closed[l - 1], <<k, l>>)
      <4>. HIDE DEF closed
      <4>. QED  BY <1>1, <2>1, <2>3
    <3>. QED  BY <2>1, <3>2, <3>3, <3>4
  <2>. QED  BY <2>2, <2>3
<1>4. row[w - 1] = Upto(b, w, k, w - 1)
  <2>1. closed[w - 1] = Upto(b, w, k, w - 1)
    OBVIOUS
  <2>2. row[w - 1] = closed[w - 1]
    <3>. HIDE DEF row, closed
    <3>. QED  BY <1>3
  <2>. QED  BY <2>1, <2>2
<1>5. RestoreRow(u, k, w) = row[w - 1]
  BY DEF RestoreRow
<1>. QED  BY <1>4, <1>5, UptoFirst

(* What TDecSbac::parseCoeffNxN() restores from the prediction errors of   *)
(* TEncSbac::codeCoeffNxN() is the block they were made of.                *)
THEOREM RestoredIsOriginal ==
  ASSUME NEW w \in Nat \ {0}, NEW b \in Block(w)
  PROVE  Restored(Predicted(b, w), w) = b
<1>. DEFINE c == Predicted(b, w)
            Passes(f) == f = [k \in 0..w - 1 |-> IF k = 0 THEN c ELSE RestoreRow(f[k - 1], k, w)]
            rows == CHOOSE f : Passes(f)
            closed == [k \in 0..w - 1 |-> Upto(b, w, k + 1, 0)]
            S == {k \in 0..w - 1 : rows[k] # closed[k]}
<1>1. Passes(closed)
  <2>1. ASSUME NEW k \in 0..w - 1
        PROVE  Upto(b, w, k + 1, 0) = IF k = 0 THEN c ELSE RestoreRow(closed[k - 1], k, w)
    <3>1. CASE k = 0
      BY <3>1, UptoFirst
    <3>2. CASE k # 0
      <4>1. k \in 1..w - 1 /\ k - 1 \in 0..w - 1 /\ (k - 1) + 1 = k
        BY <3>2
      <4>2. closed[k - 1] = Upto(b, w, k, 0)
        BY <4>1
      <4>. QED  BY <3>2, <4>1, <4>2, RowRestored
    <3>. QED  BY <3>1, <3>2
  <2>. QED  BY <2>1
<1>2. Passes(rows)
  <2>. HIDE DEF closed, Passes
  <2>. QED  BY <1>1
<1>3. ASSUME S # {} PROVE FALSE
  <2>1. PICK k \in S : \A m \in S : k <= m
    <3>1. S \in SUBSET Nat /\ S # {}
      <4>. HIDE DEF rows, closed
      <4>. QED  BY <1>3
    <3>. HIDE DEF S
    <3>. QED  BY <3>1, LeastNat
  <2>2. CASE k = 0
    BY <1>1, <1>2, <2>1, <2>2
  <2>3. CASE k # 0
    <3>1. k - 1 \in 0..w - 1 /\ k - 1 \notin S
      BY <2>1, <2>3
    <3>2. rows[k - 1] = closed[k - 1]
      BY <3>1
    <3>3. rows[k] = RestoreRow(rows[k - 1], k, w)
      <4>. HIDE DEF rows
      <4>. QED  BY <1>2, <2>1, <2>3
    <3>4. closed[k] = RestoreRow(closed[k - 1], k, w)
      <4>. HIDE DEF closed
      <4>. QED  BY <1>1, <2>1, <2>3
    <3>. QED  BY <2>1, <3>2, <3>3, <3>4
  <2>. QED  BY <2>2, <2>3
<1>4. rows[w - 1] = Upto(b, w, w, 0)
  <2>1. w - 1 \in 0..w - 1 /\ (w - 1) + 1 = w
    OBVIOUS
  <2>. QED  BY <1>3, <2>1
<1>5. Restored(c, w) = rows[w - 1]
  BY DEF Restored
<1>6. Upto(b, w, w, 0) = b
  <2>1. ASSUME NEW p \in Cells(w) PROVE p[1] < w
    BY DEF Cells
  <2>2. b = [p \in Cells(w) |-> b[p]]
    BY DEF Block
  <2>. QED  BY <2>1, <2>2 DEF Upto
<1>. QED  BY <1>4, <1>5, <1>6

(* A transform block with a coefficient has one after prediction: the      *)
(* encoder's test for an empty block cannot fail because of it.            *)
THEOREM NeverEmptied ==
  ASSUME NEW w \in Nat, NEW b \in Block(w), NEW q \in Cells(w), b[q] # 0
  PROVE  \E p \in Cells(w) : Predicted(b, w)[p] # 0
<1>. DEFINE S == {p \in Cells(w) : b[p] # 0}
<1>1. PICK p \in S : \A r \in S : p[1] + p[2] <= r[1] + r[2]
  BY FirstCell
<1>2. CASE p \in Interior(w)
  <2>1. PredictionAt(b, p) = 0
    <3>. DEFINE left == <<p[1], p[2] - 1>>
                top == <<p[1] - 1, p[2]>>
                lefttop == <<p[1] - 1, p[2] - 1>>
    <3>1. left \in Cells(w) /\ top \in Cells(w) /\ lefttop \in Cells(w)
      BY <1>2, NeighboursAreCells
    <3>2. left \notin S /\ top \notin S /\ lefttop \notin S
      BY <1>1, <1>2, NeighboursAreNearer
    <3>. QED  BY <3>1, <3>2 DEF PredictionAt, Median, Lesser, Greater
  <2>2. Predicted(b, w)[p] = 0 - b[p] /\ b[p] \in Int
    BY <1>2, <2>1 DEF Predicted, Block
  <2>. QED  BY <1>1, <2>2
<1>3. CASE p \notin Interior(w)
  BY <1>1, <1>3 DEF Predicted
<1>. QED  BY <1>2, <1>3

(* Coefficients within -m..m have prediction errors within -2m..2m: one    *)
(* bit more than the dynamic range the level binarisation may be told of.  *)
THEOREM OneBitMore ==
  ASSUME NEW w \in Nat, NEW m \in Nat, NEW b \in [Cells(w) -> -m..m],
         NEW p \in Cells(w)
  PROVE  Predicted(b, w)[p] \in -(2 * m)..2 * m
<1>1. CASE p \in Interior(w)
  <2>1. /\ b[<<p[1], p[2] - 1>>] \in -m..m
        /\ b[<<p[1] - 1, p[2]>>] \in -m..m
        /\ b[<<p[1] - 1, p[2] - 1>>] \in -m..m
    BY <1>1, NeighboursAreCells
  <2>2. PredictionAt(b, p) \in -m..m
    BY <2>1, MedianIsBetween DEF PredictionAt, Lesser, Greater
  <2>. QED  BY <1>1, <2>2 DEF Predicted
<1>2. CASE p \notin Interior(w)
  BY <1>2 DEF Predicted
<1>. QED  BY <1>1, <1>2
=============================================================================
