-------------------------------- MODULE Med --------------------------------
(***************************************************************************)
(* R-MED, the change this repository makes to HM: the transform of a       *)
(* residual block before it is coded.  Every coefficient off the first row *)
(* and column is predicted from its left, top and left-top neighbours by a *)
(* median edge detector; what may be coded in its place is the prediction  *)
(* minus the coefficient.  A block is a function of <<row, column>>.       *)
(***************************************************************************)
EXTENDS Integers, FiniteSetsExt

Cells(w) == (0..w - 1) \X (0..w - 1)

Interior(w) == (1..w - 1) \X (1..w - 1)

Lesser(a, b) == IF a <= b THEN a ELSE b

Greater(a, b) == IF a <= b THEN b ELSE a

Magnitude(n) == IF n < 0 THEN -n ELSE n

(* The three branches of the prediction. *)
Median(left, top, lefttop) ==
  IF lefttop >= Greater(left, top) THEN Lesser(left, top)
  ELSE IF lefttop <= Lesser(left, top) THEN Greater(left, top)
  ELSE left + top - lefttop

PredictionAt(b, p) ==
  Median(b[<<p[1], p[2] - 1>>], b[<<p[1] - 1, p[2]>>], b[<<p[1] - 1, p[2] - 1>>])

(* pcCoefReLT: every prediction is from the block's own coefficients. *)
Predicted(b, w) ==
  [p \in Cells(w) |-> IF p \in Interior(w) THEN PredictionAt(b, p) - b[p] ELSE b[p]]

(* A cell restored in place, from neighbours restored before it. *)
RestoreAt(u, p) == [u EXCEPT ![p] = PredictionAt(u, p) - u[p]]

RestoreRow(u, k, w) ==
  LET row[l \in 0..w - 1] == IF l = 0 THEN u ELSE RestoreAt(row[l - 1], <<k, l>>)
  IN row[w - 1]

Restored_AllAtOnce(c, w) ==
  [p \in Cells(w) |-> IF p \in Interior(w) THEN PredictionAt(c, p) - c[p] ELSE c[p]]

(* The decoder's pass, in raster order. *)
Restored(c, w) ==
  LET rows[k \in 0..w - 1] == IF k = 0 THEN c ELSE RestoreRow(rows[k - 1], k, w)
  IN rows[w - 1]

(* amp_hevc and amp_LT. *)
Amplitude(b, w) == MapThenSumSet(LAMBDA p : Magnitude(b[p]), Interior(w))

(* The encoder codes the prediction errors where they are smaller. *)
CodesPredicted(b, w) == Amplitude(Predicted(b, w), w) < Amplitude(b, w)
=============================================================================
