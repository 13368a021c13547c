----------------------------- MODULE MCSliceData -----------------------------
(***************************************************************************)
(* Pictures of one tile, of rows one CTU wide, and of tiles of unequal     *)
(* widths and heights, with every pair of slice modes.                     *)
(***************************************************************************)
EXTENDS SliceData

Picture(w, h, columns, rows) == [width |-> w, height |-> h, columnEnds |-> columns, rowEnds |-> rows]

Pictures == {
  Picture(3, 3, <<3>>, <<3>>),
  Picture(3, 2, <<3>>, <<2>>),
  Picture(1, 3, <<1>>, <<3>>),
  Picture(4, 1, UniformEnds(4, 2), <<1>>),
  Picture(3, 2, <<1, 3>>, <<2>>),
  Picture(2, 3, <<2>>, UniformEnds(3, 2)),
  Picture(4, 3, <<2, 4>>, <<1, 3>>)}

Arguments(mode) == CASE mode = "ctus" -> 1..5 [] mode = "tiles" -> {1, 2} [] OTHER -> {1}

(* Where bytes are limited, every CTU may or may not be the last one. *)
PicturesFor(modes) ==
  IF "bytes" \in modes THEN {p \in Pictures : p.width * p.height <= 6} ELSE Pictures

MCLayouts == UNION {
  [picture : PicturesFor({m, s}), wavefronts : BOOLEAN, sliceMode : {m}, segmentMode : {s},
   sliceArgument : Arguments(m), segmentArgument : Arguments(s),
   palettes : {{0, 2, 3, 5, 6, 9}}] : m \in Modes, s \in Modes}
=============================================================================
