----------------------------- MODULE MCDecoding -----------------------------
(***************************************************************************)
(* Values for the constants of Decoding: decoded picture buffers of one    *)
(* and of three sub-layers, and ranges of picture order counts.  The other *)
(* constants are given by the configuration files.                         *)
(***************************************************************************)
EXTENDS Decoding

OneLayer(n) == [tid \in {0} |-> n]

(* sps_max_dec_pic_buffering and sps_max_num_reorder_pics. *)
Buffer3  == OneLayer(3)
Reorder1 == OneLayer(1)

(* Two sub-layers need two buffers and reorder by one, the third one more. *)
BufferOfThreeLayers  == [tid \in 0..2 |-> IF tid < 2 THEN 2 ELSE 3]
ReorderOfThreeLayers == [tid \in 0..2 |-> IF tid = 0 THEN 0 ELSE 1]

(* Ranges of POCs. *)
From0To2      == 0..2
From0To3      == 0..3
FromMinus1To4 == (-1)..4
FromMinus2To3 == (-2)..3
Sparse        == {0, 1, 2, 4, 7}
=============================================================================
