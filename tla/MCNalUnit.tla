----------------------------- MODULE MCNalUnit -----------------------------
(* NalUnit over every payload of at most five bytes that are 0, a byte an   *)
(* escape concerns (1, 3) or one it does not (4), and over payloads of four *)
(* pieces, a slice header and three substreams, with headers that make      *)
(* slice data, parameter sets, suffix SEI and the escape-prone first byte 0. *)
EXTENDS EntryPoints

MCHeaders == { [type |-> 0, layer |-> 0, tid |-> 0], [type |-> 19, layer |-> 0, tid |-> 0],
               [type |-> 2, layer |-> 0, tid |-> 6], [type |-> 34, layer |-> 0, tid |-> 0],
               [type |-> 40, layer |-> 32, tid |-> 1] }

Pieces == {<<4>>, <<0, 0, 1>>, <<0, 0, 0, 3>>}

MCPayloads == UNION {[1..n -> {0, 1, 3, 4}] : n \in 0..5}
                \cup {a \o b \o c \o d : a, b, c, d \in Pieces}

=============================================================================
