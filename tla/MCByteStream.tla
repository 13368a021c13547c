---------------------------- MODULE MCByteStream ----------------------------
(* ByteStream over NAL units that begin and end like start codes do: with   *)
(* a first byte 0, an escape at the end, zeros and ones inside.             *)
EXTENDS ByteStream

MCBodies == { <<0, 1>>, <<4, 1, 0, 0, 3>>, <<0, 3, 0, 0, 3, 1, 0, 1>> }
=============================================================================
