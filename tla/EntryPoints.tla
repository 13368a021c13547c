----------------------------- MODULE EntryPoints -----------------------------
(***************************************************************************)
(* The entry points of a slice segment: where its substreams begin.  The   *)
(* encoder sums up bytes and the escapes write() is going to insert before *)
(* it has written anything; the decoder has removed the escapes and knows  *)
(* where they were.  NalUnit carries the segment from one to the other.    *)
(*                                                                         *)
(* A segment's layout is the sequence of the ends, in the payload, of its  *)
(* header and of each of its substreams.                                   *)
(***************************************************************************)
EXTENDS NalUnit

(* The numbers of a finite set in increasing order, as the locations of    *)
(* escapes are kept.                                                       *)
Sorted(S) ==
  [k \in 1..Cardinality(S) |-> CHOOSE x \in S : Cardinality({y \in S : y < x}) = k - 1]

(* Header and substreams end in a one bit and alignment zeros.             *)
Layouts(p) ==
  {Sorted(ends) : ends \in
     {E \in SUBSET {i \in DOMAIN p : p[i] # 0} : Len(p) \in E /\ Cardinality(E) > 1}}

-----------------------------------------------------------------------------
(* The encoder.                                                            *)

(* addSubstreamSize(), for each substream but the last. *)
SubstreamSizes(p, ends) ==
  [i \in 1..Len(ends) - 2 |->
     LET substream == SubSeq(p, ends[i] + 1, ends[i + 1])
     IN Len(substream) + CountStartCodeEmulations(substream)]

(* The bits of the longest offset, at most 31 by an assert. *)
OffsetLen(sizes) ==
  CHOOSE n \in 1..31 :
    /\ \A i \in DOMAIN sizes : sizes[i] < 2 ^ n
    /\ n > 1 => \E i \in DOMAIN sizes : sizes[i] >= 2 ^ (n - 1)

(* codeTilesWPPEntryPoint() and the READ_CODE() that takes it back.        *)
EntryPointOffsets(sizes) ==
  [i \in DOMAIN sizes |-> ((sizes[i] - 1) % 2 ^ OffsetLen(sizes)) + 1]

-----------------------------------------------------------------------------
(* The decoder, which has removed the escapes at these locations.          *)

(* Mutant: the escapes inside the header are forgotten. *)
EndOfSliceHeaderLocation_InRbsp(end) == end

(* Where the header ends in the escaped unit. *)
EndOfSliceHeaderLocation(end) ==
  LET sorted == Sorted(locations)
      at[k \in 0..Cardinality(locations)] ==
        IF k = 0 THEN end ELSE at[k - 1] + IF sorted[k] < at[k - 1] THEN 1 ELSE 0
  IN at[Cardinality(locations)]

(* The sizes of the substreams without their escapes. *)
ReadSubstreamSizes(offsets, headerEnd) ==
  LET start == EndOfSliceHeaderLocation(headerEnd)
      upTo[i \in 0..Len(offsets)] == IF i = 0 THEN start ELSE upTo[i - 1] + offsets[i]
  IN [i \in DOMAIN offsets |->
        offsets[i] - Cardinality({l \in locations : upTo[i - 1] <= l /\ l < upTo[i]})]

-----------------------------------------------------------------------------
(* The decoder cuts the slice data exactly where the encoder joined the    *)
(* substreams, whatever has been escaped in the header, in a substream or  *)
(* at the end of one, and however many cabac_zero_words follow.            *)
SubstreamsFound ==
  phase = "done" /\ IsVcl(out[1]) =>
    \A ends \in Layouts(rbsp) :
      ReadSubstreamSizes(EntryPointOffsets(SubstreamSizes(rbsp, ends)),
                         Len(HeaderBytes(nalu)) + ends[1])
        = [i \in 1..Len(ends) - 2 |-> ends[i + 1] - ends[i]]
=============================================================================
