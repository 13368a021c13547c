---------------------------- MODULE NalUnitProofs ----------------------------
(***************************************************************************)
(* Proofs about NalUnit, for every header, payload and number of           *)
(* cabac_zero_words: what the encoder writes contains nothing a start code *)
(* is made of, the reader's asserts hold on it, the reader gives back what *)
(* was written, and the decoder finds the substreams of slice data.        *)
(***************************************************************************)
EXTENDS EntryPoints, SequenceTheorems, FiniteSetTheorems, WellFoundedInduction, TLAPS

EndsInEscape(s) ==
  Len(s) > 2 /\ s[Len(s) - 2] = 0 /\ s[Len(s) - 1] = 0 /\ s[Len(s)] = 3

EndsInZeros(s, count) ==
  /\ count = 0 => s[Len(s)] # 0
  /\ count = 1 => s[Len(s)] = 0 /\ s[Len(s) - 1] # 0
  /\ count = 2 => Len(s) > 2 /\ s[Len(s)] = 0 /\ s[Len(s) - 1] = 0

(* While writing, zeroCount counts the zero bytes out ends with, and the   *)
(* last three bytes are not 00 00 03, after which no byte may exceed 3.    *)
WriterInv ==
  /\ phase = "write" => EndsInZeros(out, zeroCount) /\ ~EndsInEscape(out)
  /\ phase = "pad" => zeroCount = 0

(* While reading, zeroCount zero bytes lie before rd.                      *)
ReaderInv ==
  phase = "read" => /\ zeroCount <= rd
                    /\ zeroCount >= 1 => out[rd] = 0
                    /\ zeroCount = 2 => out[rd - 1] = 0

(* The unit starts with its header, and so does what the reader copies.    *)
HeaderInv ==
  /\ out[1] = HeaderBytes(nalu)[1] /\ out[2] = HeaderBytes(nalu)[2]
  /\ phase \in {"write", "pad"} => rd = 0 /\ buf = << >>
  /\ phase = "read" => IF rd <= 2 THEN Len(buf) = rd ELSE Len(buf) >= 2
  /\ phase \in {"strip", "header", "done"} => Len(buf) >= 2
  /\ Len(buf) >= 1 => buf[1] = HeaderBytes(nalu)[1]
  /\ Len(buf) >= 2 => buf[2] = HeaderBytes(nalu)[2]

IInv == /\ TypeOK /\ NoStartCodeInside /\ NoTrailingZero /\ ReaderAccepts
        /\ WriterInv /\ ReaderInv /\ HeaderInv

-----------------------------------------------------------------------------
(* A byte is an integer. *)
LEMMA ByteLemma == Byte \subseteq Int
  BY DEF Byte

(* writeNalUnitHeader() writes two bytes, the second of which is not 0, and *)
(* readNalUnitHeader() recovers from them the header.                       *)
LEMMA HeaderBytesLemma ==
  ASSUME NEW h \in NALU
  PROVE  /\ HeaderBytes(h) \in Seq(Byte) /\ Len(HeaderBytes(h)) = 2
         /\ HeaderBytes(h)[1] < 128 /\ HeaderBytes(h)[2] # 0
         /\ (HeaderBytes(h)[1] \div 2) % 64 = h.type
         /\ (HeaderBytes(h)[1] % 2) * 32 + HeaderBytes(h)[2] \div 8 = h.layer
         /\ (HeaderBytes(h)[2] % 8) - 1 = h.tid
<1> DEFINE t == h.type
           l == h.layer
           d == h.tid
<1>1. t \in 0..63 /\ l \in 0..63 /\ d \in 0..6
  BY DEF NALU
<1>2. HeaderBytes(h) = << t * 2 + l \div 32, (l % 32) * 8 + d + 1 >>
  BY DEF HeaderBytes
<1> HIDE DEF t, l, d
<1>3. l \div 32 \in 0..1 /\ l % 32 \in 0..31 /\ l = 32 * (l \div 32) + (l % 32)
  BY <1>1
<1>4. t * 2 + l \div 32 \in 0..127 /\ (l % 32) * 8 + d + 1 \in 1..255
  BY <1>1, <1>3
<1>5. /\ ((t * 2 + l \div 32) \div 2) % 64 = t
      /\ (t * 2 + l \div 32) % 2 = l \div 32
  BY <1>1, <1>3
<1>6. /\ ((l % 32) * 8 + d + 1) \div 8 = l % 32
      /\ ((l % 32) * 8 + d + 1) % 8 = d + 1
  BY <1>1, <1>3
<1>7. HeaderBytes(h) \in Seq(Byte) /\ Len(HeaderBytes(h)) = 2
  BY <1>2, <1>4 DEF Byte
<1> QED
  BY <1>1, <1>2, <1>3, <1>4, <1>5, <1>6, <1>7 DEF t, l, d

(* A byte may be appended unless it completes a start code, or follows     *)
(* 00 00 03 and exceeds 3.                                                 *)
LEMMA AppendLemma ==
  ASSUME NEW s \in Seq(Byte), Len(s) >= 2, NoStartCodeIn(s), NEW v \in Byte,
         s[Len(s)] = 0 /\ s[Len(s) - 1] = 0 => v >= 3,
         EndsInEscape(s) => v <= 3
  PROVE  NoStartCodeIn(Append(s, v))
<1> DEFINE t == Append(s, v)
<1>1. Len(t) = Len(s) + 1 /\ t[Len(t)] = v /\ \A i \in 1..Len(s) : t[i] = s[i]
  OBVIOUS
<1> HIDE DEF t
<1> SUFFICES ASSUME NEW i \in 1..Len(t) - 2, t[i] = 0, t[i + 1] = 0
             PROVE  t[i + 2] >= 3 /\ (t[i + 2] = 3 /\ i + 3 <= Len(t) => t[i + 3] <= 3)
  BY DEF NoStartCodeIn, t
<1>2. Len(s) \in Nat /\ v \in 0..255
  BY DEF Byte
<1>3. s[i] = 0 /\ s[i + 1] = 0
  BY <1>1, <1>2
<1>4. CASE i = Len(s) - 1
  BY <1>1, <1>2, <1>3, <1>4
<1>5. CASE i = Len(s) - 2
  BY <1>1, <1>2, <1>3, <1>5 DEF NoStartCodeIn, EndsInEscape
<1>6. CASE i < Len(s) - 2
  <2>1. i \in 1..Len(s) - 2 /\ i + 2 \in 1..Len(s) /\ i + 3 \in 1..Len(s)
    BY <1>1, <1>2, <1>6
  <2>2. t[i + 2] = s[i + 2] /\ t[i + 3] = s[i + 3]
    BY <1>1, <2>1
  <2>3. s[i + 2] >= 3 /\ (s[i + 2] = 3 /\ i + 3 <= Len(s) => s[i + 3] <= 3)
    BY <1>3, <2>1 DEF NoStartCodeIn
  <2> QED
    BY <1>2, <2>1, <2>2, <2>3
<1> QED
  BY <1>1, <1>2, <1>4, <1>5, <1>6

(* The facts about IInv, its types and the header that every step needs.   *)
LEMMA TypesLemma ==
  ASSUME IInv
  PROVE  /\ nalu \in NALU /\ rbsp \in Seq(Byte) /\ Len(rbsp) \in Nat
         /\ out \in Seq(Byte) /\ Len(out) \in Nat /\ Len(out) >= 2
         /\ it \in Nat /\ it <= Len(rbsp) /\ zeroCount \in 0..2 /\ words \in Nat
         /\ rd \in Nat /\ rd <= Len(out) /\ buf \in Seq(Byte) /\ Len(buf) \in Nat
         /\ out[1] = HeaderBytes(nalu)[1] /\ out[2] = HeaderBytes(nalu)[2]
         /\ out[2] # 0
<1>1. nalu \in NALU
  BY HeadersAssumption DEF IInv, TypeOK
<1>2. HeaderBytes(nalu)[2] # 0
  BY <1>1, HeaderBytesLemma
<1> QED
  BY <1>1, <1>2, MaxWordsAssumption DEF IInv, TypeOK, HeaderInv

(* An iteration of the writer's loop. *)
LEMMA WriteByteLemma ==
  ASSUME IInv, WriteByte
  PROVE  IInv'
<1> DEFINE v == rbsp[it + 1]
           mid == Append(out, 3)
<1>1. /\ phase = "write" /\ phase' = "write" /\ v \in Byte /\ it' \in 0..Len(rbsp)
      /\ UNCHANGED <<nalu, rbsp, words, rd, buf, locations>>
  BY DEF WriteByte, IInv, TypeOK
<1>2. /\ out \in Seq(Byte) /\ Len(out) >= 2 /\ NoStartCodeIn(out) /\ zeroCount \in 0..2
      /\ EndsInZeros(out, zeroCount) /\ ~EndsInEscape(out)
  BY <1>1 DEF IInv, TypeOK, NoStartCodeInside, WriterInv
<1>v. v \in 0..255
  BY <1>1 DEF Byte
<1>3. /\ out' \in Seq(Byte) /\ Len(out') > Len(out) /\ out'[1] = out[1] /\ out'[2] = out[2]
      /\ NoStartCodeIn(out') /\ zeroCount' \in 0..2
      /\ EndsInZeros(out', zeroCount') /\ ~EndsInEscape(out')
      /\ escapes' \subseteq Nat
  <2>1. CASE MustEscape(zeroCount, v)
    <3>1. zeroCount = 2 /\ v \in 0..3
      BY <1>v, <2>1 DEF MustEscape
    <3>2. /\ out' = Append(mid, v) /\ zeroCount' = NextZeroCount(0, v)
          /\ escapes' = escapes \cup {Len(out)}
      BY <1>1, <1>2, <2>1 DEF WriteByte, EmulationPreventionByte
    <3>3. /\ mid \in Seq(Byte) /\ Len(mid) = Len(out) + 1
          /\ mid[Len(mid)] = 3 /\ \A i \in 1..Len(out) : mid[i] = out[i]
      BY <1>2 DEF Byte
    <3>4. NoStartCodeIn(mid)
      BY <1>2, AppendLemma DEF Byte
    <3> HIDE DEF mid, v
    <3>5. NoStartCodeIn(out')
      BY <1>1, <1>2, <3>1, <3>2, <3>3, <3>4, AppendLemma
    <3>6. /\ out' \in Seq(Byte) /\ Len(out') = Len(out) + 2
          /\ out'[Len(out')] = v /\ out'[Len(out') - 1] = 3
          /\ \A i \in 1..Len(out) : out'[i] = out[i]
      BY <1>1, <1>2, <3>2, <3>3
    <3>7. zeroCount' = IF v = 0 THEN 1 ELSE 0
      BY <3>2 DEF NextZeroCount
    <3>8. EndsInZeros(out', zeroCount') /\ ~EndsInEscape(out')
      BY <1>2, <3>6, <3>7 DEF EndsInZeros, EndsInEscape
    <3>9. escapes' \subseteq Nat
      <4>1. Len(out) \in Nat /\ escapes \subseteq Nat
        BY <1>2 DEF IInv, TypeOK
      <4> QED
        BY <3>2, <4>1, Zenon
    <3> QED
      BY <1>2, <3>5, <3>6, <3>7, <3>8, <3>9
  <2>2. CASE ~MustEscape(zeroCount, v)
    <3>1. /\ out' = Append(out, v) /\ zeroCount' = NextZeroCount(zeroCount, v)
          /\ escapes' = escapes
      BY <1>1, <1>2, <2>2 DEF WriteByte
    <3> HIDE DEF v
    <3>2. zeroCount = 2 => v > 3
      BY <1>2, <1>v, <2>2 DEF MustEscape
    <3>z. out[Len(out)] = 0 /\ out[Len(out) - 1] = 0 => zeroCount = 2
      BY <1>2 DEF EndsInZeros
    <3>3. NoStartCodeIn(out')
      BY <1>1, <1>2, <1>v, <3>1, <3>2, <3>z, AppendLemma
    <3>4. /\ out' \in Seq(Byte) /\ Len(out') = Len(out) + 1 /\ out'[Len(out')] = v
          /\ \A i \in 1..Len(out) : out'[i] = out[i]
      BY <1>1, <1>2, <3>1
    <3>5. zeroCount' = (IF v = 0 THEN zeroCount + 1 ELSE 0) /\ zeroCount' \in 0..2
      BY <1>2, <1>v, <3>1, <3>2 DEF NextZeroCount
    <3>6. EndsInZeros(out', zeroCount') /\ ~EndsInEscape(out')
      BY <1>2, <1>v, <3>2, <3>4, <3>5 DEF EndsInZeros, EndsInEscape
    <3>7. escapes' \subseteq Nat
      BY <3>1 DEF IInv, TypeOK
    <3> QED
      BY <1>2, <3>3, <3>4, <3>5, <3>6, <3>7
  <2> QED
    BY <2>1, <2>2
<1>4. TypeOK'
  BY <1>1, <1>3 DEF IInv, TypeOK, HeaderInv
<1>5. (NoStartCodeInside /\ NoTrailingZero /\ ReaderAccepts)'
  BY <1>1, <1>3 DEF NoStartCodeInside, NoTrailingZero, ReaderAccepts
<1>6. (WriterInv /\ ReaderInv /\ HeaderInv)'
  BY <1>1, <1>3 DEF WriterInv, ReaderInv, HeaderInv, IInv
<1> QED
  BY <1>4, <1>5, <1>6 DEF IInv

(* The final escape; the padding begins. *)
LEMMA WriteEndLemma ==
  ASSUME IInv, WriteEnd
  PROVE  IInv'
<1>1. /\ phase = "write" /\ phase' = "pad" /\ zeroCount' = 0 /\ rd = 0 /\ buf = << >>
      /\ UNCHANGED <<nalu, rbsp, it, words, rd, buf, locations>>
  BY DEF WriteEnd, IInv, HeaderInv
<1>2. /\ out \in Seq(Byte) /\ Len(out) >= 2 /\ NoStartCodeIn(out) /\ zeroCount \in 0..2
      /\ EndsInZeros(out, zeroCount) /\ ~EndsInEscape(out)
  BY <1>1 DEF IInv, TypeOK, NoStartCodeInside, WriterInv
<1>3. /\ out' \in Seq(Byte) /\ Len(out') >= Len(out) /\ out'[1] = out[1] /\ out'[2] = out[2]
      /\ NoStartCodeIn(out') /\ out'[Len(out')] # 0
      /\ escapes' \subseteq Nat
  <2>1. CASE zeroCount > 0
    <3>1. out' = Append(out, 3) /\ escapes' = escapes \cup {Len(out)}
      BY <2>1 DEF WriteEnd, MustEndWithEscape, EmulationPreventionByte
    <3>2. NoStartCodeIn(out')
      BY <1>2, <3>1, AppendLemma DEF Byte
    <3>3. Len(out) \in Nat /\ escapes \subseteq Nat /\ 3 \in Byte
      BY <1>2 DEF IInv, TypeOK, Byte
    <3>4. /\ out' \in Seq(Byte) /\ Len(out') = Len(out) + 1 /\ out'[Len(out')] = 3
          /\ out'[1] = out[1] /\ out'[2] = out[2]
      BY <1>2, <3>1, <3>3
    <3>5. escapes' \subseteq Nat
      BY <3>1, <3>3, Zenon
    <3> QED
      BY <3>2, <3>3, <3>4, <3>5
  <2>2. CASE zeroCount = 0
    <3>1. out' = out /\ escapes' = escapes
      BY <2>2 DEF WriteEnd, MustEndWithEscape
    <3> QED
      BY <1>2, <2>2, <3>1 DEF EndsInZeros, IInv, TypeOK
  <2> QED
    BY <1>2, <2>1, <2>2
<1>4. TypeOK'
  BY <1>1, <1>2, <1>3 DEF IInv, TypeOK, Phases
<1>5. (NoStartCodeInside /\ NoTrailingZero /\ ReaderAccepts)'
  BY <1>1, <1>3 DEF NoStartCodeInside, NoTrailingZero, ReaderAccepts
<1>6. (WriterInv /\ ReaderInv /\ HeaderInv)'
  BY <1>1, <1>3 DEF WriterInv, ReaderInv, HeaderInv, IInv
<1> QED
  BY <1>4, <1>5, <1>6 DEF IInv

(* A cabac_zero_word behind a unit that does not end in 0 makes no start   *)
(* code, and ends in 03 itself.                                            *)
LEMMA PadWordLemma ==
  ASSUME IInv, PadWord
  PROVE  IInv'
<1> DEFINE one == Append(out, 0)
           two == Append(one, 0)
<1>1. /\ phase = "pad" /\ phase' = "pad" /\ rd = 0 /\ buf = << >>
      /\ words' = words + 1 /\ words < MaxWords
      /\ escapes' = escapes \cup {Len(out) + 2}
      /\ UNCHANGED <<nalu, rbsp, it, zeroCount, rd, buf, locations>>
  BY DEF PadWord, IInv, HeaderInv
<1>2. /\ out \in Seq(Byte) /\ Len(out) \in Nat /\ Len(out) >= 2 /\ NoStartCodeIn(out)
      /\ out[Len(out)] # 0
  BY <1>1 DEF IInv, TypeOK, NoStartCodeInside, NoTrailingZero
<1>3. 0 \in Byte /\ 3 \in Byte
  BY DEF Byte
<1>4. /\ one \in Seq(Byte) /\ Len(one) = Len(out) + 1 /\ one[Len(one)] = 0
      /\ \A i \in 1..Len(out) : one[i] = out[i]
  BY <1>2, <1>3
<1>5. NoStartCodeIn(one)
  BY <1>2, <1>3, AppendLemma
<1> HIDE DEF one
<1>6. /\ two \in Seq(Byte) /\ Len(two) = Len(out) + 2 /\ two[Len(two)] = 0
      /\ \A i \in 1..Len(one) : two[i] = one[i]
  BY <1>2, <1>3, <1>4
<1>7. NoStartCodeIn(two)
  BY <1>2, <1>3, <1>4, <1>5, AppendLemma DEF EndsInEscape
<1> HIDE DEF two
<1>8. out' = Append(two, 3)
  BY <1>2 DEF PadWord, CabacZeroWord, EmulationPreventionByte, one, two
<1>9. NoStartCodeIn(out')
  BY <1>2, <1>3, <1>6, <1>7, <1>8, AppendLemma DEF EndsInEscape
<1>10. /\ out' \in Seq(Byte) /\ Len(out') >= 2 /\ out'[Len(out')] # 0
       /\ out'[1] = out[1] /\ out'[2] = out[2]
  <2>1. /\ out' \in Seq(Byte) /\ Len(out') = Len(two) + 1 /\ out'[Len(two) + 1] = 3
        /\ \A i \in 1..Len(two) : out'[i] = two[i]
    BY <1>3, <1>6, <1>8
  <2>2. 1 \in 1..Len(out) /\ 2 \in 1..Len(out)
    BY <1>2
  <2> QED
    BY <1>2, <1>4, <1>6, <2>1, <2>2
<1>11. escapes' \subseteq Nat
  <2>1. Len(out) + 2 \in Nat /\ escapes \subseteq Nat
    BY <1>2 DEF IInv, TypeOK
  <2> QED
    BY <1>1, <2>1, Zenon
<1>12. TypeOK'
  BY <1>1, <1>10, <1>11, MaxWordsAssumption DEF IInv, TypeOK
<1>13. (NoStartCodeInside /\ NoTrailingZero /\ ReaderAccepts)'
  BY <1>1, <1>9, <1>10 DEF NoStartCodeInside, NoTrailingZero, ReaderAccepts
<1>14. (WriterInv /\ ReaderInv /\ HeaderInv)'
  BY <1>1, <1>10 DEF WriterInv, ReaderInv, HeaderInv, IInv
<1> QED
  BY <1>12, <1>13, <1>14 DEF IInv

(* The reader begins. *)
LEMMA EndPaddingLemma ==
  ASSUME IInv, EndPadding
  PROVE  IInv'
<1>1. /\ phase = "pad" /\ phase' = "read" /\ rd = 0 /\ buf = << >> /\ zeroCount \in 0..2
      /\ UNCHANGED <<nalu, rbsp, it, zeroCount, out, escapes, words, rd, buf, locations>>
  BY DEF EndPadding, IInv, HeaderInv, TypeOK
<1>2. zeroCount = 0
  BY <1>1 DEF IInv, WriterInv
<1>3. TypeOK'
  BY <1>1 DEF IInv, TypeOK, Phases
<1>4. (NoStartCodeInside /\ NoTrailingZero /\ ReaderAccepts)'
  BY <1>1 DEF IInv, NoStartCodeInside, NoTrailingZero, ReaderAccepts
<1>5. (WriterInv /\ ReaderInv /\ HeaderInv)'
  BY <1>1, <1>2 DEF WriterInv, ReaderInv, HeaderInv, IInv
<1> QED
  BY <1>3, <1>4, <1>5 DEF IInv

(* Facts about the byte the reader meets: two zeros before it rule out     *)
(* 0, 1 and 2, and a 3 is then followed by a byte of at most 3.            *)
LEMMA NextByteLemma ==
  ASSUME IInv, phase = "read", rd < Len(out)
  PROVE  /\ ~IllegalByte(zeroCount, out[rd + 1])
         /\ IsEscape(zeroCount, out[rd + 1]) => rd > 2
         /\ IsEscape(zeroCount, out[rd + 1]) /\ rd + 1 # Len(out) => out[rd + 2] <= 3
<1>1. /\ out \in Seq(Byte) /\ rd \in Nat /\ Len(out) \in Nat /\ zeroCount \in 0..2
      /\ NoStartCodeIn(out) /\ out[2] # 0
  <2>1. nalu \in NALU
    BY HeadersAssumption DEF IInv, TypeOK
  <2> QED
    BY <2>1, HeaderBytesLemma DEF IInv, TypeOK, HeaderInv, NoStartCodeInside
<1>2. CASE zeroCount = 2
  <2>1. rd >= 2 /\ out[rd] = 0 /\ out[rd - 1] = 0
    BY <1>1, <1>2 DEF IInv, ReaderInv
  <2>2. rd > 2
    BY <1>1, <2>1
  <2> DEFINE i == rd - 1
  <2>3. i \in 1..Len(out) - 2 /\ out[i] = 0 /\ out[i + 1] = 0
    BY <1>1, <2>1
  <2>4. out[i + 2] >= 3 /\ (out[i + 2] = 3 /\ i + 3 <= Len(out) => out[i + 3] <= 3)
    BY <1>1, <2>3 DEF NoStartCodeIn
  <2>5. i + 2 = rd + 1 /\ i + 3 = rd + 2
    BY <1>1
  <2>6. out[rd + 1] \in Byte
    BY <1>1
  <2> HIDE DEF i
  <2>7. out[rd + 1] >= 3 /\ (out[rd + 1] = 3 /\ rd + 2 <= Len(out) => out[rd + 2] <= 3)
    BY <2>4, <2>5
  <2>8. out[rd + 1] \in Int
    BY <2>6, ByteLemma
  <2>9. ~IllegalByte(zeroCount, out[rd + 1])
    BY <2>7, <2>8 DEF IllegalByte
  <2> QED
    BY <1>1, <2>2, <2>7, <2>9 DEF IsEscape, EmulationPreventionByte
<1>3. CASE zeroCount < 2
  BY <1>1, <1>3 DEF IllegalByte, IsEscape
<1> QED
  BY <1>1, <1>2, <1>3

(* What an iteration of the reader's loop does: none of its asserts fires.  *)
LEMMA ReadByteStep ==
  ASSUME IInv, ReadByte
  PROVE  LET escape == IsEscape(zeroCount, out[rd + 1])
             last   == escape /\ rd + 1 = Len(out)
             src    == IF escape THEN rd + 2 ELSE rd + 1
         IN /\ phase = "read" /\ rd < Len(out) /\ ~IllegalByte(zeroCount, out[rd + 1])
            /\ locations' = IF escape THEN locations \cup {rd} ELSE locations
            /\ rd' = IF last THEN rd + 1 ELSE src
            /\ zeroCount' = IF last THEN 0
                            ELSE NextZeroCount(IF escape THEN 0 ELSE zeroCount, out[src])
            /\ buf' = IF last THEN buf ELSE Append(buf, out[src])
            /\ UNCHANGED <<phase, nalu, rbsp, it, out, escapes, words>>
<1> DEFINE escape == IsEscape(zeroCount, out[rd + 1])
           last   == escape /\ rd + 1 = Len(out)
           src    == IF escape THEN rd + 2 ELSE rd + 1
<1>1. phase = "read" /\ rd < Len(out)
  BY DEF ReadByte
<1>2. ~IllegalByte(zeroCount, out[rd + 1])
  BY <1>1, NextByteLemma
<1>3. ASSUME escape, ~last PROVE ~(out[src] > 3)
  <2>1. src \in 1..Len(out)
    BY <1>1, <1>3, TypesLemma
  <2>2. out[src] \in Byte /\ out[src] <= 3
    BY <1>1, <1>3, <2>1, NextByteLemma, TypesLemma
  <2>3. out[src] \in Int
    BY <2>2, ByteLemma
  <2> QED
    BY <2>2, <2>3
<1> QED
  BY <1>1, <1>2, <1>3 DEF ReadByte

(* An iteration of the reader's loop. *)
LEMMA ReadByteLemma ==
  ASSUME IInv, ReadByte
  PROVE  IInv'
<1> DEFINE b      == out[rd + 1]
           escape == IsEscape(zeroCount, b)
           last   == escape /\ rd + 1 = Len(out)
           src    == IF escape THEN rd + 2 ELSE rd + 1
<1>1. /\ phase = "read" /\ rd < Len(out)
      /\ out \in Seq(Byte) /\ rd \in Nat /\ Len(out) \in Nat /\ Len(out) >= 2
      /\ zeroCount \in 0..2 /\ buf \in Seq(Byte) /\ locations \subseteq Nat
      /\ out[1] = HeaderBytes(nalu)[1] /\ out[2] = HeaderBytes(nalu)[2]
  BY DEF ReadByte, IInv, TypeOK, HeaderInv
<1>2. /\ ~IllegalByte(zeroCount, b)
      /\ escape => rd > 2
      /\ escape /\ ~last => out[src] <= 3
  BY <1>1, NextByteLemma
<1>3. /\ locations' = IF escape THEN locations \cup {rd} ELSE locations
      /\ rd' = IF last THEN rd + 1 ELSE src
      /\ zeroCount' = IF last THEN 0
                      ELSE NextZeroCount(IF escape THEN 0 ELSE zeroCount, out[src])
      /\ buf' = IF last THEN buf ELSE Append(buf, out[src])
      /\ UNCHANGED <<phase, nalu, rbsp, it, out, escapes, words>>
  BY ReadByteStep
<1>4. locations' \subseteq Nat
  BY <1>1, <1>3
<1>5. /\ rd' \in 0..Len(out) /\ zeroCount' \in 0..2 /\ buf' \in Seq(Byte)
      /\ zeroCount' <= rd'
      /\ zeroCount' >= 1 => out[rd'] = 0
      /\ zeroCount' = 2 => out[rd' - 1] = 0
      /\ IF rd' <= 2 THEN Len(buf') = rd' ELSE Len(buf') >= 2
      /\ Len(buf') >= 1 => buf'[1] = out[1]
      /\ Len(buf') >= 2 => buf'[2] = out[2]
  <2>0. /\ IF rd <= 2 THEN Len(buf) = rd ELSE Len(buf) >= 2
        /\ Len(buf) >= 1 => buf[1] = out[1]
        /\ Len(buf) >= 2 => buf[2] = out[2]
        /\ zeroCount <= rd
        /\ zeroCount >= 1 => out[rd] = 0
        /\ zeroCount = 2 => out[rd - 1] = 0
    BY <1>1 DEF IInv, HeaderInv, ReaderInv
  <2>1. CASE last
    <3>1. rd' = rd + 1 /\ zeroCount' = 0 /\ buf' = buf
      BY <1>3, <2>1
    <3> QED
      BY <1>1, <1>2, <2>0, <2>1, <3>1
  <2>2. CASE escape /\ ~last
    <3>1. /\ rd' = rd + 2 /\ buf' = Append(buf, out[rd + 2])
          /\ zeroCount' = IF out[rd + 2] = 0 THEN 1 ELSE 0
      BY <1>3, <2>2 DEF NextZeroCount
    <3>2. out[rd + 2] \in Byte /\ rd + 2 \in 0..Len(out)
      BY <1>1, <2>2
    <3> HIDE DEF escape, last
    <3> QED
      BY <1>1, <1>2, <2>0, <2>2, <3>1, <3>2
  <2>3. CASE ~escape
    <3>1. /\ rd' = rd + 1 /\ buf' = Append(buf, b)
          /\ zeroCount' = IF b = 0 THEN zeroCount + 1 ELSE 0
      BY <1>3, <2>3 DEF NextZeroCount
    <3>2. b \in Byte /\ (b = 0 => zeroCount < 2)
      BY <1>1, <1>2 DEF IllegalByte, Byte
    <3>3. /\ Len(buf') = Len(buf) + 1 /\ buf' \in Seq(Byte) /\ buf'[Len(buf) + 1] = out[rd + 1]
          /\ \A i \in 1..Len(buf) : buf'[i] = buf[i]
      BY <1>1, <3>1, <3>2
    <3> HIDE DEF escape, last
    <3> QED
      BY <1>1, <2>0, <3>1, <3>2, <3>3
  <2> QED
    BY <2>1, <2>2, <2>3
<1>6. TypeOK'
  BY <1>3, <1>4, <1>5 DEF IInv, TypeOK
<1>7. (NoStartCodeInside /\ NoTrailingZero /\ ReaderAccepts)'
  BY <1>3 DEF IInv, NoStartCodeInside, NoTrailingZero, ReaderAccepts
<1>8. (WriterInv /\ ReaderInv /\ HeaderInv)'
  BY <1>1, <1>3, <1>5 DEF WriterInv, ReaderInv, HeaderInv, IInv
<1> QED
  BY <1>6, <1>7, <1>8 DEF IInv

(* The loop is over: no zero is pending, as the last byte is not 0. *)
LEMMA ReadEndLemma ==
  ASSUME IInv, ReadEnd
  PROVE  IInv'
<1>1. /\ phase = "read" /\ rd = Len(out) /\ zeroCount \in 0..2
      /\ Len(out) >= 2 /\ Len(out) \in Nat /\ out[Len(out)] # 0
  BY DEF ReadEnd, IInv, TypeOK, NoTrailingZero
<1>2. zeroCount = 0
  BY <1>1 DEF IInv, ReaderInv
<1>3. /\ phase' \in {"strip", "header"}
      /\ UNCHANGED <<nalu, rbsp, it, zeroCount, out, escapes, words, rd, buf, locations>>
  BY <1>2 DEF ReadEnd
<1>4. Len(buf) >= 2
  BY <1>1 DEF IInv, HeaderInv, TypeOK
<1>5. TypeOK'
  BY <1>3 DEF IInv, TypeOK, Phases
<1>6. (NoStartCodeInside /\ NoTrailingZero /\ ReaderAccepts)'
  BY <1>1, <1>3 DEF IInv, NoStartCodeInside, NoTrailingZero, ReaderAccepts
<1>7. (WriterInv /\ ReaderInv /\ HeaderInv)'
  BY <1>3, <1>4 DEF WriterInv, ReaderInv, HeaderInv, IInv
<1> QED
  BY <1>5, <1>6, <1>7 DEF IInv

(* The cabac_zero_words go, but never the header, whose second byte is not 0. *)
LEMMA StripZeroLemma ==
  ASSUME IInv, StripZero
  PROVE  IInv'
<1>1. /\ phase = "strip" /\ phase' \in {"strip", "header"}
      /\ UNCHANGED <<nalu, rbsp, it, zeroCount, out, escapes, words, rd, locations>>
  BY DEF StripZero
<1>2. buf \in Seq(Byte) /\ Len(buf) >= 2 /\ buf[1] = out[1] /\ buf[2] = out[2] /\ out[2] # 0
  <2>1. nalu \in NALU
    BY HeadersAssumption DEF IInv, TypeOK
  <2> QED
    BY <1>1, <2>1, HeaderBytesLemma DEF IInv, TypeOK, HeaderInv
<1>3. buf' \in Seq(Byte) /\ Len(buf') >= 2 /\ buf'[1] = buf[1] /\ buf'[2] = buf[2]
  <2>1. CASE buf[Len(buf)] = 0
    <3>1. buf' = SubSeq(buf, 1, Len(buf) - 1) /\ Len(buf) > 2
      BY <1>2, <2>1 DEF StripZero
    <3> QED
      BY <1>2, <3>1
  <2>2. CASE buf[Len(buf)] # 0
    BY <1>2, <2>2 DEF StripZero
  <2> QED
    BY <2>1, <2>2
<1>4. TypeOK'
  BY <1>1, <1>3 DEF IInv, TypeOK, Phases
<1>5. (NoStartCodeInside /\ NoTrailingZero /\ ReaderAccepts)'
  BY <1>1 DEF IInv, NoStartCodeInside, NoTrailingZero, ReaderAccepts
<1>6. (WriterInv /\ ReaderInv /\ HeaderInv)'
  BY <1>1, <1>2, <1>3 DEF WriterInv, ReaderInv, HeaderInv, IInv
<1> QED
  BY <1>4, <1>5, <1>6 DEF IInv

(* The header is the one that was written, which is legal. *)
LEMMA ReadNalUnitHeaderLemma ==
  ASSUME IInv, ReadNalUnitHeader
  PROVE  IInv'
<1>1. phase = "header" /\ nalu \in Headers /\ nalu \in NALU
  BY HeadersAssumption DEF ReadNalUnitHeader, IInv, TypeOK
<1>2. buf[1] = HeaderBytes(nalu)[1] /\ buf[2] = HeaderBytes(nalu)[2]
  BY <1>1 DEF IInv, HeaderInv, TypeOK
<1>3. buf[1] < 128 /\ ReadHeaderFields = nalu
  BY <1>1, <1>2, HeaderBytesLemma DEF ReadHeaderFields, NALU
<1>4. HeaderBytes(nalu)[1] \in Byte
  BY <1>1, HeaderBytesLemma
<1>5. /\ phase' = "done"
      /\ UNCHANGED <<nalu, rbsp, it, zeroCount, out, escapes, words, rd, buf, locations>>
  BY <1>1, <1>2, <1>3, <1>4, LegalHeadersAssumption DEF ReadNalUnitHeader, Byte
<1>6. TypeOK'
  BY <1>5 DEF IInv, TypeOK, Phases
<1>7. (NoStartCodeInside /\ NoTrailingZero /\ ReaderAccepts)'
  BY <1>1, <1>5 DEF IInv, NoStartCodeInside, NoTrailingZero, ReaderAccepts
<1>8. (WriterInv /\ ReaderInv /\ HeaderInv)'
  BY <1>1, <1>5 DEF WriterInv, ReaderInv, HeaderInv, IInv
<1> QED
  BY <1>6, <1>7, <1>8 DEF IInv

-----------------------------------------------------------------------------
(* The invariant holds initially. *)
THEOREM InitIInv == Init => IInv
<1> SUFFICES ASSUME Init PROVE IInv
  OBVIOUS
<1> USE DEF Init
<1>1. nalu \in Headers /\ nalu \in NALU
  BY HeadersAssumption
<1>2. rbsp \in Seq(Byte)
  BY PayloadsAssumption
<1>3. /\ out \in Seq(Byte) /\ Len(out) = 2 /\ out[2] # 0
  BY <1>1, HeaderBytesLemma
<1>4. TypeOK
  BY <1>1, <1>2, <1>3, MaxWordsAssumption DEF TypeOK, Phases, Byte
<1>5. NoStartCodeInside /\ NoTrailingZero /\ ReaderAccepts
  BY <1>3 DEF NoStartCodeInside, NoStartCodeIn, NoTrailingZero, ReaderAccepts
<1>6. WriterInv /\ ReaderInv /\ HeaderInv
  BY <1>3 DEF WriterInv, EndsInZeros, EndsInEscape, ReaderInv, HeaderInv
<1> QED
  BY <1>4, <1>5, <1>6 DEF IInv

(* The invariant is preserved by every step of the writer and the reader. *)
THEOREM NextIInv == IInv /\ [Next]_vars => IInv'
<1> SUFFICES ASSUME IInv, [Next]_vars PROVE IInv'
  OBVIOUS
<1>1. CASE WriteByte
  BY <1>1, WriteByteLemma
<1>2. CASE WriteEnd
  BY <1>2, WriteEndLemma
<1>3. CASE ReadByte
  BY <1>3, ReadByteLemma
<1>4. CASE ReadEnd
  BY <1>4, ReadEndLemma
<1>5. CASE StripZero
  BY <1>5, StripZeroLemma
<1>6. CASE ReadNalUnitHeader
  BY <1>6, ReadNalUnitHeaderLemma
<1>7. CASE PadWord
  BY <1>7, PadWordLemma
<1>8. CASE EndPadding
  BY <1>8, EndPaddingLemma
<1>9. CASE UNCHANGED vars
  BY <1>9 DEF vars, IInv, TypeOK, NoStartCodeInside, NoTrailingZero, ReaderAccepts,
              WriterInv, ReaderInv, HeaderInv
<1> QED
  BY <1>1, <1>2, <1>3, <1>4, <1>5, <1>6, <1>7, <1>8, <1>9 DEF Next, Finished

(* So it holds throughout. *)
THEOREM Invariance == Spec => []IInv
<1> QED
  BY InitIInv, NextIInv, PTL DEF Spec

(* write() leaves no start code and no forbidden 00 00 03 inside a NAL     *)
(* unit, whatever the payload.                                             *)
THEOREM WriterEscapes == Spec => []NoStartCodeInside
<1>1. IInv => NoStartCodeInside
  BY DEF IInv
<1> QED
  BY <1>1, Invariance, PTL

(* A finished NAL unit does not end in 0, so the zero bytes of the next    *)
(* start code are not taken for part of it.                                *)
THEOREM WriterEndsUnit == Spec => []NoTrailingZero
<1>1. IInv => NoTrailingZero
  BY DEF IInv
<1> QED
  BY <1>1, Invariance, PTL

(* None of the asserts of convertPayloadToRBSP() and readNalUnitHeader()   *)
(* fires on a NAL unit the encoder has written and padded.                 *)
THEOREM ReaderNeverAborts == Spec => []ReaderAccepts
<1>1. IInv => ReaderAccepts
  BY DEF IInv
<1> QED
  BY <1>1, Invariance, PTL

(* The variables keep their types: in particular zeroCount never exceeds 2 *)
(* and the reader stays inside its buffer.                                 *)
THEOREM TypeCorrect == Spec => []TypeOK
<1>1. IInv => TypeOK
  BY DEF IInv
<1> QED
  BY <1>1, Invariance, PTL

-----------------------------------------------------------------------------
(* What is read is what was written.                                       *)

(* The bytes the reader is to copy, one after the other: the header, the   *)
(* payload, and then zeros of the cabac_zero_words.                        *)
Padded ==
  [k \in Nat |-> IF k <= 2 THEN HeaderBytes(nalu)[k]
                 ELSE IF k <= Len(rbsp) + 2 THEN rbsp[k - 2] ELSE 0]

(* Two zeros and a 03: in what the encoder writes, always an escape. *)
EscapeAt(s, i) == i > 2 /\ s[i] = 3 /\ s[i - 1] = 0 /\ s[i - 2] = 0

(* Of the first i bytes of s, m[i] are not escapes, and these are the      *)
(* first bytes of src.                                                     *)
Copies(m, src, s) ==
  /\ m \in [0..Len(s) -> Nat]
  /\ m[0] = 0
  /\ \A i \in 1..Len(s) :
       IF EscapeAt(s, i) THEN m[i] = m[i - 1]
       ELSE m[i] = m[i - 1] + 1 /\ s[i] = src[m[i]]

(* The bytes of s that are not escapes are the first len bytes of src.     *)
Copied(src, s, len) == \E m : Copies(m, src, s) /\ m[Len(s)] = len

EscapesIn(s) == {i \in Nat : i < Len(s) /\ EscapeAt(s, i + 1)}

(* How many bytes of Padded the encoder has written. *)
CopiedLen == it + 2 + 2 * words

WrittenInv ==
  /\ IsPayload(nalu, rbsp)
  /\ words > 0 => IsVcl(out[1])
  /\ phase = "write" => words = 0
  /\ phase # "write" => it = Len(rbsp)
  /\ escapes = EscapesIn(out)
  /\ phase \in {"write", "pad"} => Copied(Padded, out, CopiedLen)

(* The zeros the reader has counted are all there are. *)
CountInv ==
  phase = "read" =>
    /\ zeroCount = 0 /\ rd > 0 => out[rd] # 0
    /\ zeroCount = 1 /\ rd > 1 => out[rd - 1] # 0

ReadInv ==
  /\ \A k \in 1..Len(buf) : buf[k] = Padded[k]
  /\ phase \in {"write", "pad"} => locations = {}
  /\ phase = "read" =>
       \E m : /\ Copies(m, Padded, out) /\ m[Len(out)] = CopiedLen
              /\ m[rd] = Len(buf)
  /\ phase = "read" => locations = {e \in EscapesIn(out) : e < rd}
  /\ phase \in {"strip", "header", "done"} => locations = EscapesIn(out)
  /\ phase = "strip" => Len(buf) >= Len(rbsp) + 2 /\ IsVcl(out[1])
  /\ phase \in {"header", "done"} => Len(buf) = Len(rbsp) + 2

CopyInv == WrittenInv /\ CountInv /\ ReadInv

-----------------------------------------------------------------------------
(* The last byte of what is to be copied, but for the padding, is not 0.   *)
LEMMA LastByteLemma ==
  ASSUME IInv, IsPayload(nalu, rbsp)
  PROVE  /\ Padded[Len(rbsp) + 2] # 0
         /\ \A k \in Nat : k > Len(rbsp) + 2 => Padded[k] = 0
<1>1. CASE rbsp = << >>
  BY <1>1, TypesLemma DEF Padded
<1>2. CASE rbsp # << >>
  <2>1. Len(rbsp) > 0
    BY <1>2, TypesLemma
  <2> QED
    BY <1>2, <2>1, TypesLemma DEF Padded, IsPayload
<1> QED
  BY <1>1, <1>2

(* A further byte is an escape, or the next one of those to be copied.     *)
LEMMA CopyLemma ==
  ASSUME NEW src, NEW s \in Seq(Byte), NEW v \in Byte, NEW len \in Nat,
         Copied(src, s, len),
         EscapeAt(Append(s, v), Len(s) + 1) \/ v = src[len + 1]
  PROVE  Copied(src, Append(s, v),
                IF EscapeAt(Append(s, v), Len(s) + 1) THEN len ELSE len + 1)
<1> DEFINE t == Append(s, v)
<1>m. PICK m : Copies(m, src, s) /\ m[Len(s)] = len
  BY DEF Copied
<1>1. /\ Len(s) \in Nat /\ Len(t) = Len(s) + 1 /\ t[Len(t)] = v
      /\ \A i \in 1..Len(s) : t[i] = s[i]
  OBVIOUS
<1> HIDE DEF t
<1>2. \A i \in 1..Len(s) : EscapeAt(t, i) <=> EscapeAt(s, i)
  BY <1>1 DEF EscapeAt
<1>3. m \in [0..Len(s) -> Nat] /\ m[0] = 0
  BY <1>1, <1>m DEF Copies
<1> DEFINE e == EscapeAt(t, Len(t))
           n == [i \in 0..Len(t) |-> IF i <= Len(s) THEN m[i]
                                     ELSE IF e THEN m[Len(s)] ELSE m[Len(s)] + 1]
<1>4. n \in [0..Len(t) -> Nat] /\ n[0] = 0
  BY <1>1, <1>3, <1>m
<1>5. n[Len(t)] = IF e THEN m[Len(s)] ELSE m[Len(s)] + 1
  BY <1>1
<1>6. ASSUME NEW i \in 1..Len(t)
      PROVE  IF EscapeAt(t, i) THEN n[i] = n[i - 1]
             ELSE n[i] = n[i - 1] + 1 /\ t[i] = src[n[i]]
  <2>1. CASE i = Len(t)
    <3>1. n[i - 1] = m[Len(s)]
      BY <1>1, <2>1
    <3> QED
      BY <1>1, <1>m, <1>5, <2>1, <3>1 DEF t
  <2>2. CASE i # Len(t)
    <3>1. i \in 1..Len(s) /\ i \in 0..Len(t) /\ i - 1 \in 0..Len(t)
      BY <1>1, <2>2
    <3>2. n[i] = m[i] /\ n[i - 1] = m[i - 1] /\ t[i] = s[i]
      BY <1>1, <3>1
    <3>3. IF EscapeAt(s, i) THEN m[i] = m[i - 1]
          ELSE m[i] = m[i - 1] + 1 /\ s[i] = src[m[i]]
      BY <1>m, <3>1 DEF Copies
    <3> QED
      BY <1>2, <3>1, <3>2, <3>3
  <2> QED
    BY <2>1, <2>2
<1> HIDE DEF n
<1> QED
  BY <1>1, <1>m, <1>4, <1>5, <1>6 DEF Copies, Copied, t

(* So the escapes are those there were, and the byte if it is one.         *)
LEMMA EscapesLemma ==
  ASSUME NEW s \in Seq(Byte), NEW v \in Byte
  PROVE  EscapesIn(Append(s, v)) =
           IF EscapeAt(Append(s, v), Len(s) + 1) THEN EscapesIn(s) \cup {Len(s)}
           ELSE EscapesIn(s)
<1> DEFINE t == Append(s, v)
<1>1. /\ Len(s) \in Nat /\ Len(t) = Len(s) + 1
      /\ \A i \in 1..Len(s) : t[i] = s[i]
  OBVIOUS
<1> HIDE DEF t
<1>2. \A i \in Nat : i < Len(s) => (EscapeAt(t, i + 1) <=> EscapeAt(s, i + 1))
  BY <1>1 DEF EscapeAt
<1> QED
  BY <1>1, <1>2 DEF EscapesIn, t

-----------------------------------------------------------------------------
(* The steps of the writer.                                                *)
(* The next byte of the payload is written, behind an escape if need be.   *)
LEMMA WriteByteCopies ==
  ASSUME IInv, CopyInv, WriteByte
  PROVE  CopyInv'
<1> DEFINE v == rbsp[it + 1]
<1>1. /\ phase = "write" /\ phase' = "write" /\ it < Len(rbsp) /\ it' = it + 1
      /\ UNCHANGED <<nalu, rbsp, words, rd, buf, locations>> /\ words = 0
      /\ v \in Byte /\ v \in 0..255
  <2>1. it + 1 \in 1..Len(rbsp) /\ phase = "write"
    BY TypesLemma DEF WriteByte
  <2>2. v \in Byte
    BY <2>1, TypesLemma
  <2> HIDE DEF v
  <2> QED
    BY <2>1, <2>2 DEF WriteByte, CopyInv, WrittenInv, Byte
<1>2. /\ EndsInZeros(out, zeroCount) /\ ~EndsInEscape(out)
      /\ out[1] = out'[1] /\ IInv'
  BY <1>1, WriteByteLemma, TypesLemma DEF IInv, WriterInv, HeaderInv
<1>3. Copied(Padded, out, it + 2)
  BY <1>1, TypesLemma DEF CopyInv, WrittenInv, CopiedLen
<1>t. 3 \in Byte /\ it + 2 \in Nat
  BY TypesLemma DEF Byte
<1>4. Padded' = Padded /\ Padded[it + 3] = v
  <2>1. rbsp' = rbsp /\ nalu' = nalu
    BY <1>1
  <2>2. Padded' = Padded
    BY <2>1, Zenon DEF Padded
  <2>3. /\ it \in Nat /\ Len(rbsp) \in Nat /\ it + 3 \in Nat /\ ~(it + 3 <= 2) /\ it + 3 <= Len(rbsp) + 2
        /\ it + 3 - 2 = it + 1
    <3>1. it \in Nat /\ Len(rbsp) \in Nat
      BY TypesLemma
    <3> QED
      BY <1>1, <3>1
  <2>4. Padded[it + 3] = rbsp[it + 1]
    <3>1. \A k \in Nat : ~(k <= 2) /\ k <= Len(rbsp) + 2 => Padded[k] = rbsp[k - 2]
      BY DEF Padded
    <3> HIDE DEF Padded, v
    <3>2. PICK k \in Nat : k = it + 3
      BY <2>3
    <3>3. ~(k <= 2) /\ k <= Len(rbsp) + 2 /\ k - 2 = it + 1
      BY <2>3, <3>2
    <3>4. Padded[k] = rbsp[k - 2]
      BY <3>1, <3>3, Zenon
    <3> QED
      BY <3>2, <3>3, <3>4, Zenon
  <2> QED
    BY <2>2, <2>4
<1>y. out \in Seq(Byte) /\ Len(out) \in Nat /\ Len(out) >= 2 /\ it \in Nat /\ (it + 2) + 1 = it + 3
  BY TypesLemma
<1>5. /\ escapes' = EscapesIn(out')
      /\ Copied(Padded, out', it + 3)
  <2>1. CASE MustEscape(zeroCount, v)
    <3> DEFINE mid == Append(out, 3)
    <3>1. zeroCount = 2 /\ out' = Append(mid, v) /\ escapes' = escapes \cup {Len(out)}
      <4>1. zeroCount = 2
        BY <2>1 DEF MustEscape
      <4>2. /\ out' = (out \o <<3>>) \o <<v>>
            /\ escapes' = escapes \cup {Len(out)}
        BY <1>1, <1>y, <2>1 DEF WriteByte, EmulationPreventionByte
      <4> HIDE DEF v
      <4> QED
        BY <1>t, <1>y, <4>1, <4>2
    <3>2. /\ mid \in Seq(Byte) /\ Len(mid) = Len(out) + 1 /\ mid[Len(mid)] = 3
          /\ \A i \in 1..Len(out) : mid[i] = out[i]
      BY TypesLemma DEF Byte
    <3>3. EscapeAt(mid, Len(mid))
      BY <1>2, <1>y, <3>1, <3>2 DEF EscapeAt, EndsInZeros
    <3>4. EscapesIn(mid) = EscapesIn(out) \cup {Len(out)}
      BY <3>3, EscapesLemma, TypesLemma DEF Byte
    <3>5. Copied(Padded, mid, it + 2)
      <4>1. EscapeAt(Append(out, 3), Len(out) + 1)
        BY <3>2, <3>3
      <4> QED
        BY <1>3, <1>t, <1>y, <4>1, CopyLemma
    <3> HIDE DEF mid, v
    <3>6. ~EscapeAt(out', Len(out'))
      BY <1>1, <3>1, <3>2, TypesLemma DEF EscapeAt
    <3>7. EscapesIn(out') = EscapesIn(mid)
      BY <1>1, <3>1, <3>2, <3>6, EscapesLemma
    <3>8. Copied(Padded, out', it + 3)
      <4>1. ~EscapeAt(Append(mid, v), Len(mid) + 1)
        BY <1>1, <3>1, <3>2, <3>6
      <4>2. v = Padded[(it + 2) + 1]
        BY <1>4, <1>y
      <4> QED
        BY <1>1, <1>t, <1>y, <3>1, <3>2, <3>5, <4>1, <4>2, CopyLemma
    <3> QED
      BY <3>1, <3>4, <3>7, <3>8 DEF CopyInv, WrittenInv
  <2>2. CASE ~MustEscape(zeroCount, v)
    <3>1. out' = Append(out, v) /\ escapes' = escapes
      BY <1>1, <2>2, TypesLemma DEF WriteByte
    <3> HIDE DEF v
    <3>2. ~EscapeAt(out', Len(out'))
      <4>1. /\ Len(out') = Len(out) + 1 /\ out'[Len(out')] = v
            /\ \A i \in 1..Len(out) : out'[i] = out[i]
        BY <1>1, <3>1, TypesLemma
      <4>2. zeroCount = 2 => v > 3
        BY <1>1, <2>2, TypesLemma DEF MustEscape
      <4>3. out'[Len(out') - 1] = out[Len(out)] /\ out'[Len(out') - 2] = out[Len(out) - 1]
        <5>1. Len(out') - 1 = Len(out) /\ Len(out') - 2 = Len(out) - 1
          BY <1>y, <4>1
        <5>2. Len(out) \in 1..Len(out) /\ Len(out) - 1 \in 1..Len(out)
          BY <1>y
        <5> QED
          BY <4>1, <5>1, <5>2
      <4>4. out[Len(out)] = 0 /\ out[Len(out) - 1] = 0 => zeroCount = 2
        BY <1>2, TypesLemma DEF EndsInZeros
      <4> QED
        BY <1>1, <4>1, <4>2, <4>3, <4>4 DEF EscapeAt
    <3>3. EscapesIn(out') = EscapesIn(out)
      BY <1>1, <3>1, <3>2, EscapesLemma, TypesLemma
    <3>4. Copied(Padded, out', it + 3)
      <4>1. ~EscapeAt(Append(out, v), Len(out) + 1)
        BY <1>1, <1>y, <3>1, <3>2
      <4>2. v = Padded[(it + 2) + 1]
        BY <1>4, <1>y
      <4> QED
        BY <1>1, <1>3, <1>t, <1>y, <3>1, <4>1, <4>2, CopyLemma
    <3> QED
      BY <3>1, <3>3, <3>4 DEF CopyInv, WrittenInv
  <2> QED
    BY <2>1, <2>2
<1>6. WrittenInv'
  <2>1. CopiedLen' = it + 3
    BY <1>1, TypesLemma DEF CopiedLen
  <2> QED
    BY <1>1, <1>4, <1>5, <2>1 DEF CopyInv, WrittenInv
<1>7. CountInv' /\ ReadInv'
  BY <1>1, <1>4 DEF CopyInv, CountInv, ReadInv
<1> QED
  BY <1>6, <1>7 DEF CopyInv

(* There is no final escape: the payload does not end in 0. *)
LEMMA WriteEndCopies ==
  ASSUME IInv, CopyInv, WriteEnd
  PROVE  CopyInv'
<1>1. /\ phase = "write" /\ phase' = "pad" /\ it = Len(rbsp)
      /\ UNCHANGED <<nalu, rbsp, it, words, rd, buf, locations>> /\ words = 0
  BY DEF WriteEnd, CopyInv, WrittenInv
<1>2. zeroCount = 0
  <2> SUFFICES ASSUME zeroCount # 0 PROVE FALSE
    OBVIOUS
  <2>1. out[Len(out)] = 0
    BY <1>1, TypesLemma DEF IInv, WriterInv, EndsInZeros
  <2>2. PICK m : Copies(m, Padded, out) /\ m[Len(out)] = Len(rbsp) + 2
    BY <1>1, TypesLemma DEF CopyInv, WrittenInv, CopiedLen, Copied
  <2>3. out[Len(out)] = Padded[Len(rbsp) + 2]
    <3>1. Len(out) \in 1..Len(out)
      BY TypesLemma
    <3>2. ~EscapeAt(out, Len(out))
      BY <2>1 DEF EscapeAt
    <3> QED
      BY <2>2, <3>1, <3>2 DEF Copies
  <2> QED
    BY <2>1, <2>3, LastByteLemma DEF CopyInv, WrittenInv
<1>3. out' = out /\ escapes' = escapes
  BY <1>2 DEF WriteEnd, MustEndWithEscape
<1>4. Padded' = Padded
  BY <1>1 DEF Padded
<1>5. WrittenInv'
  BY <1>1, <1>3, <1>4 DEF CopyInv, WrittenInv, CopiedLen
<1>6. CountInv' /\ ReadInv'
  BY <1>1, <1>3, <1>4 DEF CopyInv, CountInv, ReadInv
<1> QED
  BY <1>5, <1>6 DEF CopyInv

(* The zeros of a cabac_zero_word are the next ones to be copied.          *)
LEMMA PadWordCopies ==
  ASSUME IInv, CopyInv, PadWord
  PROVE  CopyInv'
<1> DEFINE one == Append(out, 0)
           two == Append(one, 0)
<1>1. /\ phase = "pad" /\ phase' = "pad" /\ it = Len(rbsp) /\ words' = words + 1
      /\ IsVcl(out[1]) /\ escapes' = escapes \cup {Len(out) + 2}
      /\ UNCHANGED <<nalu, rbsp, it, zeroCount, rd, buf, locations>>
  BY DEF PadWord, CopyInv, WrittenInv
<1>2. 0 \in Byte /\ 3 \in Byte /\ out[1] = out'[1]
  BY PadWordLemma, TypesLemma DEF IInv, HeaderInv, PadWord, Byte
<1>3. Padded' = Padded /\ \A k \in Nat : k > Len(rbsp) + 2 => Padded[k] = 0
  BY <1>1, LastByteLemma DEF Padded, CopyInv, WrittenInv
<1>4. Copied(Padded, out, CopiedLen)
  BY <1>1 DEF CopyInv, WrittenInv
<1>5. CopiedLen \in Nat /\ CopiedLen >= Len(rbsp) + 2 /\ CopiedLen' = CopiedLen + 2
  <2>1. it' = it /\ words' = words + 1 /\ it \in Nat /\ words \in Nat /\ it = Len(rbsp)
    BY <1>1, TypesLemma
  <2> QED
    BY <2>1 DEF CopiedLen
<1>6. one \in Seq(Byte) /\ Len(one) = Len(out) + 1 /\ one[Len(one)] = 0
  BY <1>2, TypesLemma
<1>7. ~EscapeAt(one, Len(one))
  BY <1>6 DEF EscapeAt
<1>8. EscapesIn(one) = EscapesIn(out)
  BY <1>2, <1>7, EscapesLemma, TypesLemma
<1>9. Copied(Padded, one, CopiedLen + 1)
  <2>1. out \in Seq(Byte) /\ CopiedLen + 1 \in Nat
    BY <1>5, TypesLemma
  <2>2. ~EscapeAt(Append(out, 0), Len(out) + 1)
    BY <1>6, <1>7
  <2>3. Padded[CopiedLen + 1] = 0
    BY <1>3, <1>5, <2>1
  <2> QED
    BY <1>2, <1>4, <1>5, <2>1, <2>2, <2>3, CopyLemma
<1> HIDE DEF one
<1>10. /\ two \in Seq(Byte) /\ Len(two) = Len(one) + 1 /\ two[Len(two)] = 0
       /\ two[Len(one)] = 0
  BY <1>2, <1>6, TypesLemma
<1>11. ~EscapeAt(two, Len(two))
  BY <1>10 DEF EscapeAt
<1>12. EscapesIn(two) = EscapesIn(one)
  BY <1>2, <1>6, <1>11, EscapesLemma
<1>13. Copied(Padded, two, CopiedLen + 2)
  <2>1. CopiedLen + 1 \in Nat /\ CopiedLen + 2 \in Nat /\ (CopiedLen + 1) + 1 = CopiedLen + 2
    BY <1>5
  <2>2. ~EscapeAt(Append(one, 0), Len(one) + 1)
    BY <1>10, <1>11
  <2>3. Padded[(CopiedLen + 1) + 1] = 0
    BY <1>3, <1>5, <2>1
  <2> QED
    BY <1>2, <1>6, <1>9, <2>1, <2>2, <2>3, CopyLemma
<1> HIDE DEF two
<1>14. out' = Append(two, 3)
  <2>1. out' = out \o <<0, 0, 3>> /\ out \in Seq(Byte)
    BY TypesLemma DEF PadWord, CabacZeroWord, EmulationPreventionByte
  <2> QED
    BY <1>2, <2>1 DEF one, two
<1>15. EscapeAt(out', Len(out'))
  BY <1>2, <1>6, <1>10, <1>14, TypesLemma DEF EscapeAt
<1>16. EscapesIn(out') = EscapesIn(two) \cup {Len(two)}
  BY <1>2, <1>10, <1>14, <1>15, EscapesLemma
<1>17. Copied(Padded, out', CopiedLen')
  <2>1. EscapeAt(Append(two, 3), Len(two) + 1) /\ CopiedLen + 2 \in Nat
    BY <1>2, <1>5, <1>10, <1>14, <1>15
  <2> QED
    BY <1>2, <1>5, <1>10, <1>13, <1>14, <2>1, CopyLemma
<1>18. Len(two) = Len(out) + 2
  BY <1>6, <1>10, TypesLemma
<1>19. WrittenInv'
  BY <1>1, <1>2, <1>3, <1>8, <1>12, <1>16, <1>17, <1>18 DEF CopyInv, WrittenInv
<1>20. CountInv' /\ ReadInv'
  BY <1>1, <1>3 DEF CopyInv, CountInv, ReadInv
<1> QED
  BY <1>19, <1>20 DEF CopyInv

(* The reader has copied nothing yet. *)
LEMMA EndPaddingCopies ==
  ASSUME IInv, CopyInv, EndPadding
  PROVE  CopyInv'
<1>1. /\ phase = "pad" /\ phase' = "read" /\ rd = 0 /\ buf = << >>
      /\ UNCHANGED <<nalu, rbsp, it, zeroCount, out, escapes, words, rd, buf, locations>>
  BY DEF EndPadding, IInv, HeaderInv
<1>2. zeroCount = 0 /\ Padded' = Padded
  BY <1>1 DEF IInv, WriterInv, Padded
<1>3. PICK m : Copies(m, Padded, out) /\ m[Len(out)] = CopiedLen
  BY <1>1 DEF CopyInv, WrittenInv, Copied
<1>4. m[rd] = Len(buf)
  BY <1>1, <1>3 DEF Copies
<1>5. WrittenInv'
  BY <1>1, <1>2 DEF CopyInv, WrittenInv, CopiedLen
<1>6. {e \in EscapesIn(out) : e < rd} = {}
  BY <1>1 DEF EscapesIn
<1>7. CountInv' /\ ReadInv'
  BY <1>1, <1>2, <1>3, <1>4, <1>6 DEF CopyInv, CountInv, ReadInv, CopiedLen
<1> QED
  BY <1>5, <1>7 DEF CopyInv

-----------------------------------------------------------------------------
(* The steps of the reader.                                                *)
(* The reader takes for escapes what the writer has put there as such. *)
LEMMA EscapeIffLemma ==
  ASSUME IInv, CountInv, phase = "read", rd < Len(out)
  PROVE  IsEscape(zeroCount, out[rd + 1]) <=> EscapeAt(out, rd + 1)
<1>1. zeroCount = 2 => rd > 2 /\ out[rd] = 0 /\ out[rd - 1] = 0
  BY TypesLemma DEF IInv, ReaderInv
<1>2. rd >= 2 /\ out[rd] = 0 /\ out[rd - 1] = 0 => zeroCount = 2
  BY TypesLemma DEF CountInv
<1>3. /\ rd \in Nat
      /\ EscapeAt(out, rd + 1) <=>
           rd >= 2 /\ out[rd + 1] = 3 /\ out[rd] = 0 /\ out[rd - 1] = 0
  BY TypesLemma DEF EscapeAt
<1> QED
  BY <1>1, <1>2, <1>3 DEF IsEscape, EmulationPreventionByte

(* Every byte the reader copies is the next one of those to be copied.     *)
LEMMA ReadByteCopies ==
  ASSUME IInv, CopyInv, ReadByte
  PROVE  CopyInv'
<1> DEFINE escape == IsEscape(zeroCount, out[rd + 1])
           last   == escape /\ rd + 1 = Len(out)
           src    == IF escape THEN rd + 2 ELSE rd + 1
<1>1. /\ phase = "read" /\ rd < Len(out) /\ ~IllegalByte(zeroCount, out[rd + 1])
      /\ locations' = IF escape THEN locations \cup {rd} ELSE locations
      /\ rd' = IF last THEN rd + 1 ELSE src
      /\ zeroCount' = IF last THEN 0
                      ELSE NextZeroCount(IF escape THEN 0 ELSE zeroCount, out[src])
      /\ buf' = IF last THEN buf ELSE Append(buf, out[src])
      /\ UNCHANGED <<phase, nalu, rbsp, it, out, escapes, words>>
  BY ReadByteStep
<1>2. PICK m : /\ Copies(m, Padded, out) /\ m[Len(out)] = CopiedLen
               /\ m[rd] = Len(buf)
  BY <1>1 DEF CopyInv, ReadInv
<1>3. /\ \A k \in 1..Len(buf) : buf[k] = Padded[k]
      /\ locations = {e \in EscapesIn(out) : e < rd}
  BY <1>1 DEF CopyInv, ReadInv
<1>4. escape <=> EscapeAt(out, rd + 1)
  BY <1>1, EscapeIffLemma DEF CopyInv
<1>5. Padded' = Padded /\ CopiedLen' = CopiedLen
  BY <1>1 DEF Padded, CopiedLen
<1> HIDE DEF escape, last, src
<1>y. out \in Seq(Byte) /\ Len(out) \in Nat /\ rd \in Nat /\ zeroCount \in 0..2
      /\ buf \in Seq(Byte) /\ Len(buf) \in Nat
  BY TypesLemma
<1>z. rd < Len(out) /\ out' = out
  BY <1>1
<1>6. m[rd + 1] = (IF EscapeAt(out, rd + 1) THEN m[rd] ELSE m[rd] + 1)
  <2>1. rd + 1 \in 1..Len(out) /\ (rd + 1) - 1 = rd
    BY <1>y, <1>z
  <2> QED
    BY <1>2, <2>1 DEF Copies
<1>7. CASE ~escape
  <2>1. /\ rd' = rd + 1 /\ buf' = Append(buf, out[rd + 1]) /\ locations' = locations
        /\ zeroCount' = NextZeroCount(zeroCount, out[rd + 1])
    BY <1>1, <1>7 DEF last, src
  <2>2. out[rd + 1] = Padded[m[rd] + 1] /\ out[rd + 1] \in Byte
    <3>1. rd + 1 \in 1..Len(out)
      BY <1>1, TypesLemma
    <3>2. out[rd + 1] = Padded[m[rd + 1]]
      BY <1>2, <1>4, <1>7, <3>1 DEF Copies
    <3> QED
      BY <1>4, <1>6, <1>7, <3>1, <3>2, TypesLemma
  <2>3. m[rd'] = Len(buf') /\ \A k \in 1..Len(buf') : buf'[k] = Padded[k]
    <3>1. /\ Len(buf') = Len(buf) + 1 /\ buf'[Len(buf) + 1] = out[rd + 1]
          /\ \A k \in 1..Len(buf) : buf'[k] = buf[k]
      BY <1>y, <2>1, <2>2
    <3>2. \A k \in 1..Len(buf') : k \in 1..Len(buf) \/ k = Len(buf) + 1
      BY <1>y, <3>1
    <3>3. m[rd] = Len(buf) /\ m[rd + 1] = Len(buf) + 1
      BY <1>2, <1>4, <1>6, <1>7
    <3>4. buf'[Len(buf) + 1] = Padded[Len(buf) + 1]
      BY <2>2, <3>1, <3>3
    <3>5. \A k \in 1..Len(buf') : buf'[k] = Padded[k]
      BY <1>3, <3>1, <3>2, <3>4
    <3> QED
      BY <2>1, <3>1, <3>3, <3>5
  <2>4. {e \in EscapesIn(out) : e < rd'} = {e \in EscapesIn(out) : e < rd}
    <3>1. rd \notin EscapesIn(out)
      BY <1>4, <1>7 DEF EscapesIn
    <3>2. \A e \in EscapesIn(out) : e \in Nat
      BY <1>y DEF EscapesIn
    <3>3. rd' = rd + 1
      BY <2>1
    <3> QED
      BY <1>y, <3>1, <3>2, <3>3
  <2>5. CountInv'
    <3>1. /\ zeroCount' = 0 => out[rd + 1] # 0
          /\ zeroCount' = 1 => zeroCount = 0 /\ out[rd + 1] = 0
      BY <2>1, TypesLemma DEF NextZeroCount
    <3>2. zeroCount = 0 /\ rd > 0 => out[rd] # 0
      BY <1>1 DEF CopyInv, CountInv
    <3> QED
      BY <1>1, <1>y, <2>1, <3>1, <3>2 DEF CountInv
  <2> QED
    BY <1>1, <1>2, <1>3, <1>5, <2>1, <2>3, <2>4, <2>5 DEF CopyInv, WrittenInv, ReadInv
<1>8. CASE escape
  <2>1. /\ locations' = locations \cup {rd} /\ out[rd + 1] = 3 /\ m[rd + 1] = Len(buf)
        /\ rd \in EscapesIn(out)
    BY <1>1, <1>2, <1>4, <1>6, <1>8, TypesLemma DEF EscapeAt, EscapesIn
  <2>2. CASE last
    <3>1. rd' = rd + 1 /\ zeroCount' = 0 /\ buf' = buf
      BY <1>1, <2>2
    <3>2. {e \in EscapesIn(out) : e < rd'} = {e \in EscapesIn(out) : e < rd} \cup {rd}
      BY <2>1, <3>1, TypesLemma DEF EscapesIn
    <3>3. CountInv'
      BY <1>1, <1>y, <2>1, <3>1 DEF CountInv
    <3> QED
      BY <1>1, <1>2, <1>3, <1>5, <2>1, <3>1, <3>2, <3>3 DEF CopyInv, WrittenInv, ReadInv
  <2>3. CASE ~last
    <3>1. /\ rd' = rd + 2 /\ buf' = Append(buf, out[rd + 2])
          /\ zeroCount' = NextZeroCount(0, out[rd + 2]) /\ rd + 2 <= Len(out)
      <4>1. src = rd + 2
        BY <1>8 DEF src
      <4>2. rd + 1 # Len(out)
        BY <1>8, <2>3 DEF last
      <4>3. rd + 2 <= Len(out)
        BY <1>1, <4>2, TypesLemma
      <4> QED
        BY <1>1, <1>8, <2>3, <4>1, <4>3
    <3>2. ~EscapeAt(out, rd + 2)
      <4>1. (rd + 2) - 1 = rd + 1
        BY TypesLemma
      <4> QED
        BY <2>1, <4>1 DEF EscapeAt
    <3>3. /\ m[rd + 2] = m[rd + 1] + 1 /\ out[rd + 2] = Padded[m[rd + 1] + 1]
          /\ out[rd + 2] \in Byte
      <4>1. rd + 2 \in 1..Len(out) /\ (rd + 2) - 1 = rd + 1
        BY <1>y, <3>1
      <4>2. m[rd + 2] = m[rd + 1] + 1 /\ out[rd + 2] = Padded[m[rd + 2]]
        BY <1>2, <3>2, <4>1 DEF Copies
      <4> QED
        BY <1>y, <4>1, <4>2
    <3>4. m[rd'] = Len(buf') /\ \A k \in 1..Len(buf') : buf'[k] = Padded[k]
      <4>1. /\ Len(buf') = Len(buf) + 1 /\ buf'[Len(buf) + 1] = out[rd + 2]
            /\ \A k \in 1..Len(buf) : buf'[k] = buf[k]
        BY <1>y, <3>1, <3>3
      <4>2. \A k \in 1..Len(buf') : k \in 1..Len(buf) \/ k = Len(buf) + 1
        BY <1>y, <4>1
      <4>3. buf'[Len(buf) + 1] = Padded[Len(buf) + 1]
        BY <2>1, <3>3, <4>1
      <4>4. \A k \in 1..Len(buf') : buf'[k] = Padded[k]
        BY <1>3, <4>1, <4>2, <4>3
      <4> QED
        BY <2>1, <3>1, <3>3, <4>1, <4>4
    <3>5. {e \in EscapesIn(out) : e < rd'} = {e \in EscapesIn(out) : e < rd} \cup {rd}
      BY <1>y, <2>1, <3>1, <3>2 DEF EscapesIn
    <3>6. CountInv'
      <4>1. zeroCount' = 0 => out[rd + 2] # 0
        BY <3>1 DEF NextZeroCount
      <4> QED
        <5>1. out[rd' - 1] = 3 /\ rd' - 1 > 0 /\ rd' = rd + 2 /\ out' = out /\ (rd + 2) - 1 = rd + 1
          <6>1. rd' = rd + 2 /\ out' = out /\ out[rd + 1] = 3
            BY <1>z, <2>1, <3>1
          <6>2. rd' - 1 = rd + 1 /\ rd' - 1 > 0 /\ (rd + 2) - 1 = rd + 1
            BY <1>y, <6>1
          <6> QED
            BY <6>1, <6>2
        <5> QED
          BY <1>1, <1>y, <2>1, <3>1, <4>1, <5>1 DEF CountInv
    <3> QED
      BY <1>1, <1>2, <1>3, <1>5, <2>1, <3>1, <3>4, <3>5, <3>6 DEF CopyInv, WrittenInv, ReadInv
  <2> QED
    BY <2>2, <2>3
<1> QED
  BY <1>7, <1>8

(* What is left to strip are the zeros of the cabac_zero_words. *)
LEMMA ReadEndCopies ==
  ASSUME IInv, CopyInv, ReadEnd
  PROVE  CopyInv'
<1>1. /\ phase = "read" /\ rd = Len(out) /\ zeroCount = 0
      /\ out[Len(out)] # 0 /\ zeroCount \in 0..2
  BY TypesLemma DEF ReadEnd, IInv, ReaderInv, NoTrailingZero
<1>2. /\ phase' = (IF IsVcl(out[1]) THEN "strip" ELSE "header")
      /\ UNCHANGED <<nalu, rbsp, it, zeroCount, out, escapes, words, rd, buf, locations>>
  BY <1>1 DEF ReadEnd
<1>3. Len(buf) = Len(rbsp) + 2 + 2 * words
  BY <1>1 DEF CopyInv, WrittenInv, ReadInv, CopiedLen
<1>4. words # 0 => IsVcl(out[1])
  BY TypesLemma DEF CopyInv, WrittenInv
<1>5. locations = EscapesIn(out)
  <2>1. {e \in EscapesIn(out) : e < rd} = EscapesIn(out)
    BY <1>1 DEF EscapesIn
  <2> QED
    BY <1>1, <2>1 DEF CopyInv, ReadInv
<1>6. Padded' = Padded
  BY <1>2 DEF Padded
<1>7. WrittenInv' /\ CountInv'
  BY <1>1, <1>2 DEF CopyInv, WrittenInv, CountInv
<1>8. ReadInv'
  BY <1>2, <1>3, <1>4, <1>5, <1>6, TypesLemma DEF CopyInv, ReadInv
<1> QED
  BY <1>7, <1>8 DEF CopyInv

(* A zero that is stripped belongs to the padding. *)
LEMMA StripZeroCopies ==
  ASSUME IInv, CopyInv, StripZero
  PROVE  CopyInv'
<1>1. /\ phase = "strip" /\ phase' \in {"strip", "header"}
      /\ UNCHANGED <<nalu, rbsp, it, zeroCount, out, escapes, words, rd, locations>>
  BY DEF StripZero
<1>2. /\ Len(buf) >= Len(rbsp) + 2 /\ IsVcl(out[1])
      /\ \A k \in 1..Len(buf) : buf[k] = Padded[k]
  BY <1>1 DEF CopyInv, ReadInv
<1>3. /\ Padded[Len(rbsp) + 2] # 0
      /\ \A k \in Nat : k > Len(rbsp) + 2 => Padded[k] = 0
  BY LastByteLemma DEF CopyInv, WrittenInv
<1>4. Padded' = Padded
  BY <1>1 DEF Padded
<1>5. buf[Len(buf)] = Padded[Len(buf)]
  BY <1>2, TypesLemma
<1>6. WrittenInv' /\ CountInv'
  BY <1>1 DEF CopyInv, WrittenInv, CountInv
<1>7. ReadInv'
  <2>1. CASE buf[Len(buf)] = 0
    <3>1. phase' = "strip" /\ buf' = SubSeq(buf, 1, Len(buf) - 1)
      BY <1>1, <2>1 DEF StripZero
    <3>2. Len(buf) > Len(rbsp) + 2
      BY <1>2, <1>3, <1>5, <2>1, TypesLemma
    <3>3. Len(buf') = Len(buf) - 1 /\ \A k \in 1..Len(buf') : buf'[k] = buf[k]
      BY <3>1, <3>2, TypesLemma
    <3> QED
      BY <1>1, <1>2, <1>4, <3>1, <3>2, <3>3, TypesLemma DEF CopyInv, ReadInv
  <2>2. CASE buf[Len(buf)] # 0
    <3>1. phase' = "header" /\ buf' = buf
      BY <2>2 DEF StripZero
    <3>2. Len(buf) = Len(rbsp) + 2
      BY <1>2, <1>3, <1>5, <2>2, TypesLemma
    <3> QED
      BY <1>1, <1>2, <1>4, <3>1, <3>2 DEF CopyInv, ReadInv
  <2> QED
    BY <2>1, <2>2
<1> QED
  BY <1>6, <1>7 DEF CopyInv

(* The header is accepted, nothing is copied. *)
LEMMA ReadNalUnitHeaderCopies ==
  ASSUME IInv, CopyInv, ReadNalUnitHeader
  PROVE  CopyInv'
<1>1. phase = "header" /\ phase' \in {"aborted", "done"} /\ phase' # "aborted"
  BY ReadNalUnitHeaderLemma DEF ReadNalUnitHeader, Abort, IInv, ReaderAccepts
<1>2. UNCHANGED <<nalu, rbsp, it, zeroCount, out, escapes, words, rd, buf, locations>>
  BY DEF ReadNalUnitHeader, Abort
<1>3. Padded' = Padded
  BY <1>2 DEF Padded
<1> QED
  BY <1>1, <1>2, <1>3 DEF CopyInv, WrittenInv, CountInv, ReadInv

(* The header is there from the beginning. *)
LEMMA InitCopyInv == Init => CopyInv
<1> SUFFICES ASSUME Init PROVE CopyInv
  OBVIOUS
<1>1. nalu \in NALU
  BY HeadersAssumption DEF Init
<1>2. /\ phase = "write" /\ it = 0 /\ words = 0 /\ escapes = {} /\ locations = {}
      /\ buf = << >> /\ rd = 0 /\ IsPayload(nalu, rbsp) /\ rbsp \in Seq(Byte)
      /\ out = HeaderBytes(nalu) /\ out \in Seq(Byte) /\ Len(out) = 2
  BY <1>1, PayloadsAssumption, HeaderBytesLemma DEF Init
<1>3. Padded[1] = out[1] /\ Padded[2] = out[2]
  BY <1>2 DEF Padded
<1>4. ~EscapeAt(out, 1) /\ ~EscapeAt(out, 2)
  BY DEF EscapeAt
<1>5. Copied(Padded, out, CopiedLen)
  <2> DEFINE m == [i \in 0..2 |-> i]
  <2>1. Copies(m, Padded, out)
    BY <1>2, <1>3, <1>4 DEF Copies
  <2>2. m[Len(out)] = CopiedLen
    BY <1>2 DEF CopiedLen
  <2> HIDE DEF m
  <2> QED
    BY <2>1, <2>2 DEF Copied
<1>6. EscapesIn(out) = {}
  BY <1>2 DEF EscapesIn, EscapeAt
<1> QED
  BY <1>2, <1>5, <1>6 DEF CopyInv, WrittenInv, CountInv, ReadInv

(* Every step of the writer and the reader keeps the correspondence. *)
LEMMA NextCopyInv == IInv /\ CopyInv /\ [Next]_vars => CopyInv'
<1> SUFFICES ASSUME IInv, CopyInv, [Next]_vars PROVE CopyInv'
  OBVIOUS
<1>1. CASE UNCHANGED vars
  <2>1. Padded' = Padded
    BY <1>1 DEF vars, Padded
  <2> QED
    BY <1>1, <2>1 DEF vars, CopyInv, WrittenInv, CountInv, ReadInv, CopiedLen
<1> QED
  BY <1>1, WriteByteCopies, WriteEndCopies, PadWordCopies, EndPaddingCopies,
     ReadByteCopies, ReadEndCopies, StripZeroCopies, ReadNalUnitHeaderCopies
     DEF Next, Finished

(* So what has been written and read corresponds throughout. *)
THEOREM CopyInvariance == Spec => []CopyInv
<1> QED
  BY Invariance, InitCopyInv, NextCopyInv, PTL DEF Spec

(* read() gives back the header and the payload write() was given, byte by *)
(* byte and without the cabac_zero_words, whatever had to be escaped.      *)
THEOREM ReadsBackWritten == Spec => []RoundTrip
<1>1. IInv /\ CopyInv => RoundTrip
  <2> SUFFICES ASSUME IInv, CopyInv, phase = "done"
               PROVE  ReadHeaderFields = nalu /\ buf = HeaderBytes(nalu) \o rbsp
    BY DEF RoundTrip
  <2>1. /\ nalu \in NALU /\ HeaderBytes(nalu) \in Seq(Byte) /\ Len(HeaderBytes(nalu)) = 2
    BY TypesLemma, HeaderBytesLemma
  <2>2. Len(buf) = Len(rbsp) + 2 /\ \A k \in 1..Len(buf) : buf[k] = Padded[k]
    BY DEF CopyInv, ReadInv
  <2>3. buf[1] = HeaderBytes(nalu)[1] /\ buf[2] = HeaderBytes(nalu)[2]
    <3>1. 1 \in 1..Len(buf) /\ 2 \in 1..Len(buf)
      BY <2>2, TypesLemma
    <3>2. Padded[1] = HeaderBytes(nalu)[1] /\ Padded[2] = HeaderBytes(nalu)[2]
      BY DEF Padded
    <3> QED
      BY <2>2, <3>1, <3>2
  <2>4. ReadHeaderFields = nalu
    BY <2>1, <2>3, HeaderBytesLemma DEF ReadHeaderFields, NALU
  <2> DEFINE whole == HeaderBytes(nalu) \o rbsp
  <2>5. /\ whole \in Seq(Byte) /\ Len(whole) = Len(rbsp) + 2
        /\ \A k \in 1..Len(whole) : whole[k] = IF k <= 2 THEN HeaderBytes(nalu)[k] ELSE rbsp[k - 2]
    <3>1. rbsp \in Seq(Byte) /\ Len(rbsp) \in Nat
      BY TypesLemma
    <3> DEFINE head == HeaderBytes(nalu)
    <3>2. head \in Seq(Byte) /\ Len(head) = 2
      BY <2>1
    <3> HIDE DEF head
    <3>3. /\ head \o rbsp \in Seq(Byte) /\ Len(head \o rbsp) = Len(head) + Len(rbsp)
          /\ \A k \in 1..Len(head) + Len(rbsp) :
               (head \o rbsp)[k] = IF k <= Len(head) THEN head[k] ELSE rbsp[k - Len(head)]
      BY <3>1, <3>2, ConcatProperties
    <3> QED
      BY <3>1, <3>2, <3>3 DEF head
  <2>6. \A k \in 1..Len(buf) : buf[k] = whole[k]
    <3> HIDE DEF whole
    <3> SUFFICES ASSUME NEW k \in 1..Len(buf) PROVE buf[k] = whole[k]
      OBVIOUS
    <3>1. Padded[k] = IF k <= 2 THEN HeaderBytes(nalu)[k] ELSE rbsp[k - 2]
      BY <2>2, TypesLemma DEF Padded
    <3> QED
      BY <2>2, <2>5, <3>1
  <2> HIDE DEF whole
  <2>7. buf = whole
    BY <2>2, <2>5, <2>6, TypesLemma, SeqEqual
  <2> QED
    BY <2>4, <2>7 DEF whole
<1> QED
  BY <1>1, Invariance, CopyInvariance, PTL

(* The places the reader removes bytes from, which the entry points are    *)
(* corrected by, are those the writer has put its escapes at.              *)
EscapesFound == phase = "done" => locations = escapes

THEOREM ReaderFindsEscapes == Spec => []EscapesFound
<1>1. CopyInv => EscapesFound
  BY DEF CopyInv, WrittenInv, ReadInv, EscapesFound
<1> QED
  BY <1>1, CopyInvariance, PTL

-----------------------------------------------------------------------------
(* The escapes are as many as countStartCodeEmulations() counts.           *)

ZeroPairs(s, from) == {i \in from..Len(s) - 2 : s[i] = 0 /\ s[i + 1] = 0}

(* The byte behind the first two zeros. *)
Third(s, from) == (CHOOSE i \in ZeroPairs(s, from) : \A j \in ZeroPairs(s, from) : i <= j) + 2

EmulationsFrom(s, f, from) ==
  IF ZeroPairs(s, from) = {} THEN 0
  ELSE f[Third(s, from)] + IF s[Third(s, from)] <= 3 THEN 1 ELSE 0

(* f is the recursive function of countStartCodeEmulations(). *)
Counts(s, f) == f = [from \in 1..Len(s) + 1 |-> EmulationsFrom(s, f, from)]

Emulations(s) == CHOOSE f : Counts(s, f)

(* The writer has put as many escapes as are counted in the payload before *)
(* the zeros it has just written; it counts on from these zeros.           *)
EmulationInv ==
  /\ IsFiniteSet(escapes)
  /\ phase = "write" =>
       /\ zeroCount <= it /\ \A i \in it - zeroCount + 1..it : rbsp[i] = 0
       /\ Cardinality(escapes) + Emulations(rbsp)[it - zeroCount + 1] = Emulations(rbsp)[1]
  /\ phase = "pad" /\ words = 0 => Cardinality(escapes) = Emulations(rbsp)[1]

-----------------------------------------------------------------------------
(* Induction over the numbers: a set of numbers that is not empty has a    *)
(* least one.                                                              *)
LEMMA LeastNumber ==
  ASSUME NEW T \in SUBSET Nat, T # {}
  PROVE  \E n \in T : \A m \in T : n <= m
<1> DEFINE Below(n) == 0..n - 1
           R == StrictSubsetOrdering(Nat)
           U == {Below(n) : n \in T}
<1>1. U \subseteq FiniteSubsetsOf(Nat) /\ U # {}
  <2>1. ASSUME NEW n \in Nat PROVE IsFiniteSet(Below(n)) /\ Below(n) \subseteq Nat
    BY FS_Interval
  <2> QED
    BY <2>1 DEF FiniteSubsetsOf
<1>2. PICK x \in U : \A y \in U : ~(<<y, x>> \in R)
  <2>1. IsWellFoundedOn(R, FiniteSubsetsOf(Nat))
    BY FS_StrictSubsetOrderingWellFounded
  <2> HIDE DEF R, U
  <2> QED
    BY <1>1, <2>1, WFMin
<1>3. PICK n \in T : x = Below(n)
  OBVIOUS
<1>4. ASSUME NEW m \in T, m < n PROVE FALSE
  <2>1. Below(m) \subseteq Below(n) /\ n - 1 \in Below(n) /\ n - 1 \notin Below(m)
    BY <1>4
  <2>2. <<Below(m), x>> \in R
    BY <1>3, <2>1 DEF StrictSubsetOrdering
  <2> QED
    BY <1>2, <2>2
<1> QED
  BY <1>4

(* The third byte lies behind the place that is searched from. *)
LEMMA ThirdLemma ==
  ASSUME NEW s \in Seq(Byte), NEW from \in 1..Len(s) + 1, ZeroPairs(s, from) # {}
  PROVE  /\ Third(s, from) - 2 \in ZeroPairs(s, from)
         /\ \A j \in ZeroPairs(s, from) : Third(s, from) - 2 <= j
         /\ Third(s, from) \in from + 2..Len(s) /\ Third(s, from) \in 1..Len(s) + 1
<1>1. Len(s) \in Nat
  OBVIOUS
<1>2. ZeroPairs(s, from) \in SUBSET Nat
  BY <1>1 DEF ZeroPairs
<1>3. \E i \in ZeroPairs(s, from) : \A j \in ZeroPairs(s, from) : i <= j
  BY <1>2, LeastNumber
<1> DEFINE i == CHOOSE i \in ZeroPairs(s, from) : \A j \in ZeroPairs(s, from) : i <= j
<1>4. i \in ZeroPairs(s, from) /\ \A j \in ZeroPairs(s, from) : i <= j
  BY <1>3
<1>5. Third(s, from) = i + 2
  BY DEF Third
<1> HIDE DEF i
<1>6. i \in from..Len(s) - 2
  BY <1>4 DEF ZeroPairs
<1> QED
  BY <1>1, <1>4, <1>5, <1>6

(* Counting from the end of s, the function is defined place by place. *)
LEMMA EmulationsExist ==
  ASSUME NEW s \in Seq(Byte)
  PROVE  Counts(s, Emulations(s))
<1> DEFINE n == Len(s) + 1
           Until(f, k) == \A m \in 1..n : k <= m => f[m] = EmulationsFrom(s, f, m)
           Defined(k) == \E f : f = [m \in 1..n |-> f[m]] /\ Until(f, k)
           Bad == {d \in Nat : d < n /\ ~Defined(n - d)}
<1>1. n \in Nat /\ n > 0 /\ Len(s) \in Nat
  OBVIOUS
<1>2. Defined(n)
  <2> DEFINE f == [m \in 1..n |-> 0]
  <2>1. ZeroPairs(s, n) = {}
    BY <1>1 DEF ZeroPairs
  <2>2. \A m \in 1..n : n <= m => m = n
    BY <1>1
  <2>3. \A m \in 1..n : n <= m => f[m] = EmulationsFrom(s, f, m)
    BY <2>1, <2>2 DEF EmulationsFrom
  <2>4. f = [m \in 1..n |-> f[m]]
    OBVIOUS
  <2> QED
    BY <2>3, <2>4
<1>3. ASSUME NEW k \in 1..n, k > 1, Defined(k) PROVE Defined(k - 1)
  <2>1. PICK f : f = [m \in 1..n |-> f[m]] /\ Until(f, k)
    BY <1>3
  <2> DEFINE g == [m \in 1..n |-> IF m = k - 1 THEN EmulationsFrom(s, f, k - 1) ELSE f[m]]
  <2>2. ASSUME NEW m \in 1..n, k - 1 <= m PROVE EmulationsFrom(s, g, m) = EmulationsFrom(s, f, m)
    <3>1. CASE ZeroPairs(s, m) = {}
      BY <3>1 DEF EmulationsFrom
    <3>2. CASE ZeroPairs(s, m) # {}
      <4>1. Third(s, m) \in 1..n /\ Third(s, m) # k - 1
        <5>1. Third(s, m) \in m + 2..Len(s) /\ Third(s, m) \in 1..n
          BY <3>2, ThirdLemma
        <5> QED
          BY <1>1, <1>3, <2>2, <5>1
      <4>2. g[Third(s, m)] = f[Third(s, m)]
        BY <4>1
      <4> QED
        BY <4>2 DEF EmulationsFrom
    <3> QED
      BY <3>1, <3>2
  <2>3. ASSUME NEW m \in 1..n, k - 1 <= m PROVE g[m] = EmulationsFrom(s, g, m)
    <3>1. CASE m = k - 1
      BY <2>2, <3>1
    <3>2. CASE m # k - 1
      <4>1. k <= m
        BY <1>1, <1>3, <2>3, <3>2
      <4> QED
        BY <2>1, <2>2, <2>3, <3>2, <4>1
    <3> QED
      BY <3>1, <3>2
  <2>4. g = [m \in 1..n |-> g[m]]
    OBVIOUS
  <2> HIDE DEF g
  <2> QED
    BY <2>3, <2>4
<1> HIDE DEF Defined
<1>4. Bad = {}
  <2> SUFFICES ASSUME Bad # {} PROVE FALSE
    OBVIOUS
  <2>1. PICK d \in Bad : \A e \in Bad : d <= e
    BY LeastNumber
  <2>2. d \in Nat /\ d < n /\ ~Defined(n - d)
    OBVIOUS
  <2>3. d # 0
    <3>1. n - 0 = n
      BY <1>1
    <3> QED
      BY <1>2, <2>2, <3>1
  <2>4. d - 1 \in Nat /\ d - 1 < n /\ ~(d <= d - 1)
    BY <1>1, <2>2, <2>3
  <2>5. Defined(n - (d - 1))
    BY <2>1, <2>4
  <2>6. n - (d - 1) \in 1..n /\ n - (d - 1) > 1 /\ n - (d - 1) - 1 = n - d
    BY <1>1, <2>2, <2>3
  <2> QED
    BY <1>3, <2>2, <2>5, <2>6
<1>5. Defined(1)
  <2>1. n - 1 \in Nat /\ n - 1 < n /\ n - (n - 1) = 1
    BY <1>1
  <2> QED
    BY <1>4, <2>1
<1>6. PICK f : f = [m \in 1..n |-> f[m]] /\ Until(f, 1)
  BY <1>5 DEF Defined
<1>7. \A m \in 1..n : f[m] = EmulationsFrom(s, f, m)
  BY <1>6
<1>8. Counts(s, f)
  BY <1>6, <1>7, Zenon DEF Counts
<1> QED
  BY <1>8 DEF Emulations

LEMMA EmulationsLemma ==
  ASSUME NEW s \in Seq(Byte)
  PROVE  /\ \A from \in 1..Len(s) + 1 : /\ Emulations(s)[from] \in Nat
                                        /\ Emulations(s)[from] = EmulationsFrom(s, Emulations(s), from)
         /\ CountStartCodeEmulations(s) = Emulations(s)[1]
<1> DEFINE n == Len(s) + 1
           f == Emulations(s)
           Bad == {d \in Nat : d < n /\ f[n - d] \notin Nat}
<1>1. n \in Nat /\ n > 0 /\ Len(s) \in Nat
  OBVIOUS
<1>2. Counts(s, f)
  BY EmulationsExist
<1> HIDE DEF f
<1>3. \A from \in 1..n : f[from] = EmulationsFrom(s, f, from)
  BY <1>2 DEF Counts
<1>4. Bad = {}
  <2> SUFFICES ASSUME Bad # {} PROVE FALSE
    OBVIOUS
  <2>1. PICK d \in Bad : \A e \in Bad : d <= e
    BY LeastNumber
  <2>2. d \in Nat /\ n - d \in 1..n /\ f[n - d] \notin Nat
    BY <1>1
  <2>3. CASE ZeroPairs(s, n - d) = {}
    BY <1>3, <2>2, <2>3 DEF EmulationsFrom
  <2>4. CASE ZeroPairs(s, n - d) # {}
    <3> DEFINE t == Third(s, n - d)
    <3>1. t \in (n - d) + 2..Len(s) /\ t \in 1..n
      BY <2>2, <2>4, ThirdLemma
    <3> HIDE DEF t
    <3>2. n - t \in Nat /\ n - t < d /\ n - t < n /\ n - (n - t) = t
      BY <1>1, <2>2, <3>1
    <3>3. f[t] \in Nat
      BY <2>1, <2>2, <3>2
    <3>4. f[n - d] = f[t] + IF s[t] <= 3 THEN 1 ELSE 0
      BY <1>3, <2>2, <2>4 DEF EmulationsFrom, t
    <3> QED
      BY <2>2, <3>3, <3>4
  <2> QED
    BY <2>3, <2>4
<1>5. ASSUME NEW from \in 1..n PROVE f[from] \in Nat
  <2>1. n - from \in Nat /\ n - from < n /\ n - (n - from) = from
    BY <1>1
  <2> QED
    BY <1>4, <2>1
<1>6. CountStartCodeEmulations(s) = f[1]
  BY DEF CountStartCodeEmulations, f, Emulations, Counts, EmulationsFrom, Third, ZeroPairs
<1> QED
  BY <1>3, <1>5, <1>6 DEF f

(* What is counted depends on the pairs of zeros only, and past the last   *)
(* one nothing is.                                                         *)
LEMMA SamePairsLemma ==
  ASSUME NEW s \in Seq(Byte), NEW a \in 1..Len(s) + 1, NEW b \in 1..Len(s) + 1
  PROVE  /\ ZeroPairs(s, a) = ZeroPairs(s, b) => Emulations(s)[a] = Emulations(s)[b]
         /\ ZeroPairs(s, a) = {} => Emulations(s)[a] = 0
<1>1. ZeroPairs(s, a) = ZeroPairs(s, b) => Third(s, a) = Third(s, b)
  BY Zenon DEF Third
<1>2. ZeroPairs(s, a) = ZeroPairs(s, b)
        => EmulationsFrom(s, Emulations(s), a) = EmulationsFrom(s, Emulations(s), b)
  BY <1>1, Zenon DEF EmulationsFrom
<1>3. ZeroPairs(s, a) = {} => EmulationsFrom(s, Emulations(s), a) = 0
  BY DEF EmulationsFrom
<1> QED
  BY <1>2, <1>3, EmulationsLemma

(* The next byte of the payload.                                           *)
LEMMA WriteByteCounts ==
  ASSUME IInv, CopyInv, EmulationInv, WriteByte
  PROVE  EmulationInv'
<1> DEFINE v == rbsp[it + 1]
           z == zeroCount
           f == Emulations(rbsp)
           n == Len(rbsp)
<1>1. /\ phase = "write" /\ phase' = "write" /\ it < n /\ it' = it + 1 /\ rbsp' = rbsp
      /\ it \in Nat /\ n \in Nat /\ z \in 0..2 /\ rbsp \in Seq(Byte) /\ v \in Byte /\ v \in 0..255
  <2>1. it + 1 \in 1..n /\ phase = "write" /\ rbsp \in Seq(Byte)
    BY TypesLemma DEF WriteByte
  <2>2. v \in Byte
    BY <2>1
  <2> HIDE DEF v
  <2> QED
    BY <2>1, <2>2, TypesLemma DEF WriteByte, Byte, IInv, TypeOK
<1>2. /\ escapes' = IF MustEscape(z, v) THEN escapes \cup {Len(out)} ELSE escapes
      /\ zeroCount' = NextZeroCount(IF MustEscape(z, v) THEN 0 ELSE z, v)
  BY <1>1 DEF WriteByte
<1>3. /\ IsFiniteSet(escapes) /\ z <= it /\ \A i \in it - z + 1..it : rbsp[i] = 0
      /\ Cardinality(escapes) + f[it - z + 1] = f[1]
  BY <1>1 DEF EmulationInv
<1>4. Len(out) \notin escapes
  BY DEF CopyInv, WrittenInv, EscapesIn
<1>5. IsFiniteSet(escapes') /\ Cardinality(escapes) \in Nat
      /\ Cardinality(escapes') = Cardinality(escapes) + IF MustEscape(z, v) THEN 1 ELSE 0
  BY <1>2, <1>3, <1>4, FS_AddElement, FS_CardinalityType
<1>6. \A k \in 1..n + 1 : f[k] \in Nat
  BY <1>1, EmulationsLemma
<1> HIDE DEF f
<1> HIDE DEF v
<1>7. v = rbsp[it + 1]
  BY DEF v
<1>8. v # 0 => f[it + 1] = f[it + 2]
  <2> SUFFICES ASSUME v # 0 PROVE f[it + 1] = f[it + 2]
    OBVIOUS
  <2>1. ZeroPairs(rbsp, it + 1) = ZeroPairs(rbsp, it + 2)
    BY <1>1, <1>7 DEF ZeroPairs
  <2>2. it + 1 \in 1..n + 1 /\ it + 2 \in 1..n + 1
    BY <1>1
  <2> QED
    BY <1>1, <2>1, <2>2, SamePairsLemma DEF f
<1>9. z = 1 /\ v # 0 => f[it] = f[it + 2]
  <2> SUFFICES ASSUME z = 1, v # 0 PROVE f[it] = f[it + 2]
    OBVIOUS
  <2>1. ZeroPairs(rbsp, it) = ZeroPairs(rbsp, it + 2)
    BY <1>1, <1>7 DEF ZeroPairs
  <2>2. it \in 1..n + 1 /\ it + 2 \in 1..n + 1
    BY <1>1, <1>3
  <2> QED
    BY <1>1, <2>1, <2>2, SamePairsLemma DEF f
<1>10. z = 2 => f[it - 1] = f[it + 1] + IF v <= 3 THEN 1 ELSE 0
  <2> SUFFICES ASSUME z = 2 PROVE f[it - 1] = f[it + 1] + IF v <= 3 THEN 1 ELSE 0
    OBVIOUS
  <2>1. it - 1 \in 1..n + 1 /\ rbsp[it - 1] = 0 /\ rbsp[it] = 0
    BY <1>1, <1>3
  <2>2. it - 1 \in ZeroPairs(rbsp, it - 1)
    BY <1>1, <2>1 DEF ZeroPairs
  <2>3. Third(rbsp, it - 1) - 2 <= it - 1 /\ Third(rbsp, it - 1) \in it - 1 + 2..n
    BY <1>1, <2>1, <2>2, ThirdLemma
  <2>4. Third(rbsp, it - 1) = it + 1
    BY <1>1, <2>3
  <2>5. f[it - 1] = EmulationsFrom(rbsp, f, it - 1)
    BY <1>1, <2>1, EmulationsLemma DEF f
  <2> QED
    BY <1>7, <2>2, <2>4, <2>5 DEF EmulationsFrom
<1>11. /\ zeroCount' <= it + 1 /\ \A i \in it + 1 - zeroCount' + 1..it + 1 : rbsp[i] = 0
       /\ Cardinality(escapes') + f[it + 1 - zeroCount' + 1] = f[1]
  <2>1. f[it + 1] \in Nat /\ f[it + 2] \in Nat /\ f[1] \in Nat
    BY <1>1, <1>6
  <2>2. CASE z = 2
    <3>1. Cardinality(escapes) + f[it - 1] = f[1]
      BY <1>1, <1>3, <2>2
    <3>2. CASE v = 0
      <4>1. zeroCount' = 1 /\ Cardinality(escapes') = Cardinality(escapes) + 1
        BY <1>2, <1>5, <2>2, <3>2 DEF MustEscape, NextZeroCount
      <4>2. it + 1 - zeroCount' + 1 = it + 1
        BY <1>1, <4>1
      <4>3. f[it - 1] = f[it + 1] + 1
        BY <1>10, <2>2, <3>2
      <4>4. zeroCount' <= it + 1
        BY <1>1, <4>1
      <4>5. \A i \in it + 1..it + 1 : rbsp[i] = 0
        <5>1. \A i \in it + 1..it + 1 : i = it + 1
          BY <1>1
        <5>2. rbsp[it + 1] = 0
          BY <1>7, <3>2
        <5> QED
          BY <5>1, <5>2, Zenon
      <4>6. Cardinality(escapes') + f[it + 1] = f[1]
        BY <1>5, <2>1, <3>1, <4>1, <4>3
      <4> QED
        BY <4>2, <4>4, <4>5, <4>6, Zenon
    <3>3. CASE v # 0
      <4>1. zeroCount' = 0
            /\ Cardinality(escapes') = Cardinality(escapes) + IF v <= 3 THEN 1 ELSE 0
        BY <1>2, <1>5, <2>2, <3>3 DEF MustEscape, NextZeroCount
      <4>2. it + 1 - zeroCount' + 1 = it + 2 /\ zeroCount' <= it + 1
        BY <1>1, <4>1
      <4>3. \A i \in it + 2..it + 1 : rbsp[i] = 0
        BY <1>1
      <4>4. f[it - 1] = f[it + 2] + IF v <= 3 THEN 1 ELSE 0
        BY <1>8, <1>10, <2>2, <3>3
      <4>5. (IF v <= 3 THEN 1 ELSE 0) \in 0..1
        OBVIOUS
      <4> DEFINE e == IF v <= 3 THEN 1 ELSE 0
      <4>6. Cardinality(escapes') + f[it + 2] = f[1]
        <5>1. Cardinality(escapes') = Cardinality(escapes) + e /\ f[it - 1] = f[it + 2] + e
          BY <4>1, <4>4
        <5>2. e \in 0..1
          BY <4>5
        <5> HIDE DEF e
        <5> QED
          BY <1>5, <2>1, <3>1, <5>1, <5>2
      <4> QED
        BY <4>2, <4>3, <4>6, Zenon
    <3> QED
      BY <3>2, <3>3
  <2>3. CASE z # 2
    <3>1. Cardinality(escapes') = Cardinality(escapes)
          /\ zeroCount' = IF v = 0 THEN z + 1 ELSE 0
      BY <1>2, <1>5, <2>3 DEF MustEscape, NextZeroCount
    <3>2. CASE v = 0
      <4>1. it + 1 - zeroCount' + 1 = it - z + 1 /\ zeroCount' <= it + 1
        BY <1>1, <1>3, <3>1, <3>2
      <4>2. \A i \in it - z + 1..it + 1 : i \in it - z + 1..it \/ i = it + 1
        BY <1>1
      <4> QED
        BY <1>3, <1>7, <3>1, <3>2, <4>1, <4>2
    <3>3. CASE v # 0
      <4>1. it + 1 - zeroCount' + 1 = it + 2 /\ zeroCount' = 0
        BY <1>1, <3>1, <3>3
      <4>2. f[it - z + 1] = f[it + 2]
        <5>1. CASE z = 0
          BY <1>1, <1>8, <3>3, <5>1
        <5>2. CASE z = 1
          BY <1>1, <1>9, <3>3, <5>2
        <5> QED
          BY <1>1, <2>3, <5>1, <5>2
      <4> QED
        BY <1>1, <1>3, <3>1, <4>1, <4>2
    <3> QED
      BY <3>2, <3>3
  <2> QED
    BY <2>2, <2>3
<1>12. /\ zeroCount' <= it' /\ \A i \in it' - zeroCount' + 1..it' : rbsp'[i] = 0
       /\ Cardinality(escapes') + f[it' - zeroCount' + 1] = f[1]
  <2>1. it' = it + 1 /\ rbsp' = rbsp /\ it \in Nat /\ it' \in Nat /\ zeroCount' \in Nat
    BY <1>1, <1>2 DEF MustEscape, NextZeroCount
  <2>2. it' - zeroCount' + 1 = it + 1 - zeroCount' + 1
    BY <2>1
  <2>3. zeroCount' <= it'
    BY <1>11, <2>1
  <2>4. \A i \in it' - zeroCount' + 1..it' : rbsp'[i] = 0
    <3> SUFFICES ASSUME NEW i \in it' - zeroCount' + 1..it' PROVE rbsp'[i] = 0
      OBVIOUS
    <3>1. i \in it + 1 - zeroCount' + 1..it + 1
      <4>1. it' - zeroCount' + 1..it' = it + 1 - zeroCount' + 1..it + 1
        BY <2>1, <2>2
      <4> QED
        BY <4>1, Zenon
    <3>2. rbsp[i] = 0
      BY <1>11, <3>1, Zenon
    <3> QED
      BY <2>1, <3>2, Zenon
  <2>5. Cardinality(escapes') + f[it' - zeroCount' + 1] = f[1]
    BY <1>11, <2>2
  <2> QED
    BY <2>3, <2>4, <2>5, Zenon
<1>13. f = Emulations(rbsp')
  BY <1>1, Zenon DEF f
<1>14. phase' # "pad"
  BY <1>1
<1> QED
  BY <1>5, <1>12, <1>13, <1>14, Zenon DEF EmulationInv

(* The payload does not end in zeros, so that nothing is left to count.    *)
LEMMA WriteEndCounts ==
  ASSUME IInv, CopyInv, EmulationInv, WriteEnd
  PROVE  EmulationInv'
<1>1. /\ phase = "write" /\ phase' = "pad" /\ it = Len(rbsp) /\ rbsp' = rbsp
      /\ zeroCount \in 0..2 /\ rbsp \in Seq(Byte) /\ Len(rbsp) \in Nat
  BY TypesLemma DEF WriteEnd, IInv, TypeOK
<1>2. zeroCount = 0
  <2> SUFFICES ASSUME zeroCount # 0 PROVE FALSE
    OBVIOUS
  <2>1. rbsp[Len(rbsp)] = 0 /\ Len(rbsp) > 0
    BY <1>1 DEF EmulationInv
  <2>2. rbsp # << >>
    BY <2>1
  <2> QED
    BY <2>1, <2>2 DEF CopyInv, WrittenInv, IsPayload
<1>3. escapes' = escapes
  BY <1>1, <1>2 DEF WriteEnd, MustEndWithEscape
<1>4. Emulations(rbsp)[Len(rbsp) + 1] = 0
  <2>1. ZeroPairs(rbsp, Len(rbsp) + 1) = {}
    BY <1>1 DEF ZeroPairs
  <2> QED
    BY <1>1, <2>1, SamePairsLemma
<1>5. it - zeroCount + 1 = Len(rbsp) + 1
  BY <1>1, <1>2
<1>6. IsFiniteSet(escapes) /\ Cardinality(escapes) \in Nat
      /\ Cardinality(escapes) + 0 = Emulations(rbsp)[1]
  BY <1>1, <1>4, <1>5, FS_CardinalityType DEF EmulationInv
<1> QED
  BY <1>1, <1>3, <1>6 DEF EmulationInv

LEMMA InitEmulationInv == Init => EmulationInv
<1> SUFFICES ASSUME Init PROVE EmulationInv
  OBVIOUS
<1>1. /\ phase = "write" /\ it = 0 /\ zeroCount = 0 /\ escapes = {} /\ rbsp \in Seq(Byte)
      /\ Len(rbsp) \in Nat
  BY PayloadsAssumption DEF Init
<1>2. IsFiniteSet(escapes) /\ Cardinality(escapes) = 0
  BY <1>1, FS_EmptySet
<1>3. Emulations(rbsp)[1] \in Nat
  <2>1. 1 \in 1..Len(rbsp) + 1
    BY <1>1
  <2> QED
    BY <1>1, <2>1, EmulationsLemma
<1> QED
  BY <1>1, <1>2, <1>3 DEF EmulationInv

LEMMA NextEmulationInv == IInv /\ CopyInv /\ EmulationInv /\ [Next]_vars => EmulationInv'
<1> SUFFICES ASSUME IInv, CopyInv, EmulationInv, [Next]_vars PROVE EmulationInv'
  OBVIOUS
<1>1. CASE WriteByte
  BY <1>1, WriteByteCounts
<1>2. CASE WriteEnd
  BY <1>2, WriteEndCounts
<1>3. CASE PadWord
  <2>1. IsFiniteSet(escapes')
    BY <1>3, FS_AddElement DEF PadWord, EmulationInv
  <2>2. words' # 0 /\ phase' = "pad"
    BY <1>3, TypesLemma DEF PadWord, IInv, TypeOK
  <2> QED
    BY <2>1, <2>2 DEF EmulationInv
<1>4. CASE UNCHANGED <<phase, rbsp, it, zeroCount, escapes, words>>
  BY <1>4 DEF EmulationInv
<1>5. CASE UNCHANGED escapes /\ phase' \notin {"write", "pad"}
  BY <1>5 DEF EmulationInv
<1>6. CASE EndPadding \/ ReadEnd \/ StripZero \/ ReadNalUnitHeader \/ ReadByte
  BY <1>5, <1>6 DEF EndPadding, ReadEnd, StripZero, ReadNalUnitHeader, ReadByte, Abort
<1>7. CASE Finished \/ UNCHANGED vars
  BY <1>4, <1>7 DEF Finished, vars
<1> QED
  BY <1>1, <1>2, <1>3, <1>6, <1>7 DEF Next

(* countStartCodeEmulations(), by which the encoder sizes the substreams   *)
(* before it has written them, counts the escapes write() puts.            *)
THEOREM EmulationsAreCounted == Spec => []EmulationsCounted
<1>1. Init => EmulationInv
  BY InitEmulationInv
<1>2. IInv /\ CopyInv /\ EmulationInv /\ [Next]_vars => EmulationInv'
  BY NextEmulationInv
<1>3. IInv /\ EmulationInv => EmulationsCounted
  BY TypesLemma, EmulationsLemma DEF EmulationInv, EmulationsCounted
<1> QED
  BY <1>1, <1>2, <1>3, Invariance, CopyInvariance, PTL DEF Spec

-----------------------------------------------------------------------------
(* The decoder finds the substreams.                                       *)

(* Sorted(S) holds the elements of S, the k-th one behind k - 1 smaller    *)
(* ones.                                                                   *)
LEMMA SortedLemma ==
  ASSUME NEW S \in SUBSET Nat, IsFiniteSet(S)
  PROVE  /\ Cardinality(S) \in Nat
         /\ \A k \in 1..Cardinality(S) :
              /\ Sorted(S)[k] \in S
              /\ Cardinality({y \in S : y < Sorted(S)[k]}) = k - 1
         /\ Sorted(S) \in Seq(S) /\ Len(Sorted(S)) = Cardinality(S)
<1> DEFINE n == Cardinality(S)
           Below(x) == {y \in S : y < x}
           rank == [x \in S |-> Cardinality(Below(x))]
<1>1. n \in Nat
  BY FS_CardinalityType
<1>2. ASSUME NEW x \in S
      PROVE  IsFiniteSet(Below(x)) /\ Cardinality(Below(x)) \in 0..n - 1
  <2>1. IsFiniteSet(Below(x)) /\ Cardinality(Below(x)) <= n
    BY FS_Subset
  <2>2. Cardinality(Below(x)) # n
    <3>1. x \notin Below(x)
      BY <1>2
    <3> QED
      BY <3>1, FS_Subset
  <2> QED
    BY <1>1, <2>1, <2>2, FS_CardinalityType
<1>3. ASSUME NEW x \in S, NEW y \in S, x < y PROVE rank[x] < rank[y]
  <2>1. Below(x) \subseteq Below(y) /\ x \in Below(y) /\ x \notin Below(x)
    <3>1. x \in Nat /\ y \in Nat /\ \A z \in S : z \in Nat
      OBVIOUS
    <3>2. ASSUME NEW z \in S, z < x PROVE z < y
      BY <1>3, <3>1, <3>2
    <3>3. ~(x < x)
      BY <3>1
    <3> QED
      BY <1>3, <3>2, <3>3
  <2>2. Cardinality(Below(x)) <= Cardinality(Below(y)) /\ Cardinality(Below(x)) # Cardinality(Below(y))
    BY <1>2, <2>1, FS_Subset
  <2>3. Cardinality(Below(x)) \in Nat /\ Cardinality(Below(y)) \in Nat
    BY <1>2
  <2> QED
    BY <2>2, <2>3
<1>4. rank \in Injection(S, 0..n - 1)
  <2>1. rank \in [S -> 0..n - 1]
    BY <1>2
  <2>2. ASSUME NEW x \in S, NEW y \in S, rank[x] = rank[y] PROVE x = y
    <3>1. ~(rank[x] < rank[y]) /\ ~(rank[y] < rank[x])
      BY <1>1, <2>1, <2>2
    <3> QED
      BY <1>3, <3>1
  <2> HIDE DEF rank, n
  <2>3. \A x, y \in DOMAIN rank : rank[x] = rank[y] => x = y
    BY <2>1, <2>2
  <2> QED
    BY <2>1, <2>3, Zenon DEF Injection, IsInjective
<1>5. rank \in Surjection(S, 0..n - 1)
  <2> HIDE DEF n, rank
  <2>1. IsFiniteSet(0..n - 1) /\ Cardinality(0..n - 1) = n
    <3>1. 0 \in Int /\ n - 1 \in Int
      BY <1>1
    <3>2. IsFiniteSet(0..n - 1) /\ Cardinality(0..n - 1) = IF 0 > n - 1 THEN 0 ELSE (n - 1) - 0 + 1
      BY <3>1, FS_Interval
    <3> QED
      BY <1>1, <3>2
  <2>2. Cardinality(S) = n
    BY DEF n
  <2> QED
    BY <1>4, <2>1, <2>2, FS_Injection
<1>6. ASSUME NEW k \in 1..n
      PROVE  Sorted(S)[k] \in S /\ Cardinality(Below(Sorted(S)[k])) = k - 1
  <2>1. k - 1 \in 0..n - 1
    BY <1>1
  <2>2. \E x \in S : rank[x] = k - 1
    BY <1>5, <2>1 DEF Surjection
  <2>3. \E x \in S : Cardinality(Below(x)) = k - 1
    BY <2>2
  <2>4. Sorted(S)[k] = CHOOSE x \in S : Cardinality(Below(x)) = k - 1
    BY DEF Sorted
  <2> QED
    BY <2>3, <2>4
<1>7. Sorted(S) \in [1..n -> S]
  BY <1>6 DEF Sorted
<1>8. Sorted(S) \in Seq(S) /\ Len(Sorted(S)) = n
  BY <1>1, <1>7
<1> QED
  BY <1>1, <1>6, <1>8

-----------------------------------------------------------------------------
(* How many bytes are copied grows by one with each byte that is not an    *)
(* escape.                                                                 *)

(* The escapes between two places of s. *)
Between(s, j, e) == {l \in EscapesIn(s) : j <= l /\ l < e}

LEMMA StepsLemma ==
  ASSUME NEW s \in Seq(Byte), NEW src, NEW m, Copies(m, src, s)
  PROVE  /\ \A i \in 0..Len(s) : m[i] \in Nat
         /\ \A i \in 1..Len(s) : i - 1 \in 0..Len(s) /\ m[i - 1] <= m[i] /\ m[i] <= m[i - 1] + 1
<1>1. Len(s) \in Nat
  OBVIOUS
<1>2. m \in [0..Len(s) -> Nat]
  BY DEF Copies
<1>3. ASSUME NEW i \in 1..Len(s)
      PROVE  i - 1 \in 0..Len(s) /\ m[i - 1] <= m[i] /\ m[i] <= m[i - 1] + 1
  <2>1. i - 1 \in 0..Len(s) /\ m[i - 1] \in Nat
    BY <1>1, <1>2
  <2>2. m[i] = m[i - 1] \/ m[i] = m[i - 1] + 1
    BY DEF Copies
  <2> QED
    BY <2>1, <2>2
<1> QED
  BY <1>2, <1>3

LEMMA OrderLemma ==
  ASSUME NEW s \in Seq(Byte), NEW src, NEW m, Copies(m, src, s),
         NEW j \in 0..Len(s), NEW e \in 0..Len(s), j <= e
  PROVE  m[j] <= m[e]
<1> DEFINE Bad == {d \in Nat : j + d <= e /\ m[j + d] < m[j]}
<1>1. Len(s) \in Nat /\ \A i \in 0..Len(s) : m[i] \in Nat
  BY StepsLemma
<1>2. Bad = {}
  <2> SUFFICES ASSUME Bad # {} PROVE FALSE
    OBVIOUS
  <2>1. PICK d \in Bad : \A c \in Bad : d <= c
    BY LeastNumber
  <2>2. d \in Nat /\ j + d <= e /\ m[j + d] < m[j]
    OBVIOUS
  <2>3. d # 0
    <3>1. j + 0 = j /\ m[j] \in Nat
      BY <1>1
    <3> QED
      BY <2>2, <3>1
  <2>4. d - 1 \in Nat /\ j + (d - 1) <= e /\ ~(d <= d - 1)
    BY <1>1, <2>2, <2>3
  <2>5. ~(m[j + (d - 1)] < m[j])
    BY <2>1, <2>4
  <2>6. j + d \in 1..Len(s) /\ (j + d) - 1 = j + (d - 1) /\ j + (d - 1) \in 0..Len(s)
    BY <1>1, <2>2, <2>3
  <2>7. m[j + (d - 1)] <= m[j + d]
    BY <2>6, StepsLemma
  <2> QED
    BY <1>1, <2>2, <2>5, <2>6, <2>7
<1> DEFINE d == e - j
<1>3. d \in Nat /\ j + d = e
  BY <1>1
<1>4. ~(m[e] < m[j])
  <2>1. d \notin Bad
    BY <1>2
  <2> HIDE DEF d
  <2>2. ~(m[j + d] < m[j])
    BY <1>3, <2>1
  <2> QED
    BY <1>3, <2>2
<1> QED
  BY <1>1, <1>4

(* So a number of bytes is copied with a byte that is not an escape.       *)
LEMMA PlaceLemma ==
  ASSUME NEW s \in Seq(Byte), NEW src, NEW m, Copies(m, src, s),
         NEW h \in Nat, h > 0, h <= m[Len(s)]
  PROVE  \E e \in 1..Len(s) : m[e] = h /\ ~EscapeAt(s, e) /\ s[e] = src[h] /\ m[e - 1] = h - 1
<1>1. /\ Len(s) \in Nat /\ m[0] = 0
      /\ \A i \in 0..Len(s) : m[i] \in Nat
      /\ \A i \in 1..Len(s) : i - 1 \in 0..Len(s) /\ m[i - 1] <= m[i] /\ m[i] <= m[i - 1] + 1
  <2>1. m[0] = 0
    BY DEF Copies
  <2> QED
    BY <2>1, StepsLemma
<1> DEFINE T == {i \in Nat : i <= Len(s) /\ h <= m[i]}
<1>2. Len(s) \in T
  BY <1>1
<1>3. PICK e \in T : \A i \in T : e <= i
  BY <1>2, LeastNumber
<1>4. e # 0 /\ e \in 1..Len(s) /\ e - 1 \in 0..Len(s) /\ h <= m[e]
  BY <1>1, <1>3
<1>5. ~(h <= m[e - 1])
  <2>1. e - 1 \in Nat /\ ~(e <= e - 1) /\ e - 1 <= Len(s)
    BY <1>1, <1>4
  <2> QED
    BY <1>3, <2>1
<1>6. m[e - 1] \in Nat /\ m[e] \in Nat /\ m[e] <= m[e - 1] + 1
  BY <1>1, <1>4
<1>7. m[e] = h /\ m[e - 1] = h - 1 /\ m[e] # m[e - 1]
  BY <1>4, <1>5, <1>6
<1>8. IF EscapeAt(s, e) THEN m[e] = m[e - 1]
      ELSE m[e] = m[e - 1] + 1 /\ s[e] = src[m[e]]
  BY <1>4 DEF Copies
<1> QED
  BY <1>4, <1>7, <1>8

(* A place further on: the byte before it is an escape or not.             *)
LEMMA BetweenLemma ==
  ASSUME NEW s \in Seq(Byte), NEW j \in 0..Len(s), NEW e \in 0..Len(s), j <= e
  PROVE  /\ IsFiniteSet(Between(s, j, e)) /\ Cardinality(Between(s, j, e)) \in Nat
         /\ j = e => Cardinality(Between(s, j, e)) = 0
         /\ j < e => Cardinality(Between(s, j, e)) =
                       Cardinality(Between(s, j, e - 1)) + IF EscapeAt(s, e) THEN 1 ELSE 0
         /\ j < e => Cardinality(Between(s, j, e)) =
                       Cardinality(Between(s, j + 1, e)) + IF EscapeAt(s, j + 1) THEN 1 ELSE 0
<1>1. Len(s) \in Nat
  OBVIOUS
<1>2. \A a, b : Between(s, a, b) \in SUBSET Nat /\ \A l \in Between(s, a, b) : l <= Len(s)
  BY <1>1 DEF Between, EscapesIn
<1>3. \A a, b : IsFiniteSet(Between(s, a, b)) /\ Cardinality(Between(s, a, b)) \in Nat
  BY <1>1, <1>2, FS_BoundedSetOfNaturals, FS_CardinalityType
<1>4. j = e => Between(s, j, e) = {}
  BY <1>1 DEF Between, EscapesIn
<1>5. ASSUME j < e
      PROVE  Cardinality(Between(s, j, e)) =
               Cardinality(Between(s, j, e - 1)) + IF EscapeAt(s, e) THEN 1 ELSE 0
  <2>1. e - 1 \in Nat /\ e - 1 < Len(s) /\ (e - 1) + 1 = e /\ j <= e - 1
    BY <1>1, <1>5
  <2>2. \A l \in Nat : l < e <=> l < e - 1 \/ l = e - 1
    BY <1>1
  <2>3. e - 1 \in EscapesIn(s) <=> EscapeAt(s, e)
    BY <2>1 DEF EscapesIn
  <2>4. e - 1 \notin Between(s, j, e - 1)
    BY <2>1 DEF Between
  <2>5. Between(s, j, e) = IF EscapeAt(s, e) THEN Between(s, j, e - 1) \cup {e - 1}
                           ELSE Between(s, j, e - 1)
    BY <2>1, <2>2, <2>3 DEF Between, EscapesIn
  <2>6. Cardinality(Between(s, j, e - 1) \cup {e - 1}) = Cardinality(Between(s, j, e - 1)) + 1
    BY <1>3, <2>4, FS_AddElement
  <2> QED
    BY <1>3, <2>5, <2>6
<1>6. ASSUME j < e
      PROVE  Cardinality(Between(s, j, e)) =
               Cardinality(Between(s, j + 1, e)) + IF EscapeAt(s, j + 1) THEN 1 ELSE 0
  <2>1. j \in Nat /\ j < Len(s)
    BY <1>1, <1>6
  <2>2. \A l \in Nat : j <= l <=> j + 1 <= l \/ l = j
    BY <1>1
  <2>3. j \in EscapesIn(s) <=> EscapeAt(s, j + 1)
    BY <2>1 DEF EscapesIn
  <2>4. j \notin Between(s, j + 1, e)
    BY <2>1 DEF Between
  <2>5. Between(s, j, e) = IF EscapeAt(s, j + 1) THEN Between(s, j + 1, e) \cup {j}
                           ELSE Between(s, j + 1, e)
    BY <1>6, <2>1, <2>2, <2>3 DEF Between, EscapesIn
  <2>6. Cardinality(Between(s, j + 1, e) \cup {j}) = Cardinality(Between(s, j + 1, e)) + 1
    BY <1>3, <2>4, FS_AddElement
  <2> QED
    BY <1>3, <2>5, <2>6
<1> QED
  BY <1>3, <1>4, <1>5, <1>6, FS_EmptySet

(* What is not copied between two places is the escapes.                   *)
LEMMA LengthLemma ==
  ASSUME NEW s \in Seq(Byte), NEW src, NEW m, Copies(m, src, s),
         NEW j \in 0..Len(s), NEW e \in 0..Len(s), j <= e
  PROVE  m[e] - m[j] + Cardinality(Between(s, j, e)) = e - j
<1> DEFINE C(i) == Cardinality(Between(s, j, i))
           Bad == {d \in Nat : j + d <= e /\ m[j + d] - m[j] + C(j + d) # d}
<1>1. Len(s) \in Nat /\ \A i \in 0..Len(s) : m[i] \in Nat
  BY StepsLemma
<1>2. ASSUME NEW d \in Nat, j + d <= e PROVE C(j + d) \in Nat
  BY <1>1, <1>2, BetweenLemma
<1>3. Bad = {}
  <2> SUFFICES ASSUME Bad # {} PROVE FALSE
    OBVIOUS
  <2>1. PICK d \in Bad : \A c \in Bad : d <= c
    BY LeastNumber
  <2>2. d \in Nat /\ j + d <= e /\ m[j + d] - m[j] + C(j + d) # d
    OBVIOUS
  <2> DEFINE i == j + d
  <2>3. d # 0
    <3>1. C(j) = 0 /\ j + 0 = j /\ m[j] \in Nat
      BY <1>1, BetweenLemma
    <3> QED
      BY <2>2, <3>1
  <2>4. d - 1 \in Nat /\ j + (d - 1) <= e /\ ~(d <= d - 1) /\ j + (d - 1) = i - 1
    BY <1>1, <2>2, <2>3
  <2>5. i \in 1..Len(s) /\ i - 1 \in 0..Len(s) /\ j < i /\ i \in 0..Len(s)
    BY <1>1, <2>2, <2>3
  <2>6. m[i - 1] - m[j] + C(i - 1) = d - 1
    <3>1. d - 1 \notin Bad
      BY <2>1, <2>4
    <3>2. m[j + (d - 1)] - m[j] + C(j + (d - 1)) = d - 1
      BY <2>4, <3>1
    <3> HIDE DEF C, i
    <3> QED
      BY <2>4, <3>2
  <2>7. C(i) = C(i - 1) + IF EscapeAt(s, i) THEN 1 ELSE 0
    BY <2>5, BetweenLemma
  <2>8. m[i] = m[i - 1] + IF EscapeAt(s, i) THEN 0 ELSE 1
    <3>1. m[i - 1] \in Nat
      BY <1>1, <2>5
    <3>2. IF EscapeAt(s, i) THEN m[i] = m[i - 1] ELSE m[i] = m[i - 1] + 1
      BY <2>5 DEF Copies
    <3> QED
      BY <3>1, <3>2
  <2>9. C(i - 1) \in Nat
    <3> HIDE DEF i
    <3>1. C(j + (d - 1)) \in Nat
      BY <1>2, <2>4
    <3> QED
      BY <2>4, <3>1
  <2>10. m[i] \in Nat /\ m[i - 1] \in Nat /\ m[j] \in Nat
    BY <1>1, <2>5
  <2>11. m[i] - m[j] + C(i) # d
    BY <2>2
  <2>12. d \in Nat
    BY <2>2
  <2> HIDE DEF C, i, Bad
  <2>13. /\ (m[i - 1] + 1) - m[j] + C(i - 1) = d
         /\ m[i - 1] - m[j] + (C(i - 1) + 1) = d
    <3> DEFINE x == m[i - 1]
               y == m[j]
               c == C(i - 1)
    <3>1. x \in Nat /\ y \in Nat /\ c \in Nat /\ x - y + c = d - 1
      BY <2>6, <2>9, <2>10
    <3> HIDE DEF x, y, c
    <3>2. (x + 1) - y + c = d /\ x - y + (c + 1) = d
      BY <2>12, <3>1, SMT
    <3> QED
      BY <3>2 DEF x, y, c
  <2>14. CASE EscapeAt(s, i)
    <3>1. C(i) = C(i - 1) + 1 /\ m[i - 1] + 0 = m[i - 1]
      BY <2>7, <2>10, <2>14
    <3>2. m[i] = m[i - 1]
      BY <2>8, <2>14, <3>1
    <3> QED
      BY <2>11, <2>13, <3>1, <3>2, Zenon
  <2>15. CASE ~EscapeAt(s, i)
    <3>1. C(i - 1) + 0 = C(i - 1)
      BY <2>9
    <3>2. C(i) = C(i - 1) /\ m[i] = m[i - 1] + 1
      BY <2>7, <2>8, <2>15, <3>1
    <3> QED
      BY <2>11, <2>13, <3>2, Zenon
  <2> QED
    BY <2>14, <2>15
<1> DEFINE d == e - j
<1>4. d \in Nat /\ j + d = e
  BY <1>1
<1>5. m[j + d] - m[j] + C(j + d) = d
  <2>1. d \notin Bad
    BY <1>3
  <2> HIDE DEF d, C
  <2> QED
    BY <1>1, <1>4, <2>1
<1>6. m[e] - m[j] + C(e) = d
  <2> HIDE DEF d, C
  <2> QED
    BY <1>4, <1>5
<1> QED
  BY <1>6

(* Where there is no escape, byte after byte is copied.                    *)
Plain(s, j, f) == \A i \in j + 1..f : ~EscapeAt(s, i)

LEMMA PlainLemma ==
  ASSUME NEW s \in Seq(Byte), NEW src, NEW m, Copies(m, src, s),
         NEW j \in 0..Len(s), NEW e \in 0..Len(s), j <= e, Plain(s, j, e)
  PROVE  /\ \A i \in j..e : m[i] = m[j] + (i - j)
         /\ \A i \in j + 1..e : s[i] = src[m[j] + (i - j)]
         /\ Cardinality(Between(s, j, e)) = 0
<1>1. Len(s) \in Nat /\ \A i \in 0..Len(s) : m[i] \in Nat
  BY StepsLemma
<1>2. ASSUME NEW i \in j..e PROVE Between(s, j, i) = {}
  <2>1. ASSUME NEW l \in Between(s, j, i) PROVE FALSE
    <3>1. l \in Nat /\ j <= l /\ l < i /\ EscapeAt(s, l + 1)
      BY <2>1 DEF Between, EscapesIn
    <3>2. l + 1 \in j + 1..e
      BY <1>1, <3>1
    <3> QED
      BY <3>1, <3>2 DEF Plain
  <2> QED
    BY <2>1
<1>3. ASSUME NEW i \in j..e PROVE m[i] = m[j] + (i - j)
  <2>1. i \in 0..Len(s) /\ j <= i
    BY <1>1
  <2>2. m[i] - m[j] + Cardinality(Between(s, j, i)) = i - j
    BY <2>1, LengthLemma
  <2>3. m[i] \in Nat /\ m[j] \in Nat
    BY <1>1, <2>1
  <2>4. Cardinality(Between(s, j, i)) = 0
    BY <1>2, FS_EmptySet
  <2> QED
    BY <2>2, <2>3, <2>4
<1>4. ASSUME NEW i \in j + 1..e PROVE s[i] = src[m[j] + (i - j)]
  <2>1. i \in 1..Len(s) /\ i \in j..e
    BY <1>1
  <2>2. s[i] = src[m[i]]
    BY <2>1 DEF Copies, Plain
  <2> QED
    BY <1>3, <2>1, <2>2
<1>5. e \in j..e
  BY <1>1
<1> QED
  BY <1>2, <1>3, <1>4, <1>5, FS_EmptySet

(* An escape is the first one behind a place that no zero stands before:   *)
(* two zeros have been copied before it.                                   *)
LEMMA FirstEscapeLemma ==
  ASSUME NEW s \in Seq(Byte), NEW src, NEW m, Copies(m, src, s),
         NEW j \in 0..Len(s), j > 0 => s[j] # 0,
         NEW k \in j + 1..Len(s), EscapeAt(s, k), \A i \in j + 1..k - 1 : ~EscapeAt(s, i)
  PROVE  /\ k >= j + 3 /\ m[k] = m[j] + (k - 1 - j)
         /\ src[m[j] + (k - 2 - j)] = 0 /\ src[m[j] + (k - 1 - j)] = 0
<1>1. Len(s) \in Nat /\ k > 2 /\ s[k - 1] = 0 /\ s[k - 2] = 0
  BY DEF EscapeAt
<1>2. k - 1 # j /\ k - 2 # j
  BY <1>1
<1>3. k >= j + 3
  BY <1>1, <1>2
<1> DEFINE e == k - 1
<1>4. e \in 0..Len(s) /\ j <= e /\ Plain(s, j, e)
  BY <1>1 DEF Plain
<1>5. /\ \A i \in j..e : m[i] = m[j] + (i - j)
      /\ \A i \in j + 1..e : s[i] = src[m[j] + (i - j)]
  <2> HIDE DEF e
  <2> QED
    BY <1>4, PlainLemma
<1>6. k - 1 \in j..k - 1 /\ k - 1 \in j + 1..k - 1 /\ k - 2 \in j + 1..k - 1
  BY <1>1, <1>3
<1>7. m[k] = m[k - 1]
  <2>1. k \in 1..Len(s)
    BY <1>1
  <2> QED
    BY <2>1 DEF Copies
<1> QED
  BY <1>1, <1>3, <1>5, <1>6, <1>7

(* The least escape behind a place. *)
LEMMA LeastEscape ==
  ASSUME NEW s \in Seq(Byte), NEW j \in 0..Len(s), NEW e \in 0..Len(s),
         ~(\A i \in j + 1..e : ~EscapeAt(s, i))
  PROVE  \E k \in j + 1..e : EscapeAt(s, k) /\ \A i \in j + 1..k - 1 : ~EscapeAt(s, i)
<1> DEFINE T == {i \in Nat : i \in j + 1..e /\ EscapeAt(s, i)}
<1>1. Len(s) \in Nat
  OBVIOUS
<1>2. T # {}
  BY <1>1
<1>3. PICK k \in T : \A i \in T : k <= i
  BY <1>2, LeastNumber
<1>4. ASSUME NEW i \in j + 1..k - 1 PROVE ~EscapeAt(s, i)
  <2>1. i \in Nat /\ i \in j + 1..e /\ ~(k <= i)
    BY <1>1, <1>3
  <2> QED
    BY <1>3, <2>1
<1> QED
  BY <1>3, <1>4

EscapeBehind(src, m, j, k) ==
  /\ k >= j + 3 /\ m[k] = m[j] + (k - 1 - j)
  /\ src[m[j] + (k - 2 - j)] = 0 /\ src[m[j] + (k - 1 - j)] = 0

LEMMA EscapeBetween ==
  ASSUME NEW s \in Seq(Byte), NEW src, NEW m, Copies(m, src, s),
         NEW j \in 0..Len(s), j > 0 => s[j] # 0, NEW f \in 0..Len(s), ~Plain(s, j, f)
  PROVE  \E k \in j + 1..f : EscapeBehind(src, m, j, k)
<1>1. PICK k \in j + 1..f : EscapeAt(s, k) /\ \A i \in j + 1..k - 1 : ~EscapeAt(s, i)
  BY LeastEscape DEF Plain
<1>2. Len(s) \in Nat /\ k \in j + 1..Len(s)
  OBVIOUS
<1> QED
  BY <1>1, <1>2, FirstEscapeLemma DEF EscapeBehind

(* Part of the payload stands in s up to e: the bytes from a place on that *)
(* no zero stands before are counted as many escapes as there are.         *)
Stands(s, src, m, q, u, e) ==
  /\ \A i \in 1..Len(q) : src[u + i] = q[i]
  /\ q # << >> /\ q[Len(q)] # 0
  /\ m[e] = u + Len(q) /\ ~EscapeAt(s, e)

(* What would be escaped behind two zeros of q lies behind f.              *)
PairsBehind(q, from, j, f) == \A r \in ZeroPairs(q, from) : f < j + (r + 3 - from)

LEMMA NoPairLemma ==
  ASSUME NEW s \in Seq(Byte), NEW src, NEW m, Copies(m, src, s), NEW q \in Seq(Byte), NEW u \in Nat,
         NEW e \in 1..Len(s), Stands(s, src, m, q, u, e),
         NEW j \in 0..e, j > 0 => s[j] # 0,
         NEW from \in 1..Len(q) + 1, m[j] = u + (from - 1),
         NEW f \in 0..Len(s), j <= f, f <= e, PairsBehind(q, from, j, f)
  PROVE  Plain(s, j, f)
<1> SUFFICES ASSUME ~Plain(s, j, f) PROVE FALSE
  OBVIOUS
<1>1. Len(s) \in Nat /\ Len(q) \in Nat /\ j \in 0..Len(s)
  OBVIOUS
<1>2. PICK k \in j + 1..f : EscapeBehind(src, m, j, k)
  BY <1>1, EscapeBetween
<1>4. /\ k >= j + 3 /\ m[k] = m[j] + (k - 1 - j)
      /\ src[m[j] + (k - 2 - j)] = 0 /\ src[m[j] + (k - 1 - j)] = 0
  BY <1>2 DEF EscapeBehind
<1> DEFINE r == (from - 1) + (k - 2 - j)
<1>5. r \in Nat /\ from <= r /\ ~(f < j + (r + 3 - from))
  BY <1>1, <1>4
<1>6. m[j] + (k - 2 - j) = u + r /\ m[j] + (k - 1 - j) = u + (r + 1)
  BY <1>1
<1>7. r + 1 <= Len(q) /\ r + 1 # Len(q)
  <2>1. m[k] <= m[e]
    <3>1. k \in 0..Len(s) /\ e \in 0..Len(s) /\ k <= e
      BY <1>1
    <3> QED
      BY <3>1, OrderLemma
  <2>2. u + (r + 1) <= u + Len(q)
    BY <1>4, <1>6, <2>1 DEF Stands
  <2>3. r + 1 <= Len(q)
    BY <1>1, <1>5, <2>2
  <2>4. r + 1 \in 1..Len(q)
    BY <1>1, <1>5, <2>3
  <2>5. q[r + 1] = 0
    BY <1>4, <1>6, <2>4 DEF Stands
  <2> QED
    BY <2>3, <2>5 DEF Stands
<1>8. r \in 1..Len(q) /\ r + 1 \in 1..Len(q) /\ r \in from..Len(q) - 2
  BY <1>1, <1>5, <1>7
<1>9. q[r] = 0 /\ q[r + 1] = 0
  BY <1>4, <1>6, <1>8 DEF Stands
<1>10. r \in ZeroPairs(q, from)
  BY <1>8, <1>9 DEF ZeroPairs
<1> QED
  BY <1>5, <1>10 DEF PairsBehind

(* The byte behind the first two zeros is escaped if it is counted.        *)
Fresh(s, m, u, j, from) == m[j] = u + (from - 1) /\ (j > 0 => s[j] # 0)

Jumps(s, m, q, u, j, e, from, i, g, d) ==
  /\ Fresh(s, m, u, i, g)
  /\ Emulations(q)[from] = Emulations(q)[g] + d
  /\ Cardinality(Between(s, j, e)) = Cardinality(Between(s, i, e)) + d

Continued(s, m, q, u, j, e, from) ==
  \/ Emulations(q)[from] = Cardinality(Between(s, j, e))
  \/ \E i \in j + 1..e : \E g \in 1..Len(q) + 1 : \E d \in {0, 1} :
       Jumps(s, m, q, u, j, e, from, i, g, d)

LEMMA BetweenPlain ==
  ASSUME NEW s \in Seq(Byte), NEW j \in 0..Len(s), NEW z \in 0..Len(s), NEW e \in 0..Len(s),
         j <= z, z < e, Plain(s, j, z)
  PROVE  Cardinality(Between(s, j, e)) =
           Cardinality(Between(s, z + 1, e)) + IF EscapeAt(s, z + 1) THEN 1 ELSE 0
<1>1. Len(s) \in Nat
  OBVIOUS
<1>2. ASSUME NEW l \in Between(s, j, e) PROVE l \in Between(s, z, e)
  <2>1. l \in Nat /\ l < Len(s) /\ EscapeAt(s, l + 1) /\ j <= l /\ l < e
    BY <1>2 DEF Between, EscapesIn
  <2>2. l + 1 \notin j + 1..z
    BY <2>1 DEF Plain
  <2>3. z <= l
    BY <1>1, <2>1, <2>2
  <2> QED
    BY <1>2, <2>3 DEF Between
<1>3. Between(s, z, e) \subseteq Between(s, j, e)
  BY <1>1 DEF Between, EscapesIn
<1>4. Between(s, j, e) = Between(s, z, e)
  BY <1>2, <1>3
<1> QED
  BY <1>4, BetweenLemma

LEMMA CountStep ==
  ASSUME NEW s \in Seq(Byte), NEW src, NEW m, Copies(m, src, s), NoStartCodeIn(s),
         NEW q \in Seq(Byte), NEW u \in Nat,
         NEW e \in 1..Len(s), Stands(s, src, m, q, u, e),
         NEW j \in 0..e, NEW from \in 1..Len(q) + 1, Fresh(s, m, u, j, from)
  PROVE  Continued(s, m, q, u, j, e, from)
<1>1. /\ Len(s) \in Nat /\ Len(q) \in Nat /\ j \in 0..Len(s) /\ e \in 0..Len(s)
      /\ \A i \in 0..Len(s) : m[i] \in Nat
  BY StepsLemma
<1>2. m[j] = u + (from - 1) /\ (j > 0 => s[j] # 0)
  BY DEF Fresh
<1>3. CASE ZeroPairs(q, from) = {}
  <2>1. Emulations(q)[from] = 0
    BY <1>3, SamePairsLemma
  <2>2. Plain(s, j, e)
    <3>1. PairsBehind(q, from, j, e)
      BY <1>3 DEF PairsBehind
    <3> QED
      BY <1>1, <1>2, <3>1, NoPairLemma
  <2>3. Cardinality(Between(s, j, e)) = 0
    BY <1>1, <2>2, PlainLemma
  <2> QED
    BY <2>1, <2>3 DEF Continued
<1>4. CASE ZeroPairs(q, from) # {}
  <2> DEFINE t == Third(q, from)
             z == j + (t - from)
  <2>1. /\ t - 2 \in ZeroPairs(q, from) /\ \A r \in ZeroPairs(q, from) : t - 2 <= r
        /\ t \in from + 2..Len(q) /\ t \in 1..Len(q) + 1
    BY <1>4, ThirdLemma
  <2>2. Emulations(q)[from] = Emulations(q)[t] + IF q[t] <= 3 THEN 1 ELSE 0
    BY <1>4, EmulationsLemma DEF EmulationsFrom
  <2>3. Emulations(q)[t] \in Nat
    BY <2>1, EmulationsLemma
  <2> HIDE DEF t
  <2>4. z \in Nat /\ j + 2 <= z /\ z - j = t - from
    BY <1>1, <2>1
  <2>5. \A f \in 0..Len(s) : f <= z => PairsBehind(q, from, j, f)
    <3>1. ASSUME NEW f \in 0..Len(s), f <= z, NEW r \in ZeroPairs(q, from) PROVE f < j + (r + 3 - from)
      <4>1. r \in from..Len(q) - 2
        BY DEF ZeroPairs
      <4>2. r \in Nat /\ t - 2 <= r
        BY <1>1, <2>1, <4>1
      <4> QED
        BY <1>1, <2>1, <3>1, <4>2
    <3> QED
      BY <3>1 DEF PairsBehind
  <2> HIDE DEF z
  <2>6. z < e
    <3> SUFFICES ASSUME e <= z PROVE FALSE
      BY <1>1, <2>4
    <3>1. PairsBehind(q, from, j, e)
      BY <1>1, <2>5
    <3>2. Plain(s, j, e)
      BY <1>1, <1>2, <3>1, NoPairLemma
    <3>4. \A i \in j..e : m[i] = m[j] + (i - j)
      BY <1>1, <3>2, PlainLemma
    <3>5. m[e] = m[j] + (e - j)
      BY <1>1, <3>4
    <3>6. m[e] = u + Len(q)
      BY DEF Stands
    <3> QED
      BY <1>1, <1>2, <2>1, <2>4, <3>5, <3>6
  <2>7. z \in 0..Len(s) /\ j <= z /\ z <= e /\ z + 1 \in 1..Len(s)
    BY <1>1, <2>4, <2>6
  <2>8. Plain(s, j, z)
    <3>1. PairsBehind(q, from, j, z)
      BY <2>5, <2>7
    <3> QED
      BY <1>1, <1>2, <2>7, <3>1, NoPairLemma
  <2>9. /\ \A i \in j..z : m[i] = m[j] + (i - j)
        /\ \A i \in j + 1..z : s[i] = src[m[j] + (i - j)]
    <3> QED
      BY <1>1, <2>7, <2>8, PlainLemma
  <2>10. m[z] = u + (t - 1)
    <3>1. m[z] = m[j] + (z - j)
      BY <1>1, <2>4, <2>9
    <3> QED
      BY <1>1, <1>2, <2>1, <2>4, <3>1
  <2>11. s[z] = 0 /\ s[z - 1] = 0
    <3>1. z \in j + 1..z /\ z - 1 \in j + 1..z
      BY <1>1, <2>4
    <3>2. t - 1 \in 1..Len(q) /\ t - 2 \in 1..Len(q)
      BY <1>1, <2>1
    <3>3. m[j] + (z - j) = u + (t - 1) /\ m[j] + (z - 1 - j) = u + (t - 2)
      BY <1>1, <1>2, <2>1, <2>4
    <3>4. s[z] = src[m[j] + (z - j)] /\ s[z - 1] = src[m[j] + (z - 1 - j)]
      BY <2>9, <3>1
    <3>5. src[u + (t - 1)] = q[t - 1] /\ src[u + (t - 2)] = q[t - 2]
      BY <3>2 DEF Stands
    <3>6. q[t - 1] = 0 /\ q[t - 2] = 0
      <4>1. (t - 2) + 1 = t - 1
        BY <2>1
      <4> QED
        BY <2>1, <4>1 DEF ZeroPairs
    <3> QED
      BY <3>3, <3>4, <3>5, <3>6
  <2>12. s[z + 1] >= 3 /\ (s[z + 1] = 3 /\ z + 2 <= Len(s) => s[z + 2] <= 3)
    <3>1. z - 1 \in 1..Len(s) - 2 \/ z + 1 > Len(s)
      BY <1>1, <2>4
    <3> DEFINE i == z - 1
    <3>2. i \in 1..Len(s) - 2 /\ i + 1 = z /\ i + 2 = z + 1 /\ i + 3 = z + 2
      BY <1>1, <2>4, <2>7, <3>1
    <3>3. s[i] = 0 /\ s[i + 1] = 0
      BY <2>11, <3>2
    <3> HIDE DEF i
    <3>4. s[i + 2] >= 3 /\ (s[i + 2] = 3 /\ i + 3 <= Len(s) => s[i + 3] <= 3)
      BY <3>2, <3>3 DEF NoStartCodeIn
    <3> QED
      BY <3>2, <3>4
  <2>13. Cardinality(Between(s, j, e)) =
           Cardinality(Between(s, z + 1, e)) + IF EscapeAt(s, z + 1) THEN 1 ELSE 0
    BY <1>1, <2>6, <2>7, <2>8, BetweenPlain
  <2>14. t \in 1..Len(q) /\ q[t] = src[u + t]
    BY <1>1, <2>1 DEF Stands
  <2>15. CASE EscapeAt(s, z + 1)
    <3>1. m[z + 1] = u + (t - 1) /\ s[z + 1] = 3
      <4>1. m[z + 1] = m[(z + 1) - 1] /\ (z + 1) - 1 = z
        BY <2>4, <2>7, <2>15 DEF Copies
      <4> QED
        BY <2>10, <2>15, <4>1 DEF EscapeAt
    <3>2. z + 1 # e
      BY <2>15 DEF Stands
    <3>3. z + 2 \in 1..Len(s) /\ z + 2 <= e /\ (z + 2) - 1 = z + 1
      BY <1>1, <2>4, <2>6, <3>2
    <3>4. ~EscapeAt(s, z + 2)
      BY <3>1, <3>3 DEF EscapeAt
    <3>5. s[z + 2] = src[m[z + 2]] /\ m[z + 2] = m[z + 1] + 1
      BY <3>3, <3>4 DEF Copies
    <3>6. s[z + 2] = q[t]
      <4>1. m[z + 2] = u + t
        BY <2>1, <3>1, <3>5
      <4> QED
        BY <2>14, <3>5, <4>1
    <3>7. q[t] <= 3
      BY <2>12, <3>1, <3>3, <3>6
    <3>8. Jumps(s, m, q, u, j, e, from, z + 1, t, 1)
      BY <2>2, <2>13, <2>15, <3>1, <3>7 DEF Jumps, Fresh
    <3>9. z + 1 \in j + 1..e
      BY <1>1, <2>4, <2>6
    <3> QED
      BY <2>1, <3>8, <3>9 DEF Continued
  <2>16. CASE ~EscapeAt(s, z + 1)
    <3>1. m[z + 1] = u + t /\ s[z + 1] = src[m[z + 1]]
      <4>1. m[z + 1] = m[(z + 1) - 1] + 1 /\ s[z + 1] = src[m[z + 1]] /\ (z + 1) - 1 = z
        BY <2>4, <2>7, <2>16 DEF Copies
      <4> QED
        BY <2>1, <2>10, <4>1
    <3>2. s[z + 1] = q[t]
      BY <2>14, <3>1
    <3>3. s[z + 1] # 3
      <4>1. z + 1 > 2 /\ (z + 1) - 1 = z /\ (z + 1) - 2 = z - 1
        BY <1>1, <2>4
      <4> QED
        BY <2>11, <2>16, <4>1 DEF EscapeAt
    <3>4. s[z + 1] \in Int
      <4>1. s[z + 1] \in Byte
        BY <2>7
      <4> QED
        BY <4>1, ByteLemma
    <3>5. ~(q[t] <= 3) /\ q[t] # 0
      BY <2>12, <3>2, <3>3, <3>4
    <3>6. t + 1 \in 1..Len(q) + 1 /\ (t + 1) - 1 = t
      BY <1>1, <2>14
    <3>7. Emulations(q)[t] = Emulations(q)[t + 1]
      <4>1. ZeroPairs(q, t) = ZeroPairs(q, t + 1)
        BY <1>1, <2>14, <3>5 DEF ZeroPairs
      <4> QED
        BY <2>1, <3>6, <4>1, SamePairsLemma
    <3>8. Emulations(q)[from] = Emulations(q)[t + 1] + 0
      BY <2>2, <2>3, <3>5, <3>7
    <3>9. Cardinality(Between(s, j, e)) = Cardinality(Between(s, z + 1, e)) + 0
      BY <2>13, <2>16
    <3>10. Fresh(s, m, u, z + 1, t + 1)
      BY <3>1, <3>2, <3>5, <3>6 DEF Fresh
    <3>11. Jumps(s, m, q, u, j, e, from, z + 1, t + 1, 0)
      BY <3>8, <3>9, <3>10 DEF Jumps
    <3>12. z + 1 \in j + 1..e
      BY <1>1, <2>4, <2>6
    <3> QED
      BY <3>6, <3>11, <3>12 DEF Continued
  <2> QED
    BY <2>15, <2>16
<1> QED
  BY <1>3, <1>4

(* From place to place, the escapes up to e are as many as are counted.    *)
LEMMA CountedLemma ==
  ASSUME NEW s \in Seq(Byte), NEW src, NEW m, Copies(m, src, s), NoStartCodeIn(s),
         NEW q \in Seq(Byte), NEW u \in Nat,
         NEW e \in 1..Len(s), Stands(s, src, m, q, u, e),
         NEW j \in 0..e, NEW from \in 1..Len(q) + 1, Fresh(s, m, u, j, from)
  PROVE  Emulations(q)[from] = Cardinality(Between(s, j, e))
<1> DEFINE Wrong(i, g) == /\ g \in 1..Len(q) + 1 /\ Fresh(s, m, u, i, g)
                          /\ Emulations(q)[g] # Cardinality(Between(s, i, e))
           Bad == {d \in Nat : d <= e /\ \E g : Wrong(e - d, g)}
<1>1. Len(s) \in Nat /\ Len(q) \in Nat
  OBVIOUS
<1>2. Bad = {}
  <2> SUFFICES ASSUME Bad # {} PROVE FALSE
    OBVIOUS
  <2>1. PICK d \in Bad : \A c \in Bad : d <= c
    BY LeastNumber
  <2>2. PICK g : Wrong(e - d, g)
    OBVIOUS
  <2> DEFINE i == e - d
  <2>3. d \in Nat /\ i \in 0..e /\ g \in 1..Len(q) + 1 /\ Fresh(s, m, u, i, g)
    BY <1>1, <2>2
  <2>4. Emulations(q)[g] # Cardinality(Between(s, i, e))
    BY <2>2
  <2> HIDE DEF i
  <2>5. Continued(s, m, q, u, i, e, g)
    BY <2>3, CountStep
  <2>6. PICK k \in i + 1..e, h \in 1..Len(q) + 1, c \in {0, 1} : Jumps(s, m, q, u, i, e, g, k, h, c)
    BY <2>4, <2>5 DEF Continued
  <2>7. Fresh(s, m, u, k, h)
    BY <2>6 DEF Jumps
  <2>8. Emulations(q)[h] # Cardinality(Between(s, k, e))
    BY <2>4, <2>6 DEF Jumps
  <2> DEFINE b == e - k
  <2>9. b \in Nat /\ b <= e /\ ~(d <= b) /\ e - b = k
    BY <1>1, <2>3, <2>6 DEF i
  <2> HIDE DEF b
  <2>10. Wrong(e - b, h)
    BY <2>7, <2>8, <2>9
  <2>11. b \in Bad
    <3> HIDE DEF Wrong
    <3> QED
      BY <2>9, <2>10
  <2> QED
    BY <2>1, <2>9, <2>11
<1> DEFINE d == e - j
<1>3. d \in Nat /\ d <= e /\ e - d = j
  BY <1>1
<1> HIDE DEF d
<1>4. ~Wrong(e - d, from)
  <2> HIDE DEF Wrong
  <2> QED
    BY <1>2, <1>3
<1>5. ~Wrong(j, from)
  BY <1>3, <1>4
<1> QED
  BY <1>5

-----------------------------------------------------------------------------
(* Where the header ends: its bytes, and the escapes before its last one.  *)
LEMMA HeaderEndLemma ==
  ASSUME NEW s \in Seq(Byte), NEW src, NEW m, Copies(m, src, s), locations = EscapesIn(s),
         NEW e \in 1..Len(s), ~EscapeAt(s, e)
  PROVE  EndOfSliceHeaderLocation(m[e]) = e
<1> DEFINE n == Cardinality(locations)
           sorted == Sorted(locations)
           K == Cardinality(Between(s, 0, e))
           h == m[e]
           Step(a, k) == a + IF sorted[k] < a THEN 1 ELSE 0
           IsAt(f) == f = [k \in 0..n |-> IF k = 0 THEN h ELSE Step(f[k - 1], k)]
           at == CHOOSE f : IsAt(f)
           v == [k \in 0..n |-> IF k <= K THEN h + k ELSE h + K]
<1>1. /\ Len(s) \in Nat /\ e \in Nat /\ e > 0 /\ e - 1 \in 0..Len(s)
      /\ \A i \in 0..Len(s) : m[i] \in Nat
  BY StepsLemma
<1>2. IsFiniteSet(locations) /\ locations \in SUBSET Nat
  <2>1. locations \in SUBSET Nat /\ \A l \in locations : l <= Len(s)
    BY <1>1 DEF EscapesIn
  <2> QED
    BY <1>1, <2>1, FS_BoundedSetOfNaturals
<1>3. /\ n \in Nat
      /\ \A k \in 1..n : sorted[k] \in locations /\ Cardinality({y \in locations : y < sorted[k]}) = k - 1
  BY <1>2, SortedLemma
<1>4. Between(s, 0, e) = {l \in locations : l < e}
  BY DEF Between, EscapesIn
<1>5. K \in Nat /\ K <= n
  BY <1>2, <1>4, FS_Subset, FS_CardinalityType
<1>6. h + K = e /\ h \in Nat
  <2>1. m[e] - m[0] + Cardinality(Between(s, 0, e)) = e - 0
    BY <1>1, LengthLemma
  <2>2. m[0] = 0 /\ m[e] \in Nat
    BY <1>1 DEF Copies
  <2> QED
    BY <1>1, <1>5, <2>1, <2>2
<1>7. ASSUME NEW k \in 1..n, k <= K PROVE sorted[k] < h + (k - 1)
  <2> DEFINE l == sorted[k]
  <2>1. /\ l \in locations /\ l \in Nat /\ l < Len(s) /\ EscapeAt(s, l + 1)
        /\ Cardinality({y \in locations : y < l}) = k - 1
    BY <1>3 DEF EscapesIn
  <2> HIDE DEF l
  <2>2. l < e
    <3> SUFFICES ASSUME ~(l < e) PROVE FALSE
      OBVIOUS
    <3>1. {y \in locations : y < e} \subseteq {y \in locations : y < l}
      BY <1>1, <1>2, <2>1
    <3>2. IsFiniteSet({y \in locations : y < l})
      BY <1>2, FS_Subset
    <3>3. K <= k - 1
      BY <1>4, <2>1, <3>1, <3>2, FS_Subset
    <3> QED
      BY <1>3, <1>5, <1>7, <3>3
  <2>3. l + 1 # e
    BY <2>1
  <2>4. l \in 0..Len(s) /\ l + 1 \in 1..Len(s) /\ l + 1 <= e - 1 /\ l + 1 \in 0..Len(s) /\ (l + 1) - 1 = l
    BY <1>1, <2>1, <2>2, <2>3
  <2>5. m[l] = l - (k - 1)
    <3>1. Between(s, 0, l) = {y \in locations : y < l}
      BY DEF Between, EscapesIn
    <3>2. m[l] - m[0] + Cardinality(Between(s, 0, l)) = l - 0
      BY <1>1, <2>4, LengthLemma
    <3>3. m[0] = 0 /\ m[l] \in Nat
      BY <1>1, <2>4 DEF Copies
    <3>4. Cardinality(Between(s, 0, l)) = k - 1
      BY <2>1, <3>1
    <3>5. m[l] - 0 + (k - 1) = l
      BY <2>1, <3>2, <3>3, <3>4
    <3> QED
      BY <1>3, <2>1, <3>3, <3>5
  <2>6. m[l + 1] = m[l]
    BY <2>1, <2>4 DEF Copies
  <2>7. m[l + 1] <= m[e - 1]
    BY <1>1, <2>4, OrderLemma
  <2>8. m[e] = m[e - 1] + 1
    BY DEF Copies
  <2>9. m[e - 1] \in Nat
    BY <1>1
  <2>10. l < h + (k - 1)
    BY <1>1, <2>1, <2>5, <2>6, <2>7, <2>8, <2>9
  <2> QED
    BY <2>10 DEF l
<1>8. ASSUME NEW k \in 1..n, K < k PROVE ~(sorted[k] < h + K)
  <2> DEFINE l == sorted[k]
  <2>1. /\ l \in locations /\ l \in Nat /\ Cardinality({y \in locations : y < l}) = k - 1
    BY <1>2, <1>3
  <2> HIDE DEF l
  <2>2. ~(l < e)
    <3> SUFFICES ASSUME l < e PROVE FALSE
      OBVIOUS
    <3> DEFINE B == {y \in locations : y < l}
    <3>1. B \cup {l} \subseteq {y \in locations : y < e} /\ l \notin B
      BY <1>1, <1>2, <2>1
    <3>2. IsFiniteSet(B) /\ Cardinality(B) = k - 1
      BY <1>2, <2>1, FS_Subset
    <3>3. Cardinality(B \cup {l}) = (k - 1) + 1
      BY <3>1, <3>2, FS_AddElement
    <3>4. IsFiniteSet({y \in locations : y < e})
      BY <1>2, FS_Subset
    <3>5. (k - 1) + 1 <= K
      BY <1>4, <3>1, <3>3, <3>4, FS_Subset
    <3> QED
      BY <1>3, <1>5, <1>8, <3>5
  <2> QED
    BY <1>6, <2>2 DEF l
<1> HIDE DEF n, sorted, K, h
<1>9. \A k \in 0..n : v[k] = IF k = 0 THEN h ELSE Step(v[k - 1], k)
  <2> SUFFICES ASSUME NEW k \in 0..n PROVE v[k] = IF k = 0 THEN h ELSE Step(v[k - 1], k)
    OBVIOUS
  <2>1. CASE k = 0
    BY <1>3, <1>5, <1>6, <2>1
  <2>2. CASE k # 0 /\ k <= K
    <3>1. k - 1 \in 0..n /\ k - 1 <= K /\ k \in 1..n
      BY <1>3, <1>5, <2>2
    <3>2. v[k - 1] = h + (k - 1) /\ v[k] = h + k
      BY <2>2, <3>1
    <3>3. sorted[k] < h + (k - 1)
      BY <1>7, <2>2, <3>1
    <3> HIDE DEF v
    <3> QED
      BY <1>6, <2>2, <3>2, <3>3
  <2>3. CASE k # 0 /\ ~(k <= K)
    <3>1. k - 1 \in 0..n /\ K <= k - 1 /\ k \in 1..n /\ K < k
      BY <1>3, <1>5, <2>3
    <3>2. v[k - 1] = h + K /\ v[k] = h + K
      BY <1>5, <2>3, <3>1
    <3>3. ~(sorted[k] < h + K)
      BY <1>8, <3>1
    <3> HIDE DEF v
    <3> QED
      BY <1>5, <1>6, <2>3, <3>2, <3>3
  <2> QED
    BY <2>1, <2>2, <2>3
<1>10. IsAt(v)
  <2>1. v = [k \in 0..n |-> v[k]]
    OBVIOUS
  <2> HIDE DEF v, Step
  <2> QED
    BY <1>9, <2>1, Zenon
<1>11. IsAt(at)
  <2> HIDE DEF v, IsAt
  <2> QED
    BY <1>10
<1>12. \A k \in 0..n : at[k] = v[k]
  <2> DEFINE Bad == {k \in Nat : k <= n /\ at[k] # v[k]}
  <2> HIDE DEF at, v, Step
  <2>1. \A k \in 0..n : at[k] = IF k = 0 THEN h ELSE Step(at[k - 1], k)
    BY <1>11
  <2>2. Bad = {}
    <3> SUFFICES ASSUME Bad # {} PROVE FALSE
      OBVIOUS
    <3>1. PICK k \in Bad : \A i \in Bad : k <= i
      BY LeastNumber
    <3>2. k \in 0..n /\ at[k] # v[k]
      BY <1>3
    <3>3. k # 0
      BY <1>9, <2>1, <3>2
    <3>4. k - 1 \in Nat /\ k - 1 <= n /\ ~(k <= k - 1)
      BY <1>3, <3>2, <3>3
    <3>5. at[k - 1] = v[k - 1]
      BY <3>1, <3>4
    <3>6. at[k] = Step(at[k - 1], k) /\ v[k] = Step(v[k - 1], k)
      BY <1>9, <2>1, <3>2, <3>3
    <3> QED
      BY <3>2, <3>5, <3>6
  <2> QED
    BY <1>3, <2>2
<1>13. at[n] = e
  <2>1. n \in 0..n
    BY <1>3
  <2>2. v[n] = h + K
    BY <1>3, <1>5, <1>6, <2>1
  <2> QED
    BY <1>6, <1>12, <2>1, <2>2
<1>14. EndOfSliceHeaderLocation(h) = at[n]
  BY DEF EndOfSliceHeaderLocation, n, sorted, at, IsAt, Step
<1> QED
  BY <1>13, <1>14 DEF h

-----------------------------------------------------------------------------
(* An offset that fits its bits is read as it is.                          *)
LEMMA SmallRemainder ==
  ASSUME NEW a \in Nat, NEW b \in Int, a < b
  PROVE  a % b = a
OBVIOUS

LEMMA OffsetsLemma ==
  ASSUME NEW N \in Nat, NEW sizes \in [1..N -> Nat],
         \A i \in 1..N : sizes[i] > 0 /\ sizes[i] < 2 ^ 31
  PROVE  EntryPointOffsets(sizes) = sizes
<1> DEFINE Fit(n) == \A i \in DOMAIN sizes : sizes[i] < 2 ^ n
           Long(n) == n > 1 => \E i \in DOMAIN sizes : sizes[i] >= 2 ^ (n - 1)
           T == {n \in Nat : n \in 1..31 /\ Fit(n)}
           len == CHOOSE n \in 1..31 : Fit(n) /\ Long(n)
<1>1. 31 \in T
  OBVIOUS
<1>2. PICK n \in T : \A k \in T : n <= k
  <2> HIDE DEF T
  <2>1. T \in SUBSET Nat
    BY DEF T
  <2> QED
    BY <1>1, <2>1, LeastNumber
<1>3. n \in 1..31 /\ Fit(n)
  OBVIOUS
<1>4. Long(n)
  <2> SUFFICES ASSUME n > 1 PROVE \E i \in DOMAIN sizes : sizes[i] >= 2 ^ (n - 1)
    OBVIOUS
  <2>1. n - 1 \in Nat /\ n - 1 \in 1..31 /\ ~(n <= n - 1)
    BY <1>3
  <2>2. n - 1 \notin T
    BY <1>2, <2>1
  <2>3. ~Fit(n - 1)
    <3> HIDE DEF Fit
    <3> QED
      BY <2>1, <2>2
  <2>4. 2 ^ (n - 1) \in Int
    BY <2>1
  <2>5. PICK i \in DOMAIN sizes : ~(sizes[i] < 2 ^ (n - 1))
    BY <2>3
  <2>6. sizes[i] \in Nat
    OBVIOUS
  <2> QED
    BY <2>4, <2>5, <2>6
<1>5. len \in 1..31 /\ Fit(len)
  <2> HIDE DEF Fit, Long, T
  <2> QED
    BY <1>3, <1>4
<1>6. OffsetLen(sizes) = len
  BY DEF OffsetLen
<1> HIDE DEF len
<1>7. 2 ^ len \in Int
  BY <1>5
<1>8. ASSUME NEW i \in 1..N PROVE ((sizes[i] - 1) % 2 ^ OffsetLen(sizes)) + 1 = sizes[i]
  <2>1. sizes[i] \in Nat /\ sizes[i] - 1 \in Nat
    OBVIOUS
  <2>2. sizes[i] < 2 ^ len
    BY <1>5
  <2>3. sizes[i] - 1 < 2 ^ len
    BY <1>7, <2>1, <2>2
  <2>4. (sizes[i] - 1) % 2 ^ len = sizes[i] - 1
    BY <1>7, <2>1, <2>3, SmallRemainder
  <2> QED
    BY <1>6, <2>1, <2>4
<1>9. EntryPointOffsets(sizes) = [i \in 1..N |-> ((sizes[i] - 1) % 2 ^ OffsetLen(sizes)) + 1]
  BY DEF EntryPointOffsets
<1>10. sizes = [i \in 1..N |-> sizes[i]]
  OBVIOUS
<1> QED
  BY <1>8, <1>9, <1>10

(* The decoder adds the offsets up to where the substreams begin.          *)
Shortened(offsets, pos, N) ==
  [i \in 1..N |-> offsets[i] - Cardinality({l \in locations : pos[i] <= l /\ l < pos[i + 1]})]

LEMMA ReadSizesLemma ==
  ASSUME NEW N \in Nat, NEW offsets \in [1..N -> Nat], NEW pos \in [1..N + 1 -> Nat], NEW headerEnd,
         EndOfSliceHeaderLocation(headerEnd) = pos[1],
         \A i \in 1..N : pos[i] + offsets[i] = pos[i + 1]
  PROVE  ReadSubstreamSizes(offsets, headerEnd) = Shortened(offsets, pos, N)
<1> DEFINE start == EndOfSliceHeaderLocation(headerEnd)
           IsSum(f) == f = [i \in 0..Len(offsets) |-> IF i = 0 THEN start ELSE f[i - 1] + offsets[i]]
           upTo == CHOOSE f : IsSum(f)
           v == [i \in 0..N |-> pos[i + 1]]
<1>1. Len(offsets) = N /\ DOMAIN offsets = 1..N
  OBVIOUS
<1>2. \A i \in 0..N : v[i] = IF i = 0 THEN start ELSE v[i - 1] + offsets[i]
  <2> SUFFICES ASSUME NEW i \in 0..N PROVE v[i] = IF i = 0 THEN start ELSE v[i - 1] + offsets[i]
    OBVIOUS
  <2>1. CASE i = 0
    BY <2>1
  <2>2. CASE i # 0
    <3>1. i \in 1..N /\ i - 1 \in 0..N /\ (i - 1) + 1 = i
      BY <2>2
    <3>2. v[i - 1] = pos[i] /\ v[i] = pos[i + 1]
      BY <3>1
    <3> HIDE DEF v
    <3> QED
      BY <2>2, <3>1, <3>2
  <2> QED
    BY <2>1, <2>2
<1>3. IsSum(upTo)
  <2>1. v = [i \in 0..N |-> v[i]]
    OBVIOUS
  <2> HIDE DEF v, start
  <2>2. IsSum(v)
    BY <1>1, <1>2, <2>1, Zenon
  <2> HIDE DEF IsSum
  <2> QED
    BY <2>2
<1>4. \A i \in 0..N : upTo[i] = v[i]
  <2> DEFINE Bad == {i \in Nat : i <= N /\ upTo[i] # v[i]}
  <2> HIDE DEF upTo, v, start
  <2>1. \A i \in 0..N : upTo[i] = IF i = 0 THEN start ELSE upTo[i - 1] + offsets[i]
    BY <1>1, <1>3
  <2>2. Bad = {}
    <3> SUFFICES ASSUME Bad # {} PROVE FALSE
      OBVIOUS
    <3>1. PICK k \in Bad : \A i \in Bad : k <= i
      BY LeastNumber
    <3>2. k \in 0..N /\ upTo[k] # v[k]
      OBVIOUS
    <3>3. k # 0
      BY <1>2, <2>1, <3>2
    <3>4. k - 1 \in Nat /\ k - 1 <= N /\ ~(k <= k - 1)
      BY <3>2, <3>3
    <3>5. upTo[k - 1] = v[k - 1]
      BY <3>1, <3>4
    <3> QED
      BY <1>2, <2>1, <3>2, <3>3, <3>5
  <2> QED
    BY <2>2
<1>5. ReadSubstreamSizes(offsets, headerEnd) =
        [i \in 1..N |-> offsets[i] - Cardinality({l \in locations : upTo[i - 1] <= l /\ l < upTo[i]})]
  BY <1>1 DEF ReadSubstreamSizes
<1> HIDE DEF upTo
<1>6. \A i \in 1..N : upTo[i - 1] = pos[i] /\ upTo[i] = pos[i + 1]
  BY <1>4
<1> QED
  BY <1>5, <1>6 DEF Shortened

(* The ends of a layout.                                                   *)
LEMMA LayoutLemma ==
  ASSUME NEW p \in Seq(Byte), NEW ends \in Layouts(p)
  PROVE  /\ Len(ends) \in Nat /\ Len(ends) >= 2
         /\ \A i \in 1..Len(ends) : ends[i] \in 1..Len(p) /\ p[ends[i]] # 0
         /\ \A i \in 1..Len(ends) - 1 : ends[i] < ends[i + 1]
<1>1. PICK E \in SUBSET {i \in DOMAIN p : p[i] # 0} :
        Len(p) \in E /\ Cardinality(E) > 1 /\ ends = Sorted(E)
  BY DEF Layouts
<1>2. Len(p) \in Nat /\ DOMAIN p = 1..Len(p)
  OBVIOUS
<1>3. E \in SUBSET Nat /\ IsFiniteSet(E)
  <2>1. E \in SUBSET Nat /\ \A x \in E : x <= Len(p)
    BY <1>2
  <2> QED
    BY <1>2, <2>1, FS_BoundedSetOfNaturals
<1> DEFINE n == Cardinality(E)
<1>4. /\ n \in Nat /\ Len(ends) = n
      /\ \A k \in 1..n : ends[k] \in E /\ Cardinality({y \in E : y < ends[k]}) = k - 1
  BY <1>1, <1>3, SortedLemma
<1> HIDE DEF n
<1>5. ASSUME NEW i \in 1..n - 1 PROVE ends[i] < ends[i + 1]
  <2> SUFFICES ASSUME ~(ends[i] < ends[i + 1]) PROVE FALSE
    OBVIOUS
  <2>1. i \in 1..n /\ i + 1 \in 1..n /\ (i + 1) - 1 = i
    BY <1>4
  <2>2. ends[i] \in Nat /\ ends[i + 1] \in Nat
    BY <1>3, <1>4, <2>1
  <2>3. {y \in E : y < ends[i + 1]} \subseteq {y \in E : y < ends[i]}
    <3> SUFFICES ASSUME NEW y \in E, y < ends[i + 1] PROVE y < ends[i]
      OBVIOUS
    <3>1. y \in Nat
      BY <1>3
    <3> QED
      BY <2>2, <3>1
  <2>4. IsFiniteSet({y \in E : y < ends[i]})
    BY <1>3, FS_Subset
  <2>5. Cardinality({y \in E : y < ends[i + 1]}) <= Cardinality({y \in E : y < ends[i]})
    BY <2>3, <2>4, FS_Subset
  <2>6. i <= i - 1
    BY <1>4, <2>1, <2>5
  <2> QED
    BY <2>6
<1>6. n >= 2
  BY <1>1, <1>4 DEF n
<1>7. ASSUME NEW i \in 1..n PROVE ends[i] \in 1..Len(p) /\ p[ends[i]] # 0
  <2>1. ends[i] \in E
    BY <1>4
  <2> QED
    BY <1>1, <1>2, <2>1
<1> QED
  BY <1>4, <1>5, <1>6, <1>7

(* In the unit, a substream is as long as its bytes and what is counted.   *)
LEMMA SubstreamsLemma ==
  ASSUME IInv, Copied(Padded, out, CopiedLen), it = Len(rbsp), locations = EscapesIn(out),
         NEW ends \in Layouts(rbsp)
  PROVE  \E pos \in [1..Len(ends) -> Nat] :
           /\ EndOfSliceHeaderLocation(Len(HeaderBytes(nalu)) + ends[1]) = pos[1]
           /\ \A i \in 1..Len(ends) - 1 :
                LET q == SubSeq(rbsp, ends[i] + 1, ends[i + 1])
                    c == Cardinality({l \in locations : pos[i] <= l /\ l < pos[i + 1]})
                IN /\ Len(q) = ends[i + 1] - ends[i] /\ Len(q) > 0
                   /\ c \in Nat /\ CountStartCodeEmulations(q) = c
                   /\ pos[i] + (Len(q) + c) = pos[i + 1]
<1>1. /\ rbsp \in Seq(Byte) /\ out \in Seq(Byte) /\ words \in Nat /\ nalu \in NALU
      /\ Len(rbsp) \in Nat /\ Len(out) \in Nat /\ NoStartCodeIn(out)
  BY TypesLemma, HeadersAssumption DEF IInv, TypeOK, NoStartCodeInside
<1>2. /\ Len(ends) \in Nat /\ Len(ends) >= 2
      /\ \A i \in 1..Len(ends) : ends[i] \in 1..Len(rbsp) /\ rbsp[ends[i]] # 0
      /\ \A i \in 1..Len(ends) - 1 : ends[i] < ends[i + 1]
  BY <1>1, LayoutLemma
<1>3. PICK m : Copies(m, Padded, out) /\ m[Len(out)] = Len(rbsp) + 2 + 2 * words
  BY DEF Copied, CopiedLen
<1>4. \A i \in 0..Len(out) : m[i] \in Nat
  BY <1>1, <1>3, StepsLemma
<1>5. ASSUME NEW k \in 1..Len(rbsp) PROVE Padded[k + 2] = rbsp[k]
  <2>1. k + 2 \in Nat /\ ~(k + 2 <= 2) /\ k + 2 <= Len(rbsp) + 2 /\ (k + 2) - 2 = k
    BY <1>1
  <2> QED
    BY <2>1 DEF Padded
<1> DEFINE IsPlace(i, e) == m[e] = ends[i] + 2 /\ ~EscapeAt(out, e) /\ out[e] # 0
           pos == [i \in 1..Len(ends) |-> CHOOSE e \in 1..Len(out) : IsPlace(i, e)]
<1>6. ASSUME NEW i \in 1..Len(ends) PROVE pos[i] \in 1..Len(out) /\ IsPlace(i, pos[i])
  <2> DEFINE h == ends[i] + 2
  <2>1. ends[i] \in 1..Len(rbsp) /\ rbsp[ends[i]] # 0
    BY <1>2
  <2>2. h \in Nat /\ h > 0 /\ h <= m[Len(out)] /\ Padded[h] # 0
    BY <1>1, <1>3, <1>5, <2>1
  <2> HIDE DEF h
  <2>3. \E e \in 1..Len(out) : m[e] = h /\ ~EscapeAt(out, e) /\ out[e] = Padded[h]
    BY <1>1, <1>3, <2>2, PlaceLemma
  <2>4. \E e \in 1..Len(out) : IsPlace(i, e)
    BY <2>2, <2>3 DEF h
  <2>5. pos[i] = CHOOSE e \in 1..Len(out) : IsPlace(i, e)
    OBVIOUS
  <2> HIDE DEF IsPlace, pos
  <2> QED
    BY <2>4, <2>5
<1>7. pos \in [1..Len(ends) -> Nat]
  <2>1. pos = [i \in 1..Len(ends) |-> pos[i]]
    OBVIOUS
  <2>2. \A i \in 1..Len(ends) : pos[i] \in Nat
    BY <1>6
  <2> HIDE DEF pos
  <2> QED
    BY <2>1, <2>2
<1> HIDE DEF pos
<1>8. EndOfSliceHeaderLocation(Len(HeaderBytes(nalu)) + ends[1]) = pos[1]
  <2>1. 1 \in 1..Len(ends)
    BY <1>2
  <2>2. pos[1] \in 1..Len(out) /\ m[pos[1]] = ends[1] + 2 /\ ~EscapeAt(out, pos[1])
    BY <1>6, <2>1
  <2>3. EndOfSliceHeaderLocation(m[pos[1]]) = pos[1]
    BY <1>1, <1>3, <2>2, HeaderEndLemma
  <2>4. Len(HeaderBytes(nalu)) + ends[1] = m[pos[1]]
    <3>1. Len(HeaderBytes(nalu)) = 2
      BY <1>1, HeaderBytesLemma
    <3>2. ends[1] \in Nat
      BY <1>2, <2>1
    <3> QED
      BY <2>2, <3>1, <3>2
  <2> QED
    BY <2>3, <2>4
<1>9. ASSUME NEW i \in 1..Len(ends) - 1
      PROVE  LET q == SubSeq(rbsp, ends[i] + 1, ends[i + 1])
                 c == Cardinality({l \in locations : pos[i] <= l /\ l < pos[i + 1]})
             IN /\ Len(q) = ends[i + 1] - ends[i] /\ Len(q) > 0
                /\ c \in Nat /\ CountStartCodeEmulations(q) = c
                /\ pos[i] + (Len(q) + c) = pos[i + 1]
  <2> DEFINE q == SubSeq(rbsp, ends[i] + 1, ends[i + 1])
             a == ends[i]
             b == ends[i + 1]
             u == a + 2
             j == pos[i]
             e == pos[i + 1]
             c == Cardinality(Between(out, j, e))
  <2>1. i \in 1..Len(ends) /\ i + 1 \in 1..Len(ends)
    BY <1>2
  <2>2. a \in 1..Len(rbsp) /\ b \in 1..Len(rbsp) /\ a < b /\ rbsp[b] # 0
    BY <1>2, <2>1
  <2>3. /\ j \in 1..Len(out) /\ m[j] = a + 2 /\ out[j] # 0
        /\ e \in 1..Len(out) /\ m[e] = b + 2 /\ ~EscapeAt(out, e)
    BY <1>6, <2>1
  <2>4. q = SubSeq(rbsp, a + 1, b)
    OBVIOUS
  <2> HIDE DEF a, b, j, e
  <2>5. Len(q) = b - a /\ q \in Seq(Byte) /\ \A k \in 1..b - a : q[k] = rbsp[a + k]
    <3> DEFINE f == a + 1
    <3>1. f \in Int /\ b \in Int /\ \A k \in f..b : rbsp[k] \in Byte
      BY <1>1, <2>2
    <3>2. f <= b /\ b - f + 1 = b - a /\ \A k \in 1..b - a : f + k - 1 = a + k
      BY <1>1, <2>2
    <3> HIDE DEF f
    <3>3. /\ SubSeq(rbsp, f, b) \in Seq(Byte)
          /\ Len(SubSeq(rbsp, f, b)) = IF f <= b THEN b - f + 1 ELSE 0
          /\ \A k \in 1..b - f + 1 : SubSeq(rbsp, f, b)[k] = rbsp[f + k - 1]
      BY <3>1, SubSeqProperties
    <3>4. q = SubSeq(rbsp, f, b)
      BY <2>4 DEF f
    <3> HIDE DEF q
    <3> QED
      BY <3>2, <3>3, <3>4
  <2> HIDE DEF q
  <2>6. j <= e /\ j \in 0..e /\ j \in 0..Len(out) /\ e \in 0..Len(out)
    <3>1. j \in 0..Len(out) /\ e \in 0..Len(out)
      BY <1>1, <2>3
    <3>2. ~(e <= j)
      <4> SUFFICES ASSUME e <= j PROVE FALSE
        OBVIOUS
      <4>1. m[e] <= m[j]
        BY <1>1, <1>3, <3>1, OrderLemma
      <4> QED
        BY <1>1, <2>2, <2>3, <4>1
    <3> QED
      BY <1>1, <3>1, <3>2
  <2>7. Stands(out, Padded, m, q, u, e)
    <3>1. \A k \in 1..Len(q) : Padded[u + k] = q[k]
      <4> SUFFICES ASSUME NEW k \in 1..Len(q) PROVE Padded[u + k] = q[k]
        OBVIOUS
      <4>1. a + k \in 1..Len(rbsp) /\ (a + k) + 2 = u + k
        BY <1>1, <2>2, <2>5
      <4> QED
        BY <1>5, <2>5, <4>1
    <3>2. q # << >> /\ q[Len(q)] = rbsp[b]
      <4>1. Len(q) \in 1..b - a /\ a + Len(q) = b
        BY <1>1, <2>2, <2>5
      <4> QED
        BY <2>5, <4>1
    <3>3. m[e] = u + Len(q)
      BY <1>1, <2>2, <2>3, <2>5
    <3> QED
      BY <2>2, <2>3, <3>1, <3>2, <3>3 DEF Stands
  <2>8. Fresh(out, m, u, j, 1)
    BY <1>1, <2>2, <2>3 DEF Fresh
  <2>9. u \in Nat /\ 1 \in 1..Len(q) + 1
    BY <1>1, <2>2, <2>5
  <2>10. Emulations(q)[1] = c
    <3> HIDE DEF u
    <3> QED
      BY <1>1, <1>3, <2>3, <2>5, <2>6, <2>7, <2>8, <2>9, CountedLemma
  <2>11. CountStartCodeEmulations(q) = c
    BY <2>5, <2>10, EmulationsLemma
  <2>12. c \in Nat
    BY <1>1, <2>6, BetweenLemma
  <2>13. j + (Len(q) + c) = e
    <3>1. m[e] - m[j] + c = e - j
      BY <1>1, <1>3, <2>6, LengthLemma
    <3> HIDE DEF c
    <3> QED
      BY <1>1, <2>2, <2>3, <2>5, <2>12, <3>1
  <2>14. Between(out, j, e) = {l \in locations : pos[i] <= l /\ l < pos[i + 1]}
    BY DEF Between, j, e
  <2> QED
    BY <1>1, <2>2, <2>5, <2>11, <2>12, <2>13, <2>14 DEF q, a, b, j, e
<1> QED
  BY <1>7, <1>8, <1>9

(* What the reader holds in the end: the escapes where they are in a copy  *)
(* of what was to be written.                                              *)
CopiedInv ==
  /\ rbsp \in Payloads
  /\ phase \notin {"write", "pad", "read"} => Copied(Padded, out, CopiedLen)

LEMMA CopiedStep == IInv /\ CopyInv /\ CopiedInv /\ [Next]_vars => CopiedInv'
<1> SUFFICES ASSUME IInv, CopyInv, CopiedInv, [Next]_vars PROVE CopiedInv'
  OBVIOUS
<1>1. rbsp' = rbsp
  BY DEF Next, vars, WriteByte, WriteEnd, PadWord, EndPadding, ReadByte, ReadEnd, StripZero,
         ReadNalUnitHeader, Finished, Abort
<1>2. CASE WriteByte \/ WriteEnd \/ PadWord \/ EndPadding
  <2>1. phase' \in {"write", "pad", "read"}
    BY <1>2 DEF WriteByte, WriteEnd, PadWord, EndPadding
  <2> QED
    BY <1>1, <2>1 DEF CopiedInv
<1>3. CASE ReadByte \/ ReadEnd \/ StripZero \/ ReadNalUnitHeader \/ UNCHANGED vars
  <2>1. out' = out /\ Padded' = Padded /\ CopiedLen' = CopiedLen
    BY <1>3 DEF ReadByte, ReadEnd, StripZero, ReadNalUnitHeader, Abort, vars, Padded, CopiedLen
  <2>2. Copied(Padded, out, CopiedLen)' <=> Copied(Padded, out, CopiedLen)
    BY <2>1, Zenon DEF Copied, Copies, EscapeAt
  <2>3. phase \notin {"write", "pad"} \/ phase' = phase
    BY <1>3 DEF ReadByte, ReadEnd, StripZero, ReadNalUnitHeader, vars
  <2>4. phase = "read" => Copied(Padded, out, CopiedLen)
    BY DEF CopyInv, ReadInv, Copied
  <2> QED
    BY <1>1, <2>2, <2>3, <2>4 DEF CopiedInv
<1> QED
  BY <1>2, <1>3 DEF Next, Finished

(* The size of a substream is below 2 ^ 31, as codeTilesWPPEntryPoint()    *)
(* asserts.                                                                *)
OffsetsFit ==
  \A p \in Payloads : \A ends \in Layouts(p) :
    \A i \in DOMAIN SubstreamSizes(p, ends) : SubstreamSizes(p, ends)[i] < 2 ^ 31

LEMMA FoundLemma ==
  ASSUME OffsetsFit, IInv, CopyInv, CopiedInv
  PROVE  SubstreamsFound
<1> SUFFICES ASSUME phase = "done", NEW ends \in Layouts(rbsp)
             PROVE  ReadSubstreamSizes(EntryPointOffsets(SubstreamSizes(rbsp, ends)),
                                       Len(HeaderBytes(nalu)) + ends[1])
                      = [i \in 1..Len(ends) - 2 |-> ends[i + 1] - ends[i]]
  BY DEF SubstreamsFound
<1> DEFINE N == Len(ends) - 2
           sizes == SubstreamSizes(rbsp, ends)
           headerEnd == Len(HeaderBytes(nalu)) + ends[1]
           Q(i) == SubSeq(rbsp, ends[i] + 1, ends[i + 1])
<1>1. rbsp \in Payloads /\ rbsp \in Seq(Byte) /\ it = Len(rbsp) /\ locations = EscapesIn(out)
  BY DEF CopiedInv, CopyInv, WrittenInv, ReadInv, IInv, TypeOK
<1>2. Copied(Padded, out, CopiedLen)
  BY DEF CopiedInv
<1>3. Len(ends) \in Nat /\ N \in Nat
  BY <1>1, LayoutLemma
<1>4. PICK pos \in [1..Len(ends) -> Nat] :
        /\ EndOfSliceHeaderLocation(headerEnd) = pos[1]
        /\ \A i \in 1..Len(ends) - 1 :
             LET q == Q(i)
                 c == Cardinality({l \in locations : pos[i] <= l /\ l < pos[i + 1]})
             IN /\ Len(q) = ends[i + 1] - ends[i] /\ Len(q) > 0
                /\ c \in Nat /\ CountStartCodeEmulations(q) = c
                /\ pos[i] + (Len(q) + c) = pos[i + 1]
  BY <1>1, <1>2, SubstreamsLemma
<1> DEFINE C(i) == Cardinality({l \in locations : pos[i] <= l /\ l < pos[i + 1]})
<1>5. ASSUME NEW i \in 1..N
      PROVE  /\ Len(Q(i)) = ends[i + 1] - ends[i] /\ Len(Q(i)) \in Nat /\ Len(Q(i)) > 0
             /\ C(i) \in Nat /\ CountStartCodeEmulations(Q(i)) = C(i)
             /\ pos[i] + (Len(Q(i)) + C(i)) = pos[i + 1]
  <2>1. i \in 1..Len(ends) - 1
    BY <1>3
  <2>2. /\ Len(Q(i)) = ends[i + 1] - ends[i] /\ Len(Q(i)) > 0
        /\ C(i) \in Nat /\ CountStartCodeEmulations(Q(i)) = C(i)
        /\ pos[i] + (Len(Q(i)) + C(i)) = pos[i + 1]
    BY <1>4, <2>1
  <2>3. ends[i] \in Int /\ ends[i + 1] \in Int
    <3>1. i \in 1..Len(ends) /\ i + 1 \in 1..Len(ends)
      BY <1>3
    <3> QED
      BY <1>1, <3>1, LayoutLemma
  <2> HIDE DEF Q, C
  <2> QED
    BY <2>2, <2>3
<1>6. sizes = [i \in 1..N |-> Len(Q(i)) + CountStartCodeEmulations(Q(i))]
  BY DEF SubstreamSizes
<1> HIDE DEF Q, C, sizes
<1>7. DOMAIN sizes = 1..N /\ \A i \in 1..N : sizes[i] = Len(Q(i)) + C(i)
  BY <1>5, <1>6
<1>8. sizes \in [1..N -> Nat] /\ \A i \in 1..N : sizes[i] > 0
  <2>1. \A i \in 1..N : sizes[i] \in Nat /\ sizes[i] > 0
    BY <1>5, <1>7
  <2>2. sizes = [i \in 1..N |-> sizes[i]]
    BY <1>6
  <2> QED
    BY <2>1, <2>2
<1>9. \A i \in 1..N : sizes[i] < 2 ^ 31
  BY <1>1, <1>7 DEF OffsetsFit, sizes
<1> HIDE DEF N
<1>10. EntryPointOffsets(sizes) = sizes
  BY <1>3, <1>8, <1>9, OffsetsLemma
<1> DEFINE at == [i \in 1..N + 1 |-> pos[i]]
<1>11. at \in [1..N + 1 -> Nat] /\ at[1] = pos[1]
  BY <1>3 DEF N
<1>12. \A i \in 1..N : at[i] = pos[i] /\ at[i + 1] = pos[i + 1]
  BY <1>3
<1> HIDE DEF at, headerEnd
<1>13. \A i \in 1..N : at[i] + sizes[i] = at[i + 1]
  BY <1>5, <1>7, <1>12
<1>14. ReadSubstreamSizes(sizes, headerEnd) = Shortened(sizes, at, N)
  <2>1. EndOfSliceHeaderLocation(headerEnd) = at[1]
    BY <1>4, <1>11
  <2>2. N \in Nat /\ sizes \in [1..N -> Nat] /\ at \in [1..N + 1 -> Nat]
    BY <1>3, <1>8, <1>11
  <2> QED
    BY <1>13, <2>1, <2>2, ReadSizesLemma
<1>15. \A i \in 1..N : Cardinality({l \in locations : at[i] <= l /\ l < at[i + 1]}) = C(i)
  BY <1>12 DEF C
<1>16. \A i \in 1..N : sizes[i] - C(i) = ends[i + 1] - ends[i]
  BY <1>5, <1>7
<1>17. ReadSubstreamSizes(sizes, headerEnd) = [i \in 1..N |-> ends[i + 1] - ends[i]]
  BY <1>14, <1>15, <1>16 DEF Shortened
<1> QED
  BY <1>10, <1>17 DEF N, sizes, headerEnd

(* Whatever is escaped in the header, in a substream or at the end of one, *)
(* the decoder finds the substreams of a slice segment where the encoder   *)
(* has joined them.                                                        *)
THEOREM DecoderFindsSubstreams ==
  ASSUME OffsetsFit
  PROVE  Spec => []SubstreamsFound
<1>1. Init => CopiedInv
  BY DEF Init, CopiedInv
<1>2. IInv /\ CopyInv /\ CopiedInv /\ [Next]_vars => CopiedInv'
  BY CopiedStep
<1>3. IInv /\ CopyInv /\ CopiedInv => SubstreamsFound
  BY FoundLemma
<1> QED
  BY <1>1, <1>2, <1>3, Invariance, CopyInvariance, PTL DEF Spec
==============================================================================
