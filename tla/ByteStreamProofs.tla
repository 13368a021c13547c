--------------------------- MODULE ByteStreamProofs ---------------------------
(***************************************************************************)
(* Proofs about the byte stream, for every set of NAL units that holds no  *)
(* start code, every number of them and any zero bytes between them: the   *)
(* reader stays inside the file, decode() seeks back to the right byte,    *)
(* and the stream implements UnitSource.                                   *)
(*                                                                         *)
(* The invariant has two parts.  Layout says what the file consists of, by *)
(* the positions the ghost starts holds.  ReaderInv says, for each phase,  *)
(* where in that layout the reader is, how far it has read ahead and what  *)
(* of the current unit it holds.  What a start code search sees then       *)
(* follows from the layout alone (StartCodeSeen, UnitSeen).                *)
(***************************************************************************)
EXTENDS ByteStream, SequenceTheorems, TLAPS

(* Where unit k ends, and where the zero bytes behind it do: in front of   *)
(* the one of the next start code, or with the file.                       *)
EndOf(k) == IF k = 0 THEN 0 ELSE starts[k] + Len(units[k])

ZerosUpTo(k) == IF k = Len(units) THEN Len(file) ELSE starts[k + 1] - 1

(* What the file consists of: zero bytes, a start code, a unit, and so on. *)
UnitInFile(k) ==
  /\ EndOf(k - 1) + 3 <= starts[k] /\ EndOf(k) <= Len(file)
  /\ file[starts[k]] = 1
  /\ \A j \in 1..Len(units[k]) : file[starts[k] + j] = units[k][j]

ZerosBehind(k) == \A i \in EndOf(k) + 1..ZerosUpTo(k) : file[i] = 0

Layout ==
  /\ \A k \in 1..Len(units) : UnitInFile(k)
  /\ \A k \in 0..Len(units) : ZerosBehind(k)

(* The reader is behind unit k, and not beyond the next start code.        *)
Behind(k) ==
  EndOf(k) <= Consumed /\ Consumed <= ZerosUpTo(k) - (IF k = Len(units) THEN 0 ELSE 2)

(* The file ends too soon behind the last unit for its end to be seen.     *)
ShortTail == Len(file) - EndOf(Len(units)) < 3

TailTaken == IF units # << >> /\ ShortTail THEN Len(file) - EndOf(Len(units)) ELSE 0

(* location is right for unit k, if decode() may use it. *)
Located(k) == k > 1 /\ ~again => location = starts[k]

(* While the file is written nothing of it is read. *)
WriteInv ==
  phase = "write" =>
    /\ pos = 0 /\ future = 0 /\ eof = FALSE /\ unit = << >>
    /\ location = 0 /\ index = 0 /\ again = FALSE
    /\ Len(file) = EndOf(Len(units))

(* The main loop begins in front of the next unit, having read ahead of it *)
(* by the start code, or at the end of the file behind the last one.       *)
LoopInv ==
  phase = "loop" =>
    IF eof THEN index = Len(units)
    ELSE /\ Behind(index)
         /\ units # << >> => index < Len(units)
         /\ index > 0 /\ ~again => pos = starts[index + 1]

LeadingInv ==
  phase = "leading" =>
    /\ unit = << >> /\ Behind(index) /\ Located(index + 1)
    /\ units # << >> => index < Len(units) /\ ~eof

(* What has been read of a unit are the bytes behind its start code.       *)
BodyInv ==
  phase = "body" =>
    /\ index < Len(units) /\ Located(index + 1) /\ future <= 2
    /\ Consumed = starts[index + 1] + Len(unit)
    /\ \A j \in 1..Len(unit) : unit[j] = file[starts[index + 1] + j]
    /\ Len(unit) <= Len(units[index + 1]) \/ (index + 1 = Len(units) /\ ShortTail)
    /\ eof => index + 1 = Len(units)

TrailingInv ==
  phase = "trailing" =>
    /\ index < Len(units) /\ Located(index + 1) /\ future <= 3
    /\ unit = units[index + 1] /\ Behind(index + 1)
    /\ index + 1 = Len(units) => ~ShortTail
    /\ eof => index + 1 = Len(units)

(* What is handed out for unit k. *)
Handed(k) == units[k] \o Zeros(IF k = Len(units) THEN TailTaken ELSE 0)

ReturnedInv ==
  phase = "returned" =>
    /\ IF eof THEN index = Len(units)
       ELSE index < Len(units) /\ Behind(index) /\ pos = starts[index + 1]
    /\ IF unit = << >> THEN units = << >>
       ELSE index > 0 /\ unit = Handed(index) /\ Located(index)

ReaderInv ==
  /\ phase # "aborted"
  /\ again => index > 0
  /\ WriteInv /\ LoopInv /\ LeadingInv /\ BodyInv /\ TrailingInv /\ ReturnedInv

IInv == TypeOK /\ Layout /\ ReaderInv

-----------------------------------------------------------------------------
(* Looking ahead.                                                          *)

(* The next three and four bytes. *)
LEMMA Peeked3 ==
  ASSUME NEW f \in Seq(Byte), NEW c \in Nat, c + 3 <= Len(f)
  PROVE  /\ SubSeq(f, c + 1, c + 3) = <<f[c + 1], f[c + 2], f[c + 3]>>
         /\ f[c + 1] \in Byte /\ f[c + 2] \in Byte /\ f[c + 3] \in Byte
<1>1. /\ c + 1 \in 1..Len(f) /\ c + 2 \in 1..Len(f) /\ c + 3 \in 1..Len(f)
      /\ Len(f) \in Nat
  BY LenProperties, Z3
<1>2. f[c + 1] \in Byte /\ f[c + 2] \in Byte /\ f[c + 3] \in Byte
  BY <1>1, ElementOfSeq
<1> DEFINE s == SubSeq(f, c + 1, c + 3)
           t == <<f[c + 1], f[c + 2], f[c + 3]>>
<1>3. /\ s \in Seq(Byte) /\ Len(s) = 3
      /\ \A i \in 1..3 : s[i] = f[c + i]
  <2>1. \A i \in c + 1..c + 3 : f[i] \in Byte
    BY <1>1, <1>2
  <2>2. /\ c + 1 \in Int /\ c + 3 \in Int /\ c + 1 <= c + 3
        /\ (c + 3) - (c + 1) + 1 = 3
        /\ \A i \in 1..3 : (c + 1) + i - 1 = c + i
    OBVIOUS
  <2>3. /\ s \in Seq(Byte)
        /\ Len(s) = IF c + 1 <= c + 3 THEN (c + 3) - (c + 1) + 1 ELSE 0
        /\ \A i \in 1..(c + 3) - (c + 1) + 1 : s[i] = f[(c + 1) + i - 1]
    BY <2>1, <2>2, SubSeqProperties
  <2> QED BY <2>2, <2>3
<1>4. /\ t \in Seq(Byte) /\ Len(t) = 3
      /\ \A i \in 1..3 : t[i] = f[c + i]
  BY <1>2
<1> HIDE DEF s, t
<1>5. s = t
  <2>1. Len(s) = Len(t) /\ \A i \in 1..Len(s) : s[i] = t[i]
    BY <1>3, <1>4
  <2> QED BY <1>3, <1>4, <2>1, SeqEqual
<1> QED
  BY <1>2, <1>5 DEF s, t

LEMMA Peeked4 ==
  ASSUME NEW f \in Seq(Byte), NEW c \in Nat, c + 4 <= Len(f)
  PROVE  SubSeq(f, c + 1, c + 4) = <<f[c + 1], f[c + 2], f[c + 3], f[c + 4]>>
<1>1. /\ c + 1 \in 1..Len(f) /\ c + 2 \in 1..Len(f) /\ c + 3 \in 1..Len(f)
      /\ c + 4 \in 1..Len(f) /\ Len(f) \in Nat
  BY LenProperties, Z3
<1>2. f[c + 1] \in Byte /\ f[c + 2] \in Byte /\ f[c + 3] \in Byte /\ f[c + 4] \in Byte
  BY <1>1, ElementOfSeq
<1> DEFINE s == SubSeq(f, c + 1, c + 4)
           t == <<f[c + 1], f[c + 2], f[c + 3], f[c + 4]>>
<1>3. /\ s \in Seq(Byte) /\ Len(s) = 4
      /\ \A i \in 1..4 : s[i] = f[c + i]
  <2>1. \A i \in c + 1..c + 4 : f[i] \in Byte
    BY <1>1, <1>2
  <2>2. /\ c + 1 \in Int /\ c + 4 \in Int /\ c + 1 <= c + 4
        /\ (c + 4) - (c + 1) + 1 = 4
        /\ \A i \in 1..4 : (c + 1) + i - 1 = c + i
    OBVIOUS
  <2>3. /\ s \in Seq(Byte)
        /\ Len(s) = IF c + 1 <= c + 4 THEN (c + 4) - (c + 1) + 1 ELSE 0
        /\ \A i \in 1..(c + 4) - (c + 1) + 1 : s[i] = f[(c + 1) + i - 1]
    BY <2>1, <2>2, SubSeqProperties
  <2> QED BY <2>2, <2>3
<1>4. /\ t \in Seq(Byte) /\ Len(t) = 4
      /\ \A i \in 1..4 : t[i] = f[c + i]
  BY <1>2
<1> HIDE DEF s, t
<1>5. s = t
  <2>1. Len(s) = Len(t) /\ \A i \in 1..Len(s) : s[i] = t[i]
    BY <1>3, <1>4
  <2> QED BY <1>3, <1>4, <2>1, SeqEqual
<1> QED
  BY <1>2, <1>5 DEF s, t

LEMMA StartCode4 == <<0>> \o StartCode = <<0, 0, 0, 1>>
<1> DEFINE z == <<0>>
           s == StartCode
           t == <<0, 0, 0, 1>>
<1>1. z \in Seq(Nat) /\ Len(z) = 1 /\ z[1] = 0
  OBVIOUS
<1>2. s \in Seq(Nat) /\ Len(s) = 3 /\ s[1] = 0 /\ s[2] = 0 /\ s[3] = 1
  BY DEF StartCode
<1>3. t \in Seq(Nat) /\ Len(t) = 4 /\ t[1] = 0 /\ t[2] = 0 /\ t[3] = 0 /\ t[4] = 1
  OBVIOUS
<1> HIDE DEF z, s, t
<1>4. /\ z \o s \in Seq(Nat) /\ Len(z \o s) = 4
      /\ \A i \in 1..4 : (z \o s)[i] = IF i <= 1 THEN z[i] ELSE s[i - 1]
  <2>1. /\ z \o s \in Seq(Nat) /\ Len(z \o s) = Len(z) + Len(s)
        /\ \A i \in 1..Len(z) + Len(s) : (z \o s)[i] = IF i <= Len(z) THEN z[i] ELSE s[i - Len(z)]
    BY <1>1, <1>2, ConcatProperties
  <2> QED BY <1>1, <1>2, <2>1
<1> DEFINE zs == z \o s
<1>5. zs \in Seq(Nat) /\ Len(zs) = Len(t) /\ \A i \in 1..Len(zs) : zs[i] = t[i]
  <2>1. \A i \in 1..4 : i = 1 \/ i = 2 \/ i = 3 \/ i = 4
    OBVIOUS
  <2>2. zs[1] = 0 /\ zs[2] = 0 /\ zs[3] = 0 /\ zs[4] = 1
    BY <1>1, <1>2, <1>4
  <2> HIDE DEF zs
  <2>3. \A i \in 1..4 : zs[i] = t[i]
    BY <1>3, <2>1, <2>2
  <2> QED BY <1>3, <1>4, <2>3 DEF zs
<1> HIDE DEF zs
<1>7. zs = t
  BY <1>3, <1>5, SeqEqual
<1>6. z \o s = t
  BY <1>7 DEF zs
<1> QED BY <1>6 DEF z, s, t

(* The position of the reader, and what it sees there.                     *)
LEMMA Seen ==
  ASSUME TypeOK
  PROVE  /\ Consumed \in Nat /\ Consumed <= Len(file) /\ Len(file) \in Nat
         /\ AtStartCode3 <=> /\ Consumed + 3 <= Len(file)
                             /\ file[Consumed + 1] = 0 /\ file[Consumed + 2] = 0
                             /\ file[Consumed + 3] = 1
         /\ AtStartCode4 <=> /\ Consumed + 4 <= Len(file)
                             /\ file[Consumed + 1] = 0 /\ file[Consumed + 2] = 0
                             /\ file[Consumed + 3] = 0 /\ file[Consumed + 4] = 1
         /\ AtUnitEnd <=> /\ Consumed + 3 <= Len(file)
                          /\ file[Consumed + 1] = 0 /\ file[Consumed + 2] = 0
                          /\ file[Consumed + 3] <= 2
<1> DEFINE c == Consumed
<1>1. c \in Nat /\ c <= Len(file) /\ Len(file) \in Nat /\ file \in Seq(Byte)
  <2>1. Len(file) \in Nat /\ file \in Seq(Byte)
    BY LenProperties DEF TypeOK
  <2> QED BY <2>1, Z3 DEF TypeOK, Consumed
<1>2. EofBefore(3) <=> ~(c + 3 <= Len(file))
  BY <1>1 DEF EofBefore
<1>3. EofBefore(4) <=> ~(c + 4 <= Len(file))
  BY <1>1 DEF EofBefore
<1>4. PeekBytes(3) = SubSeq(file, c + 1, c + 3) /\ PeekBytes(4) = SubSeq(file, c + 1, c + 4)
  BY DEF PeekBytes
<1> HIDE DEF c
<1>5. AtStartCode3 <=> /\ c + 3 <= Len(file) /\ file[c + 1] = 0 /\ file[c + 2] = 0
                       /\ file[c + 3] = 1
  <2>1. CASE c + 3 <= Len(file)
    <3>1. PeekBytes(3) = <<file[c + 1], file[c + 2], file[c + 3]>>
      BY <1>1, <1>4, <2>1, Peeked3
    <3> QED BY <1>2, <2>1, <3>1 DEF AtStartCode3, StartCode
  <2> QED BY <1>2, <2>1 DEF AtStartCode3
<1>6. AtStartCode4 <=> /\ c + 4 <= Len(file) /\ file[c + 1] = 0 /\ file[c + 2] = 0
                       /\ file[c + 3] = 0 /\ file[c + 4] = 1
  <2>1. CASE c + 4 <= Len(file)
    <3>1. PeekBytes(4) = <<file[c + 1], file[c + 2], file[c + 3], file[c + 4]>>
      BY <1>1, <1>4, <2>1, Peeked4
    <3> DEFINE code == <<0>> \o StartCode
    <3>2. code = <<0, 0, 0, 1>>
      BY StartCode4
    <3>3. AtStartCode4 <=> PeekBytes(4) = code
      BY <1>3, <2>1 DEF AtStartCode4
    <3> HIDE DEF code
    <3>4. PeekBytes(4) = code <=> /\ file[c + 1] = 0 /\ file[c + 2] = 0
                                 /\ file[c + 3] = 0 /\ file[c + 4] = 1
      BY <3>1, <3>2
    <3> QED BY <2>1, <3>3, <3>4
  <2> QED BY <1>3, <2>1 DEF AtStartCode4
<1>7. AtUnitEnd <=> /\ c + 3 <= Len(file) /\ file[c + 1] = 0 /\ file[c + 2] = 0
                    /\ file[c + 3] <= 2
  <2>1. CASE c + 3 <= Len(file)
    <3>1. PeekBytes(3) = <<file[c + 1], file[c + 2], file[c + 3]>>
      BY <1>1, <1>4, <2>1, Peeked3
    <3> QED BY <1>2, <2>1, <3>1 DEF AtUnitEnd, EndsUnit
  <2> QED BY <1>2, <2>1 DEF AtUnitEnd
<1> QED BY <1>1, <1>5, <1>6, <1>7 DEF c

(* What looking at n bytes and consuming k of them does to the stream.     *)
LEMMA Moved ==
  ASSUME TypeOK, NEW n \in {3, 4}, NEW k \in 0..n, Consumed + k <= Len(file),
         LookAndRead(n, k)
  PROVE  /\ pos' \in 0..Len(file) /\ future' \in 0..4 /\ future' <= pos'
         /\ Consumed' = Consumed + k
         /\ future <= n => future' <= n - k
         /\ Consumed + n <= Len(file) => future' = (IF future >= n THEN future ELSE n) - k
         /\ eof' \in BOOLEAN
         /\ eof' <=> (eof \/ ~(Consumed + n <= Len(file)))
<1>1. /\ Consumed \in Nat /\ Consumed <= Len(file) /\ Len(file) \in Nat
      /\ Consumed = pos - future /\ pos \in 0..Len(file) /\ future \in 0..4 /\ future <= pos
      /\ eof \in BOOLEAN
  BY Seen DEF TypeOK, Consumed
<1>2. EofBefore(n) <=> ~(Consumed + n <= Len(file))
  BY <1>1 DEF EofBefore
<1>3. /\ BufferedBy(n) \in 0..4 /\ Consumed + BufferedBy(n) <= Len(file)
      /\ future <= n => BufferedBy(n) <= n
      /\ Consumed + n <= Len(file) => BufferedBy(n) = IF future >= n THEN future ELSE n
      /\ BufferedBy(n) <= k => Consumed + n > Len(file) \/ k = n
  BY <1>1, <1>2 DEF BufferedBy
<1>4. /\ pos' = IF BufferedBy(n) > k THEN Consumed + BufferedBy(n) ELSE Consumed + k
      /\ future' = IF BufferedBy(n) > k THEN BufferedBy(n) - k ELSE 0
      /\ eof' = (eof \/ EofBefore(n))
  BY DEF LookAndRead
<1>5. Consumed' = pos' - future'
  BY DEF Consumed
<1>6. /\ pos' \in 0..Len(file) /\ future' \in 0..4 /\ future' <= pos'
      /\ Consumed' = Consumed + k
  <2> DEFINE b == BufferedBy(n)
             c == Consumed
  <2>1. b \in 0..4 /\ c + b <= Len(file) /\ c \in Nat /\ k \in 0..4 /\ c + k <= Len(file)
    BY <1>1, <1>3
  <2>2. CASE b > k
    <3>1. pos' = c + b /\ future' = b - k
      BY <1>4, <2>2
    <3> HIDE DEF b, c
    <3> QED BY <1>1, <1>5, <2>1, <2>2, <3>1 DEF c
  <2>3. CASE ~(b > k)
    <3>1. pos' = c + k /\ future' = 0
      BY <1>4, <2>3
    <3> HIDE DEF b, c
    <3> QED BY <1>1, <1>5, <2>1, <2>3, <3>1 DEF c
  <2> QED BY <2>2, <2>3
<1>7. future <= n => future' <= n - k
  BY <1>1, <1>3, <1>4
<1>8. Consumed + n <= Len(file) => future' = (IF future >= n THEN future ELSE n) - k
  BY <1>1, <1>3, <1>4
<1>9. /\ eof' \in BOOLEAN
      /\ eof' <=> (eof \/ ~(Consumed + n <= Len(file)))
  BY <1>1, <1>2, <1>4
<1> QED BY <1>6, <1>7, <1>8, <1>9

-----------------------------------------------------------------------------
(* Where the reader is in the file.                                        *)

(* What the layout says around the zero bytes behind unit k.               *)
LEMMA LayoutFacts ==
  ASSUME TypeOK, Layout, NEW k \in 0..Len(units)
  PROVE  /\ Len(units) \in Nat /\ Len(file) \in Nat
         /\ EndOf(k) \in Nat /\ ZerosUpTo(k) \in Nat
         /\ EndOf(k) <= ZerosUpTo(k) /\ ZerosUpTo(k) <= Len(file)
         /\ \A i \in EndOf(k) + 1..ZerosUpTo(k) : file[i] = 0
         /\ k < Len(units) =>
              /\ starts[k + 1] \in Nat /\ ZerosUpTo(k) = starts[k + 1] - 1
              /\ EndOf(k) + 3 <= starts[k + 1]
              /\ file[starts[k + 1]] = 1
              /\ units[k + 1] \in Bodies /\ Len(units[k + 1]) \in Nat
              /\ EndOf(k + 1) = starts[k + 1] + Len(units[k + 1])
              /\ EndOf(k + 1) <= Len(file)
              /\ \A j \in 1..Len(units[k + 1]) : file[starts[k + 1] + j] = units[k + 1][j]
<1>1. /\ Len(units) \in Nat /\ Len(file) \in Nat
      /\ \A i \in 1..Len(units) : units[i] \in Bodies /\ starts[i] \in Nat
  BY LenProperties, ElementOfSeq DEF TypeOK
<1>2. \A i \in 1..Len(units) : Len(units[i]) \in Nat
  BY <1>1, BodiesAssumption, LenProperties
<1>3. CASE k = Len(units)
  <2>1. CASE k = 0
    BY <1>1, <1>3, <2>1 DEF Layout, ZerosBehind, EndOf, ZerosUpTo
  <2>2. CASE k # 0
    <3>1. k \in 1..Len(units)
      BY <1>1, <2>2
    <3>2. UnitInFile(k) /\ ZerosBehind(k)
      BY <3>1 DEF Layout
    <3> QED BY <1>1, <1>2, <1>3, <2>2, <3>1, <3>2 DEF UnitInFile, ZerosBehind, EndOf, ZerosUpTo
  <2> QED BY <2>1, <2>2
<1>4. CASE k # Len(units)
  <2>1. k < Len(units) /\ k + 1 \in 1..Len(units) /\ (k + 1) - 1 = k /\ k + 1 # 0
    BY <1>1, <1>4
  <2>2. UnitInFile(k + 1) /\ ZerosBehind(k)
    BY <2>1 DEF Layout
  <2>3. EndOf(k) \in Nat
    BY <1>1, <1>2 DEF EndOf
  <2>4. EndOf(k + 1) = starts[k + 1] + Len(units[k + 1])
    BY <2>1 DEF EndOf
  <2>5. ZerosUpTo(k) = starts[k + 1] - 1
    BY <1>4 DEF ZerosUpTo
  <2>6. /\ starts[k + 1] \in Nat /\ units[k + 1] \in Bodies /\ Len(units[k + 1]) \in Nat
    BY <1>1, <1>2, <2>1
  <2>8. \A i \in EndOf(k) + 1..ZerosUpTo(k) : file[i] = 0
    BY <2>2 DEF ZerosBehind
  <2>7. /\ EndOf(k) + 3 <= starts[k + 1] /\ EndOf(k + 1) <= Len(file)
        /\ file[starts[k + 1]] = 1
        /\ \A j \in 1..Len(units[k + 1]) : file[starts[k + 1] + j] = units[k + 1][j]
    BY <2>1, <2>2 DEF UnitInFile
  <2>9. EndOf(k) <= ZerosUpTo(k) /\ ZerosUpTo(k) <= Len(file) /\ ZerosUpTo(k) \in Nat
    BY <1>1, <2>3, <2>4, <2>5, <2>6, <2>7
  <2> QED BY <1>1, <2>1, <2>3, <2>4, <2>5, <2>6, <2>7, <2>8, <2>9
<1> QED BY <1>3, <1>4

(* Between two units the reader sees the next start code when it is at it, *)
(* and zero bytes before.                                                  *)
LEMMA StartCodeSeen ==
  ASSUME TypeOK, Layout, NEW k \in 0..Len(units), Behind(k)
  PROVE  /\ AtStartCode3 <=> k < Len(units) /\ Consumed + 3 = starts[k + 1]
         /\ AtStartCode4 <=> k < Len(units) /\ Consumed + 4 = starts[k + 1]
         /\ NothingLeft => k = Len(units)
         /\ ~AtStartCode3 /\ ~AtStartCode4 /\ ~NothingLeft =>
              /\ NextByte = 0 /\ Consumed + 1 <= Len(file)
              /\ Consumed + 1 <= ZerosUpTo(k) - (IF k = Len(units) THEN 0 ELSE 2)
              /\ k < Len(units) => Consumed + 4 <= Len(file)
<1> DEFINE c == Consumed
           z == ZerosUpTo(k)
<1>1. /\ c \in Nat /\ c <= Len(file) /\ Len(file) \in Nat /\ Len(units) \in Nat
      /\ z \in Nat /\ z <= Len(file) /\ EndOf(k) \in Nat
      /\ \A i \in EndOf(k) + 1..z : file[i] = 0
      /\ EndOf(k) <= c /\ c <= z - (IF k = Len(units) THEN 0 ELSE 2)
  BY Seen, LayoutFacts DEF Behind
<1>2. k < Len(units) => z + 1 = starts[k + 1] /\ file[z + 1] = 1 /\ z + 1 <= Len(file)
  <2> SUFFICES ASSUME k < Len(units)
               PROVE  z + 1 = starts[k + 1] /\ file[z + 1] = 1 /\ z + 1 <= Len(file)
    OBVIOUS
  <2>1. /\ starts[k + 1] \in Nat /\ z = starts[k + 1] - 1 /\ file[starts[k + 1]] = 1
        /\ EndOf(k + 1) = starts[k + 1] + Len(units[k + 1])
        /\ EndOf(k + 1) <= Len(file) /\ Len(units[k + 1]) \in Nat
    BY LayoutFacts
  <2>2. z + 1 = starts[k + 1]
    BY <2>1
  <2>3. starts[k + 1] <= Len(file)
    BY <1>1, <2>1
  <2> HIDE DEF z
  <2> QED BY <2>1, <2>2, <2>3
<1>3. k = Len(units) => z = Len(file)
  BY DEF ZerosUpTo
<1>4. \A i \in c + 1..z : file[i] = 0
  BY <1>1
<1>5. AtStartCode3 <=> /\ c + 3 <= Len(file) /\ file[c + 1] = 0 /\ file[c + 2] = 0
                       /\ file[c + 3] = 1
  BY Seen
<1>6. AtStartCode4 <=> /\ c + 4 <= Len(file) /\ file[c + 1] = 0 /\ file[c + 2] = 0
                       /\ file[c + 3] = 0 /\ file[c + 4] = 1
  BY Seen
<1>7. NothingLeft <=> c = Len(file)
  BY DEF NothingLeft
<1>8. NextByte = file[c + 1]
  BY DEF NextByte
<1> HIDE DEF c, z
<1>9. CASE k < Len(units)
  <2>1. /\ z + 1 = starts[k + 1] /\ file[z + 1] = 1 /\ z + 1 <= Len(file) /\ c + 2 <= z
        /\ k # Len(units)
    BY <1>1, <1>2, <1>9
  <2>2. CASE c + 2 = z
    <3>1. file[c + 1] = 0 /\ file[c + 2] = 0 /\ c + 3 = z + 1
      BY <1>1, <1>4, <2>2
    <3> QED BY <1>1, <1>5, <1>6, <1>7, <1>9, <2>1, <2>2, <3>1 DEF c, z
  <2>3. CASE c + 3 = z
    <3>1. file[c + 1] = 0 /\ file[c + 2] = 0 /\ file[c + 3] = 0 /\ c + 4 = z + 1
      BY <1>1, <1>4, <2>3
    <3> QED BY <1>1, <1>5, <1>6, <1>7, <1>9, <2>1, <2>3, <3>1 DEF c, z
  <2>4. CASE c + 3 < z
    <3>1. /\ file[c + 1] = 0 /\ file[c + 2] = 0 /\ file[c + 3] = 0 /\ file[c + 4] = 0
          /\ c + 4 <= z
      BY <1>1, <1>4, <2>4
    <3> QED BY <1>1, <1>5, <1>6, <1>7, <1>8, <1>9, <2>1, <2>4, <3>1 DEF c, z
  <2> QED BY <1>1, <2>1, <2>2, <2>3, <2>4
<1>10. CASE k = Len(units)
  <2>1. z = Len(file) /\ ~(k < Len(units))
    BY <1>1, <1>3, <1>10
  <2>2. \A i \in c + 1..Len(file) : file[i] = 0
    BY <1>4, <2>1
  <2>3. ~AtStartCode3
    BY <1>1, <1>5, <2>2
  <2>4. ~AtStartCode4
    BY <1>1, <1>6, <2>2
  <2>5. c # Len(file) => c + 1 <= Len(file) /\ file[c + 1] = 0
    BY <1>1, <2>2
  <2> QED BY <1>7, <1>8, <1>10, <2>1, <2>3, <2>4, <2>5 DEF c, z
<1> QED BY <1>1, <1>9, <1>10

(* What Zeros returns. *)
LEMMA ZerosAreZero ==
  ASSUME NEW n \in Nat
  PROVE  /\ Zeros(n) \in Seq(Byte) /\ Len(Zeros(n)) = n
         /\ \A i \in 1..n : Zeros(n)[i] = 0
BY DEF Zeros, Byte

(* A unit with zero bytes behind it. *)
LEMMA ZerosAppended ==
  ASSUME NEW u \in Seq(Byte), NEW n \in Nat, NEW t \in Seq(Byte),
         Len(t) = Len(u) + n,
         \A i \in 1..Len(u) : t[i] = u[i],
         \A i \in Len(u) + 1..Len(t) : t[i] = 0
  PROVE  t = u \o Zeros(n)
<1> DEFINE z == Zeros(n)
           w == u \o z
<1>1. z \in Seq(Byte) /\ Len(z) = n /\ \A i \in 1..n : z[i] = 0
  BY ZerosAreZero
<1> HIDE DEF z
<1>2. /\ w \in Seq(Byte) /\ Len(w) = Len(u) + Len(z)
      /\ \A i \in 1..Len(u) + Len(z) : w[i] = IF i <= Len(u) THEN u[i] ELSE z[i - Len(u)]
  BY <1>1, ConcatProperties
<1> HIDE DEF w
<1>3. Len(u) \in Nat
  BY LenProperties
<1>4. Len(t) = Len(w) /\ \A i \in 1..Len(t) : t[i] = w[i]
  <2>1. Len(t) = Len(w) /\ Len(t) = Len(u) + n
    BY <1>1, <1>2
  <2>2. ASSUME NEW i \in 1..Len(t) PROVE t[i] = w[i]
    <3>1. CASE i <= Len(u)
      <4>1. i \in 1..Len(u) /\ i \in 1..Len(u) + Len(z)
        BY <1>1, <1>3, <3>1
      <4> QED BY <1>2, <3>1, <4>1
    <3>2. CASE ~(i <= Len(u))
      <4>1. i \in Len(u) + 1..Len(t) /\ i \in 1..Len(u) + Len(z) /\ i - Len(u) \in 1..n
        BY <1>1, <1>3, <3>2
      <4> QED BY <1>1, <1>2, <3>2, <4>1
    <3> QED BY <3>1, <3>2
  <2> QED BY <2>1, <2>2
<1>5. t = w
  BY <1>2, <1>4, SeqEqual
<1> QED BY <1>5 DEF w, z

(* Inside a unit the reader sees the end of the unit when it is at it, and *)
(* bytes of the unit before; only a last unit with few zero bytes behind   *)
(* it is read up to the end of the file.                                   *)
LEMMA UnitSeen ==
  ASSUME TypeOK, Layout, BodyInv, phase = "body"
  PROVE  /\ AtUnitEnd => /\ unit = units[index + 1] /\ Behind(index + 1)
                         /\ index + 1 = Len(units) => ~ShortTail
         /\ ~AtUnitEnd /\ NothingLeft =>
              /\ index + 1 = Len(units) /\ unit # << >> /\ unit = Handed(index + 1)
         /\ ~AtUnitEnd /\ ~NothingLeft =>
              /\ NextByte \in Byte /\ Consumed + 1 <= Len(file)
              /\ \/ Len(unit) + 1 <= Len(units[index + 1])
                 \/ index + 1 = Len(units) /\ ShortTail
              /\ index + 1 < Len(units) => Consumed + 3 <= Len(file)
<1> DEFINE k == index + 1
           u == units[k]
           s == starts[k]
           n == Len(unit)
           c == Consumed
           z == ZerosUpTo(k)
<1>1. /\ index \in Nat /\ index < Len(units) /\ Len(units) \in Nat
      /\ unit \in Seq(Byte) /\ n \in Nat /\ file \in Seq(Byte)
      /\ index \in 0..Len(units) /\ k \in 0..Len(units)
  BY LenProperties DEF TypeOK, BodyInv
<1>2. /\ s \in Nat /\ Len(file) \in Nat
      /\ u \in Bodies /\ Len(u) \in Nat /\ EndOf(k) = s + Len(u) /\ EndOf(k) <= Len(file)
      /\ \A j \in 1..Len(u) : file[s + j] = u[j]
  BY <1>1, LayoutFacts
<1>3. /\ u \in Seq(Byte) /\ Len(u) >= 2 /\ u[Len(u)] # 0
      /\ \A i \in 1..Len(u) - 2 : u[i] = 0 /\ u[i + 1] = 0 => u[i + 2] > 2
  BY <1>2, BodiesAssumption
<1>4. /\ z \in Nat /\ EndOf(k) <= z /\ z <= Len(file)
      /\ \A i \in EndOf(k) + 1..z : file[i] = 0
      /\ k < Len(units) => /\ z + 1 = starts[k + 1] /\ EndOf(k) + 2 <= z
                           /\ file[z + 1] = 1 /\ z + 1 <= Len(file)
  <2>1. /\ z \in Nat /\ EndOf(k) <= z /\ z <= Len(file)
        /\ \A i \in EndOf(k) + 1..z : file[i] = 0
        /\ k < Len(units) =>
              /\ starts[k + 1] \in Nat /\ z = starts[k + 1] - 1
              /\ EndOf(k) + 3 <= starts[k + 1] /\ file[starts[k + 1]] = 1
              /\ Len(units[k + 1]) \in Nat
              /\ EndOf(k + 1) = starts[k + 1] + Len(units[k + 1])
              /\ EndOf(k + 1) <= Len(file)
    BY <1>1, LayoutFacts
  <2>2. k < Len(units) => z + 1 = starts[k + 1] /\ starts[k + 1] <= Len(file)
    BY <1>2, <2>1
  <2> HIDE DEF z, k
  <2> QED BY <1>2, <2>1, <2>2
<1>5. /\ c = s + n
      /\ \A j \in 1..n : unit[j] = file[s + j]
      /\ n <= Len(u) \/ (k = Len(units) /\ ShortTail)
  BY DEF BodyInv
<1>6. /\ c \in Nat /\ c <= Len(file)
      /\ AtUnitEnd <=> /\ c + 3 <= Len(file) /\ file[c + 1] = 0 /\ file[c + 2] = 0
                       /\ file[c + 3] <= 2
  BY Seen
<1>7. NothingLeft <=> c = Len(file)
  BY DEF NothingLeft
<1>8. k = Len(units) => z = Len(file) /\ (ShortTail <=> Len(file) - EndOf(k) < 3)
  BY DEF ZerosUpTo, ShortTail
<1>9. k <= Len(units)
  BY <1>1
<1>10. Behind(k) <=> EndOf(k) <= c /\ c <= z - (IF k = Len(units) THEN 0 ELSE 2)
  BY DEF Behind
<1>11. c + 1 <= Len(file) => NextByte \in Byte
  <2>1. c + 1 <= Len(file) => c + 1 \in 1..Len(file)
    BY <1>6
  <2> QED BY <1>1, <2>1, ElementOfSeq DEF NextByte
<1> DEFINE e == EndOf(k)
<1> HIDE DEF c, z, k, u, s, n, e
<1>18. k \in Nat /\ n \in Nat /\ Len(units) \in Nat
  BY <1>1 DEF k, n
<1>19. s \in Nat /\ Len(u) \in Nat /\ c = s + n /\ EndOf(k) = s + Len(u)
  BY <1>2, <1>5
<1>12. /\ e = s + Len(u) /\ e <= Len(file) /\ e \in Nat
       /\ e <= z /\ \A i \in e + 1..z : file[i] = 0
       /\ k < Len(units) => e + 2 <= z
       /\ Behind(k) <=> e <= c /\ c <= z - (IF k = Len(units) THEN 0 ELSE 2)
       /\ k = Len(units) => (ShortTail <=> Len(file) - e < 3)
  BY <1>2, <1>4, <1>8, <1>10 DEF e
<1>13. AtUnitEnd => c = e /\ (k = Len(units) => ~ShortTail)
  <2> SUFFICES ASSUME AtUnitEnd PROVE c = e /\ (k = Len(units) => ~ShortTail)
    OBVIOUS
  <2>1. c + 3 <= Len(file) /\ file[c + 1] = 0 /\ file[c + 2] = 0 /\ file[c + 3] <= 2
    BY <1>6
  <2>2. ~(c > e)
    BY <1>1, <1>2, <1>5, <1>6, <1>12, <2>1 DEF n
  <2>3. ~(c < e)
    <3> SUFFICES ASSUME c < e PROVE FALSE
      OBVIOUS
    <3>1. c + 1 = s + (n + 1) /\ c + 2 = s + (n + 2) /\ c + 3 = s + (n + 3)
      BY <1>1, <1>2, <1>5 DEF n
    <3>2. n + 1 <= Len(u)
      BY <1>1, <1>2, <1>5, <1>12 DEF n
    <3>3. n + 1 \in 1..Len(u) /\ u[n + 1] = 0
      BY <1>1, <1>2, <2>1, <3>1, <3>2 DEF n
    <3>4. n + 2 <= Len(u)
      BY <1>1, <1>2, <1>3, <3>2, <3>3 DEF n
    <3>5. n + 2 \in 1..Len(u) /\ u[n + 2] = 0
      BY <1>1, <1>2, <2>1, <3>1, <3>4 DEF n
    <3>6. n + 3 <= Len(u)
      BY <1>1, <1>2, <1>3, <3>4, <3>5 DEF n
    <3>7. n + 3 \in 1..Len(u) /\ u[n + 3] <= 2
      BY <1>1, <1>2, <2>1, <3>1, <3>6 DEF n
    <3>8. /\ n + 1 \in 1..Len(u) - 2 /\ (n + 1) + 1 = n + 2 /\ (n + 1) + 2 = n + 3
      BY <1>1, <1>2, <3>6 DEF n
    <3>9. u[n + 3] > 2
      BY <1>3, <3>3, <3>5, <3>8
    <3>10. u[n + 3] \in Byte
      BY <1>3, <3>7, ElementOfSeq
    <3>11. u[n + 3] \in Nat
      BY <3>10 DEF Byte
    <3> QED BY <3>7, <3>9, <3>11
  <2> QED BY <1>6, <1>12, <2>1, <2>2, <2>3
<1>14. AtUnitEnd => unit = u /\ Behind(k)
  <2> SUFFICES ASSUME AtUnitEnd PROVE unit = u /\ Behind(k)
    OBVIOUS
  <2>1. c = e /\ n = Len(u)
    BY <1>1, <1>2, <1>5, <1>12, <1>13 DEF n
  <2>2. Len(unit) = Len(u) /\ \A j \in 1..Len(unit) : unit[j] = u[j]
    BY <1>2, <1>5, <2>1 DEF n
  <2>3. unit = u
    BY <1>1, <1>3, <2>2, SeqEqual
  <2>4. k = Len(units) \/ (k < Len(units) /\ k # Len(units))
    BY <1>9, <1>18
  <2>5. e <= c /\ c <= z - (IF k = Len(units) THEN 0 ELSE 2)
    BY <1>4, <1>6, <1>12, <2>1, <2>4
  <2> QED BY <1>12, <2>3, <2>5
<1>15. c = e /\ ~AtUnitEnd => k = Len(units) /\ ShortTail
  <2> SUFFICES ASSUME c = e, ~AtUnitEnd PROVE k = Len(units) /\ ShortTail
    OBVIOUS
  <2>1. ~(k < Len(units))
    <3> SUFFICES ASSUME k < Len(units) PROVE FALSE
      OBVIOUS
    <3>1. e + 2 <= z /\ file[z + 1] = 1 /\ z + 1 <= Len(file) /\ z \in Nat
      BY <1>4, <1>12
    <3>2. file[c + 1] = 0 /\ file[c + 2] = 0 /\ c + 3 <= Len(file)
      BY <1>6, <1>12, <3>1
    <3>3. c + 3 \in e + 1..z \/ c + 3 = z + 1
      BY <1>6, <1>12, <3>1
    <3>4. file[c + 3] = 0 \/ file[c + 3] = 1
      BY <1>12, <3>1, <3>3
    <3> QED BY <1>6, <3>2, <3>4
  <2>2. k = Len(units)
    BY <1>1, <1>9, <2>1 DEF k
  <2>3. z = Len(file)
    BY <1>8, <2>2
  <2>4. ~(c + 3 <= Len(file))
    <3> SUFFICES ASSUME c + 3 <= Len(file) PROVE FALSE
      OBVIOUS
    <3>1. c + 1 \in e + 1..z /\ c + 2 \in e + 1..z /\ c + 3 \in e + 1..z
      BY <1>2, <1>6, <1>12, <2>3
    <3>2. file[c + 1] = 0 /\ file[c + 2] = 0 /\ file[c + 3] = 0
      BY <1>12, <3>1
    <3> QED BY <1>6, <3>2
  <2> QED BY <1>2, <1>6, <1>12, <2>2, <2>4
<1>16. ~AtUnitEnd /\ NothingLeft =>
         k = Len(units) /\ unit # << >> /\ unit = Handed(k)
  <2> SUFFICES ASSUME ~AtUnitEnd, NothingLeft
               PROVE  k = Len(units) /\ unit # << >> /\ unit = Handed(k)
    OBVIOUS
  <2>1. c = Len(file) /\ c = s + n /\ e <= c
    BY <1>5, <1>7, <1>12
  <2>2. n >= Len(u)
    BY <1>1, <1>2, <1>12, <2>1 DEF n
  <2>3. k = Len(units) /\ ShortTail
    <3>1. CASE n <= Len(u)
      <4>1. c = e
        BY <1>1, <1>2, <1>12, <2>1, <2>2, <3>1 DEF n
      <4> QED BY <1>15, <4>1
    <3>2. CASE ~(n <= Len(u))
      BY <1>5, <3>2
    <3> QED BY <3>1, <3>2
  <2>4. units # << >>
    BY <1>1, <2>3, EmptySeq DEF k
  <2>5. TailTaken = Len(file) - e
    BY <2>3, <2>4 DEF TailTaken, e
  <2>6. z = Len(file)
    BY <1>8, <2>3
  <2> DEFINE m == Len(file) - e
  <2>7. m \in Nat /\ n = Len(u) + m
    BY <1>1, <1>2, <1>12, <2>1 DEF n
  <2> HIDE DEF m
  <2>8. \A j \in 1..Len(u) : unit[j] = u[j]
    BY <1>1, <1>2, <1>5, <2>2 DEF n
  <2>9. \A j \in Len(u) + 1..n : unit[j] = 0
    <3> SUFFICES ASSUME NEW j \in Len(u) + 1..n PROVE unit[j] = 0
      OBVIOUS
    <3>1. j \in 1..n
      BY <1>1, <1>2 DEF n
    <3>2. s + j \in e + 1..z
      <4>1. j \in Nat /\ n \in Nat /\ Len(u) + 1 <= j /\ j <= n
        BY <1>1, <1>2 DEF n
      <4>2. z = s + n /\ e = s + Len(u)
        BY <1>12, <1>19, <2>1, <2>6
      <4>3. s + j \in s + Len(u) + 1..s + n
        BY <1>19, <4>1
      <4> QED BY <4>2, <4>3
    <3> QED BY <1>5, <1>12, <3>1, <3>2
  <2>10. unit = u \o Zeros(m)
    BY <1>1, <1>3, <2>7, <2>8, <2>9, ZerosAppended DEF n
  <2>11. Handed(k) = u \o Zeros(m)
    BY <2>3, <2>5 DEF Handed, m, u
  <2>12. unit # << >>
    BY <1>1, <1>2, <1>3, <2>2 DEF n
  <2> QED BY <2>3, <2>10, <2>11, <2>12
<1>17. ~AtUnitEnd /\ ~NothingLeft =>
         /\ NextByte \in Byte /\ c + 1 <= Len(file)
         /\ n + 1 <= Len(u) \/ (k = Len(units) /\ ShortTail)
         /\ k < Len(units) => c + 3 <= Len(file)
  <2> SUFFICES ASSUME ~AtUnitEnd, ~NothingLeft
               PROVE  /\ NextByte \in Byte /\ c + 1 <= Len(file)
                      /\ n + 1 <= Len(u) \/ (k = Len(units) /\ ShortTail)
                      /\ k < Len(units) => c + 3 <= Len(file)
    OBVIOUS
  <2>1. c + 1 <= Len(file)
    BY <1>2, <1>6, <1>7
  <2>2. n + 1 <= Len(u) \/ (k = Len(units) /\ ShortTail)
    <3>1. CASE n = Len(u)
      <4>1. c = e
        BY <1>19, <3>1 DEF e
      <4> QED BY <1>15, <4>1
    <3>2. CASE n < Len(u)
      BY <1>18, <1>19, <3>2
    <3>3. CASE n > Len(u)
      BY <1>5, <1>18, <1>19, <3>3
    <3> QED BY <1>18, <1>19, <3>1, <3>2, <3>3
  <2>3. k < Len(units) => c + 3 <= Len(file)
    <3> SUFFICES ASSUME k < Len(units) PROVE c + 3 <= Len(file)
      OBVIOUS
    <3>1. n + 1 <= Len(u)
      BY <1>1, <2>2 DEF k
    <3>2. e + 2 <= z /\ z + 1 <= Len(file) /\ z \in Nat
      BY <1>4, <1>12
    <3> QED BY <1>1, <1>2, <1>5, <1>6, <1>12, <3>1, <3>2 DEF n
  <2> QED BY <1>11, <2>1, <2>2, <2>3
<1> QED BY <1>13, <1>14, <1>16, <1>17 DEF c, k, u, n

-----------------------------------------------------------------------------
(* Writing the file.                                                       *)

Extended(f, n, b) == f \o Zeros(n) \o StartCode \o b

HasUnitBehind(g, f, n, b) ==
  /\ g \in Seq(Byte) /\ Len(g) = Len(f) + n + 3 + Len(b)
  /\ \A i \in 1..Len(f) : g[i] = f[i]
  /\ \A i \in Len(f) + 1..Len(f) + n + 2 : g[i] = 0
  /\ g[Len(f) + n + 3] = 1
  /\ \A j \in 1..Len(b) : g[Len(f) + n + 3 + j] = b[j]

LEMMA ExtendedByUnit ==
  ASSUME NEW f \in Seq(Byte), NEW n \in Nat, NEW b \in Seq(Byte)
  PROVE  HasUnitBehind(Extended(f, n, b), f, n, b)
<1> DEFINE z == Zeros(n)
           c == StartCode
           g1 == f \o z
           g2 == g1 \o c
           g3 == g2 \o b
<1>1. z \in Seq(Byte) /\ Len(z) = n /\ \A i \in 1..n : z[i] = 0
  BY ZerosAreZero
<1>2. /\ c \in Seq(Byte) /\ Len(c) = 3 /\ c[1] = 0 /\ c[2] = 0 /\ c[3] = 1
  <2>1. 0 \in Byte /\ 1 \in Byte
    BY DEF Byte
  <2> QED BY <2>1 DEF StartCode
<1>3. Len(f) \in Nat /\ Len(b) \in Nat
  BY LenProperties
<1> HIDE DEF z, c
<1>4. /\ g1 \in Seq(Byte) /\ Len(g1) = Len(f) + Len(z)
      /\ \A i \in 1..Len(f) + Len(z) : g1[i] = IF i <= Len(f) THEN f[i] ELSE z[i - Len(f)]
  BY <1>1, ConcatProperties
<1> HIDE DEF g1
<1>5. /\ g2 \in Seq(Byte) /\ Len(g2) = Len(g1) + Len(c)
      /\ \A i \in 1..Len(g1) + Len(c) : g2[i] = IF i <= Len(g1) THEN g1[i] ELSE c[i - Len(g1)]
  <2>1. g1 \in Seq(Byte) /\ c \in Seq(Byte)
    BY <1>2, <1>4
  <2> QED BY <2>1, ConcatProperties
<1> HIDE DEF g2
<1>6. /\ g3 \in Seq(Byte) /\ Len(g3) = Len(g2) + Len(b)
      /\ \A i \in 1..Len(g2) + Len(b) : g3[i] = IF i <= Len(g2) THEN g2[i] ELSE b[i - Len(g2)]
  <2>1. g2 \in Seq(Byte)
    BY <1>5
  <2> QED BY <2>1, ConcatProperties
<1>7. Extended(f, n, b) = g3
  BY DEF Extended, g1, g2, g3, z, c
<1> HIDE DEF g3
<1>8. Len(g1) = Len(f) + n /\ Len(g2) = Len(f) + n + 3 /\ Len(g3) = Len(f) + n + 3 + Len(b)
  BY <1>1, <1>2, <1>3, <1>4, <1>5, <1>6
<1>9. ASSUME NEW i \in 1..Len(f) PROVE g3[i] = f[i]
  <2>1. /\ i \in 1..Len(f) + Len(z) /\ i \in 1..Len(g1) + Len(c) /\ i \in 1..Len(g2) + Len(b)
        /\ i <= Len(f) /\ i <= Len(g1) /\ i <= Len(g2)
    BY <1>1, <1>2, <1>3, <1>8
  <2> QED BY <1>4, <1>5, <1>6, <2>1
<1>10. ASSUME NEW i \in Len(f) + 1..Len(f) + n + 2 PROVE g3[i] = 0
  <2>1. i \in 1..Len(g2) + Len(b) /\ i <= Len(g2) /\ i \in 1..Len(g1) + Len(c)
    BY <1>1, <1>2, <1>3, <1>8
  <2>2. g3[i] = g2[i]
    BY <1>6, <2>1
  <2>3. CASE i <= Len(f) + n
    <3>1. /\ i <= Len(g1) /\ i \in 1..Len(f) + Len(z) /\ ~(i <= Len(f))
          /\ i - Len(f) \in 1..n
      BY <1>1, <1>3, <1>8, <2>3
    <3> QED BY <1>1, <1>4, <1>5, <2>1, <2>2, <3>1
  <2>4. CASE ~(i <= Len(f) + n)
    <3>1. ~(i <= Len(g1)) /\ (i - Len(g1) = 1 \/ i - Len(g1) = 2)
      BY <1>1, <1>3, <1>8, <2>4
    <3>2. g2[i] = c[i - Len(g1)]
      BY <1>5, <2>1, <3>1
    <3> QED BY <1>2, <2>2, <3>1, <3>2
  <2> QED BY <2>3, <2>4
<1>11. g3[Len(f) + n + 3] = 1
  <2> DEFINE i == Len(f) + n + 3
  <2>1. /\ i \in 1..Len(g2) + Len(b) /\ i <= Len(g2) /\ i \in 1..Len(g1) + Len(c)
        /\ ~(i <= Len(g1)) /\ i - Len(g1) = 3
    BY <1>1, <1>2, <1>3, <1>8
  <2> HIDE DEF i
  <2>2. g3[i] = g2[i]
    BY <1>6, <2>1
  <2>3. g2[i] = c[i - Len(g1)]
    BY <1>5, <2>1
  <2> QED BY <1>2, <2>1, <2>2, <2>3 DEF i
<1>12. ASSUME NEW j \in 1..Len(b) PROVE g3[Len(f) + n + 3 + j] = b[j]
  <2> DEFINE i == Len(f) + n + 3 + j
  <2>1. i \in 1..Len(g2) + Len(b) /\ ~(i <= Len(g2)) /\ i - Len(g2) = j
    BY <1>3, <1>8
  <2> HIDE DEF i
  <2>2. g3[i] = b[i - Len(g2)]
    BY <1>6, <2>1
  <2> QED BY <2>1, <2>2 DEF i
<1> QED BY <1>6, <1>7, <1>8, <1>9, <1>10, <1>11, <1>12 DEF HasUnitBehind

LEMMA ExtendedByZeros ==
  ASSUME NEW f \in Seq(Byte), NEW n \in Nat
  PROVE  /\ f \o Zeros(n) \in Seq(Byte)
         /\ Len(f \o Zeros(n)) = Len(f) + n
         /\ \A i \in 1..Len(f) : (f \o Zeros(n))[i] = f[i]
         /\ \A i \in Len(f) + 1..Len(f) + n : (f \o Zeros(n))[i] = 0
<1> DEFINE z == Zeros(n)
           g == f \o z
<1>1. z \in Seq(Byte) /\ Len(z) = n /\ \A i \in 1..n : z[i] = 0
  BY ZerosAreZero
<1>2. Len(f) \in Nat
  BY LenProperties
<1> HIDE DEF z
<1>3. /\ g \in Seq(Byte) /\ Len(g) = Len(f) + Len(z)
      /\ \A i \in 1..Len(f) + Len(z) : g[i] = IF i <= Len(f) THEN f[i] ELSE z[i - Len(f)]
  BY <1>1, ConcatProperties
<1> HIDE DEF g
<1>4. \A i \in 1..Len(f) : g[i] = f[i]
  BY <1>1, <1>2, <1>3
<1>5. ASSUME NEW i \in Len(f) + 1..Len(f) + n PROVE g[i] = 0
  <2>1. i \in 1..Len(f) + Len(z) /\ ~(i <= Len(f)) /\ i - Len(f) \in 1..n
    BY <1>1, <1>2
  <2> QED BY <1>1, <1>3, <2>1
<1> QED BY <1>1, <1>3, <1>4, <1>5 DEF g, z

(* A unit more: what was in the file stays where it is. *)
LEMMA WriteUnitKeeps ==
  ASSUME TypeOK, Layout, WriteInv, phase = "write",
         NEW L, L = Len(units), NEW F, F = Len(file),
         NEW body \in Bodies, NEW n \in Nat,
         file' = Extended(file, n, body), units' = Append(units, body),
         starts' = Append(starts, F + n + 3)
  PROVE  /\ file' \in Seq(Byte) /\ units' \in Seq(Bodies)
         /\ starts' \in [1..Len(units') -> 0..Len(file')]
         /\ Len(file) <= Len(file') /\ Len(units') = Len(units) + 1
         /\ Len(file') = EndOf(Len(units))'
         /\ Layout'
<1>1. /\ L \in Nat /\ F \in Nat /\ file \in Seq(Byte) /\ units \in Seq(Bodies)
      /\ starts \in Seq(0..F) /\ Len(starts) = L
      /\ body \in Seq(Byte) /\ Len(body) \in Nat
  <2>1. L \in Nat /\ F \in Nat /\ file \in Seq(Byte) /\ units \in Seq(Bodies)
    BY LenProperties DEF TypeOK
  <2>2. body \in Seq(Byte) /\ Len(body) \in Nat
    BY BodiesAssumption, LenProperties
  <2>3. starts \in [1..L -> 0..F]
    BY DEF TypeOK
  <2>4. starts \in Seq(0..F) /\ Len(starts) = L
    BY <2>1, <2>3
  <2> QED BY <2>1, <2>2, <2>4
<1>2. /\ file' \in Seq(Byte) /\ Len(file') = F + n + 3 + Len(body)
      /\ \A i \in 1..F : file'[i] = file[i]
      /\ \A i \in F + 1..F + n + 2 : file'[i] = 0
      /\ file'[F + n + 3] = 1
      /\ \A j \in 1..Len(body) : file'[F + n + 3 + j] = body[j]
  <2>1. HasUnitBehind(Extended(file, n, body), file, n, body)
    BY <1>1, ExtendedByUnit
  <2>2. HasUnitBehind(file', file, n, body)
    BY <2>1
  <2> QED BY <2>2 DEF HasUnitBehind
<1>3. /\ units' \in Seq(Bodies) /\ Len(units') = L + 1
      /\ \A k \in 1..L : units'[k] = units[k]
      /\ units'[L + 1] = body
  BY <1>1, AppendProperties
<1>4. /\ starts' \in Seq(Nat) /\ Len(starts') = L + 1
      /\ \A k \in 1..L : starts'[k] = starts[k] /\ starts[k] \in 0..F
      /\ starts'[L + 1] = F + n + 3
  <2>1. starts \in Seq(Nat) /\ F + n + 3 \in Nat
    BY <1>1, SeqMonotonic
  <2>2. \A k \in 1..L : starts[k] \in 0..F
    BY <1>1, ElementOfSeq
  <2> QED BY <1>1, <2>1, <2>2, AppendProperties
<1>5. F = EndOf(L)
  BY DEF WriteInv
<1>6. /\ \A k \in 1..L : UnitInFile(k)
      /\ \A k \in 0..L : ZerosBehind(k)
  BY DEF Layout
<1>7. \A k \in 1..L : units[k] \in Bodies /\ Len(units[k]) \in Nat
  <2>1. \A k \in 1..L : units[k] \in Bodies
    BY <1>1, ElementOfSeq
  <2> QED BY <2>1, BodiesAssumption, LenProperties
<1>8. \A k \in 0..L : EndOf(k)' = EndOf(k) /\ EndOf(k) \in Nat
  <2> SUFFICES ASSUME NEW k \in 0..L PROVE EndOf(k)' = EndOf(k) /\ EndOf(k) \in Nat
    OBVIOUS
  <2>1. CASE k = 0
    BY <2>1 DEF EndOf
  <2>2. CASE k # 0
    <3>1. k \in 1..L
      BY <1>1, <2>2
    <3> QED BY <1>3, <1>4, <1>7, <2>2, <3>1 DEF EndOf
  <2> QED BY <2>1, <2>2
<1>9. EndOf(L + 1)' = F + n + 3 + Len(body)
  <2>1. L + 1 # 0
    BY <1>1
  <2> QED BY <1>3, <1>4, <2>1 DEF EndOf
<1>10. EndOf(L)' = F
  BY <1>1, <1>5, <1>8
<1>11. starts' \in [1..Len(units') -> 0..Len(file')]
  <2>1. \A k \in 1..L + 1 : k \in 1..L \/ k = L + 1
    BY <1>1
  <2>2. \A k \in 1..L + 1 : starts'[k] \in 0..Len(file')
    BY <1>1, <1>2, <1>4, <2>1
  <2>3. starts' \in [1..L + 1 -> Nat]
    BY <1>4, LenProperties
  <2> QED BY <1>3, <2>2, <2>3
<1>12. ASSUME NEW k \in 1..L PROVE UnitInFile(k)'
  <2>1. /\ EndOf(k - 1) + 3 <= starts[k] /\ EndOf(k) <= F
        /\ file[starts[k]] = 1
        /\ \A j \in 1..Len(units[k]) : file[starts[k] + j] = units[k][j]
    BY <1>6 DEF UnitInFile
  <2>2. k - 1 \in 0..L /\ k \in 0..L /\ k # 0
    BY <1>1
  <2>3. EndOf(k - 1)' = EndOf(k - 1) /\ EndOf(k)' = EndOf(k) /\ EndOf(k - 1) \in Nat
    BY <1>8, <2>2
  <2>4. EndOf(k) = starts[k] + Len(units[k])
    BY <2>2 DEF EndOf
  <2>5. starts'[k] = starts[k] /\ units'[k] = units[k] /\ starts[k] \in 0..F
        /\ Len(units[k]) \in Nat
    BY <1>3, <1>4, <1>7
  <2>6. starts[k] \in 1..F /\ \A j \in 1..Len(units[k]) : starts[k] + j \in 1..F
    <3> DEFINE a == starts[k]
               u == Len(units[k])
               e == EndOf(k - 1)
    <3>1. /\ a \in Nat /\ u \in Nat /\ e \in Nat /\ F \in Nat
          /\ e + 3 <= a /\ a + u <= F
      BY <1>1, <2>1, <2>3, <2>4, <2>5
    <3> HIDE DEF a, u, e
    <3>2. a \in 1..F /\ \A j \in 1..u : a + j \in 1..F
      BY <3>1
    <3> QED BY <3>2 DEF a, u
  <2>7. file'[starts[k]] = 1 /\ \A j \in 1..Len(units[k]) : file'[starts[k] + j] = units[k][j]
    BY <1>2, <2>1, <2>6
  <2>8. EndOf(k) \in Nat /\ EndOf(k) <= Len(file')
    BY <1>1, <1>2, <1>8, <2>1, <2>2
  <2> QED BY <2>1, <2>3, <2>5, <2>7, <2>8 DEF UnitInFile
<1>13. UnitInFile(L + 1)'
  <2>1. (L + 1) - 1 = L
    BY <1>1
  <2>2. EndOf((L + 1) - 1)' = F
    BY <1>10, <2>1
  <2>3. F + 3 <= F + n + 3
    BY <1>1
  <2> QED BY <1>1, <1>2, <1>3, <1>4, <1>9, <2>2, <2>3 DEF UnitInFile
<1>14. ASSUME NEW k \in 0..L, k # L PROVE ZerosBehind(k)'
  <2>1. k + 1 \in 1..L /\ k # L + 1 /\ k + 1 # 0 /\ k + 1 \in 0..L
    BY <1>1, <1>14
  <2>2. ZerosUpTo(k)' = starts[k + 1] - 1 /\ ZerosUpTo(k) = starts[k + 1] - 1
    BY <1>3, <1>4, <1>14, <2>1 DEF ZerosUpTo
  <2>3. starts[k + 1] \in 0..F /\ EndOf(k)' = EndOf(k) /\ EndOf(k) \in Nat
    BY <1>4, <1>8, <2>1
  <2>4. \A i \in EndOf(k) + 1..starts[k + 1] - 1 : file[i] = 0 /\ i \in 1..F
    BY <1>1, <1>6, <2>2, <2>3 DEF ZerosBehind
  <2> QED BY <1>2, <2>2, <2>3, <2>4 DEF ZerosBehind
<1>15. ZerosBehind(L)'
  <2>1. ZerosUpTo(L)' = F + n + 3 - 1
    BY <1>1, <1>3, <1>4 DEF ZerosUpTo
  <2>2. F + n + 3 - 1 = F + n + 2
    BY <1>1
  <2> QED BY <1>2, <1>10, <2>1, <2>2 DEF ZerosBehind
<1>16. ZerosBehind(L + 1)'
  <2>1. ZerosUpTo(L + 1)' = Len(file')
    BY <1>3 DEF ZerosUpTo
  <2> QED BY <1>1, <1>2, <1>9, <2>1 DEF ZerosBehind
<1>17. Layout'
  <2>1. \A k \in 1..L + 1 : UnitInFile(k)'
    <3>1. \A k \in 1..L + 1 : k \in 1..L \/ k = L + 1
      BY <1>1
    <3> QED BY <1>12, <1>13, <3>1
  <2>2. \A k \in 0..L + 1 : ZerosBehind(k)'
    <3>1. \A k \in 0..L + 1 : (k \in 0..L /\ k # L) \/ k = L \/ k = L + 1
      BY <1>1
    <3> QED BY <1>14, <1>15, <1>16, <3>1
  <2> QED BY <1>3, <2>1, <2>2 DEF Layout
<1>18. Len(file') = EndOf(Len(units))'
  <2>1. EndOf(Len(units))' = IF L + 1 = 0 THEN 0 ELSE starts'[L + 1] + Len(units'[L + 1])
    BY <1>3 DEF EndOf
  <2> QED BY <1>1, <1>2, <1>3, <1>4, <2>1
<1>19. F <= Len(file')
  BY <1>1, <1>2
<1> QED BY <1>2, <1>3, <1>11, <1>17, <1>18, <1>19

(* The invariant holds at first, and each action preserves it.             *)
LEMMA InitEstablishes == Init => IInv
<1> SUFFICES ASSUME Init PROVE IInv
  OBVIOUS
<1>1. Len(units) = 0 /\ Len(file) = 0 /\ Len(starts) = 0
  BY DEF Init
<1>2. TypeOK
  <2>1. starts \in [1..Len(units) -> 0..Len(file)]
    BY <1>1 DEF Init
  <2>2. file \in Seq(Byte) /\ unit \in Seq(Byte) /\ units \in Seq(Bodies)
    BY EmptySeq DEF Init
  <2>3. /\ phase = "write" /\ pos = 0 /\ future = 0 /\ eof = FALSE /\ location = 0
        /\ index = 0 /\ again = FALSE
    BY DEF Init
  <2>4. /\ pos \in 0..Len(file) /\ future \in 0..4 /\ future <= pos
        /\ location \in 0..Len(file) /\ index \in 0..Len(units)
    BY <1>1, <2>3
  <2>5. eof \in BOOLEAN /\ again \in BOOLEAN
    BY <2>3
  <2> QED BY <2>1, <2>2, <2>3, <2>4, <2>5 DEF TypeOK
<1>3. Layout
  BY <1>1 DEF Layout, ZerosBehind, ZerosUpTo, EndOf
<1>4. ReaderInv
  BY <1>1 DEF Init, ReaderInv, WriteInv, LoopInv, LeadingInv, BodyInv, TrailingInv,
     ReturnedInv, EndOf
<1> QED BY <1>2, <1>3, <1>4 DEF IInv

LEMMA WriteUnitPreserves == IInv /\ WriteUnit => IInv'
<1> SUFFICES ASSUME IInv, WriteUnit PROVE IInv'
  OBVIOUS
<1>1. TypeOK /\ Layout /\ ReaderInv /\ WriteInv /\ phase = "write"
  BY DEF IInv, ReaderInv, WriteUnit
<1>2. PICK body \in Bodies, zeroByte \in {0, 1}, padding \in 0..MaxZeros :
        /\ file' = file \o Zeros(padding + zeroByte) \o StartCode \o body
        /\ units' = Append(units, body)
        /\ starts' = Append(starts, Len(file) + padding + zeroByte + Len(StartCode))
  BY DEF WriteUnit
<1> DEFINE n == padding + zeroByte
<1>3. n \in Nat
  BY BoundsAssumption
<1>4. Len(file) + padding + zeroByte + Len(StartCode) = Len(file) + n + 3
  <2>1. Len(file) \in Nat /\ padding \in Nat /\ zeroByte \in Nat
    BY <1>1, BoundsAssumption, Seen
  <2> QED BY <2>1 DEF StartCode
<1>5. /\ file' = Extended(file, n, body) /\ units' = Append(units, body)
      /\ starts' = Append(starts, Len(file) + n + 3)
  BY <1>2, <1>4 DEF Extended
<1> HIDE DEF n
<1>6. /\ file' \in Seq(Byte) /\ units' \in Seq(Bodies)
      /\ starts' \in [1..Len(units') -> 0..Len(file')]
      /\ Len(file) <= Len(file') /\ Len(units') = Len(units) + 1
      /\ Len(file') = EndOf(Len(units))'
      /\ Layout'
  BY <1>1, <1>3, <1>5, WriteUnitKeeps
<1>7. UNCHANGED <<phase, pos, future, eof, unit, location, index, again>>
  BY DEF WriteUnit, streamVars
<1>8. Len(units') \in Nat /\ Len(file') \in Nat
  BY <1>6, LenProperties
<1>9. TypeOK'
  <2>1. /\ pos = 0 /\ future = 0 /\ location = 0 /\ index = 0
    BY <1>1 DEF WriteInv
  <2> QED BY <1>1, <1>6, <1>7, <1>8, <2>1 DEF TypeOK
<1>10. ReaderInv'
  <2>1. WriteInv'
    BY <1>1, <1>6, <1>7 DEF WriteInv
  <2> QED BY <1>1, <1>7, <2>1 DEF ReaderInv, LoopInv, LeadingInv, BodyInv, TrailingInv,
             ReturnedInv
<1> QED BY <1>6, <1>9, <1>10 DEF IInv

LEMMA CloseFilePreserves == IInv /\ CloseFile => IInv'
<1> SUFFICES ASSUME IInv, CloseFile PROVE IInv'
  OBVIOUS
<1>1. TypeOK /\ Layout /\ ReaderInv /\ WriteInv /\ phase = "write"
  BY DEF IInv, ReaderInv, CloseFile
<1>2. PICK padding \in 0..MaxZeros : file' = file \o Zeros(padding)
  BY DEF CloseFile
<1>3. /\ phase' = "loop"
      /\ UNCHANGED <<units, starts, pos, future, eof, unit, location, index, again>>
  BY DEF CloseFile, streamVars
<1>4. /\ padding \in Nat /\ file \in Seq(Byte) /\ Len(file) \in Nat
  BY <1>1, BoundsAssumption, Seen DEF TypeOK
<1>5. /\ file' \in Seq(Byte) /\ Len(file') = Len(file) + padding
      /\ \A i \in 1..Len(file) : file'[i] = file[i]
      /\ \A i \in Len(file) + 1..Len(file) + padding : file'[i] = 0
  BY <1>2, <1>4, ExtendedByZeros
<1>6. /\ pos = 0 /\ future = 0 /\ eof = FALSE /\ unit = << >>
      /\ location = 0 /\ index = 0 /\ again = FALSE
      /\ Len(file) = EndOf(Len(units))
  BY <1>1 DEF WriteInv
<1>7. TypeOK'
  <2>1. starts \in [1..Len(units) -> 0..Len(file')]
    BY <1>1, <1>4, <1>5 DEF TypeOK
  <2> QED BY <1>1, <1>3, <1>4, <1>5, <1>6, <2>1 DEF TypeOK
<1>8. \A k : EndOf(k)' = EndOf(k)
  BY <1>3 DEF EndOf
<1>9. ASSUME NEW k \in 1..Len(units) PROVE UnitInFile(k)'
  <2>1. Len(units) \in Nat /\ k - 1 \in 0..Len(units) /\ k - 1 < Len(units) /\ (k - 1) + 1 = k
    BY <1>1, LenProperties DEF TypeOK
  <2>2. /\ starts[k] \in Nat /\ EndOf(k - 1) \in Nat /\ EndOf(k - 1) + 3 <= starts[k]
        /\ file[starts[k]] = 1 /\ Len(units[k]) \in Nat
        /\ EndOf(k) = starts[k] + Len(units[k]) /\ EndOf(k) <= Len(file)
        /\ \A j \in 1..Len(units[k]) : file[starts[k] + j] = units[k][j]
    BY <1>1, <2>1, LayoutFacts
  <2>3. starts[k] \in 1..Len(file) /\ \A j \in 1..Len(units[k]) : starts[k] + j \in 1..Len(file)
    BY <1>4, <2>2
  <2>4. EndOf(k) <= Len(file')
    BY <1>4, <1>5, <2>2
  <2> QED BY <1>3, <1>5, <1>8, <2>2, <2>3, <2>4 DEF UnitInFile
<1>10. ASSUME NEW k \in 0..Len(units) PROVE ZerosBehind(k)'
  <2>1. /\ EndOf(k) \in Nat /\ ZerosUpTo(k) \in Nat /\ ZerosUpTo(k) <= Len(file)
        /\ \A i \in EndOf(k) + 1..ZerosUpTo(k) : file[i] = 0
    BY <1>1, LayoutFacts
  <2>2. CASE k = Len(units)
    <3>1. EndOf(k) = Len(file) /\ ZerosUpTo(k)' = Len(file')
      BY <1>3, <1>6, <2>2 DEF ZerosUpTo
    <3> QED BY <1>5, <1>8, <3>1 DEF ZerosBehind
  <2>3. CASE k # Len(units)
    <3>1. ZerosUpTo(k)' = ZerosUpTo(k)
      BY <1>3, <2>3 DEF ZerosUpTo
    <3> QED BY <1>4, <1>5, <1>8, <2>1, <3>1 DEF ZerosBehind
  <2> QED BY <2>2, <2>3
<1>11. Layout'
  BY <1>3, <1>9, <1>10 DEF Layout
<1>12. LoopInv'
  <2>1. Len(units) \in Nat /\ 0 \in 0..Len(units)
    BY <1>1, LenProperties DEF TypeOK
  <2>2. Behind(0)'
    <3>1. EndOf(0)' = 0 /\ Consumed' = 0
      BY <1>3, <1>6 DEF EndOf, Consumed
    <3>2. 0 <= ZerosUpTo(0)' - (IF 0 = Len(units) THEN 0 ELSE 2)
      <4>1. CASE 0 = Len(units)
        BY <1>3, <1>4, <1>5, <4>1 DEF ZerosUpTo
      <4>2. CASE 0 # Len(units)
        <5>1. /\ starts[0 + 1] \in Nat /\ EndOf(0) \in Nat /\ EndOf(0) + 3 <= starts[0 + 1]
          BY <1>1, <2>1, <4>2, LayoutFacts
        <5>2. ZerosUpTo(0)' = starts[0 + 1] - 1
          BY <1>3, <4>2 DEF ZerosUpTo
        <5> QED BY <4>2, <5>1, <5>2
      <4> QED BY <4>1, <4>2
    <3> QED BY <1>3, <3>1, <3>2 DEF Behind
  <2>3. Behind(index)'
    BY <1>3, <1>6, <2>2 DEF Behind, EndOf, ZerosUpTo
  <2>4. units # << >> => 0 < Len(units)
    BY <1>1, EmptySeq, <2>1 DEF TypeOK
  <2> QED BY <1>3, <1>6, <2>3, <2>4 DEF LoopInv
<1>13. ReaderInv'
  BY <1>3, <1>6, <1>12 DEF ReaderInv, WriteInv, LeadingInv, BodyInv, TrailingInv, ReturnedInv
<1> QED BY <1>7, <1>11, <1>13 DEF IInv

-----------------------------------------------------------------------------
(* Reading it: nothing written changes.                                    *)

LEMMA SameFile ==
  ASSUME UNCHANGED <<file, units, starts>>
  PROVE  /\ Layout => Layout'
         /\ ShortTail' = ShortTail /\ TailTaken' = TailTaken
         /\ \A k : EndOf(k)' = EndOf(k) /\ ZerosUpTo(k)' = ZerosUpTo(k)
         /\ \A k : Handed(k)' = Handed(k)
<1>1. \A k : EndOf(k)' = EndOf(k) /\ ZerosUpTo(k)' = ZerosUpTo(k)
  BY DEF EndOf, ZerosUpTo
<1>2. EndOf(Len(units))' = EndOf(Len(units))
  BY DEF EndOf
<1>3. ShortTail' = ShortTail
  BY <1>2 DEF ShortTail
<1>4. TailTaken' = TailTaken
  BY <1>2, <1>3 DEF TailTaken
<1>5. \A k : Handed(k)' = Handed(k)
  BY <1>4 DEF Handed, Zeros
<1>6. \A k : UnitInFile(k)' <=> UnitInFile(k)
  BY <1>1 DEF UnitInFile
<1>7. \A k : ZerosBehind(k)' <=> ZerosBehind(k)
  BY <1>1 DEF ZerosBehind
<1>8. Layout => Layout'
  BY <1>6, <1>7 DEF Layout
<1> QED BY <1>1, <1>3, <1>4, <1>5, <1>8

LEMMA BeginIterationPreserves == IInv /\ BeginIteration => IInv'
<1> SUFFICES ASSUME IInv, BeginIteration PROVE IInv'
  OBVIOUS
<1>1. TypeOK /\ Layout /\ ReaderInv /\ LoopInv /\ phase = "loop"
  BY DEF IInv, ReaderInv, BeginIteration
<1>2. UNCHANGED <<file, units, starts, pos, future, eof, index, again>>
  BY DEF BeginIteration, streamVars
<1>3. Layout'
  BY <1>1, <1>2, SameFile
<1>4. CASE eof
  <2>1. phase' = "end" /\ UNCHANGED <<unit, location>>
    BY <1>4 DEF BeginIteration
  <2>2. TypeOK'
    BY <1>1, <1>2, <2>1 DEF TypeOK
  <2>3. ReaderInv'
    BY <1>1, <1>2, <2>1 DEF ReaderInv, WriteInv, LoopInv, LeadingInv, BodyInv, TrailingInv,
       ReturnedInv
  <2> QED BY <1>3, <2>2, <2>3 DEF IInv
<1>5. CASE ~eof
  <2>1. phase' = "leading" /\ unit' = << >> /\ location' = pos
    BY <1>5 DEF BeginIteration
  <2>2. TypeOK'
    <3>1. << >> \in Seq(Byte)
      BY EmptySeq
    <3> QED BY <1>1, <1>2, <2>1, <3>1 DEF TypeOK
  <2>3. Behind(index)' /\ (units # << >> => index < Len(units))
    BY <1>1, <1>2, <1>5 DEF LoopInv, Behind, EndOf, ZerosUpTo, Consumed
  <2>4. Located(index + 1)'
    <3>1. index \in Nat
      BY <1>1 DEF TypeOK
    <3> QED BY <1>1, <1>2, <1>5, <2>1, <3>1 DEF LoopInv, Located
  <2>5. LeadingInv'
    BY <1>2, <1>5, <2>1, <2>3, <2>4 DEF LeadingInv
  <2>6. ReaderInv'
    BY <1>1, <1>2, <2>1, <2>5 DEF ReaderInv, WriteInv, LoopInv, BodyInv, TrailingInv,
       ReturnedInv
  <2> QED BY <1>3, <2>2, <2>6 DEF IInv
<1> QED BY <1>4, <1>5

(* The reader has read ahead by exactly the start code of the unit behind  *)
(* the one it returned, so three bytes back it is in front of it.          *)
LEMMA SeekTargetFound ==
  ASSUME TypeOK, Layout, index > 1, location = starts[index]
  PROVE  /\ SeekTarget \in 0..Len(file) /\ index - 1 \in 0..Len(units)
         /\ index - 1 < Len(units) /\ SeekTarget + 3 = starts[index]
         /\ EndOf(index - 1) <= SeekTarget /\ SeekTarget <= ZerosUpTo(index - 1) - 2
<1> DEFINE k == index - 1
<1>1. /\ k \in 0..Len(units) /\ k < Len(units) /\ k + 1 = index /\ k > 0
  <2>1. index \in 0..Len(units) /\ Len(units) \in Nat
    BY LenProperties DEF TypeOK
  <2> QED BY <2>1
<1> HIDE DEF k
<1>2. /\ starts[k + 1] \in Nat /\ EndOf(k) \in Nat /\ EndOf(k) + 3 <= starts[k + 1]
      /\ ZerosUpTo(k) = starts[k + 1] - 1 /\ Len(file) \in Nat
      /\ EndOf(k + 1) = starts[k + 1] + Len(units[k + 1])
      /\ EndOf(k + 1) <= Len(file) /\ Len(units[k + 1]) \in Nat
  BY <1>1, LayoutFacts
<1>3. SeekTarget = starts[k + 1] - 3 /\ starts[k + 1] = starts[index]
  BY <1>1 DEF SeekTarget
<1> DEFINE a == starts[k + 1]
           e == EndOf(k)
           z == ZerosUpTo(k)
<1>4. /\ a \in Nat /\ e \in Nat /\ Len(file) \in Nat /\ e + 3 <= a /\ z = a - 1
      /\ a <= Len(file) /\ SeekTarget = a - 3
  BY <1>2, <1>3
<1> HIDE DEF a, e, z
<1>5. /\ SeekTarget \in 0..Len(file) /\ SeekTarget + 3 = a
      /\ e <= SeekTarget /\ SeekTarget <= z - 2
  BY <1>4
<1> QED BY <1>1, <1>3, <1>5 DEF k, a, e, z

LEMMA SeekBackPreserves == IInv /\ SeekBack => IInv'
<1> SUFFICES ASSUME IInv, SeekBack PROVE IInv'
  OBVIOUS
<1>1. /\ TypeOK /\ Layout /\ ReaderInv /\ ReturnedInv /\ phase = "returned"
      /\ unit # << >> /\ index > 1 /\ ~again
  BY DEF IInv, ReaderInv, SeekBack
<1>2. /\ UNCHANGED <<file, units, starts, unit, location>>
      /\ phase' = "loop" /\ pos' = SeekTarget /\ future' = 0 /\ eof' = FALSE
      /\ index' = index - 1 /\ again' = TRUE
  BY DEF SeekBack
<1>3. location = starts[index]
  BY <1>1 DEF ReturnedInv, Located
<1>4. /\ SeekTarget \in 0..Len(file) /\ index - 1 \in 0..Len(units)
      /\ index - 1 < Len(units) /\ SeekTarget + 3 = starts[index]
      /\ EndOf(index - 1) <= SeekTarget /\ SeekTarget <= ZerosUpTo(index - 1) - 2
  BY <1>1, <1>3, SeekTargetFound
<1>5. TypeOK'
  <2>1. future' \in 0..4 /\ future' <= pos' /\ pos' \in 0..Len(file)
    BY <1>2, <1>4
  <2> QED BY <1>1, <1>2, <1>4, <2>1 DEF TypeOK
<1>6. Layout'
  BY <1>1, <1>2, SameFile
<1>7. /\ Len(units) \in Nat /\ Len(file) \in Nat /\ index \in Nat
      /\ index - 1 # Len(units) /\ index - 1 > 0
  <2>1. Len(units) \in Nat /\ Len(file) \in Nat /\ index \in Nat
    BY <1>1, LenProperties DEF TypeOK
  <2> QED BY <1>1, <1>4, <2>1
<1>8. Behind(index)'
  <2>1. Consumed' = SeekTarget
    BY <1>2, <1>4, <1>7 DEF Consumed
  <2>2. EndOf(index)' = EndOf(index - 1) /\ ZerosUpTo(index)' = ZerosUpTo(index - 1)
    BY <1>2 DEF EndOf, ZerosUpTo
  <2> QED BY <1>2, <1>4, <1>7, <2>1, <2>2 DEF Behind
<1>9. LoopInv'
  BY <1>2, <1>4, <1>8 DEF LoopInv
<1>10. ReaderInv'
  BY <1>2, <1>7, <1>9 DEF ReaderInv, WriteInv, LeadingInv, BodyInv, TrailingInv, ReturnedInv
<1> QED BY <1>5, <1>6, <1>10 DEF IInv

LEMMA GoOnPreserves == IInv /\ GoOn => IInv'
<1> SUFFICES ASSUME IInv, GoOn PROVE IInv'
  OBVIOUS
<1>1. TypeOK /\ Layout /\ ReaderInv /\ ReturnedInv /\ phase = "returned"
  BY DEF IInv, ReaderInv, GoOn
<1>2. /\ UNCHANGED <<file, units, starts, pos, future, eof, unit, location, index>>
      /\ phase' = "loop" /\ again' = FALSE
  BY DEF GoOn, streamVars
<1>3. TypeOK'
  BY <1>1, <1>2 DEF TypeOK
<1>4. Layout'
  BY <1>1, <1>2, SameFile
<1>5. LoopInv'
  <2>1. CASE eof
    BY <1>1, <1>2, <2>1 DEF LoopInv, ReturnedInv
  <2>2. CASE ~eof
    <3>1. index < Len(units) /\ Behind(index) /\ pos = starts[index + 1]
      BY <1>1, <2>2 DEF ReturnedInv
    <3>2. Behind(index)'
      BY <1>2, <3>1 DEF Behind, EndOf, ZerosUpTo, Consumed
    <3> QED BY <1>2, <2>2, <3>1, <3>2 DEF LoopInv
  <2> QED BY <2>1, <2>2
<1>6. ReaderInv'
  BY <1>2, <1>5 DEF ReaderInv, WriteInv, LeadingInv, BodyInv, TrailingInv, ReturnedInv
<1> QED BY <1>3, <1>4, <1>6 DEF IInv

(* The end of the file: readByte() has thrown. *)
LEMMA EndOfFilePreserves ==
  ASSUME IInv, EndOfFile, ~again \/ index > 0,
         IF unit = << >> THEN units = << >> /\ index = Len(units)
         ELSE /\ index + 1 = Len(units) /\ unit = Handed(index + 1)
              /\ Located(index + 1)
  PROVE  IInv'
<1>1. TypeOK /\ Layout /\ ReaderInv
  BY DEF IInv
<1>2. /\ phase' = "returned" /\ pos' = Len(file) /\ future' = 0 /\ eof' = TRUE
      /\ index' = IF unit = << >> THEN index ELSE index + 1
      /\ UNCHANGED <<file, units, starts, unit, location, again>>
  BY DEF EndOfFile
<1>3. /\ Len(file) \in Nat /\ Len(units) \in Nat /\ index \in Nat
  BY <1>1, LenProperties DEF TypeOK
<1>4. index' \in 0..Len(units) /\ index' = Len(units)
  BY <1>2, <1>3
<1>5. TypeOK'
  <2>1. pos' \in 0..Len(file) /\ future' \in 0..4 /\ future' <= pos'
    BY <1>2, <1>3
  <2>2. eof' \in BOOLEAN
    BY <1>2
  <2> QED BY <1>1, <1>2, <1>4, <2>1, <2>2 DEF TypeOK
<1>6. Layout'
  BY <1>1, <1>2, SameFile
<1>7. ReturnedInv'
  <2>1. CASE unit = << >>
    BY <1>2, <1>4, <2>1 DEF ReturnedInv
  <2>2. CASE unit # << >>
    <3>1. index' = index + 1 /\ index' > 0
      BY <1>2, <1>3, <2>2
    <3>2. Handed(index)' = Handed(index + 1)
      <4>1. TailTaken' = TailTaken
        BY <1>2, SameFile
      <4> QED BY <1>2, <3>1, <4>1 DEF Handed, Zeros
    <3>3. Located(index)'
      BY <1>2, <2>2, <3>1 DEF Located
    <3> QED BY <1>2, <1>4, <2>2, <3>1, <3>2, <3>3 DEF ReturnedInv
  <2> QED BY <2>1, <2>2
<1>8. again' => index' > 0
  BY <1>2, <1>3, <1>4
<1>9. ReaderInv'
  BY <1>2, <1>7, <1>8 DEF ReaderInv, WriteInv, LoopInv, LeadingInv, BodyInv, TrailingInv
<1> QED BY <1>5, <1>6, <1>9 DEF IInv

LEMMA LeadingZeroPreserves == IInv /\ LeadingZero => IInv'
<1> SUFFICES ASSUME IInv, LeadingZero PROVE IInv'
  OBVIOUS
<1>1. /\ TypeOK /\ Layout /\ ReaderInv /\ LeadingInv /\ phase = "leading"
      /\ ~AtStartCode3 /\ ~AtStartCode4 /\ DropZero
  BY DEF IInv, ReaderInv, LeadingZero
<1>2. /\ unit = << >> /\ Behind(index) /\ Located(index + 1)
      /\ units # << >> => index < Len(units) /\ ~eof
  BY <1>1 DEF LeadingInv
<1>3. index \in 0..Len(units) /\ index \in Nat /\ Len(units) \in Nat
  BY <1>1, LenProperties DEF TypeOK
<1>4. /\ NothingLeft => index = Len(units)
      /\ ~NothingLeft =>
           /\ NextByte = 0 /\ Consumed + 1 <= Len(file)
           /\ Consumed + 1 <= ZerosUpTo(index) - (IF index = Len(units) THEN 0 ELSE 2)
           /\ index < Len(units) => Consumed + 4 <= Len(file)
  BY <1>1, <1>2, <1>3, StartCodeSeen
<1>5. CASE NothingLeft
  <2>1. EndOfFile
    BY <1>1, <1>5 DEF DropZero
  <2>2. ~again \/ index > 0
    BY <1>1 DEF ReaderInv
  <2>3. units = << >> /\ index = Len(units)
    BY <1>2, <1>3, <1>4, <1>5
  <2> QED BY <1>2, <2>1, <2>2, <2>3, EndOfFilePreserves
<1>6. CASE ~NothingLeft
  <2>1. /\ LookAndRead(4, 1)
        /\ UNCHANGED <<phase, file, units, starts, unit, location, index, again>>
    BY <1>1, <1>4, <1>6 DEF DropZero
  <2>2. /\ pos' \in 0..Len(file) /\ future' \in 0..4 /\ future' <= pos'
        /\ Consumed' = Consumed + 1
        /\ eof' \in BOOLEAN
        /\ eof' <=> (eof \/ ~(Consumed + 4 <= Len(file)))
    BY <1>1, <1>4, <1>6, <2>1, Moved
  <2>3. TypeOK'
    BY <1>1, <2>1, <2>2 DEF TypeOK
  <2>4. Layout'
    BY <1>1, <2>1, SameFile
  <2>5. Behind(index)'
    <3>1. EndOf(index) \in Nat /\ Consumed \in Nat /\ EndOf(index) <= Consumed + 1
      BY <1>1, <1>2, <1>3, LayoutFacts, Seen DEF Behind
    <3>2. EndOf(index)' = EndOf(index) /\ ZerosUpTo(index)' = ZerosUpTo(index)
      BY <2>1 DEF EndOf, ZerosUpTo
    <3> QED BY <1>4, <1>6, <2>1, <2>2, <3>1, <3>2 DEF Behind
  <2>6. Located(index + 1)'
    BY <1>2, <2>1 DEF Located
  <2>7. units # << >> => index < Len(units) /\ ~eof'
    BY <1>2, <1>4, <1>6, <2>2
  <2>8. LeadingInv'
    BY <1>2, <2>1, <2>5, <2>6, <2>7 DEF LeadingInv
  <2>9. ReaderInv'
    BY <1>1, <2>1, <2>8 DEF ReaderInv, WriteInv, LoopInv, BodyInv, TrailingInv, ReturnedInv
  <2> QED BY <2>3, <2>4, <2>9 DEF IInv
<1> QED BY <1>5, <1>6

LEMMA ReadStartCodePreserves == IInv /\ ReadStartCode => IInv'
<1> SUFFICES ASSUME IInv, ReadStartCode PROVE IInv'
  OBVIOUS
<1>1. /\ TypeOK /\ Layout /\ ReaderInv /\ LeadingInv /\ phase = "leading"
      /\ AtStartCode3 \/ AtStartCode4
      /\ LookAndRead(Lookahead, Lookahead) /\ phase' = "body"
      /\ UNCHANGED <<file, units, starts, unit, location, index, again>>
  BY DEF IInv, ReaderInv, ReadStartCode
<1>2. /\ unit = << >> /\ Behind(index) /\ Located(index + 1)
      /\ units # << >> => index < Len(units) /\ ~eof
  BY <1>1 DEF LeadingInv
<1>3. index \in 0..Len(units) /\ index \in Nat /\ Len(units) \in Nat
  BY <1>1, LenProperties DEF TypeOK
<1>4. /\ index < Len(units) /\ Lookahead \in {3, 4}
      /\ Consumed + Lookahead = starts[index + 1]
  BY <1>1, <1>2, <1>3, StartCodeSeen DEF Lookahead
<1>5. units # << >>
  BY <1>3, <1>4
<1>6. Consumed + Lookahead <= Len(file)
  <2>1. /\ EndOf(index + 1) = starts[index + 1] + Len(units[index + 1])
        /\ EndOf(index + 1) <= Len(file) /\ Len(units[index + 1]) \in Nat
        /\ starts[index + 1] \in Nat /\ Len(file) \in Nat
    BY <1>1, <1>3, <1>4, LayoutFacts
  <2>2. starts[index + 1] <= Len(file)
    BY <2>1
  <2> QED BY <1>4, <2>2
<1>7. Lookahead \in 0..Lookahead /\ future \in 0..4
  BY <1>1, <1>4 DEF TypeOK
<1>8. /\ pos' \in 0..Len(file) /\ future' \in 0..4 /\ future' <= pos'
      /\ Consumed' = Consumed + Lookahead
      /\ future' = (IF future >= Lookahead THEN future ELSE Lookahead) - Lookahead
      /\ eof' \in BOOLEAN
      /\ eof' <=> (eof \/ ~(Consumed + Lookahead <= Len(file)))
  BY <1>1, <1>4, <1>6, <1>7, Moved
<1>9. TypeOK'
  BY <1>1, <1>8 DEF TypeOK
<1>10. Layout'
  BY <1>1, SameFile
<1>11. BodyInv'
  <2>1. Located(index + 1)'
    BY <1>1, <1>2 DEF Located
  <2>2. future' <= 2 /\ ~eof'
    BY <1>2, <1>4, <1>5, <1>6, <1>7, <1>8
  <2>3. Len(unit) = 0 /\ Len(units[index + 1]) \in Nat /\ starts[index + 1] \in Nat
    BY <1>1, <1>2, <1>3, <1>4, EmptySeq, LayoutFacts
  <2>4. Consumed' = starts[index + 1] + Len(unit)
    BY <1>4, <1>8, <2>3
  <2> QED BY <1>1, <1>4, <2>1, <2>2, <2>3, <2>4 DEF BodyInv
<1>12. ReaderInv'
  BY <1>1, <1>11 DEF ReaderInv, WriteInv, LoopInv, LeadingInv, TrailingInv, ReturnedInv
<1> QED BY <1>9, <1>10, <1>12 DEF IInv

LEMMA ReadBytePreserves == IInv /\ ReadByte => IInv'
<1> SUFFICES ASSUME IInv, ReadByte PROVE IInv'
  OBVIOUS
<1>1. TypeOK /\ Layout /\ ReaderInv /\ BodyInv /\ phase = "body" /\ ~AtUnitEnd
  BY DEF IInv, ReaderInv, ReadByte
<1>2. /\ index < Len(units) /\ Located(index + 1) /\ future <= 2
      /\ Consumed = starts[index + 1] + Len(unit)
      /\ \A j \in 1..Len(unit) : unit[j] = file[starts[index + 1] + j]
      /\ eof => index + 1 = Len(units)
  BY <1>1 DEF BodyInv
<1>3. /\ index \in 0..Len(units) /\ index \in Nat /\ Len(units) \in Nat
      /\ unit \in Seq(Byte) /\ Len(unit) \in Nat
  BY <1>1, LenProperties DEF TypeOK
<1>4. CASE NothingLeft
  <2>1. EndOfFile
    BY <1>4 DEF ReadByte
  <2>2. index + 1 = Len(units) /\ unit # << >> /\ unit = Handed(index + 1)
    BY <1>1, <1>4, UnitSeen
  <2>3. ~again \/ index > 0
    BY <1>1 DEF ReaderInv
  <2> QED BY <1>2, <2>1, <2>2, <2>3, EndOfFilePreserves
<1>5. CASE ~NothingLeft
  <2>1. /\ unit' = Append(unit, NextByte) /\ LookAndRead(3, 1)
        /\ UNCHANGED <<phase, file, units, starts, location, index, again>>
    BY <1>5 DEF ReadByte
  <2>2. /\ NextByte \in Byte /\ Consumed + 1 <= Len(file)
        /\ \/ Len(unit) + 1 <= Len(units[index + 1])
           \/ index + 1 = Len(units) /\ ShortTail
        /\ index + 1 < Len(units) => Consumed + 3 <= Len(file)
    BY <1>1, <1>5, UnitSeen
  <2>3. /\ pos' \in 0..Len(file) /\ future' \in 0..4 /\ future' <= pos'
        /\ Consumed' = Consumed + 1
        /\ future <= 3 => future' <= 3 - 1
        /\ eof' \in BOOLEAN
        /\ eof' <=> (eof \/ ~(Consumed + 3 <= Len(file)))
    BY <1>1, <2>1, <2>2, Moved
  <2>4. /\ unit' \in Seq(Byte) /\ Len(unit') = Len(unit) + 1
        /\ \A j \in 1..Len(unit) : unit'[j] = unit[j]
        /\ unit'[Len(unit) + 1] = file[Consumed + 1]
    BY <1>3, <2>1, <2>2, AppendProperties DEF NextByte
  <2>5. TypeOK'
    BY <1>1, <2>1, <2>3, <2>4 DEF TypeOK
  <2>6. Layout'
    BY <1>1, <2>1, SameFile
  <2>7. BodyInv'
    <3>1. Located(index + 1)'
      BY <1>2, <2>1 DEF Located
    <3>2. starts[index + 1] \in Nat /\ Consumed \in Nat
      BY <1>1, <1>2, <1>3, LayoutFacts, Seen
    <3>3. Consumed' = starts[index + 1] + Len(unit')
      BY <1>2, <1>3, <2>3, <2>4, <3>2
    <3>4. \A j \in 1..Len(unit') : unit'[j] = file[starts[index + 1] + j]
      <4>1. Consumed + 1 = starts[index + 1] + (Len(unit) + 1)
        BY <1>2, <1>3, <3>2
      <4>2. \A j \in 1..Len(unit') : j \in 1..Len(unit) \/ j = Len(unit) + 1
        BY <1>3, <2>4
      <4> QED BY <1>2, <2>4, <4>1, <4>2
    <3>5. future' <= 2
      BY <1>1, <1>2, <2>3 DEF TypeOK
    <3>6. eof' => index + 1 = Len(units)
      BY <1>2, <1>3, <2>2, <2>3
    <3>7. ShortTail' = ShortTail
      BY <2>1, SameFile
    <3> QED BY <1>2, <2>1, <2>2, <2>4, <3>1, <3>3, <3>4, <3>5, <3>6, <3>7 DEF BodyInv
  <2>8. ReaderInv'
    BY <1>1, <2>1, <2>7 DEF ReaderInv, WriteInv, LoopInv, LeadingInv, TrailingInv, ReturnedInv
  <2> QED BY <2>5, <2>6, <2>8 DEF IInv
<1> QED BY <1>4, <1>5

LEMMA EndUnitPreserves == IInv /\ EndUnit => IInv'
<1> SUFFICES ASSUME IInv, EndUnit PROVE IInv'
  OBVIOUS
<1>1. /\ TypeOK /\ Layout /\ ReaderInv /\ BodyInv /\ phase = "body" /\ AtUnitEnd
      /\ LookAndRead(3, 0) /\ phase' = "trailing"
      /\ UNCHANGED <<file, units, starts, unit, location, index, again>>
  BY DEF IInv, ReaderInv, EndUnit
<1>2. /\ index < Len(units) /\ Located(index + 1) /\ future <= 2
      /\ eof => index + 1 = Len(units)
  BY <1>1 DEF BodyInv
<1>3. /\ unit = units[index + 1] /\ Behind(index + 1)
      /\ index + 1 = Len(units) => ~ShortTail
  BY <1>1, UnitSeen
<1>4. Consumed \in Nat /\ Consumed + 0 = Consumed /\ Consumed + 3 <= Len(file)
      /\ Consumed <= Len(file)
  BY <1>1, Seen
<1>5. /\ pos' \in 0..Len(file) /\ future' \in 0..4 /\ future' <= pos'
      /\ Consumed' = Consumed
      /\ future <= 3 => future' <= 3 - 0
      /\ eof' \in BOOLEAN
      /\ eof' <=> (eof \/ ~(Consumed + 3 <= Len(file)))
  BY <1>1, <1>4, Moved
<1>6. TypeOK'
  BY <1>1, <1>5 DEF TypeOK
<1>7. Layout'
  BY <1>1, SameFile
<1>8. TrailingInv'
  <2>1. Located(index + 1)' /\ Behind(index + 1)'
    BY <1>1, <1>2, <1>3, <1>5 DEF Located, Behind, EndOf, ZerosUpTo
  <2>2. future' <= 3
    BY <1>1, <1>2, <1>5 DEF TypeOK
  <2>3. ShortTail' = ShortTail
    BY <1>1, SameFile
  <2> QED BY <1>1, <1>2, <1>3, <1>4, <1>5, <2>1, <2>2, <2>3 DEF TrailingInv
<1>9. ReaderInv'
  BY <1>1, <1>8 DEF ReaderInv, WriteInv, LoopInv, LeadingInv, BodyInv, ReturnedInv
<1> QED BY <1>6, <1>7, <1>9 DEF IInv

(* A unit whose end has been seen is handed out as it was written. *)
LEMMA UnitIsHanded ==
  ASSUME TypeOK, NEW k \in 1..Len(units), k = Len(units) => ~ShortTail
  PROVE  Handed(k) = units[k] /\ units[k] # << >>
<1>1. units[k] \in Seq(Byte) /\ Len(units[k]) >= 2
  <2>1. units \in Seq(Bodies) /\ units[k] \in Bodies
    BY ElementOfSeq DEF TypeOK
  <2> QED BY <2>1, BodiesAssumption
<1>2. Handed(k) = units[k] \o Zeros(0)
  BY DEF Handed, TailTaken
<1>3. Len(units[k]) \in Nat
  BY <1>1, LenProperties
<1>4. units[k] = units[k] \o Zeros(0)
  <2> DEFINE u == units[k]
  <2>1. u \in Seq(Byte) /\ Len(u) = Len(u) + 0 /\ Len(u) \in Nat
    BY <1>1, <1>3
  <2>2. \A i \in Len(u) + 1..Len(u) : u[i] = 0
    BY <2>1
  <2> HIDE DEF u
  <2>3. u = u \o Zeros(0)
    BY <2>1, <2>2, ZerosAppended
  <2> QED BY <2>3 DEF u
<1> QED BY <1>1, <1>2, <1>3, <1>4

LEMMA TrailingZeroPreserves == IInv /\ TrailingZero => IInv'
<1> SUFFICES ASSUME IInv, TrailingZero PROVE IInv'
  OBVIOUS
<1>1. /\ TypeOK /\ Layout /\ ReaderInv /\ TrailingInv /\ phase = "trailing"
      /\ ~AtStartCode3 /\ ~AtStartCode4 /\ DropZero
  BY DEF IInv, ReaderInv, TrailingZero
<1> DEFINE k == index + 1
<1>2. /\ index < Len(units) /\ Located(k) /\ future <= 3
      /\ unit = units[k] /\ Behind(k)
      /\ k = Len(units) => ~ShortTail
      /\ eof => k = Len(units)
  BY <1>1 DEF TrailingInv
<1>3. index \in Nat /\ Len(units) \in Nat /\ k \in 1..Len(units) /\ k \in 0..Len(units)
  <2>1. index \in 0..Len(units) /\ Len(units) \in Nat
    BY <1>1, LenProperties DEF TypeOK
  <2> QED BY <1>2, <2>1
<1>4. /\ NothingLeft => k = Len(units)
      /\ ~NothingLeft =>
           /\ NextByte = 0 /\ Consumed + 1 <= Len(file)
           /\ Consumed + 1 <= ZerosUpTo(k) - (IF k = Len(units) THEN 0 ELSE 2)
           /\ k < Len(units) => Consumed + 4 <= Len(file)
  BY <1>1, <1>2, <1>3, StartCodeSeen
<1>5. CASE NothingLeft
  <2>1. EndOfFile
    BY <1>1, <1>5 DEF DropZero
  <2>2. ~again \/ index > 0
    BY <1>1 DEF ReaderInv
  <2>3. unit = Handed(k) /\ unit # << >>
    BY <1>1, <1>2, <1>3, UnitIsHanded
  <2> QED BY <1>2, <1>4, <1>5, <2>1, <2>2, <2>3, EndOfFilePreserves
<1>6. CASE ~NothingLeft
  <2>1. /\ LookAndRead(4, 1)
        /\ UNCHANGED <<phase, file, units, starts, unit, location, index, again>>
    BY <1>1, <1>4, <1>6 DEF DropZero
  <2>2. /\ pos' \in 0..Len(file) /\ future' \in 0..4 /\ future' <= pos'
        /\ Consumed' = Consumed + 1
        /\ future <= 4 => future' <= 4 - 1
        /\ eof' \in BOOLEAN
        /\ eof' <=> (eof \/ ~(Consumed + 4 <= Len(file)))
    BY <1>1, <1>4, <1>6, <2>1, Moved
  <2>3. TypeOK'
    BY <1>1, <2>1, <2>2 DEF TypeOK
  <2>4. Layout'
    BY <1>1, <2>1, SameFile
  <2>5. Behind(k)'
    <3>1. EndOf(k) \in Nat /\ Consumed \in Nat /\ EndOf(k) <= Consumed + 1
      BY <1>1, <1>2, <1>3, LayoutFacts, Seen DEF Behind
    <3>2. EndOf(k)' = EndOf(k) /\ ZerosUpTo(k)' = ZerosUpTo(k)
      BY <2>1 DEF EndOf, ZerosUpTo
    <3> QED BY <1>4, <1>6, <2>1, <2>2, <3>1, <3>2 DEF Behind
  <2>6. Located(k)'
    BY <1>2, <2>1 DEF Located
  <2>7. future' <= 3
    BY <1>1, <2>2 DEF TypeOK
  <2>8. eof' => k = Len(units)
    BY <1>2, <1>3, <1>4, <1>6, <2>2
  <2>9. ShortTail' = ShortTail
    BY <2>1, SameFile
  <2>10. TrailingInv'
    BY <1>2, <2>1, <2>5, <2>6, <2>7, <2>8, <2>9 DEF TrailingInv
  <2>11. ReaderInv'
    BY <1>1, <2>1, <2>10 DEF ReaderInv, WriteInv, LoopInv, LeadingInv, BodyInv, ReturnedInv
  <2> QED BY <2>3, <2>4, <2>11 DEF IInv
<1> QED BY <1>5, <1>6

LEMMA FoundStartCodePreserves == IInv /\ FoundStartCode => IInv'
<1> SUFFICES ASSUME IInv, FoundStartCode PROVE IInv'
  OBVIOUS
<1>1. /\ TypeOK /\ Layout /\ ReaderInv /\ TrailingInv /\ phase = "trailing"
      /\ AtStartCode3 \/ AtStartCode4
      /\ LookAndRead(Lookahead, 0) /\ phase' = "returned" /\ index' = index + 1
      /\ UNCHANGED <<file, units, starts, unit, location, again>>
  BY DEF IInv, ReaderInv, FoundStartCode
<1> DEFINE k == index + 1
           n == Lookahead
<1>2. /\ index < Len(units) /\ Located(k) /\ future <= 3
      /\ unit = units[k] /\ Behind(k)
      /\ k = Len(units) => ~ShortTail
      /\ eof => k = Len(units)
  BY <1>1 DEF TrailingInv
<1>3. index \in Nat /\ Len(units) \in Nat /\ k \in 1..Len(units) /\ k \in 0..Len(units)
  <2>1. index \in 0..Len(units) /\ Len(units) \in Nat
    BY <1>1, LenProperties DEF TypeOK
  <2> QED BY <1>2, <2>1
<1>4. k < Len(units) /\ n \in {3, 4} /\ Consumed + n = starts[k + 1]
  BY <1>1, <1>2, <1>3, StartCodeSeen DEF Lookahead
<1>5. starts[k + 1] \in Nat /\ starts[k + 1] <= Len(file)
  <2>1. /\ EndOf(k + 1) = starts[k + 1] + Len(units[k + 1])
        /\ EndOf(k + 1) <= Len(file) /\ Len(units[k + 1]) \in Nat
        /\ starts[k + 1] \in Nat /\ Len(file) \in Nat
    BY <1>1, <1>3, <1>4, LayoutFacts
  <2> HIDE DEF k
  <2> QED BY <2>1
<1>6. /\ Consumed \in Nat /\ Consumed + 0 = Consumed /\ Consumed <= Len(file)
      /\ 0 \in 0..n /\ future \in 0..4
  <2>1. Consumed \in Nat /\ Consumed <= Len(file)
    BY <1>1, Seen
  <2>2. future \in 0..4
    BY <1>1 DEF TypeOK
  <2>3. 0 \in 0..n
    BY <1>4
  <2> HIDE DEF n, k
  <2>4. Consumed + 0 = Consumed
    BY <2>1
  <2> QED BY <2>1, <2>2, <2>3, <2>4
<1>7. /\ pos' \in 0..Len(file) /\ future' \in 0..4 /\ future' <= pos'
      /\ Consumed' = Consumed
      /\ Consumed + n <= Len(file) => future' = (IF future >= n THEN future ELSE n) - 0
      /\ eof' \in BOOLEAN
      /\ eof' <=> (eof \/ ~(Consumed + n <= Len(file)))
  BY <1>1, <1>4, <1>6, Moved
<1>8. ~eof' /\ future' = n
  BY <1>2, <1>3, <1>4, <1>5, <1>6, <1>7
<1>9. pos' = starts[k + 1]
  <2>1. Consumed' = pos' - future'
    BY DEF Consumed
  <2>2. pos' \in Nat /\ future' \in Nat
    BY <1>7
  <2> QED BY <1>4, <1>5, <1>6, <1>7, <1>8, <2>1, <2>2
<1>10. index' \in 0..Len(units) /\ index' = k /\ index' > 0
  BY <1>1, <1>3
<1>11. TypeOK'
  BY <1>1, <1>7, <1>10 DEF TypeOK
<1>12. Layout'
  BY <1>1, SameFile
<1>13. ReturnedInv'
  <2>1. Behind(index)'
    <3>1. EndOf(index)' = EndOf(k) /\ ZerosUpTo(index)' = ZerosUpTo(k)
      BY <1>1 DEF EndOf, ZerosUpTo
    <3> QED BY <1>1, <1>2, <1>7, <1>10, <3>1 DEF Behind
  <2>2. unit # << >> /\ unit = Handed(k)
    BY <1>1, <1>2, <1>3, UnitIsHanded
  <2>3. Handed(index)' = Handed(k)
    <3>1. TailTaken' = TailTaken
      BY <1>1, SameFile
    <3> QED BY <1>1, <3>1 DEF Handed, Zeros
  <2>4. Located(index)'
    BY <1>1, <1>2 DEF Located
  <2>5. pos' = starts[index' + 1] /\ index' < Len(units)
    BY <1>4, <1>9, <1>10
  <2> QED BY <1>1, <1>8, <1>10, <2>1, <2>2, <2>3, <2>4, <2>5 DEF ReturnedInv
<1>14. ReaderInv'
  BY <1>1, <1>10, <1>13 DEF ReaderInv, WriteInv, LoopInv, LeadingInv, BodyInv, TrailingInv
<1> QED BY <1>11, <1>12, <1>14 DEF IInv

(* So does every step. *)
LEMMA NextPreserves == IInv /\ [Next]_vars => IInv'
<1> SUFFICES ASSUME IInv, [Next]_vars PROVE IInv'
  OBVIOUS
<1>1. CASE WriteUnit
  BY <1>1, WriteUnitPreserves
<1>2. CASE CloseFile
  BY <1>2, CloseFilePreserves
<1>3. CASE BeginIteration
  BY <1>3, BeginIterationPreserves
<1>4. CASE SeekBack
  BY <1>4, SeekBackPreserves
<1>5. CASE GoOn
  BY <1>5, GoOnPreserves
<1>6. CASE LeadingZero
  BY <1>6, LeadingZeroPreserves
<1>7. CASE ReadStartCode
  BY <1>7, ReadStartCodePreserves
<1>8. CASE ReadByte
  BY <1>8, ReadBytePreserves
<1>9. CASE EndUnit
  BY <1>9, EndUnitPreserves
<1>10. CASE TrailingZero
  BY <1>10, TrailingZeroPreserves
<1>11. CASE FoundStartCode
  BY <1>11, FoundStartCodePreserves
<1>12. CASE UNCHANGED vars
  <2>1. /\ UNCHANGED <<phase, file, units, starts, pos, future, eof>>
        /\ UNCHANGED <<unit, location, index, again>>
    BY <1>12 DEF vars
  <2>2. TypeOK'
    BY <2>1 DEF IInv, TypeOK
  <2>3. Layout'
    BY <2>1, SameFile DEF IInv
  <2>4. ReaderInv'
    <3>1. \A k : /\ EndOf(k)' = EndOf(k) /\ ZerosUpTo(k)' = ZerosUpTo(k)
                 /\ Handed(k)' = Handed(k)
      BY <2>1, SameFile
    <3>2. ShortTail' = ShortTail
      BY <2>1, SameFile
    <3>3. Consumed' = Consumed
      BY <2>1 DEF Consumed
    <3>4. \A k : (Behind(k)' <=> Behind(k)) /\ (Located(k)' <=> Located(k))
      BY <2>1, <3>1, <3>3 DEF Behind, Located
    <3>5. Behind(index)' <=> Behind(index)
      BY <2>1 DEF Behind, EndOf, ZerosUpTo, Consumed
    <3>6. Behind(index + 1)' <=> Behind(index + 1)
      BY <2>1 DEF Behind, EndOf, ZerosUpTo, Consumed
    <3>7. Located(index)' <=> Located(index)
      BY <2>1 DEF Located
    <3>8. Located(index + 1)' <=> Located(index + 1)
      BY <2>1 DEF Located
    <3>9. Handed(index)' = Handed(index)
      <4>1. TailTaken' = TailTaken
        BY <2>1, SameFile
      <4> QED BY <2>1, <4>1 DEF Handed, Zeros
    <3>10. EndOf(Len(units))' = EndOf(Len(units))
      BY <2>1 DEF EndOf
    <3>11. WriteInv' /\ LoopInv' /\ LeadingInv'
      BY <2>1, <3>5, <3>8, <3>10 DEF IInv, ReaderInv, WriteInv, LoopInv, LeadingInv
    <3>12. BodyInv' /\ TrailingInv'
      BY <2>1, <3>2, <3>3, <3>6, <3>8 DEF IInv, ReaderInv, BodyInv, TrailingInv
    <3>13. ReturnedInv'
      BY <2>1, <3>5, <3>7, <3>9 DEF IInv, ReaderInv, ReturnedInv
    <3> QED BY <2>1, <3>11, <3>12, <3>13 DEF IInv, ReaderInv
  <2> QED BY <2>2, <2>3, <2>4 DEF IInv
<1> QED BY <1>1, <1>2, <1>3, <1>4, <1>5, <1>6, <1>7, <1>8, <1>9, <1>10, <1>11, <1>12
        DEF Next, Finished

(* In every reachable state the units lie in the file one behind the other *)
(* and the reader is where its phase says, whatever the units and bounds.  *)
THEOREM ReaderInvariance == Spec => []IInv
<1>1. Init => IInv
  BY InitEstablishes
<1>2. IInv /\ [Next]_vars => IInv'
  BY NextPreserves
<1> QED BY <1>1, <1>2, PTL DEF Spec

(* The stream never leaves the file, and nothing buffered is lost.         *)
THEOREM ByteStreamTypes == Spec => []TypeOK
<1>1. IInv => TypeOK
  BY DEF IInv
<1> QED BY <1>1, ReaderInvariance, PTL

(* decode() finds the start code of a unit that begins a new picture three *)
(* bytes before the location it noted, for every sequence of units.        *)
THEOREM SeekBackIsRight == Spec => []LocationIsPayload
<1>1. IInv => LocationIsPayload
  <2> SUFFICES ASSUME IInv, phase = "returned", index > 1, ~again
               PROVE  SubSeq(file, location - 2, location) = StartCode
    BY DEF LocationIsPayload
  <2>1. TypeOK /\ Layout /\ ReturnedInv
    BY DEF IInv, ReaderInv
  <2>2. index \in 0..Len(units) /\ Len(units) \in Nat
    BY <2>1, LenProperties DEF TypeOK
  <2>3. unit # << >>
    <3>1. units = << >> => Len(units) = 0
      OBVIOUS
    <3> QED BY <2>1, <2>2, <3>1 DEF ReturnedInv
  <2>4. location = starts[index]
    BY <2>1, <2>3 DEF ReturnedInv, Located
  <2> DEFINE k == index - 1
  <2>5. k \in 0..Len(units) /\ k < Len(units) /\ k + 1 = index
    BY <2>2
  <2> HIDE DEF k
  <2>6. /\ starts[k + 1] \in Nat /\ EndOf(k) \in Nat /\ EndOf(k) + 3 <= starts[k + 1]
        /\ ZerosUpTo(k) = starts[k + 1] - 1 /\ Len(file) \in Nat
        /\ EndOf(k + 1) = starts[k + 1] + Len(units[k + 1])
        /\ EndOf(k + 1) <= Len(file) /\ Len(units[k + 1]) \in Nat
        /\ file[starts[k + 1]] = 1
        /\ \A i \in EndOf(k) + 1..ZerosUpTo(k) : file[i] = 0
    BY <2>1, <2>5, LayoutFacts
  <2> DEFINE c == location - 3
  <2>7. /\ c \in Nat /\ c + 3 <= Len(file) /\ c + 3 = location /\ c + 1 = location - 2
        /\ c + 1 \in EndOf(k) + 1..ZerosUpTo(k) /\ c + 2 \in EndOf(k) + 1..ZerosUpTo(k)
        /\ c + 3 = starts[k + 1]
    <3> DEFINE a == starts[k + 1]
               e == EndOf(k)
               z == ZerosUpTo(k)
    <3>1. /\ a \in Nat /\ e \in Nat /\ Len(file) \in Nat /\ e + 3 <= a /\ z = a - 1
          /\ a <= Len(file) /\ location = a
      BY <2>4, <2>5, <2>6
    <3> HIDE DEF a, e, z
    <3>2. /\ c \in Nat /\ c + 3 <= Len(file) /\ c + 3 = location /\ c + 1 = location - 2
          /\ c + 1 \in e + 1..z /\ c + 2 \in e + 1..z /\ c + 3 = a
      BY <3>1
    <3> QED BY <3>2 DEF a, e, z
  <2> HIDE DEF c
  <2>8. file[c + 1] = 0 /\ file[c + 2] = 0 /\ file[c + 3] = 1
    BY <2>6, <2>7
  <2>9. SubSeq(file, c + 1, c + 3) = <<file[c + 1], file[c + 2], file[c + 3]>>
    BY <2>1, <2>7, Peeked3 DEF TypeOK
  <2>10. SubSeq(file, location - 2, location) = SubSeq(file, c + 1, c + 3)
    BY <2>7
  <2> QED BY <2>8, <2>9, <2>10 DEF StartCode
<1> QED BY <1>1, ReaderInvariance, PTL

-----------------------------------------------------------------------------
(* The refinement.                                                         *)

TailOf(f) ==
  LET last == {i \in DOMAIN f : f[i] # 0}
  IN IF last = {} THEN 0 ELSE Len(f) - CHOOSE i \in last : \A j \in last : j <= i

(* Zero bytes at the end of a file are counted from its last byte that *)
(* is not 0.                                                               *)
LEMMA TailOfLayout ==
  ASSUME NEW f \in Seq(Byte), NEW e \in 0..Len(f), e > 0 => f[e] # 0,
         \A i \in e + 1..Len(f) : f[i] = 0
  PROVE  TailOf(f) = IF e = 0 THEN 0 ELSE Len(f) - e
<1> DEFINE last == {i \in DOMAIN f : f[i] # 0}
<1>1. Len(f) \in Nat /\ DOMAIN f = 1..Len(f)
  BY LenProperties
<1>2. \A i \in last : i \in 1..Len(f) /\ i <= e
  BY <1>1
<1>3. TailOf(f) = IF last = {} THEN 0 ELSE Len(f) - CHOOSE i \in last : \A j \in last : j <= i
  BY DEF TailOf
<1>4. CASE e = 0
  <2>1. last = {}
    BY <1>1, <1>2, <1>4
  <2> QED BY <1>3, <1>4, <2>1
<1>5. CASE e # 0
  <2>1. e \in last
    BY <1>1, <1>5
  <2> DEFINE m == CHOOSE i \in last : \A j \in last : j <= i
  <2> HIDE DEF last
  <2>2. m \in last /\ \A j \in last : j <= m
    BY <1>2, <2>1
  <2> HIDE DEF m
  <2>3. m = e
    BY <1>1, <1>2, <2>1, <2>2
  <2> QED BY <1>3, <1>5, <2>1, <2>3 DEF m
<1> QED BY <1>4, <1>5

(* The last unit does not end in a zero byte. *)
LEMMA LastByte ==
  ASSUME TypeOK, Layout, Len(units) # 0
  PROVE  EndOf(Len(units)) > 0 /\ file[EndOf(Len(units))] # 0
<1> DEFINE k == Len(units) - 1
<1>1. k \in 0..Len(units) /\ k < Len(units) /\ k + 1 = Len(units)
  <2>1. Len(units) \in Nat
    BY LenProperties DEF TypeOK
  <2> QED BY <2>1
<1> HIDE DEF k
<1>2. /\ starts[k + 1] \in Nat /\ units[k + 1] \in Bodies /\ Len(units[k + 1]) \in Nat
      /\ EndOf(k + 1) = starts[k + 1] + Len(units[k + 1])
      /\ \A j \in 1..Len(units[k + 1]) : file[starts[k + 1] + j] = units[k + 1][j]
  BY <1>1, LayoutFacts
<1> DEFINE u == units[k + 1]
           n == Len(u)
<1>3. n >= 2 /\ u[n] # 0
  BY <1>2, BodiesAssumption
<1>4. n \in 1..n /\ starts[k + 1] + n > 0
  BY <1>2, <1>3
<1> QED BY <1>1, <1>2, <1>3, <1>4

(* The zero bytes taken for the end of the last unit are the ones behind   *)
(* the last byte of the file that is not 0.                                *)
LEMMA TailIsTaken ==
  ASSUME TypeOK, Layout, phase # "write"
  PROVE  FileTail = TailTaken
<1> DEFINE L == Len(units)
           e == EndOf(L)
<1>1. /\ L \in Nat /\ L \in 0..L /\ Len(file) \in Nat /\ e \in Nat /\ e <= Len(file)
      /\ file \in Seq(Byte)
      /\ \A i \in e + 1..Len(file) : file[i] = 0
  <2>1. L \in Nat /\ L \in 0..L
    BY LenProperties DEF TypeOK
  <2>2. /\ Len(file) \in Nat /\ e \in Nat /\ e <= ZerosUpTo(L) /\ ZerosUpTo(L) = Len(file)
        /\ \A i \in e + 1..ZerosUpTo(L) : file[i] = 0
    BY <2>1, LayoutFacts DEF ZerosUpTo
  <2> QED BY <2>1, <2>2 DEF TypeOK
<1>2. (units = << >>) <=> (L = 0)
  BY EmptySeq DEF TypeOK
<1>3. L # 0 => e > 0 /\ file[e] # 0
  BY LastByte
<1>4. (e = 0) <=> (L = 0)
  BY <1>1, <1>3 DEF EndOf
<1> HIDE DEF L, e
<1>5. TailOf(file) = IF e = 0 THEN 0 ELSE Len(file) - e
  BY <1>1, <1>3, <1>4, TailOfLayout
<1>6. FileTail = IF TailOf(file) < 3 THEN TailOf(file) ELSE 0
  BY DEF FileTail, TailOf
<1>7. TailTaken = IF L # 0 /\ Len(file) - e < 3 THEN Len(file) - e ELSE 0
  BY <1>2 DEF TailTaken, ShortTail, L, e
<1>8. CASE L = 0
  BY <1>4, <1>5, <1>6, <1>7, <1>8
<1>9. CASE L # 0
  BY <1>4, <1>5, <1>6, <1>7, <1>9
<1> QED BY <1>8, <1>9

(* A file that is closed has at most two zero bytes that are taken.        *)
LEMMA TailOfClosed ==
  ASSUME IInv, CloseFile
  PROVE  FileTail' \in 0..2 /\ (units = << >> => FileTail' = 0)
<1>1. TypeOK /\ Layout /\ WriteInv /\ phase = "write" /\ phase' = "loop"
  BY DEF IInv, ReaderInv, CloseFile
<1>2. PICK padding \in 0..MaxZeros : file' = file \o Zeros(padding)
  BY DEF CloseFile
<1>3. file \in Seq(Byte) /\ Len(file) \in Nat /\ padding \in Nat
  BY <1>1, BoundsAssumption, LenProperties DEF TypeOK
<1> DEFINE f == file \o Zeros(padding)
           e == Len(file)
<1>4. /\ f \in Seq(Byte) /\ Len(f) = e + padding
      /\ \A i \in 1..e : f[i] = file[i]
      /\ \A i \in e + 1..e + padding : f[i] = 0
  BY <1>3, ExtendedByZeros
<1>5. /\ e \in Nat /\ Len(units) = 0 => e = 0
      /\ e > 0 => file[e] # 0
  <2>1. e = EndOf(Len(units))
    BY <1>1 DEF WriteInv
  <2>2. CASE Len(units) = 0
    BY <2>1, <2>2, <1>3 DEF EndOf
  <2>3. CASE Len(units) # 0
    BY <1>1, <1>3, <2>1, <2>3, LastByte
  <2> QED BY <2>2, <2>3
<1>6. file' = f
  BY <1>2
<1> HIDE DEF f, e
<1>7. e \in 0..Len(f) /\ (e > 0 => f[e] # 0)
  BY <1>3, <1>4, <1>5 DEF e
<1>8. \A i \in e + 1..Len(f) : f[i] = 0
  BY <1>4
<1>9. TailOf(f) = IF e = 0 THEN 0 ELSE Len(f) - e
  BY <1>4, <1>7, <1>8, TailOfLayout
<1>10. FileTail' = IF TailOf(f) < 3 THEN TailOf(f) ELSE 0
  BY <1>1, <1>6 DEF FileTail, TailOf
<1>11. TailOf(f) \in Nat
  BY <1>3, <1>4, <1>5, <1>9 DEF e
<1>12. units = << >> => Len(units) = 0
  OBVIOUS
<1>13. units = << >> => TailOf(f) = 0
  BY <1>5, <1>9, <1>12 DEF e
<1> QED BY <1>10, <1>11, <1>13

(* What the caller of the abstract source has, and whether it is the last. *)
HandedOut == IF Turn = "have" THEN unit ELSE << >>
LastOut == Turn = "have" /\ eof

LEMMA SourceInit == Init => Source!Init
<1> SUFFICES ASSUME Init PROVE Source!Init
  OBVIOUS
<1>1. Turn = "file" /\ FileTail = 0
  BY DEF Init, Turn, FileTail
<1> QED BY <1>1 DEF Init, Source!Init, Source!NoUnit

LEMMA SourceAdd == IInv /\ WriteUnit => Source!Add
<1> SUFFICES ASSUME IInv, WriteUnit PROVE Source!Add
  OBVIOUS
<1>1. /\ phase = "write" /\ Len(units) < MaxUnits
      /\ \E u \in Bodies : units' = Append(units, u)
      /\ UNCHANGED <<phase, pos, future, eof, unit, location, index, again>>
  BY DEF WriteUnit, streamVars
<1>2. Turn = "file" /\ Turn' = "file"
  BY <1>1 DEF Turn
<1>3. FileTail = 0 /\ FileTail' = 0
  BY <1>1 DEF FileTail
<1> QED BY <1>1, <1>2, <1>3 DEF Source!Add

LEMMA SourceClose == IInv /\ CloseFile => Source!Close
<1> SUFFICES ASSUME IInv, CloseFile PROVE Source!Close
  OBVIOUS
<1>1. /\ phase = "write" /\ phase' = "loop"
      /\ UNCHANGED <<units, starts, pos, future, eof, unit, location, index, again>>
  BY DEF CloseFile, streamVars
<1>2. Turn = "file" /\ Turn' = "fetch"
  BY <1>1 DEF Turn
<1>3. FileTail' \in 0..2 /\ (units = << >> => FileTail' = 0)
  BY TailOfClosed
<1> QED BY <1>1, <1>2, <1>3 DEF Source!Close

(* Every other step leaves the file alone. *)
LEMMA SameTail ==
  ASSUME file' = file, phase # "write", phase' # "write"
  PROVE  FileTail' = FileTail
BY DEF FileTail

LEMMA SourceStutters ==
  ASSUME UNCHANGED <<file, units, index, again>>,
         phase # "write", phase' # "write", Turn = "fetch", Turn' = "fetch"
  PROVE  UNCHANGED Source!vars
<1>1. FileTail' = FileTail
  BY SameTail
<1> QED BY <1>1 DEF Source!vars

LEMMA SourceFinish ==
  ASSUME IInv, BeginIteration
  PROVE  Source!Finish \/ UNCHANGED Source!vars
<1>1. /\ LoopInv /\ phase = "loop"
      /\ UNCHANGED <<file, units, pos, future, eof, index, again>>
  BY DEF IInv, ReaderInv, BeginIteration, streamVars
<1>2. CASE eof
  <2>1. phase' = "end" /\ index = Len(units)
    BY <1>1, <1>2 DEF BeginIteration, LoopInv
  <2>2. Turn = "fetch" /\ Turn' = "end"
    BY <1>1, <2>1 DEF Turn
  <2>3. FileTail' = FileTail
    BY <1>1, <2>1, SameTail
  <2> QED BY <1>1, <2>1, <2>2, <2>3 DEF Source!Finish
<1>3. CASE ~eof
  <2>1. phase' = "leading"
    BY <1>3 DEF BeginIteration
  <2>2. Turn = "fetch" /\ Turn' = "fetch"
    BY <1>1, <2>1 DEF Turn
  <2> QED BY <1>1, <2>1, <2>2, SourceStutters
<1> QED BY <1>2, <1>3

LEMMA SourceGiveBack == IInv /\ SeekBack => Source!GiveBack
<1> SUFFICES ASSUME IInv, SeekBack PROVE Source!GiveBack
  OBVIOUS
<1>1. /\ phase = "returned" /\ unit # << >> /\ index > 1 /\ ~again /\ phase' = "loop"
      /\ index' = index - 1 /\ again' = TRUE /\ UNCHANGED <<file, units, unit>>
  BY DEF SeekBack
<1>2. Turn = "have" /\ Turn' = "fetch"
  BY <1>1 DEF Turn
<1>3. FileTail' = FileTail
  BY <1>1, SameTail
<1> QED BY <1>1, <1>2, <1>3 DEF Source!GiveBack, Source!NoUnit

LEMMA SourceTake ==
  ASSUME IInv, GoOn
  PROVE  Source!Take \/ UNCHANGED Source!vars
<1>1. /\ TypeOK /\ ReaderInv /\ ReturnedInv /\ phase = "returned" /\ phase' = "loop"
      /\ again' = FALSE /\ UNCHANGED <<file, units, unit, index, eof>>
  BY DEF IInv, ReaderInv, GoOn, streamVars
<1>2. FileTail' = FileTail
  BY <1>1, SameTail
<1>3. CASE unit # << >>
  <2>1. Turn = "have" /\ Turn' = "fetch"
    BY <1>1, <1>3 DEF Turn
  <2> QED BY <1>1, <1>2, <2>1 DEF Source!Take, Source!NoUnit
<1>4. CASE unit = << >>
  <2>1. Turn = "fetch" /\ Turn' = "fetch"
    BY <1>1, <1>4 DEF Turn
  <2>2. units = << >>
    BY <1>1, <1>4 DEF ReturnedInv
  <2>3. index = 0
    <3>1. Len(units) = 0
      BY <2>2
    <3> QED BY <1>1, <3>1 DEF TypeOK
  <2>4. again = FALSE
    BY <1>1, <2>3 DEF ReaderInv, TypeOK
  <2> QED BY <1>1, <2>1, <2>4, SourceStutters
<1> QED BY <1>3, <1>4

LEMMA TrailingUnit ==
  ASSUME TypeOK, TrailingInv, phase = "trailing"
  PROVE  unit # << >>
<1>1. index \in 0..Len(units) /\ index < Len(units) /\ Len(units) \in Nat
  BY LenProperties DEF TypeOK, TrailingInv
<1>2. /\ index + 1 \in 1..Len(units) /\ unit = units[index + 1]
      /\ index + 1 = Len(units) => ~ShortTail
  BY <1>1 DEF TrailingInv
<1> QED BY <1>2, UnitIsHanded

(* A unit is complete: the next one of the file, with the zero bytes taken *)
(* for its end when it is the last.                                        *)
LEMMA SourceHand ==
  ASSUME IInv, IInv', phase \in {"body", "trailing"}, phase' = "returned",
         UNCHANGED <<file, units, starts, unit, again>>, index' = index + 1,
         unit # << >>
  PROVE  Source!Hand
<1>1. TypeOK /\ Layout /\ TypeOK' /\ ReturnedInv'
  BY DEF IInv, ReaderInv
<1>2. Turn = "fetch" /\ Turn' = "have"
  BY DEF Turn
<1>3. FileTail' = FileTail /\ FileTail = TailTaken
  BY <1>1, SameTail, TailIsTaken
<1>4. index < Len(units)
  <2>1. index \in 0..Len(units) /\ index + 1 \in 0..Len(units) /\ Len(units) \in Nat
    BY <1>1, LenProperties DEF TypeOK
  <2> QED BY <2>1
<1>5. TailTaken' = TailTaken
  BY DEF TailTaken, ShortTail, EndOf
<1>6. /\ eof' => index + 1 = Len(units)
      /\ ~eof' => index + 1 < Len(units)
      /\ unit = Handed(index)'
  BY <1>1 DEF ReturnedInv
<1>7. eof' = (index + 1 = Len(units))
  BY <1>1, <1>4, <1>6 DEF TypeOK
<1>8. unit = units[index + 1] \o
        [i \in 1..(IF index + 1 = Len(units) THEN FileTail ELSE 0) |-> 0]
  BY <1>3, <1>5, <1>6 DEF Handed, Zeros
<1>9. LastOut' = (index + 1 = Len(units)) /\ HandedOut' = unit
      /\ LastOut = FALSE
  BY <1>2, <1>7 DEF LastOut, HandedOut
<1> QED BY <1>2, <1>3, <1>4, <1>7, <1>8, <1>9 DEF Source!Hand, LastOut, HandedOut

(* The end of the file stops a unit, or finds none. *)
LEMMA SourceEndOfFile ==
  ASSUME IInv, IInv', EndOfFile, phase \in {"leading", "body", "trailing"},
         phase = "leading" <=> unit = << >>
  PROVE  Source!Hand \/ UNCHANGED Source!vars
<1>1. /\ phase' = "returned" /\ UNCHANGED <<file, units, starts, unit, again>>
      /\ index' = IF unit = << >> THEN index ELSE index + 1
  BY DEF EndOfFile
<1>2. CASE unit = << >>
  <2>1. Turn = "fetch" /\ Turn' = "fetch"
    BY <1>1, <1>2 DEF Turn
  <2> QED BY <1>1, <1>2, <2>1, SourceStutters
<1>3. CASE unit # << >>
  BY <1>1, <1>3, SourceHand
<1> QED BY <1>2, <1>3

(* Every step of the stream is one of the source, or none.                 *)
LEMMA SourceStep ==
  IInv /\ IInv' /\ [Next]_vars => Source!Next \/ UNCHANGED Source!vars
<1> SUFFICES ASSUME IInv, IInv', [Next]_vars
             PROVE  Source!Next \/ UNCHANGED Source!vars
  OBVIOUS
<1>1. CASE WriteUnit
  BY <1>1, SourceAdd DEF Source!Next
<1>2. CASE CloseFile
  BY <1>2, SourceClose DEF Source!Next
<1>3. CASE BeginIteration
  BY <1>3, SourceFinish DEF Source!Next
<1>4. CASE SeekBack
  BY <1>4, SourceGiveBack DEF Source!Next
<1>5. CASE GoOn
  BY <1>5, SourceTake DEF Source!Next
<1>6. CASE LeadingZero
  <2>1. phase = "leading" /\ DropZero /\ unit = << >> /\ phase' # "aborted"
    BY <1>6 DEF LeadingZero, IInv, ReaderInv, LeadingInv
  <2>2. CASE EndOfFile
    BY <2>1, <2>2, SourceEndOfFile DEF Source!Next
  <2>3. CASE UNCHANGED <<phase, file, units, starts, unit, location, index, again>>
    <3>1. Turn = "fetch" /\ Turn' = "fetch"
      BY <2>1, <2>3 DEF Turn
    <3> QED BY <2>1, <2>3, <3>1, SourceStutters
  <2> QED BY <2>1, <2>2, <2>3 DEF DropZero
<1>7. CASE ReadStartCode
  <2>1. /\ phase = "leading" /\ phase' = "body"
        /\ UNCHANGED <<file, units, starts, unit, location, index, again>>
    BY <1>7 DEF ReadStartCode
  <2>2. Turn = "fetch" /\ Turn' = "fetch"
    BY <2>1 DEF Turn
  <2> QED BY <2>1, <2>2, SourceStutters
<1>8. CASE ReadByte
  <2>1. phase = "body" /\ ~AtUnitEnd
    BY <1>8 DEF ReadByte
  <2>2. CASE NothingLeft
    <3>1. EndOfFile
      BY <1>8, <2>2 DEF ReadByte
    <3>2. unit # << >>
      BY <2>1, <2>2, UnitSeen DEF IInv, ReaderInv
    <3> QED BY <2>1, <3>1, <3>2, SourceEndOfFile DEF Source!Next
  <2>3. CASE ~NothingLeft
    <3>1. UNCHANGED <<phase, file, units, starts, location, index, again>>
      BY <1>8, <2>3 DEF ReadByte
    <3>2. Turn = "fetch" /\ Turn' = "fetch"
      BY <2>1, <3>1 DEF Turn
    <3> QED BY <2>1, <3>1, <3>2, SourceStutters
  <2> QED BY <2>2, <2>3
<1>9. CASE EndUnit
  <2>1. /\ phase = "body" /\ phase' = "trailing"
        /\ UNCHANGED <<file, units, starts, unit, location, index, again>>
    BY <1>9 DEF EndUnit
  <2>2. Turn = "fetch" /\ Turn' = "fetch"
    BY <2>1 DEF Turn
  <2> QED BY <2>1, <2>2, SourceStutters
<1>10. CASE TrailingZero
  <2>1. phase = "trailing" /\ DropZero /\ phase' # "aborted"
    BY <1>10 DEF TrailingZero, IInv, ReaderInv
  <2>2. unit # << >>
    BY <2>1, TrailingUnit DEF IInv, ReaderInv
  <2>3. CASE EndOfFile
    BY <2>1, <2>2, <2>3, SourceEndOfFile DEF Source!Next
  <2>4. CASE UNCHANGED <<phase, file, units, starts, unit, location, index, again>>
    <3>1. Turn = "fetch" /\ Turn' = "fetch"
      BY <2>1, <2>4 DEF Turn
    <3> QED BY <2>1, <2>4, <3>1, SourceStutters
  <2> QED BY <2>1, <2>3, <2>4 DEF DropZero
<1>11. CASE FoundStartCode
  <2>1. /\ phase = "trailing" /\ phase' = "returned" /\ index' = index + 1
        /\ UNCHANGED <<file, units, starts, unit, location, again>>
    BY <1>11 DEF FoundStartCode
  <2>2. unit # << >>
    BY <2>1, TrailingUnit DEF IInv, ReaderInv
  <2> QED BY <2>1, <2>2, SourceHand DEF Source!Next
<1>12. CASE UNCHANGED vars
  <2>1. UNCHANGED <<phase, file, units, unit, eof, index, again>>
    BY <1>12 DEF vars
  <2>2. Turn' = Turn
    BY <2>1 DEF Turn
  <2>3. FileTail' = FileTail
    BY <2>1 DEF FileTail
  <2> QED BY <2>1, <2>2, <2>3 DEF Source!vars
<1> QED BY <1>1, <1>2, <1>3, <1>4, <1>5, <1>6, <1>7, <1>8, <1>9, <1>10, <1>11, <1>12
        DEF Next, Finished

(* The byte stream hands out the units that were written into the file, in *)
(* order, complete, the end of the file with the last one, and again on    *)
(* request, for every set of NAL units without a start code inside.        *)
THEOREM ByteStreamIsUnitSource == Spec => ImplementsUnitSource
<1>1. Init => Source!Init
  BY SourceInit
<1>2. IInv /\ IInv' /\ [Next]_vars => [Source!Next]_(Source!vars)
  BY SourceStep
<1> QED BY <1>1, <1>2, ReaderInvariance, PTL DEF Spec, ImplementsUnitSource, Source!Spec
=============================================================================
