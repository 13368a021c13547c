---------------------------- MODULE CabacProofs ----------------------------
(***************************************************************************)
(* Proofs about CabacEncoder, for every table of contexts, every slice QP  *)
(* and every sequence of calls.                                            *)
(*                                                                         *)
(* The argument is one of nested intervals: a call leaves an interval      *)
(* [l, l + r) inside the one it found, moved n bits to the left (MoveOK),  *)
(* so a bound on low + range survives the move (ScaleFits); and when a     *)
(* byte leaves the register, the bound tells which bytes it can be         *)
(* (WriteOutOK).  The tables enter through four lemmas that go through     *)
(* their entries.                                                          *)
(***************************************************************************)
EXTENDS CabacEncoder, SequenceTheorems, TLAPS

(* The values of Pow2, which the provers cannot read off a tuple at a      *)
(* symbolic index.                                                         *)
LEMMA PowerTable ==
  /\ Pow2(0) = 1 /\ Pow2(1) = 2 /\ Pow2(2) = 4 /\ Pow2(3) = 8
  /\ Pow2(4) = 16 /\ Pow2(5) = 32 /\ Pow2(6) = 64 /\ Pow2(7) = 128
  /\ Pow2(8) = 256 /\ Pow2(9) = 512 /\ Pow2(10) = 1024 /\ Pow2(11) = 2048
  /\ Pow2(12) = 4096 /\ Pow2(13) = 8192 /\ Pow2(14) = 16384 /\ Pow2(15) = 32768
  /\ Pow2(16) = 65536 /\ Pow2(17) = 131072 /\ Pow2(18) = 262144 /\ Pow2(19) = 524288
  /\ Pow2(20) = 1048576 /\ Pow2(21) = 2097152 /\ Pow2(22) = 4194304
  /\ Pow2(23) = 8388608 /\ Pow2(24) = 16777216 /\ Pow2(25) = 33554432
  /\ Pow2(26) = 67108864 /\ Pow2(27) = 134217728 /\ Pow2(28) = 268435456
  /\ Pow2(29) = 536870912 /\ Pow2(30) = 1073741824
BY DEF Pow2

(* The next-state tables never lead a coding context to state 63, whose    *)
(* range of 2 one renormalisation would not bring back to 256.             *)
LEMMA MpsClosed == \A c \in CodingContext : UpdateMps(c) \in CodingContext
BY DEF CodingContext, UpdateMps, m_aucNextStateMPS

(* The same for the less probable symbol. *)
LEMMA LpsClosed == \A c \in CodingContext : UpdateLps(c) \in CodingContext
BY DEF CodingContext, UpdateLps, m_aucNextStateLPS

(* The less probable symbol takes part of the range and leaves at least    *)
(* half of 256: one shift renormalises the rest.                           *)
LEMMA LpsTable ==
  ASSUME NEW c \in CodingContext, NEW r \in 256..510
  PROVE  /\ LpsRange(c, r) \in 6..240
         /\ r - LpsRange(c, r) >= 128
<1> DEFINE s == (c \div 2) + 1
           q == (r \div 64) % 4
<1>1. s \in 1..63  BY DEF CodingContext
<1>2. /\ sm_aucLPSTable_0[s] \in 6..128
      /\ sm_aucLPSTable_1[s] \in 6..176
      /\ sm_aucLPSTable_2[s] \in 6..208
      /\ sm_aucLPSTable_3[s] \in 6..240
  <2> HIDE DEF s
  <2>1. sm_aucLPSTable_0[s] \in 6..128  BY <1>1 DEF sm_aucLPSTable_0
  <2>2. sm_aucLPSTable_1[s] \in 6..176  BY <1>1 DEF sm_aucLPSTable_1
  <2>3. sm_aucLPSTable_2[s] \in 6..208  BY <1>1 DEF sm_aucLPSTable_2
  <2>4. sm_aucLPSTable_3[s] \in 6..240  BY <1>1 DEF sm_aucLPSTable_3
  <2> QED BY <2>1, <2>2, <2>3, <2>4
<1>3. \/ q = 0 /\ r >= 256
      \/ q = 1 /\ r >= 320
      \/ q = 2 /\ r >= 384
      \/ q = 3 /\ r >= 448
  OBVIOUS
<1>4. /\ q = 0 => LpsRange(c, r) = sm_aucLPSTable_0[s]
      /\ q = 1 => LpsRange(c, r) = sm_aucLPSTable_1[s]
      /\ q = 2 => LpsRange(c, r) = sm_aucLPSTable_2[s]
      /\ q = 3 => LpsRange(c, r) = sm_aucLPSTable_3[s]
  BY DEF LpsRange
<1> HIDE DEF s, q
<1> QED BY <1>2, <1>3, <1>4

(* The renormalisation table brings every range of the table to 256..510.  *)
LEMMA RenormTable ==
  ASSUME NEW lps \in 6..240
  PROVE  /\ Renorm(lps) \in 1..6
         /\ lps * Pow2(Renorm(lps)) \in 256..510
<1> DEFINE k == (lps \div 8) + 1
<1>1. k \in 1..31 /\ lps >= 8 * (k - 1) /\ lps < 8 * k  OBVIOUS
<1>2. Renorm(lps) = sm_aucRenormTable[k]  BY DEF Renorm
<1> HIDE DEF k
<1>3. \/ k = 1 /\ Renorm(lps) = 6
      \/ k = 2 /\ Renorm(lps) = 5
      \/ k \in 3..4 /\ Renorm(lps) = 4
      \/ k \in 5..8 /\ Renorm(lps) = 3
      \/ k \in 9..16 /\ Renorm(lps) = 2
      \/ k \in 17..31 /\ Renorm(lps) = 1
  BY <1>1, <1>2 DEF sm_aucRenormTable
<1> QED BY <1>1, <1>3, PowerTable

(* ContextModel::init() starts every context in a coding state. *)
LEMMA InitContextIsCoding ==
  ASSUME NEW qp \in Int, NEW v \in 0..255
  PROVE  InitContext(qp, v) \in CodingContext
<1> DEFINE slope == (v \div 16) * 5 - 45
           offset == (v % 16) * 8 - 16
           x == (slope * Clip(0, 51, qp)) \div 16 + offset
           state == Clip(1, 126, x)
<1>1. Clip(0, 51, qp) \in Int /\ slope \in Int /\ offset \in Int  BY DEF Clip
<1>2. slope * Clip(0, 51, qp) \in Int
  <2> HIDE DEF slope
  <2> QED BY <1>1
<1>3. x \in Int
  <2> HIDE DEF slope, offset
  <2> DEFINE p == slope * Clip(0, 51, qp)
  <2>1. p \in Int  BY <1>2
  <2> HIDE DEF p
  <2>2. p \div 16 \in Int  BY <2>1
  <2> QED BY <1>1, <2>2 DEF p
<1> HIDE DEF x
<1>4. state \in 1..126  BY <1>3 DEF Clip
<1>5. InitContext(qp, v) = IF state >= 64 THEN 2 * (state - 64) + 1 ELSE 2 * (63 - state)
  BY DEF InitContext, x
<1> HIDE DEF state
<1> QED BY <1>4, <1>5 DEF CodingContext

-----------------------------------------------------------------------------
(* A shift multiplies the width of the register. *)
LEMMA Shift ==
  ASSUME NEW k \in 9..20, NEW n \in 0..8
  PROVE  /\ Pow2(k) \in Nat \ {0} /\ Pow2(n) \in 1..256
         /\ Pow2(k + n) = Pow2(k) * Pow2(n)
<1>1. CASE n \in 0..2  BY <1>1, PowerTable
<1>2. CASE n \in 3..5  BY <1>2, PowerTable
<1>3. CASE n \in 6..8  BY <1>3, PowerTable
<1> QED BY <1>1, <1>2, <1>3

(* Typing of the shifts. *)
LEMMA ShiftWidth == \A n \in 0..8 : Pow2(n) \in Nat
BY PowerTable

(* Typing of the register's width. *)
LEMMA RegisterWidth == \A b \in 12..23 : Pow2(32 - b) \in Nat
BY PowerTable

(* The interval l, r with b in bitsLeft has room for the carry. *)
Fits(l, r, b) ==
  /\ l + r <= 2 * Pow2(32 - b)
  /\ numBufferedBytes = 0 \/ bufferedByte = 255 => l + r <= Pow2(32 - b)

(* What is inside the old interval, moved left by n bits, has room. *)
LEMMA ScaleFits ==
  ASSUME low \in Nat, range \in 256..510, bitsLeft \in 12..23, CarryHasRoom,
         NEW n \in 0..8, NEW l \in Nat, NEW r \in Nat,
         l + r <= (low + range) * Pow2(n)
  PROVE  Fits(l, r, bitsLeft - n)
<1> DEFINE w == Pow2(32 - bitsLeft)
           s == Pow2(n)
<1>1. 32 - bitsLeft \in 9..20  OBVIOUS
<1>2. w \in Nat /\ s \in 1..256 /\ Pow2((32 - bitsLeft) + n) = w * s  BY <1>1, Shift
<1>3. 32 - (bitsLeft - n) = (32 - bitsLeft) + n  OBVIOUS
<1>4. low + range <= 2 * w /\ (numBufferedBytes = 0 \/ bufferedByte = 255 => low + range <= w)
  BY DEF CarryHasRoom
<1>5. l + r <= (low + range) * s  OBVIOUS
<1>6. ASSUME NEW x \in Nat, NEW y \in Nat, x <= y PROVE x * s <= y * s
  <2> HIDE DEF s
  <2> QED BY <1>6, <1>2
<1>7. (low + range) * s <= (2 * w) * s
  <2> HIDE DEF w, s
  <2> QED BY <1>2, <1>4, <1>6
<1>8. low + range <= w => (low + range) * s <= w * s
  <2> HIDE DEF w, s
  <2> QED BY <1>2, <1>6
<1>9. (2 * w) * s = 2 * (w * s)
  <2> HIDE DEF w, s
  <2> QED BY <1>2
<1> DEFINE p == w * s
           t == (low + range) * s
<1>10. p \in Nat /\ t \in Nat
  <2> HIDE DEF w, s
  <2> QED BY <1>2
<1>11. Pow2(32 - (bitsLeft - n)) = p  BY <1>2, <1>3
<1>12. /\ l + r <= t
       /\ t <= 2 * p
       /\ numBufferedBytes = 0 \/ bufferedByte = 255 => t <= p
  BY <1>4, <1>5, <1>7, <1>8, <1>9
<1> HIDE DEF p, t, w, s
<1> QED BY <1>10, <1>11, <1>12 DEF Fits

(* What a call leaves in the engine. *)
EngineOK ==
  /\ low \in Nat
  /\ range \in 256..510
  /\ bitsLeft \in 12..23
  /\ numBufferedBytes \in Nat
  /\ bufferedByte \in 0..255
  /\ CarryHasRoom
  /\ aborted = FALSE

(* writeOut() keeps the engine's invariant: the lead byte is below 512, and*)
(* below 256 where no byte can take a carry; behind a lead byte of 0xff    *)
(* without carry the interval ends before the next carry.                  *)
LEMMA WriteOutOK ==
  ASSUME EngineOK, NEW l \in Nat, NEW r \in 256..510, NEW b \in 4..11,
         Fits(l, r, b), WriteOut(l, b), range' = r
  PROVE  EngineOK'
<1> DEFINE w == Pow2(24 - b)
           leadByte == l \div w
           rest == l % w
           carry == leadByte \div 256
<1>1. w \in Nat /\ w >= 8192 /\ Pow2(32 - b) = 256 * w /\ Pow2(32 - (b + 8)) = w
  BY PowerTable
<1>2. leadByte \in Nat /\ rest \in 0..w - 1 /\ l = w * leadByte + rest
  <2>1. CASE b \in 4..7  BY <2>1, PowerTable
  <2>2. CASE b \in 8..11  BY <2>2, PowerTable
  <2> QED BY <2>1, <2>2
<1>3. /\ l + r <= 512 * w
      /\ numBufferedBytes = 0 \/ bufferedByte = 255 => l + r <= 256 * w
  BY <1>1 DEF Fits
<1>4. leadByte < 512 /\ (numBufferedBytes = 0 \/ bufferedByte = 255 => leadByte < 256)
  <2> HIDE DEF w, leadByte, rest
  <2>1. ASSUME NEW m \in Nat, leadByte >= m PROVE w * leadByte >= w * m
    BY <1>1, <1>2, <2>1
  <2>2. leadByte >= 512 => w * leadByte >= w * 512  BY <2>1
  <2>3. leadByte >= 256 => w * leadByte >= w * 256  BY <2>1
  <2>4. w * leadByte \in Nat  BY <1>1, <1>2
  <2> DEFINE p == w * leadByte
  <2>5. p \in Nat /\ l = p + rest /\ (leadByte >= 512 => p >= 512 * w)
        /\ (leadByte >= 256 => p >= 256 * w)
    BY <1>1, <1>2, <2>2, <2>3, <2>4
  <2> HIDE DEF p
  <2> QED BY <1>1, <1>2, <1>3, <2>5
<1>5. leadByte = 255 => l = 255 * w + rest
  <2> HIDE DEF w, leadByte, rest
  <2> QED BY <1>1, <1>2
<1>6. leadByte = 511 => l = 511 * w + rest
  <2> HIDE DEF w, leadByte, rest
  <2> QED BY <1>1, <1>2
<1>7. carry \in 0..1 /\ (carry = 1 <=> leadByte >= 256)
  <2> HIDE DEF leadByte
  <2> QED BY <1>2, <1>4
<1>8. low' = rest /\ bitsLeft' = b + 8 /\ bitsLeft' \in 12..19  BY DEF WriteOut, Remaining
<1>9. /\ low' \in Nat
      /\ low' + range' <= 2 * Pow2(32 - bitsLeft')
  <2> HIDE DEF w, leadByte, rest
  <2> QED BY <1>1, <1>2, <1>8
<1>10. \/ /\ leadByte = 255
          /\ numBufferedBytes' = numBufferedBytes + 1
          /\ bufferedByte' = bufferedByte /\ aborted' = aborted
       \/ /\ leadByte # 255 /\ numBufferedBytes > 0
          /\ numBufferedBytes' = 1
          /\ bufferedByte' = leadByte % 256
          /\ aborted' = (aborted \/ bufferedByte + carry > 255)
       \/ /\ leadByte # 255 /\ ~ (numBufferedBytes > 0)
          /\ numBufferedBytes' = 1
          /\ bufferedByte' = leadByte /\ aborted' = aborted
  BY DEF WriteOut
<1> HIDE DEF w, leadByte, rest, carry
<1>11. CASE leadByte = 255 /\ numBufferedBytes' = numBufferedBytes + 1
            /\ bufferedByte' = bufferedByte /\ aborted' = aborted
  <2>1. bufferedByte' = 255 => low' + range' <= Pow2(32 - bitsLeft')
    BY <1>1, <1>2, <1>3, <1>5, <1>8, <1>11
  <2> QED BY <2>1, <1>8, <1>9, <1>11 DEF EngineOK, CarryHasRoom
<1>12. CASE /\ leadByte # 255 /\ numBufferedBytes > 0
            /\ numBufferedBytes' = 1
            /\ bufferedByte' = leadByte % 256
            /\ aborted' = (aborted \/ bufferedByte + carry > 255)
  <2>1. ~ (bufferedByte + carry > 255)  BY <1>2, <1>4, <1>7 DEF EngineOK
  <2>2. bufferedByte' \in 0..255 /\ (bufferedByte' = 255 => leadByte = 511)
    BY <1>2, <1>4, <1>12
  <2>3. bufferedByte' = 255 => low' + range' <= Pow2(32 - bitsLeft')
    BY <1>1, <1>2, <1>3, <1>6, <1>8, <2>2
  <2>4. aborted' = FALSE  BY <2>1, <1>12, Zenon DEF EngineOK
  <2> QED BY <2>2, <2>3, <2>4, <1>8, <1>9, <1>12 DEF EngineOK, CarryHasRoom
<1>13. CASE /\ leadByte # 255 /\ ~ (numBufferedBytes > 0)
            /\ numBufferedBytes' = 1
            /\ bufferedByte' = leadByte /\ aborted' = aborted
  <2>1. bufferedByte' \in 0..254  BY <1>2, <1>4, <1>13 DEF EngineOK
  <2> QED BY <2>1, <1>8, <1>9, <1>13 DEF EngineOK, CarryHasRoom
<1> QED BY <1>10, <1>11, <1>12, <1>13

(* A call moves the registers to l, r and n bits to the left. *)
LEMMA MoveOK ==
  ASSUME EngineOK, NEW n \in 0..8, NEW l \in Nat, NEW r \in 256..510,
         l + r <= (low + range) * Pow2(n),
         TestAndWriteOut(l, bitsLeft - n), range' = r
  PROVE  EngineOK'
<1>1. Fits(l, r, bitsLeft - n)
  BY ScaleFits DEF EngineOK
<1>2. bitsLeft - n \in 4..23  BY DEF EngineOK
<1>3. CASE bitsLeft - n < 12
  <2>1. bitsLeft - n \in 4..11 /\ WriteOut(l, bitsLeft - n)
    BY <1>2, <1>3 DEF TestAndWriteOut
  <2> QED BY <1>1, <2>1, WriteOutOK
<1>4. CASE ~ (bitsLeft - n < 12)
  <2>1. /\ low' = l /\ bitsLeft' = bitsLeft - n /\ bitsLeft' \in 12..23
        /\ numBufferedBytes' = numBufferedBytes /\ bufferedByte' = bufferedByte
        /\ aborted' = aborted
    BY <1>2, <1>4 DEF TestAndWriteOut
  <2> QED BY <1>1, <2>1 DEF EngineOK, Fits, CarryHasRoom
<1> QED BY <1>3, <1>4

(* The case of one bit. *)
LEMMA MoveByOneOK ==
  ASSUME EngineOK, NEW l \in Nat, NEW r \in 256..510,
         l + r <= 2 * (low + range),
         TestAndWriteOut(l, bitsLeft - 1), range' = r
  PROVE  EngineOK'
<1>1. Pow2(1) = 2 /\ 1 \in 0..8  BY PowerTable
<1>2. 2 * (low + range) = (low + range) * Pow2(1)  BY <1>1 DEF EngineOK
<1>3. l + r <= (low + range) * Pow2(1)  BY <1>2
<1> QED BY <1>1, <1>3, MoveOK

-----------------------------------------------------------------------------
(* The calls, one lemma each.                                              *)

(* A regular bin. *)
LEMMA EncodeBinOK ==
  ASSUME EngineOK, NEW e \in [op : {"bin"}, c : Contexts, v : {0, 1}],
         ctx \in [Contexts -> CodingContext], EncodeBin(e)
  PROVE  EngineOK' /\ ctx' \in [Contexts -> CodingContext]
<1> DEFINE context == ctx[e.c]
           lps == LpsRange(context, range)
           mps == range - lps
           n == Renorm(lps)
<1>1. context \in CodingContext  OBVIOUS
<1>2. range \in 256..510 /\ low \in Nat  BY DEF EngineOK
<1>3. lps \in 6..240 /\ mps >= 128  BY <1>1, <1>2, LpsTable
<1>4. n \in 1..6 /\ lps * Pow2(n) \in 256..510  BY <1>3, RenormTable
<1>5. UpdateLps(context) \in CodingContext /\ UpdateMps(context) \in CodingContext
  BY <1>1, LpsClosed, MpsClosed
<1>6. ctx' \in [Contexts -> CodingContext]  BY <1>5 DEF EncodeBin
<1>7. CASE /\ range' = lps * Pow2(n)
           /\ TestAndWriteOut((low + mps) * Pow2(n), bitsLeft - n)
  <2> HIDE DEF context, n
  <2>1. Pow2(n) \in Nat  BY <1>4, PowerTable
  <2>2. mps \in Nat /\ mps + lps = range  BY <1>2, <1>3
  <2> HIDE DEF lps, mps
  <2>3. (low + mps) * Pow2(n) \in Nat  BY <1>2, <2>1, <2>2
  <2>4. (low + mps) * Pow2(n) + lps * Pow2(n) <= (low + range) * Pow2(n)
    <3>1. lps \in Nat /\ low + range = (low + mps) + lps  BY <1>2, <1>3, <2>2
    <3>2. \A a, b, p \in Nat : a * p + b * p = (a + b) * p  OBVIOUS
    <3>3. low + mps \in Nat  BY <1>2, <2>2
    <3>4. (low + mps) * Pow2(n) + lps * Pow2(n) = (low + range) * Pow2(n)
      BY <3>1, <3>2, <3>3, <2>1
    <3> QED BY <2>1, <2>3, <3>4, <1>4
  <2>5. n \in 0..8  BY <1>4
  <2>6. EngineOK'  BY <1>4, <1>7, <2>3, <2>4, <2>5, MoveOK
  <2> QED BY <2>6, <1>6
<1>8. CASE mps < 256 /\ range' = 2 * mps /\ TestAndWriteOut(2 * low, bitsLeft - 1)
  <2>1. 2 * mps \in 256..510 /\ 2 * low \in Nat
        /\ 2 * low + 2 * mps <= 2 * (low + range)
    <3> HIDE DEF lps
    <3> QED BY <1>2, <1>3, <1>8
  <2> HIDE DEF mps
  <2>2. EngineOK'  BY <1>8, <2>1, MoveByOneOK
  <2> QED BY <2>2, <1>6
<1>9. CASE ~ (mps < 256) /\ range' = mps
           /\ UNCHANGED <<low, bitsLeft, numBufferedBytes, bufferedByte, out, aborted>>
  <2>1. mps \in 256..510 /\ mps <= range
    <3> HIDE DEF lps
    <3> QED BY <1>2, <1>3, <1>9
  <2> HIDE DEF mps
  <2>2. Pow2(32 - bitsLeft) \in Nat  BY RegisterWidth DEF EngineOK
  <2>3. EngineOK'  BY <1>9, <2>1, <2>2 DEF EngineOK, CarryHasRoom
  <2> QED BY <2>3, <1>6
<1> QED BY <1>7, <1>8, <1>9 DEF EncodeBin

(* A terminating bin. *)
LEMMA EncodeBinTrmOK ==
  ASSUME EngineOK, NEW e, EncodeBinTrm(e)
  PROVE  EngineOK' /\ ctx' = ctx
<1>1. range \in 256..510 /\ low \in Nat  BY DEF EngineOK
<1>2. CASE range' = 256 /\ TestAndWriteOut((low + range - 2) * 128, bitsLeft - 7)
  <2>1. (low + range - 2) * 128 \in Nat
        /\ (low + range - 2) * 128 + 256 <= (low + range) * Pow2(7)
    BY <1>1, PowerTable
  <2> QED BY <1>2, <2>1, MoveOK DEF EncodeBinTrm
<1>3. CASE /\ range - 2 >= 256 /\ range' = range - 2
           /\ UNCHANGED <<low, bitsLeft, numBufferedBytes, bufferedByte, out, aborted>>
  <2>1. Pow2(32 - bitsLeft) \in Nat  BY RegisterWidth DEF EngineOK
  <2> QED BY <1>3, <2>1 DEF EngineOK, CarryHasRoom, EncodeBinTrm
<1>4. CASE range - 2 < 256 /\ range' = 2 * (range - 2) /\ TestAndWriteOut(2 * low, bitsLeft - 1)
  <2>1. 2 * (range - 2) \in 256..510 /\ 2 * low \in Nat
        /\ 2 * low + 2 * (range - 2) <= 2 * (low + range)
    BY <1>1, <1>4
  <2> QED BY <1>4, <2>1, MoveByOneOK DEF EncodeBinTrm
<1> QED BY <1>2, <1>3, <1>4 DEF EncodeBinTrm

(* Division as the chunks of bypass bins need it. *)
LEMMA Quotient ==
  ASSUME NEW v \in Nat, NEW p \in Nat \ {0}, NEW q \in Nat, v < q * p
  PROVE  v \div p \in Nat /\ v \div p < q /\ v % p \in 0..p - 1
<1>1. v \div p \in Nat  OBVIOUS
<1>2. v \div p < q  OBVIOUS
<1>3. v % p \in 0..p - 1  OBVIOUS
<1> QED BY <1>1, <1>2, <1>3

(* One factor more leaves room for one term more. *)
LEMMA Product ==
  ASSUME NEW a \in Nat, NEW b \in Nat, NEW c \in Nat, b < c
  PROVE  a * b + a <= a * c
OBVIOUS

(* A chunk takes the upper bins of a call and leaves a call. *)
LEMMA ChunkOK ==
  ASSUME NEW e \in Call, e.op = "ep"
  PROVE  LET n    == IF e.n > 8 THEN 8 ELSE e.n
             bins == e.v \div Pow2(e.n - n)
         IN /\ n \in 0..8
            /\ bins \in Nat /\ bins < Pow2(n)
            /\ e.n > 8 => [op |-> "ep", v |-> e.v % Pow2(e.n - 8), n |-> e.n - 8] \in Call
<1>1. e.n \in 0..30 /\ e.v \in Nat /\ e.v < Pow2(e.n)  BY DEF Call, MaxBins
<1>2. CASE e.n <= 8
  <2>1. Pow2(e.n - e.n) = 1  BY <1>1, PowerTable
  <2>2. e.v \div 1 = e.v  BY <1>1
  <2> QED BY <1>1, <1>2, <2>1, <2>2
<1>3. CASE e.n > 8
  <2> DEFINE p == Pow2(e.n - 8)
  <2>1. p \in Nat \ {0} /\ Pow2(e.n) = 256 * p /\ Pow2(8) = 256
    <3>1. CASE e.n \in 9..16  BY <3>1, PowerTable
    <3>2. CASE e.n \in 17..24  BY <3>2, PowerTable
    <3>3. CASE e.n \in 25..30  BY <3>3, PowerTable
    <3> QED BY <1>1, <1>3, <3>1, <3>2, <3>3
  <2>2. e.v \in Nat /\ e.v < 256 * p  BY <1>1, <2>1
  <2>3. e.v \div p \in Nat /\ e.v \div p < 256 /\ e.v % p \in 0..p - 1
    <3> DEFINE v == e.v
    <3>1. v \in Nat /\ 256 \in Nat /\ p \in Nat \ {0} /\ v < 256 * p  BY <2>1, <2>2
    <3> HIDE DEF p, v
    <3>2. v \div p \in Nat /\ v \div p < 256 /\ v % p \in 0..p - 1  BY <3>1, Quotient
    <3> QED BY <3>2 DEF v
  <2>5. [op |-> "ep", v |-> e.v % p, n |-> e.n - 8] \in Call
    <3>1. e.n - 8 \in 0..MaxBins /\ e.v % p \in Nat /\ e.v % p < Pow2(e.n - 8)
      BY <1>1, <1>3, <2>1, <2>3 DEF MaxBins
    <3> HIDE DEF p
    <3> QED BY <3>1 DEF Call
  <2> QED BY <1>3, <2>1, <2>3, <2>5
<1> QED BY <1>1, <1>2, <1>3

(* A chunk of bypass bins. *)
LEMMA EncodeBinsOK ==
  ASSUME EngineOK, calls \in Seq(Call), calls # << >>,
         NEW e, e = Head(calls), e.op = "ep", EncodeBinsEP(e)
  PROVE  EngineOK' /\ ctx' = ctx /\ calls' \in Seq(Call)
<1> DEFINE n == IF e.n > 8 THEN 8 ELSE e.n
           bins == e.v \div Pow2(e.n - n)
           rest == [op |-> "ep", v |-> e.v % Pow2(e.n - 8), n |-> e.n - 8]
<1>1. e \in Call /\ Tail(calls) \in Seq(Call)  BY HeadTailProperties
<1>2. /\ n \in 0..8
      /\ bins \in Nat /\ bins < Pow2(n)
      /\ e.n > 8 => rest \in Call
  BY <1>1, ChunkOK
<1>3. /\ TestAndWriteOut(low * Pow2(n) + range * bins, bitsLeft - n)
      /\ calls' = IF e.n > 8 THEN <<rest>> \o Tail(calls) ELSE Tail(calls)
      /\ range' = range /\ ctx' = ctx
  BY DEF EncodeBinsEP
<1> HIDE DEF n, bins, rest
<1>4. calls' \in Seq(Call)
  <2>1. CASE e.n > 8
    <3>1. <<rest>> \in Seq(Call)  BY <1>2, <2>1
    <3> QED BY <1>1, <1>3, <2>1, <3>1, ConcatProperties
  <2> QED BY <1>1, <1>3, <2>1
<1>5. low \in Nat /\ range \in 256..510 /\ Pow2(n) \in Nat
  <2>1. n \in 0..8  BY <1>2
  <2>2. Pow2(n) \in Nat  BY <2>1, ShiftWidth
  <2>3. low \in Nat /\ range \in 256..510  BY DEF EngineOK
  <2> QED BY <2>2, <2>3
<1>6. low * Pow2(n) + range * bins \in Nat  BY <1>2, <1>5
<1>7. low * Pow2(n) + range * bins + range <= (low + range) * Pow2(n)
  <2>2. range * bins + range <= range * Pow2(n)  BY <1>2, <1>5, Product
  <2>3. (low + range) * Pow2(n) = low * Pow2(n) + range * Pow2(n)  BY <1>5
  <2>4. low * Pow2(n) \in Nat /\ range * bins \in Nat /\ range * Pow2(n) \in Nat
    BY <1>2, <1>5
  <2> QED BY <1>5, <2>2, <2>3, <2>4
<1>8. EngineOK'  BY <1>2, <1>3, <1>5, <1>6, <1>7, MoveOK
<1> QED BY <1>3, <1>4, <1>8

(* The end of a substream, and the bits before PCM samples. *)
LEMMA FlushOK ==
  ASSUME EngineOK, NEW e, Flush(e)
  PROVE  EngineOK' /\ ctx' = ctx
<1> DEFINE width == Pow2(32 - bitsLeft)
           carry == IF low >= width THEN 1 ELSE 0
           rest == low - carry * width
<1>1. /\ low \in Nat /\ range \in 256..510 /\ bufferedByte \in 0..255
      /\ low + range <= 2 * width
      /\ bufferedByte = 255 => low + range <= width
  BY DEF EngineOK, CarryHasRoom
<1>2. width = 256 * Pow2(24 - bitsLeft) /\ Pow2(24 - bitsLeft) \in Nat
  BY PowerTable DEF EngineOK
<1>3. ~ (carry = 1 /\ bufferedByte = 255)
  <2> HIDE DEF width
  <2> QED BY <1>1, <1>2
<1>4. rest \in Nat /\ rest < width
  <2>1. carry * width = IF low >= width THEN width ELSE 0
    <3> HIDE DEF width
    <3> QED BY <1>2
  <2> HIDE DEF width, carry
  <2> QED BY <1>1, <1>2, <2>1
<1>5. ~ (rest \div 256 >= Pow2(24 - bitsLeft))
  <2> HIDE DEF width, carry, rest
  <2> QED BY <1>2, <1>4
<1>6. aborted' = (aborted \/ (carry = 1 /\ bufferedByte = 255)
                         \/ rest \div 256 >= Pow2(24 - bitsLeft))
  BY Zenon DEF Flush
<1>7. aborted' = FALSE
  <2> HIDE DEF carry, rest
  <2> QED BY <1>3, <1>5, <1>6, Zenon DEF EngineOK
<1>8. Start /\ ctx' = ctx  BY DEF Flush
<1> QED BY <1>7, <1>8, PowerTable DEF EngineOK, Start, CarryHasRoom

-----------------------------------------------------------------------------
(* The inductive invariant. *)
IInv == EngineOK /\ ctx \in [Contexts -> CodingContext] /\ calls \in Seq(Call)

(* The invariant holds at the start. *)
LEMMA InitIInv == EncoderInit => IInv
<1> SUFFICES ASSUME EncoderInit PROVE IInv  OBVIOUS
<1>1. ctx \in [Contexts -> CodingContext]
  <2>1. PICK qp \in QPs : ctx \in [Contexts -> {InitContext(qp, v) : v \in InitValues}]
    BY DEF EncoderInit
  <2>2. \A v \in InitValues : InitContext(qp, v) \in CodingContext
    BY InitContextIsCoding, InitAssumption
  <2> QED BY <2>1, <2>2
<1>2. Pow2(32 - 23) = 512  BY PowerTable
<1> QED BY <1>1, <1>2 DEF EncoderInit, IInv, EngineOK, CarryHasRoom

(* Every call keeps it. *)
LEMMA NextIInv == IInv /\ [EncoderNext]_encVars => IInv'
<1> SUFFICES ASSUME IInv, [EncoderNext]_encVars PROVE IInv'  OBVIOUS
<1>1. CASE Begin
  BY <1>1 DEF Begin, registers, IInv, EngineOK, CarryHasRoom
<1>2. ASSUME calls # << >>, NEW e, e = Head(calls),
             e.op = "bin" /\ EncodeBin(e)
      PROVE  IInv'
  <2>1. e \in [op : {"bin"}, c : Contexts, v : {0, 1}] /\ Tail(calls) \in Seq(Call)
    <3>1. e \in Call /\ Tail(calls) \in Seq(Call)  BY <1>2, HeadTailProperties DEF IInv
    <3> QED BY <3>1, <1>2 DEF Call
  <2>2. EngineOK' /\ ctx' \in [Contexts -> CodingContext]  BY <1>2, <2>1, EncodeBinOK DEF IInv
  <2>3. calls' = Tail(calls)  BY <1>2 DEF EncodeBin, Returns
  <2> QED BY <2>1, <2>2, <2>3 DEF IInv
<1>3. ASSUME calls # << >>, NEW e, e = Head(calls),
             e.op = "ep" /\ EncodeBinsEP(e)
      PROVE  IInv'
  BY <1>3, EncodeBinsOK DEF IInv
<1>4. ASSUME calls # << >>, Align
      PROVE  IInv'
  <2>1. Tail(calls) \in Seq(Call)  BY <1>4, HeadTailProperties DEF IInv
  <2> DEFINE width == Pow2(32 - bitsLeft)
  <2>2. width \in Nat  BY RegisterWidth DEF IInv, EngineOK
  <2>3. /\ range' = 256 /\ calls' = Tail(calls) /\ width' = width
        /\ UNCHANGED <<low, bitsLeft, numBufferedBytes, bufferedByte, ctx, aborted>>
    BY <1>4 DEF Align, Returns
  <2>4. /\ low \in Nat /\ range \in 256..510 /\ low + range <= 2 * width
        /\ numBufferedBytes = 0 \/ bufferedByte = 255 => low + range <= width
    BY DEF IInv, EngineOK, CarryHasRoom
  <2> HIDE DEF width
  <2>5. /\ low + 256 <= 2 * width
        /\ numBufferedBytes = 0 \/ bufferedByte = 255 => low + 256 <= width
    BY <2>2, <2>4
  <2>6. CarryHasRoom'
    BY <2>3, <2>5 DEF CarryHasRoom, width
  <2> QED BY <2>1, <2>3, <2>6 DEF IInv, EngineOK
<1>5. ASSUME calls # << >>, NEW e, EncodeBinTrm(e)
      PROVE  IInv'
  <2>1. Tail(calls) \in Seq(Call)  BY <1>5, HeadTailProperties DEF IInv
  <2>2. EngineOK' /\ ctx' = ctx  BY <1>5, EncodeBinTrmOK DEF IInv
  <2>3. calls' = Tail(calls)  BY <1>5 DEF EncodeBinTrm, Returns
  <2> QED BY <2>1, <2>2, <2>3 DEF IInv
<1>6. ASSUME calls # << >>, NEW e, Flush(e)
      PROVE  IInv'
  <2>1. Tail(calls) \in Seq(Call)  BY <1>6, HeadTailProperties DEF IInv
  <2>2. EngineOK' /\ ctx' = ctx  BY <1>6, FlushOK DEF IInv
  <2>3. calls' = Tail(calls)  BY <1>6 DEF Flush, Returns
  <2> QED BY <2>1, <2>2, <2>3 DEF IInv
<1>7. CASE Encode
  <2> DEFINE e == Head(calls)
  <2>1. calls # << >>  BY <1>7 DEF Encode
  <2>2. \/ e.op = "bin" /\ EncodeBin(e)
        \/ e.op = "ep" /\ EncodeBinsEP(e)
        \/ Align
        \/ EncodeBinTrm(e)
        \/ Flush(e)
    BY <1>7 DEF Encode
  <2> QED BY <1>2, <1>3, <1>4, <1>5, <1>6, <2>1, <2>2
<1>8. CASE UNCHANGED encVars
  BY <1>8 DEF encVars, registers, IInv, EngineOK, CarryHasRoom
<1> QED BY <1>1, <1>7, <1>8 DEF EncoderNext

(* The inductive invariant holds of every behaviour of the encoder. *)
THEOREM EncoderInvariant == EncoderSpec => []IInv
BY InitIInv, NextIInv, PTL DEF EncoderSpec

(* Registers stay in the ranges the code's shifts rely on: range in        *)
(* 256..510, twelve to twenty-three bits left, contexts in coding states.  *)
THEOREM EncoderTypes == EncoderSpec => []EncoderTypeOK
<1>1. IInv => EncoderTypeOK  BY DEF IInv, EngineOK, EncoderTypeOK
<1> QED BY <1>1, EncoderInvariant, PTL

(* A carry always finds a byte that waits and is not 0xff: the assertions  *)
(* in comments at TEncBinCoderCABAC.cpp:85-86.                             *)
THEOREM CarriesHaveRoom == EncoderSpec => []CarryHasRoom
<1>1. IInv => CarryHasRoom  BY DEF IInv, EngineOK
<1> QED BY <1>1, EncoderInvariant, PTL

(* No write of the encoder is wider than the bits it is given: the assert  *)
(* of TComOutputBitstream::write(), TComBitStream.cpp:113, never fires.    *)
THEOREM AllWritesFit == EncoderSpec => []WritesFit
<1>1. IInv => WritesFit  BY DEF IInv, EngineOK, WritesFit
<1> QED BY <1>1, EncoderInvariant, PTL
=============================================================================
