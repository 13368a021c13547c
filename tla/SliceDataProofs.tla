--------------------------- MODULE SliceDataProofs ---------------------------
(***************************************************************************)
(* Proofs about SliceData, for pictures of every size, all tile columns    *)
(* and rows, and every pair of slice options: the state has its type, the  *)
(* slices and segments are legal, the trial pass and the decoder are in    *)
(* step with the encoder.                                                  *)
(***************************************************************************)
EXTENDS SliceData, FiniteSetTheorems, SequenceTheorems, WellFoundedInduction, TLAPS


-----------------------------------------------------------------------------
(* Arithmetic.                                                             *)
LEMMA TimesOrder ==
  ASSUME NEW a \in Nat, NEW b \in Nat, NEW c \in Nat, a <= b
  PROVE  a * c <= b * c
<1>1. PICK d \in Nat : b = a + d
  <2>1. b - a \in Nat /\ b = a + (b - a)
    OBVIOUS
  <2> QED
    BY <2>1
<1>2. b * c = a * c + d * c
  BY <1>1
<1>3. d * c \in Nat /\ a * c \in Nat
  BY <1>1
<1> QED
  BY <1>2, <1>3

LEMMA Division ==
  ASSUME NEW a \in Nat, NEW b \in Nat \ {0}
  PROVE  /\ a \div b \in Nat /\ a % b \in 0..b - 1
         /\ a = (a \div b) * b + (a % b)
OBVIOUS

LEMMA DivisionUnique ==
  ASSUME NEW b \in Nat \ {0}, NEW q \in Nat, NEW r \in 0..b - 1
  PROVE  q * b + r \in Nat /\ (q * b + r) \div b = q /\ (q * b + r) % b = r
<1> DEFINE a == q * b + r
           p == a \div b
           s == a % b
<1>1. a \in Nat
  OBVIOUS
<1>2. p \in Nat /\ s \in 0..b - 1 /\ a = p * b + s
  BY <1>1, Division
<1>3. a = q * b + r
  OBVIOUS
<1> HIDE DEF a, p, s
<1>4. ~(p < q)
  <2> SUFFICES ASSUME p < q PROVE FALSE
    OBVIOUS
  <2>1. (p + 1) * b <= q * b
    BY <1>2, TimesOrder
  <2>2. (p + 1) * b = p * b + b
    BY <1>2
  <2>3. p * b \in Nat /\ q * b \in Nat
    BY <1>2
  <2> QED
    BY <1>2, <1>3, <2>1, <2>2, <2>3
<1>5. ~(q < p)
  <2> SUFFICES ASSUME q < p PROVE FALSE
    OBVIOUS
  <2>1. (q + 1) * b <= p * b
    BY <1>2, TimesOrder
  <2>2. (q + 1) * b = q * b + b
    OBVIOUS
  <2>3. p * b \in Nat /\ q * b \in Nat
    BY <1>2
  <2> QED
    BY <1>2, <1>3, <2>1, <2>2, <2>3
<1>6. p = q
  BY <1>2, <1>4, <1>5
<1>7. s = r
  <2>1. q * b \in Nat
    OBVIOUS
  <2> QED
    BY <1>2, <1>3, <1>6, <2>1
<1> QED
  BY <1>1, <1>6, <1>7 DEF a, p, s

LEMMA QuotientBelow ==
  ASSUME NEW a \in Nat, NEW b \in Nat \ {0}, NEW n \in Nat, a < n * b
  PROVE  a \div b < n
<1>1. a \div b \in Nat /\ a % b \in 0..b - 1 /\ a = (a \div b) * b + (a % b)
  BY Division
<1> DEFINE p == a \div b
           s == a % b
<1> SUFFICES ASSUME n <= p PROVE FALSE
  BY <1>1
<1>2. n * b <= p * b
  BY <1>1, TimesOrder
<1>3. p \in Nat /\ s \in Nat /\ a = p * b + s
  BY <1>1
<1> HIDE DEF p, s
<1>4. p * b \in Nat /\ n * b \in Nat
  BY <1>3
<1> QED
  BY <1>2, <1>3, <1>4

(* A set of numbers that is not empty has a least one.                     *)
LEMMA LeastNumber ==
  ASSUME NEW T \in SUBSET Nat, T # {}
  PROVE  \E n \in T : \A m \in T : n <= m
<1> DEFINE Below(n) == 0..n - 1
           R == StrictSubsetOrdering(Nat)
           U == {Below(n) : n \in T}
<1>1. U \subseteq FiniteSubsetsOf(Nat) /\ U # {}
  <2>1. ASSUME NEW n \in Nat PROVE IsFiniteSet(Below(n)) /\ Below(n) \subseteq Nat
    BY FS_Interval
  <2> QED
    BY <2>1 DEF FiniteSubsetsOf
<1>2. PICK x \in U : \A y \in U : ~(<<y, x>> \in R)
  <2>1. IsWellFoundedOn(R, FiniteSubsetsOf(Nat))
    BY FS_StrictSubsetOrderingWellFounded
  <2> HIDE DEF R, U
  <2> QED
    BY <1>1, <2>1, WFMin
<1>3. PICK n \in T : x = Below(n)
  OBVIOUS
<1>4. ASSUME NEW m \in T, m < n PROVE FALSE
  <2>1. Below(m) \subseteq Below(n) /\ n - 1 \in Below(n) /\ n - 1 \notin Below(m)
    BY <1>4
  <2>2. <<Below(m), x>> \in R
    BY <1>3, <2>1 DEF StrictSubsetOrdering
  <2> QED
    BY <1>2, <2>2
<1> QED
  BY <1>4

(* So a set of numbers that holds 0 and, with a number below n, the next   *)
(* one, holds the numbers up to n.                                         *)
LEMMA Induction ==
  ASSUME NEW n \in Nat, NEW P, 0 \in P,
         \A i \in 0..n - 1 : i \in P => i + 1 \in P
  PROVE  \A i \in 0..n : i \in P
<1> DEFINE T == {i \in 0..n : i \notin P}
<1> SUFFICES ASSUME T # {} PROVE FALSE
  OBVIOUS
<1>1. PICK i \in T : \A j \in T : i <= j
  <2>1. T \in SUBSET Nat
    OBVIOUS
  <2> HIDE DEF T
  <2> QED
    BY <2>1, LeastNumber
<1>2. i \in Nat /\ i <= n /\ i # 0 /\ i \notin P
  OBVIOUS
<1>3. i - 1 \in 0..n - 1 /\ ~(i <= i - 1) /\ (i - 1) + 1 = i /\ i - 1 \in 0..n
  BY <1>2
<1>4. i - 1 \in P
  BY <1>1, <1>3
<1> QED
  BY <1>2, <1>3, <1>4

(* A function that is defined by recursion over numbers exists.            *)
IsRecursive(f, n, S, a, step) ==
  f \in [0..n -> S] /\ f[0] = a /\ \A i \in 1..n : f[i] = step[i][f[i - 1]]

LEMMA Recursion ==
  ASSUME NEW n \in Nat, NEW S, NEW a \in S, NEW step \in [1..n -> [S -> S]]
  PROVE  \E f : IsRecursive(f, n, S, a, step)
<1> DEFINE Until(f, m) == \A i \in 0..m : f[i] = IF i = 0 THEN a ELSE step[i][f[i - 1]]
           P == {m \in 0..n : \E f \in [0..n -> S] : Until(f, m)}
<1>1. 0 \in P
  <2> DEFINE f == [i \in 0..n |-> a]
  <2>1. f \in [0..n -> S] /\ 0 \in 0..n
    OBVIOUS
  <2>2. \A i \in 0..0 : i = 0
    OBVIOUS
  <2>3. f[0] = a
    BY <2>1
  <2> HIDE DEF f
  <2>4. Until(f, 0)
    BY <2>2, <2>3
  <2> QED
    BY <2>1, <2>4
<1>2. ASSUME NEW m \in 0..n - 1, m \in P PROVE m + 1 \in P
  <2>1. PICK f \in [0..n -> S] : Until(f, m)
    BY <1>2
  <2>2. m \in Nat /\ m + 1 \in 1..n /\ m \in 0..n /\ m + 1 \in 0..n /\ (m + 1) - 1 = m
    OBVIOUS
  <2> DEFINE v == step[m + 1][f[m]]
             g == [i \in 0..n |-> IF i = m + 1 THEN v ELSE f[i]]
  <2>3. v \in S
    BY <2>2
  <2> HIDE DEF v
  <2>4. g \in [0..n -> S]
    BY <2>3
  <2>5. ASSUME NEW i \in 0..m + 1
        PROVE  g[i] = IF i = 0 THEN a ELSE step[i][g[i - 1]]
    <3>1. CASE i = m + 1
      <4>1. g[i] = v /\ g[i - 1] = f[m] /\ i # 0
        BY <2>2, <3>1
      <4> QED
        BY <3>1, <4>1 DEF v
    <3>2. CASE i # m + 1
      <4>1. i \in 0..m /\ i \in 0..n /\ (i # 0 => i - 1 \in 0..n /\ i - 1 # m + 1)
        BY <2>2, <3>2
      <4>2. g[i] = f[i] /\ (i # 0 => g[i - 1] = f[i - 1])
        BY <3>2, <4>1
      <4> QED
        BY <2>1, <4>1, <4>2
    <3> QED
      BY <3>1, <3>2
  <2> HIDE DEF g
  <2>6. Until(g, m + 1)
    BY <2>5
  <2> QED
    BY <2>2, <2>4, <2>6
<1>3. n \in P
  <2>1. \A m \in 0..n - 1 : m \in P => m + 1 \in P
    BY <1>2
  <2> HIDE DEF P
  <2>2. \A m \in 0..n : m \in P
    BY <1>1, <2>1, Induction
  <2> QED
    BY <2>2
<1>4. PICK f \in [0..n -> S] : Until(f, n)
  BY <1>3
<1>5. 0 \in 0..n /\ \A i \in 1..n : i \in 0..n /\ i # 0
  OBVIOUS
<1>6. f[0] = a /\ \A i \in 1..n : f[i] = step[i][f[i - 1]]
  BY <1>4, <1>5
<1>7. IsRecursive(f, n, S, a, step)
  BY <1>6 DEF IsRecursive
<1> QED
  BY <1>7

(* A picture with tiles as xInitTiles() makes them.                        *)
IsPicture(p) ==
  /\ p.width \in Nat \ {0} /\ p.height \in Nat \ {0}
  /\ AreEnds(p.columnEnds, p.width) /\ AreEnds(p.rowEnds, p.height)

(* The column or the row that holds a position.                            *)
Holding(ends, pos) == CHOOSE i \in DOMAIN ends : pos < ends[i] /\ \A j \in 1..i - 1 : ends[j] <= pos

LEMMA EndsLemma ==
  ASSUME NEW total \in Nat \ {0}, NEW ends, AreEnds(ends, total)
  PROVE  /\ Len(ends) \in Nat /\ Len(ends) > 0 /\ DOMAIN ends = 1..Len(ends)
         /\ \A i \in 1..Len(ends) : /\ Begin(ends, i) \in 0..total - 1 /\ ends[i] \in 1..total
                                    /\ Begin(ends, i) < ends[i]
         /\ Begin(ends, 1) = 0 /\ ends[Len(ends)] = total
         /\ \A i \in 1..Len(ends) - 1 : Begin(ends, i + 1) = ends[i] /\ ends[i] < total
         /\ \A i, j \in 1..Len(ends) : i < j => ends[i] <= Begin(ends, j)
<1>1. /\ Len(ends) \in Nat /\ Len(ends) > 0 /\ DOMAIN ends = 1..Len(ends)
      /\ \A i \in 1..Len(ends) : ends[i] \in 1..total
      /\ \A i, j \in 1..Len(ends) : i < j => ends[i] < ends[j]
      /\ ends[Len(ends)] = total
  BY DEF AreEnds
<1>2. ASSUME NEW i \in 1..Len(ends)
      PROVE  Begin(ends, i) \in 0..total - 1 /\ Begin(ends, i) < ends[i]
  <2>1. CASE i = 1
    BY <1>1, <2>1 DEF Begin
  <2>2. CASE i # 1
    <3>1. i - 1 \in 1..Len(ends) /\ i - 1 < i
      BY <1>1, <2>2
    <3>2. ends[i - 1] < ends[i] /\ ends[i] \in 1..total /\ ends[i - 1] \in 1..total
      BY <1>1, <3>1
    <3> QED
      BY <2>2, <3>2 DEF Begin
  <2> QED
    BY <2>1, <2>2
<1>3. ASSUME NEW i \in 1..Len(ends) - 1 PROVE Begin(ends, i + 1) = ends[i] /\ ends[i] < total
  <2>1. i \in 1..Len(ends) /\ Len(ends) \in 1..Len(ends) /\ i < Len(ends) /\ i + 1 # 1
        /\ (i + 1) - 1 = i
    BY <1>1
  <2> QED
    BY <1>1, <2>1 DEF Begin
<1>4. ASSUME NEW i \in 1..Len(ends), NEW j \in 1..Len(ends), i < j
      PROVE  ends[i] <= Begin(ends, j)
  <2>1. j # 1 /\ j - 1 \in 1..Len(ends) /\ (i = j - 1 \/ i < j - 1)
    BY <1>1, <1>4
  <2>2. ends[i] \in Nat /\ ends[j - 1] \in Nat
    BY <1>1, <2>1
  <2> QED
    BY <1>1, <2>1, <2>2 DEF Begin
<1> QED
  BY <1>1, <1>2, <1>3, <1>4 DEF Begin

LEMMA HoldingLemma ==
  ASSUME NEW total \in Nat \ {0}, NEW ends, AreEnds(ends, total), NEW pos \in 0..total - 1
  PROVE  /\ Holding(ends, pos) \in 1..Len(ends)
         /\ Begin(ends, Holding(ends, pos)) <= pos /\ pos < ends[Holding(ends, pos)]
         /\ \A i \in 1..Len(ends) : Begin(ends, i) <= pos /\ pos < ends[i] => i = Holding(ends, pos)
<1> DEFINE n == Len(ends)
           T == {i \in 1..n : pos < ends[i]}
           k == Holding(ends, pos)
<1>1. /\ n \in Nat /\ n > 0 /\ DOMAIN ends = 1..n /\ ends[n] = total
      /\ \A i \in 1..n : ends[i] \in Nat /\ Begin(ends, i) \in Nat
      /\ \A i, j \in 1..n : i < j => ends[i] <= Begin(ends, j)
  BY EndsLemma
<1> HIDE DEF n
<1>2. n \in T
  BY <1>1
<1>3. PICK i \in T : \A j \in T : i <= j
  <2>1. T \in SUBSET Nat
    BY <1>1
  <2> HIDE DEF T
  <2> QED
    BY <1>2, <2>1, LeastNumber
<1>4. i \in 1..n /\ pos < ends[i] /\ \A j \in 1..i - 1 : ends[j] <= pos
  <2> SUFFICES ASSUME NEW j \in 1..i - 1 PROVE ends[j] <= pos
    OBVIOUS
  <2>1. j \in 1..n /\ ~(i <= j)
    BY <1>1
  <2>2. ~(pos < ends[j])
    BY <1>3, <2>1
  <2> QED
    BY <1>1, <2>1, <2>2
<1>5. k \in 1..n /\ pos < ends[k] /\ \A j \in 1..k - 1 : ends[j] <= pos
  BY <1>1, <1>4 DEF Holding
<1> HIDE DEF k
<1>6. Begin(ends, k) <= pos
  <2>1. CASE k = 1
    BY <2>1 DEF Begin
  <2>2. CASE k # 1
    <3>1. k - 1 \in 1..k - 1
      BY <1>1, <1>5, <2>2
    <3> QED
      BY <1>5, <2>2, <3>1 DEF Begin
  <2> QED
    BY <2>1, <2>2
<1>7. ASSUME NEW j \in 1..n, Begin(ends, j) <= pos, pos < ends[j] PROVE j = k
  <2>1. ~(j < k)
    <3> SUFFICES ASSUME j < k PROVE FALSE
      OBVIOUS
    <3>1. ends[j] <= Begin(ends, k) /\ ends[j] \in Nat /\ Begin(ends, k) \in Nat
      BY <1>1, <1>5
    <3> QED
      BY <1>6, <1>7, <3>1
  <2>2. ~(k < j)
    <3> SUFFICES ASSUME k < j PROVE FALSE
      OBVIOUS
    <3>1. ends[k] <= Begin(ends, j) /\ ends[k] \in Nat /\ Begin(ends, j) \in Nat
      BY <1>1, <1>5
    <3> QED
      BY <1>5, <1>7, <3>1
  <2> QED
    BY <1>1, <1>5, <2>1, <2>2
<1> QED
  BY <1>5, <1>6, <1>7 DEF k, n

-----------------------------------------------------------------------------
(* Tiles.                                                                  *)
TileColumn(p, t) == (t % NumTileColumns(p)) + 1
TileRow(p, t)    == (t \div NumTileColumns(p)) + 1

LEMMA TilesLemma ==
  ASSUME NEW p, IsPicture(p)
  PROVE  /\ NumTileColumns(p) \in Nat \ {0} /\ Len(p.rowEnds) \in Nat \ {0}
         /\ NumTiles(p) \in Nat \ {0} /\ NumCtus(p) \in Nat \ {0}
         /\ NumTiles(p) = Len(p.rowEnds) * NumTileColumns(p)
         /\ p.width \in Nat \ {0} /\ p.height \in Nat \ {0}
<1> DEFINE n == Len(p.columnEnds)
           m == Len(p.rowEnds)
<1>1. n \in Nat \ {0} /\ m \in Nat \ {0}
  BY EndsLemma DEF IsPicture
<1>2. NumTileColumns(p) = n /\ NumTiles(p) = n * m /\ NumCtus(p) = p.width * p.height
  BY DEF NumTileColumns, NumTiles, NumCtus
<1>3. p.width \in Nat \ {0} /\ p.height \in Nat \ {0}
  BY DEF IsPicture
<1> HIDE DEF n, m
<1>4. n * m \in Nat \ {0} /\ n * m = m * n
  BY <1>1
<1>5. \A a, b \in Nat \ {0} : a * b \in Nat \ {0}
  OBVIOUS
<1> QED
  BY <1>1, <1>2, <1>3, <1>4, <1>5 DEF m

LEMMA TileLemma ==
  ASSUME NEW p, IsPicture(p), NEW t \in 0..NumTiles(p) - 1
  PROVE  LET tile == Tile(p, t) IN
         /\ TileRow(p, t) \in 1..Len(p.rowEnds) /\ TileColumn(p, t) \in 1..NumTileColumns(p)
         /\ t = (TileRow(p, t) - 1) * NumTileColumns(p) + TileColumn(p, t) - 1
         /\ tile.x = Begin(p.columnEnds, TileColumn(p, t))
         /\ tile.x + tile.width = p.columnEnds[TileColumn(p, t)]
         /\ tile.y = Begin(p.rowEnds, TileRow(p, t))
         /\ tile.y + tile.height = p.rowEnds[TileRow(p, t)]
         /\ tile.x \in Nat /\ tile.y \in Nat
         /\ tile.width \in Nat \ {0} /\ tile.height \in Nat \ {0}
         /\ tile.x + tile.width <= p.width /\ tile.y + tile.height <= p.height
<1> DEFINE n == NumTileColumns(p)
           c == TileColumn(p, t)
           r == TileRow(p, t)
           tile == Tile(p, t)
<1>1. n \in Nat \ {0} /\ Len(p.rowEnds) \in Nat \ {0} /\ t \in Nat /\ t < Len(p.rowEnds) * n
  BY TilesLemma
<1>2. /\ c \in 1..n /\ r \in 1..Len(p.rowEnds) /\ t = (r - 1) * n + c - 1
  <2>1. t \div n \in Nat /\ t % n \in 0..n - 1 /\ t = (t \div n) * n + (t % n)
    BY <1>1, Division
  <2>2. t \div n < Len(p.rowEnds)
    BY <1>1, QuotientBelow
  <2>3. c = (t % n) + 1 /\ r = (t \div n) + 1
    BY DEF TileColumn, TileRow
  <2> HIDE DEF c, r, n
  <2>4. r - 1 = t \div n /\ c - 1 = t % n
    BY <1>1, <2>1, <2>3
  <2>5. c \in 1..n /\ r \in 1..Len(p.rowEnds)
    BY <1>1, <2>1, <2>2, <2>3
  <2>6. t = (r - 1) * n + (c - 1)
    BY <2>1, <2>4
  <2>7. (r - 1) * n \in Int
    BY <1>1, <2>5
  <2> QED
    BY <1>1, <2>5, <2>6, <2>7
<1>3. /\ tile.x = Begin(p.columnEnds, c)
      /\ tile.width = p.columnEnds[c] - Begin(p.columnEnds, c)
      /\ tile.y = Begin(p.rowEnds, r)
      /\ tile.height = p.rowEnds[r] - Begin(p.rowEnds, r)
  BY DEF Tile, TileColumn, TileRow
<1>4. /\ Begin(p.columnEnds, c) \in 0..p.width - 1 /\ p.columnEnds[c] \in 1..p.width
      /\ Begin(p.columnEnds, c) < p.columnEnds[c]
  <2>1. c \in 1..Len(p.columnEnds)
    BY <1>2 DEF NumTileColumns
  <2> HIDE DEF c
  <2> QED
    BY <2>1, EndsLemma DEF IsPicture
<1>5. /\ Begin(p.rowEnds, r) \in 0..p.height - 1 /\ p.rowEnds[r] \in 1..p.height
      /\ Begin(p.rowEnds, r) < p.rowEnds[r]
  <2> HIDE DEF r
  <2> QED
    BY <1>2, EndsLemma DEF IsPicture
<1>6. p.width \in Nat /\ p.height \in Nat
  BY DEF IsPicture
<1> HIDE DEF c, r, tile, n
<1>7. /\ tile.x \in Nat /\ tile.width \in Nat \ {0} /\ tile.x + tile.width = p.columnEnds[c]
      /\ tile.x + tile.width <= p.width
  BY <1>3, <1>4, <1>6
<1>8. /\ tile.y \in Nat /\ tile.height \in Nat \ {0} /\ tile.y + tile.height = p.rowEnds[r]
      /\ tile.y + tile.height <= p.height
  BY <1>3, <1>5, <1>6
<1> QED
  BY <1>2, <1>3, <1>7, <1>8 DEF c, r, tile, n

(* The number of a tile, from its row and its column.                      *)
LEMMA TileNumber ==
  ASSUME NEW n \in Nat \ {0}, NEW r \in Nat \ {0}, NEW c \in 1..n, NEW t,
         t = (r - 1) * n + c - 1
  PROVE  /\ t \in Nat /\ t + 1 = (r - 1) * n + (c + 1) - 1
         /\ c = n => t + 1 = ((r + 1) - 1) * n + 1 - 1 /\ t + 1 = r * n
         /\ \A m \in Nat \ {0} : t + 1 = m * n => t = (m - 1) * n + n - 1
         /\ \A s \in Nat \ {0}, d \in 1..n : s < r => (s - 1) * n + d - 1 < t
<1>1. PICK q \in Nat : q = r - 1
  OBVIOUS
<1>2. q * n \in Nat /\ r * n = q * n + n /\ t = q * n + c - 1 /\ (r + 1) - 1 = r
  BY <1>1
<1>3. t \in Nat /\ t + 1 = (r - 1) * n + (c + 1) - 1
  BY <1>1, <1>2
<1>4. c = n => t + 1 = ((r + 1) - 1) * n + 1 - 1 /\ t + 1 = r * n
  <2>1. r * n \in Nat
    OBVIOUS
  <2> QED
    BY <1>2, <2>1
<1>5. ASSUME NEW m \in Nat \ {0}, t + 1 = m * n PROVE t = (m - 1) * n + n - 1
  <2>1. (m - 1) * n = m * n - n /\ m * n \in Nat
    OBVIOUS
  <2> QED
    BY <1>3, <1>5, <2>1
<1>6. ASSUME NEW s \in Nat \ {0}, NEW d \in 1..n, s < r PROVE (s - 1) * n + d - 1 < t
  <2>1. s * n <= q * n
    BY <1>1, <1>6, TimesOrder
  <2>2. (s - 1) * n = s * n - n /\ s * n \in Nat
    OBVIOUS
  <2> QED
    BY <1>2, <2>1, <2>2
<1> QED
  BY <1>3, <1>4, <1>5, <1>6

(* The tile with a given row and column.                                   *)
LEMMA TileAtLemma ==
  ASSUME NEW p, IsPicture(p), NEW r \in 1..Len(p.rowEnds), NEW c \in 1..NumTileColumns(p)
  PROVE  LET t == (r - 1) * NumTileColumns(p) + c - 1 IN
         t \in 0..NumTiles(p) - 1 /\ TileRow(p, t) = r /\ TileColumn(p, t) = c
<1> DEFINE n == NumTileColumns(p)
           m == Len(p.rowEnds)
           t == (r - 1) * n + c - 1
<1>1. n \in Nat \ {0} /\ m \in Nat \ {0} /\ NumTiles(p) = m * n
  BY TilesLemma
<1>2. r - 1 \in Nat /\ c - 1 \in 0..n - 1 /\ r - 1 <= m - 1 /\ m - 1 \in Nat
  BY <1>1
<1>3. t = (r - 1) * n + (c - 1)
  BY <1>1, <1>2
<1>4. t \in Nat /\ t \div n = r - 1 /\ t % n = c - 1
  <2> HIDE DEF t, n
  <2> QED
    BY <1>1, <1>2, <1>3, DivisionUnique
<1>5. t < m * n
  <2>1. (r - 1) * n <= (m - 1) * n
    <3> HIDE DEF n, m
    <3> QED
      BY <1>1, <1>2, TimesOrder
  <2>2. (m - 1) * n = m * n - n
    BY <1>1
  <2>3. (r - 1) * n \in Nat /\ m * n \in Nat
    BY <1>1, <1>2
  <2> HIDE DEF t, n, m
  <2> QED
    BY <1>1, <1>2, <1>3, <2>1, <2>2, <2>3
<1>6. TileRow(p, t) = (t \div n) + 1 /\ TileColumn(p, t) = (t % n) + 1
  BY DEF TileRow, TileColumn
<1> HIDE DEF t
<1>7. t \in 0..NumTiles(p) - 1
  <2>1. m * n \in Nat
    BY <1>1
  <2> QED
    BY <1>1, <1>4, <1>5, <2>1
<1>8. TileRow(p, t) = r /\ TileColumn(p, t) = c
  BY <1>2, <1>4, <1>6
<1> QED
  BY <1>7, <1>8 DEF t

(* A tile lies before another if it does in its row, or if its row does.   *)
LEMMA TileOrder ==
  ASSUME NEW p, IsPicture(p), NEW t \in 0..NumTiles(p) - 1, NEW u \in 0..NumTiles(p) - 1, t < u
  PROVE  \/ /\ Tile(p, u).y = Tile(p, t).y /\ Tile(p, u).height = Tile(p, t).height
            /\ Tile(p, t).x + Tile(p, t).width <= Tile(p, u).x
         \/ Tile(p, t).y + Tile(p, t).height <= Tile(p, u).y
<1> DEFINE n == NumTileColumns(p)
           c == TileColumn(p, t)
           r == TileRow(p, t)
           d == TileColumn(p, u)
           s == TileRow(p, u)
<1>1. n \in Nat \ {0} /\ Len(p.rowEnds) \in Nat
  BY TilesLemma
<1>2. /\ r \in 1..Len(p.rowEnds) /\ c \in 1..n /\ t = (r - 1) * n + c - 1
      /\ Tile(p, t).x + Tile(p, t).width = p.columnEnds[c]
      /\ Tile(p, t).y = Begin(p.rowEnds, r)
      /\ Tile(p, t).y + Tile(p, t).height = p.rowEnds[r]
      /\ Tile(p, t).y \in Nat /\ Tile(p, t).height \in Nat
  BY TileLemma
<1>3. /\ s \in 1..Len(p.rowEnds) /\ d \in 1..n /\ u = (s - 1) * n + d - 1
      /\ Tile(p, u).x = Begin(p.columnEnds, d)
      /\ Tile(p, u).y = Begin(p.rowEnds, s)
      /\ Tile(p, u).y + Tile(p, u).height = p.rowEnds[s]
      /\ Tile(p, u).y \in Nat /\ Tile(p, u).height \in Nat
  BY TileLemma
<1>n. n = Len(p.columnEnds)
  BY DEF NumTileColumns
<1> HIDE DEF n, c, r, d, s
<1>4. ~(s < r)
  <2> SUFFICES ASSUME s < r PROVE FALSE
    OBVIOUS
  <2>1. r \in Nat \ {0} /\ s \in Nat \ {0} /\ c \in 1..n /\ d \in 1..n /\ n \in Nat \ {0}
    <3>1. r \in 1..Len(p.rowEnds) /\ s \in 1..Len(p.rowEnds) /\ c \in 1..n /\ d \in 1..n
      BY <1>2, <1>3, Zenon
    <3> QED
      BY <1>1, <3>1
  <2>2. t = (r - 1) * n + c - 1 /\ u = (s - 1) * n + d - 1
    BY <1>2, <1>3, Zenon
  <2>3. \A a \in Nat \ {0}, b \in 1..n : a < r => (a - 1) * n + b - 1 < t
    BY <2>1, <2>2, TileNumber
  <2>4. u < t
    BY <2>1, <2>2, <2>3, Zenon
  <2>5. t \in Nat /\ u \in Nat
    BY TilesLemma
  <2> QED
    BY <2>4, <2>5
<1>5. CASE s = r
  <2>1. (r - 1) * n \in Nat
    <3>1. r \in 1..Len(p.rowEnds)
      BY <1>2, Zenon
    <3> QED
      BY <1>1, <3>1
  <2>2. c < d
    BY <1>1, <1>2, <1>3, <1>5, <2>1
  <2>3. p.columnEnds[c] <= Begin(p.columnEnds, d)
    BY <1>n, <1>2, <1>3, <2>2, EndsLemma DEF IsPicture
  <2>4. Tile(p, u).height = Tile(p, t).height
    BY <1>2, <1>3, <1>5
  <2> QED
    BY <1>2, <1>3, <1>5, <2>3, <2>4
<1>6. CASE r < s
  <2>1. p.rowEnds[r] <= Begin(p.rowEnds, s)
    BY <1>2, <1>3, <1>6, EndsLemma DEF IsPicture
  <2> QED
    BY <1>2, <1>3, <2>1
<1> QED
  BY <1>1, <1>2, <1>3, <1>4, <1>5, <1>6

(* The tile behind a tile.                                                 *)
LEMMA TileNext ==
  ASSUME NEW p, IsPicture(p), NEW t \in 0..NumTiles(p) - 1
  PROVE  LET tile == Tile(p, t)
             next == Tile(p, t + 1) IN
         /\ t + 1 = NumTiles(p) => tile.x + tile.width = p.width /\ tile.y + tile.height = p.height
         /\ t + 1 < NumTiles(p) =>
              \/ /\ next.x = tile.x + tile.width /\ next.y = tile.y
                 /\ next.height = tile.height /\ tile.x + tile.width < p.width
                 /\ TileColumn(p, t + 1) = TileColumn(p, t) + 1
              \/ /\ tile.x + tile.width = p.width /\ next.x = 0
                 /\ next.y = tile.y + tile.height
                 /\ TileColumn(p, t) = NumTileColumns(p) /\ TileColumn(p, t + 1) = 1
<1> DEFINE n == NumTileColumns(p)
           m == Len(p.rowEnds)
           c == TileColumn(p, t)
           r == TileRow(p, t)
           tile == Tile(p, t)
           next == Tile(p, t + 1)
<1>1. n \in Nat \ {0} /\ m \in Nat \ {0} /\ NumTiles(p) = m * n /\ n = Len(p.columnEnds)
  BY TilesLemma DEF NumTileColumns
<1>2. /\ r \in 1..m /\ c \in 1..n /\ t = (r - 1) * n + c - 1
      /\ tile.x + tile.width = p.columnEnds[c] /\ tile.y = Begin(p.rowEnds, r)
      /\ tile.y + tile.height = p.rowEnds[r]
      /\ tile.y \in Nat /\ tile.height \in Nat
  BY TileLemma
<1>3. /\ p.columnEnds[n] = p.width /\ p.rowEnds[m] = p.height
      /\ Begin(p.columnEnds, 1) = 0
      /\ \A i \in 1..n - 1 : Begin(p.columnEnds, i + 1) = p.columnEnds[i] /\ p.columnEnds[i] < p.width
      /\ \A i \in 1..m - 1 : Begin(p.rowEnds, i + 1) = p.rowEnds[i]
  BY <1>1, EndsLemma DEF IsPicture
<1>z. /\ t \in Nat /\ t + 1 = (r - 1) * n + (c + 1) - 1
      /\ c = n => t + 1 = ((r + 1) - 1) * n + 1 - 1 /\ t + 1 = r * n
      /\ t + 1 = m * n => t = (m - 1) * n + n - 1
  <2> HIDE DEF n, m, c, r
  <2>1. t = (r - 1) * n + c - 1 /\ r \in 1..m /\ c \in 1..n
    BY <1>2, Zenon
  <2>2. n \in Nat \ {0} /\ m \in Nat \ {0}
    BY <1>1, Zenon
  <2>3. r \in Nat \ {0}
    BY <2>1, <2>2
  <2> QED
    BY <2>1, <2>2, <2>3, TileNumber
<1>4. t + 1 = NumTiles(p) => c = n /\ r = m
  <2> SUFFICES ASSUME t + 1 = NumTiles(p) PROVE c = n /\ r = m
    OBVIOUS
  <2>1. t = (m - 1) * n + n - 1
    BY <1>1, <1>z, Zenon
  <2>2. m \in 1..Len(p.rowEnds) /\ n \in 1..NumTileColumns(p)
    BY <1>1
  <2>3. TileRow(p, (m - 1) * n + n - 1) = m /\ TileColumn(p, (m - 1) * n + n - 1) = n
    BY <2>2, TileAtLemma
  <2> QED
    BY <2>1, <2>3
<1>5. t + 1 < NumTiles(p) /\ c < n => TileRow(p, t + 1) = r /\ TileColumn(p, t + 1) = c + 1
  <2> SUFFICES ASSUME t + 1 < NumTiles(p), c < n
               PROVE  TileRow(p, t + 1) = r /\ TileColumn(p, t + 1) = c + 1
    OBVIOUS
  <2>1. c + 1 \in 1..n
    <3> HIDE DEF n, m, c, r
    <3>1. n \in Nat /\ c \in 1..n
      BY <1>1, <1>2, Zenon
    <3> QED
      BY <3>1
  <2>3. TileRow(p, (r - 1) * n + (c + 1) - 1) = r /\ TileColumn(p, (r - 1) * n + (c + 1) - 1) = c + 1
    <3> HIDE DEF c, r
    <3> QED
      BY <1>2, <2>1, TileAtLemma
  <2> QED
    BY <1>z, <2>3, Zenon
<1>6. t + 1 < NumTiles(p) /\ c = n =>
        r < m /\ TileRow(p, t + 1) = r + 1 /\ TileColumn(p, t + 1) = 1
  <2> SUFFICES ASSUME t + 1 < NumTiles(p), c = n
               PROVE  r < m /\ TileRow(p, t + 1) = r + 1 /\ TileColumn(p, t + 1) = 1
    OBVIOUS
  <2>1. r < m
    <3> SUFFICES ASSUME r = m PROVE FALSE
      <4> HIDE DEF n, m, c, r
      <4> QED
        BY <1>1, <1>2
    <3>1. t + 1 = NumTiles(p)
      BY <1>1, <1>z
    <3>2. NumTiles(p) \in Nat
      BY TilesLemma
    <3> QED
      BY <3>1, <3>2
  <2>3. r + 1 \in 1..m /\ 1 \in 1..n
    <3> HIDE DEF n, m, c, r
    <3> QED
      BY <1>1, <1>2, <2>1
  <2>4. TileRow(p, ((r + 1) - 1) * n + 1 - 1) = r + 1 /\ TileColumn(p, ((r + 1) - 1) * n + 1 - 1) = 1
    <3> HIDE DEF c, r
    <3> QED
      BY <2>3, TileAtLemma
  <2> QED
    BY <1>z, <2>1, <2>4, Zenon
<1>7. t + 1 < NumTiles(p) =>
        /\ next.x = Begin(p.columnEnds, TileColumn(p, t + 1))
        /\ next.y = Begin(p.rowEnds, TileRow(p, t + 1))
        /\ next.y + next.height = p.rowEnds[TileRow(p, t + 1)]
        /\ next.y \in Nat /\ next.height \in Nat
  <2> SUFFICES ASSUME t + 1 < NumTiles(p)
               PROVE  /\ next.x = Begin(p.columnEnds, TileColumn(p, t + 1))
                      /\ next.y = Begin(p.rowEnds, TileRow(p, t + 1))
                      /\ next.y + next.height = p.rowEnds[TileRow(p, t + 1)]
                      /\ next.y \in Nat /\ next.height \in Nat
    OBVIOUS
  <2>1. t + 1 \in 0..NumTiles(p) - 1
    BY TilesLemma
  <2> QED
    BY <2>1, TileLemma
<1>8. n = NumTileColumns(p) /\ c = TileColumn(p, t)
  OBVIOUS
<1> HIDE DEF n, m, c, r, tile, next
<1>9. CASE t + 1 = NumTiles(p)
  <2>1. tile.x + tile.width = p.width /\ tile.y + tile.height = p.height
    BY <1>2, <1>3, <1>4, <1>9
  <2>2. ~(t + 1 < NumTiles(p))
    BY <1>9, TilesLemma
  <2> QED
    BY <2>1, <2>2, Zenon DEF tile, next
<1>10. CASE t + 1 < NumTiles(p) /\ c < n
  <2>1. c \in 1..n - 1
    BY <1>1, <1>2, <1>10
  <2>2. next.x = p.columnEnds[c] /\ next.y = Begin(p.rowEnds, r)
        /\ next.y + next.height = p.rowEnds[r] /\ p.columnEnds[c] < p.width
    BY <1>3, <1>5, <1>7, <1>10, <2>1
  <2>3. next.height = tile.height
    BY <1>2, <1>7, <1>10, <2>2
  <2> QED
    BY <1>2, <1>5, <1>8, <1>10, <2>2, <2>3, TilesLemma DEF tile, next
<1>11. CASE t + 1 < NumTiles(p) /\ c = n
  <2>1. r \in 1..m - 1
    BY <1>1, <1>2, <1>6, <1>11
  <2>2. next.x = 0 /\ next.y = p.rowEnds[r]
    BY <1>3, <1>6, <1>7, <1>11, <2>1
  <2>3. t + 1 # NumTiles(p)
    BY <1>11, TilesLemma
  <2>4. tile.x + tile.width = p.width /\ next.y = tile.y + tile.height
    BY <1>2, <1>3, <1>11, <2>2
  <2> QED
    BY <1>6, <1>8, <1>11, <2>2, <2>3, <2>4, Zenon DEF tile, next
<1> QED
  BY <1>1, <1>2, <1>9, <1>10, <1>11, TilesLemma DEF tile, next

Inside(tile, a, b) ==
  /\ tile.x <= a /\ a < tile.x + tile.width
  /\ tile.y <= b /\ b < tile.y + tile.height

(* The CTU at a column and a row.                                          *)
LEMMA AtLemma ==
  ASSUME NEW p, IsPicture(p), NEW a \in 0..p.width - 1, NEW b \in 0..p.height - 1
  PROVE  /\ b * p.width + a \in 0..NumCtus(p) - 1
         /\ (b * p.width + a) % p.width = a /\ (b * p.width + a) \div p.width = b
<1> DEFINE w == p.width
           h == p.height
<1>0. NumCtus(p) = w * h
  BY DEF NumCtus
<1>1. w \in Nat \ {0} /\ h \in Nat \ {0}
  BY DEF IsPicture
<1>2. a \in 0..w - 1 /\ b \in 0..h - 1
  OBVIOUS
<1> HIDE DEF w, h
<1>3. b * w + a \in Nat /\ (b * w + a) % w = a /\ (b * w + a) \div w = b
  <2>1. b \in Nat
    BY <1>1, <1>2
  <2> QED
    BY <1>1, <1>2, <2>1, DivisionUnique, Zenon
<1>4. b * w + a < h * w
  <2>1. b \in Nat /\ h - 1 \in Nat /\ b <= h - 1
    BY <1>1, <1>2
  <2>2. b * w <= (h - 1) * w
    BY <1>1, <2>1, TimesOrder
  <2>3. (h - 1) * w = h * w - w /\ h * w \in Nat /\ b * w \in Nat
    BY <1>1, <2>1
  <2> QED
    BY <1>1, <1>2, <2>2, <2>3
<1>5. h * w = w * h /\ h * w \in Nat
  BY <1>1
<1>6. b * w + a \in 0..NumCtus(p) - 1
  BY <1>0, <1>3, <1>4, <1>5
<1> QED
  BY <1>3, <1>6 DEF w

(* Every CTU lies in one tile, and getTileIdxMap() names it.               *)
LEMMA TileIdxLemma ==
  ASSUME NEW p, IsPicture(p), NEW rs \in 0..NumCtus(p) - 1
  PROVE  /\ rs % p.width \in 0..p.width - 1 /\ rs \div p.width \in 0..p.height - 1
         /\ rs = (rs \div p.width) * p.width + (rs % p.width)
         /\ TileIdxMap(p, rs) \in 0..NumTiles(p) - 1
         /\ Inside(Tile(p, TileIdxMap(p, rs)), rs % p.width, rs \div p.width)
         /\ \A u \in 0..NumTiles(p) - 1 :
              Inside(Tile(p, u), rs % p.width, rs \div p.width) => u = TileIdxMap(p, rs)
<1> DEFINE a == rs % p.width
           b == rs \div p.width
           c == Holding(p.columnEnds, a)
           r == Holding(p.rowEnds, b)
           t == (r - 1) * NumTileColumns(p) + c - 1
<1>1. p.width \in Nat \ {0} /\ p.height \in Nat \ {0} /\ rs \in Nat /\ rs < p.height * p.width
  <2>1. p.width \in Nat \ {0} /\ p.height \in Nat \ {0} /\ NumCtus(p) = p.width * p.height
    BY DEF IsPicture, NumCtus
  <2>2. p.width * p.height = p.height * p.width /\ p.width * p.height \in Nat
    BY <2>1
  <2> QED
    BY <2>1, <2>2
<1>2. a \in 0..p.width - 1 /\ b \in Nat /\ b < p.height /\ rs = b * p.width + a
  BY <1>1, Division, QuotientBelow
<1>3. b \in 0..p.height - 1
  BY <1>1, <1>2
<1> HIDE DEF a, b
<1>4. AreEnds(p.columnEnds, p.width) /\ AreEnds(p.rowEnds, p.height)
  BY DEF IsPicture
<1>5. /\ c \in 1..Len(p.columnEnds) /\ Begin(p.columnEnds, c) <= a /\ a < p.columnEnds[c]
      /\ \A i \in 1..Len(p.columnEnds) : Begin(p.columnEnds, i) <= a /\ a < p.columnEnds[i] => i = c
  BY <1>1, <1>2, <1>4, HoldingLemma, Zenon
<1>6. /\ r \in 1..Len(p.rowEnds) /\ Begin(p.rowEnds, r) <= b /\ b < p.rowEnds[r]
      /\ \A i \in 1..Len(p.rowEnds) : Begin(p.rowEnds, i) <= b /\ b < p.rowEnds[i] => i = r
  BY <1>1, <1>3, <1>4, HoldingLemma, Zenon
<1>7. TileIdxMap(p, rs) = t
  BY DEF TileIdxMap, Holding, a, b
<1>8. NumTileColumns(p) = Len(p.columnEnds)
  BY DEF NumTileColumns
<1> HIDE DEF c, r
<1>9. t \in 0..NumTiles(p) - 1 /\ TileRow(p, t) = r /\ TileColumn(p, t) = c
  BY <1>5, <1>6, <1>8, TileAtLemma
<1>10. Inside(Tile(p, t), a, b)
  <2> HIDE DEF t
  <2> QED
    BY <1>5, <1>6, <1>9, TileLemma DEF Inside
<1>11. ASSUME NEW u \in 0..NumTiles(p) - 1, Inside(Tile(p, u), a, b) PROVE u = t
  <2>1. /\ TileRow(p, u) \in 1..Len(p.rowEnds) /\ TileColumn(p, u) \in 1..NumTileColumns(p)
        /\ u = (TileRow(p, u) - 1) * NumTileColumns(p) + TileColumn(p, u) - 1
        /\ Tile(p, u).x = Begin(p.columnEnds, TileColumn(p, u))
        /\ Tile(p, u).x + Tile(p, u).width = p.columnEnds[TileColumn(p, u)]
        /\ Tile(p, u).y = Begin(p.rowEnds, TileRow(p, u))
        /\ Tile(p, u).y + Tile(p, u).height = p.rowEnds[TileRow(p, u)]
    BY TileLemma, Zenon
  <2>2. TileColumn(p, u) = c
    BY <1>5, <1>8, <1>11, <2>1 DEF Inside
  <2>3. TileRow(p, u) = r
    BY <1>6, <1>11, <2>1 DEF Inside
  <2> QED
    BY <2>1, <2>2, <2>3, Zenon
<1> HIDE DEF t
<1> QED
  BY <1>2, <1>3, <1>7, <1>9, <1>10, <1>11 DEF a, b

(* xCalculateNextCtuRSAddr(): along the row of the tile, then to the next  *)
(* row, then to the next tile.                                             *)
LEMMA NextLemma ==
  ASSUME NEW p, IsPicture(p), NEW rs \in 0..NumCtus(p) - 1
  PROVE  LET a    == rs % p.width
             b    == rs \div p.width
             t    == TileIdxMap(p, rs)
             tile == Tile(p, t)
             next == NextCtuRsAddr(p, rs)
             succ == Tile(p, t + 1)
         IN
         \/ /\ a + 1 < tile.x + tile.width
            /\ next \in 0..NumCtus(p) - 1 /\ TileIdxMap(p, next) = t
            /\ next % p.width = a + 1 /\ next \div p.width = b
         \/ /\ a + 1 = tile.x + tile.width /\ b + 1 < tile.y + tile.height
            /\ next \in 0..NumCtus(p) - 1 /\ TileIdxMap(p, next) = t
            /\ next % p.width = tile.x /\ next \div p.width = b + 1
         \/ /\ a + 1 = tile.x + tile.width /\ b + 1 = tile.y + tile.height
            /\ t + 1 < NumTiles(p)
            /\ next \in 0..NumCtus(p) - 1 /\ TileIdxMap(p, next) = t + 1
            /\ next % p.width = succ.x /\ next \div p.width = succ.y
         \/ /\ a + 1 = tile.x + tile.width /\ b + 1 = tile.y + tile.height
            /\ t + 1 = NumTiles(p) /\ next = NumCtus(p)
<1> DEFINE w    == p.width
           a    == rs % w
           b    == rs \div w
           t    == TileIdxMap(p, rs)
           tile == Tile(p, t)
           next == NextCtuRsAddr(p, rs)
           succ == Tile(p, t + 1)
<1>1. /\ a \in 0..w - 1 /\ b \in 0..p.height - 1 /\ rs = b * w + a
      /\ t \in 0..NumTiles(p) - 1 /\ Inside(tile, a, b)
  BY TileIdxLemma
<1>2. /\ w \in Nat \ {0} /\ p.height \in Nat \ {0} /\ NumTiles(p) \in Nat
  BY TilesLemma
<1>t. t \in 0..NumTiles(p) - 1 /\ t \in Nat /\ (t + 1 = NumTiles(p) \/ t + 1 < NumTiles(p))
  <2> HIDE DEF t
  <2> QED
    BY <1>1, <1>2
<1>3. /\ tile.x \in Nat /\ tile.y \in Nat /\ tile.width \in Nat \ {0} /\ tile.height \in Nat \ {0}
      /\ tile.x + tile.width <= w /\ tile.y + tile.height <= p.height
  <2> HIDE DEF t
  <2> QED
    BY <1>1, TileLemma
<1>4. /\ a # tile.x + tile.width - 1 => next = rs + 1
      /\ a = tile.x + tile.width - 1 /\ b # tile.y + tile.height - 1 =>
           next = rs + w - tile.width + 1
      /\ a = tile.x + tile.width - 1 /\ b = tile.y + tile.height - 1 =>
           next = IF t + 1 = NumTiles(p) THEN NumCtus(p) ELSE succ.y * w + succ.x
  BY DEF NextCtuRsAddr, FirstCtuRsAddr
<1>5. ASSUME NEW c \in 0..w - 1, NEW d \in 0..p.height - 1
      PROVE  /\ d * w + c \in 0..NumCtus(p) - 1
             /\ (d * w + c) % w = c /\ (d * w + c) \div w = d
             /\ \A u \in 0..NumTiles(p) - 1 : Inside(Tile(p, u), c, d) => TileIdxMap(p, d * w + c) = u
  <2>1. /\ d * w + c \in 0..NumCtus(p) - 1
        /\ (d * w + c) % w = c /\ (d * w + c) \div w = d
    BY AtLemma
  <2> HIDE DEF w
  <2>2. ASSUME NEW v \in 0..NumCtus(p) - 1, v % w = c, v \div w = d, NEW u \in 0..NumTiles(p) - 1,
               Inside(Tile(p, u), c, d)
        PROVE  TileIdxMap(p, v) = u
    BY <2>2, TileIdxLemma, Zenon DEF w
  <2> QED
    BY <2>1, <2>2, Zenon
<1>l. a \in 0..w - 1 /\ b \in 0..p.height - 1 /\ Inside(tile, a, b)
  BY <1>1, Zenon
<1> HIDE DEF w, a, b, t, tile, next, succ
<1>6. CASE a # tile.x + tile.width - 1
  <2>1. a + 1 < tile.x + tile.width /\ a + 1 \in 0..w - 1 /\ Inside(tile, a + 1, b)
    BY <1>l, <1>2, <1>3, <1>6 DEF Inside
  <2>2. next = b * w + (a + 1)
    <3>1. b * w \in Nat
      BY <1>1, <1>2
    <3> QED
      BY <1>1, <1>4, <1>6, <3>1
  <2>3. /\ next \in 0..NumCtus(p) - 1 /\ next % w = a + 1 /\ next \div w = b
        /\ TileIdxMap(p, next) = t
    BY <1>1, <1>5, <2>1, <2>2, Zenon DEF tile
  <2> QED
    BY <2>1, <2>3, Zenon DEF w, a, b, t, tile, next
<1>7. CASE a = tile.x + tile.width - 1 /\ b # tile.y + tile.height - 1
  <2>1. /\ a + 1 = tile.x + tile.width /\ b + 1 < tile.y + tile.height
        /\ tile.x \in 0..w - 1 /\ b + 1 \in 0..p.height - 1 /\ Inside(tile, tile.x, b + 1)
    BY <1>l, <1>2, <1>3, <1>7 DEF Inside
  <2>2. next = (b + 1) * w + tile.x
    <3>1. (b + 1) * w = b * w + w /\ b * w \in Nat
      BY <1>1, <1>2
    <3> QED
      BY <1>1, <1>2, <1>3, <1>4, <1>7, <3>1
  <2>3. /\ next \in 0..NumCtus(p) - 1 /\ next % w = tile.x /\ next \div w = b + 1
        /\ TileIdxMap(p, next) = t
    BY <1>1, <1>5, <2>1, <2>2, Zenon DEF tile
  <2> QED
    BY <2>1, <2>3, Zenon DEF w, a, b, t, tile, next
<1>8. CASE a = tile.x + tile.width - 1 /\ b = tile.y + tile.height - 1
  <2>1. a + 1 = tile.x + tile.width /\ b + 1 = tile.y + tile.height
    BY <1>l, <1>2, <1>3, <1>8
  <2>2. CASE t + 1 = NumTiles(p)
    <3>1. next = NumCtus(p)
      BY <1>4, <1>8, <2>2
    <3> QED
      BY <2>1, <2>2, <3>1, Zenon DEF w, a, b, t, tile, next
  <2>3. CASE t + 1 < NumTiles(p)
    <3>1. t + 1 \in 0..NumTiles(p) - 1 /\ t + 1 # NumTiles(p)
      BY <1>2, <1>t, <2>3
    <3>2. /\ succ.x \in Nat /\ succ.y \in Nat
          /\ succ.width \in Nat \ {0} /\ succ.height \in Nat \ {0}
          /\ succ.x + succ.width <= w /\ succ.y + succ.height <= p.height
      BY <3>1, TileLemma DEF succ, w
    <3>3. /\ succ.x \in 0..w - 1 /\ succ.y \in 0..p.height - 1 /\ Inside(succ, succ.x, succ.y)
      BY <1>2, <3>2 DEF Inside
    <3>4. next = succ.y * w + succ.x
      BY <1>4, <1>8, <3>1, Zenon
    <3>5. /\ next \in 0..NumCtus(p) - 1 /\ next % w = succ.x /\ next \div w = succ.y
          /\ TileIdxMap(p, next) = t + 1
      BY <1>5, <3>1, <3>3, <3>4, Zenon DEF succ
    <3> QED
      BY <2>1, <2>3, <3>5, Zenon DEF w, a, b, t, tile, next, succ
  <2> QED
    BY <1>t, <2>2, <2>3
<1> QED
  BY <1>6, <1>7, <1>8

-----------------------------------------------------------------------------
(* The order of coding in closed form: the CTUs of the tiles before, then  *)
(* those of the rows of the tile above, then those of the row before.      *)
First(p, t) == Tile(p, t).y * p.width + Tile(p, t).x * Tile(p, t).height

Size(p, t) == Tile(p, t).width * Tile(p, t).height

Offset(p, rs) ==
  LET tile == Tile(p, TileIdxMap(p, rs))
  IN ((rs \div p.width) - tile.y) * tile.width + ((rs % p.width) - tile.x)

Ordinal(p, rs) == First(p, TileIdxMap(p, rs)) + Offset(p, rs)

LEMMA RowArithmetic ==
  ASSUME NEW w \in Nat \ {0}, NEW h \in Nat \ {0}, NEW i \in 0..h - 1, NEW j \in 0..w - 1
  PROVE  /\ i * w + j \in 0..w * h - 1 /\ w * h \in Nat /\ i * w \in Nat
         /\ j + 1 = w => (i + 1) * w = i * w + j + 1
         /\ i + 1 = h /\ j + 1 = w => i * w + j + 1 = w * h
<1>1. i * w \in Nat /\ (i + 1) * w = i * w + w /\ w * h \in Nat /\ h * w = w * h
  OBVIOUS
<1>2. i + 1 \in Nat /\ i + 1 <= h /\ h \in Nat
  OBVIOUS
<1>3. (i + 1) * w <= h * w
  BY <1>2, TimesOrder
<1>4. i * w + j \in 0..w * h - 1
  BY <1>1, <1>3
<1>5. ASSUME i + 1 = h, j + 1 = w PROVE i * w + j + 1 = w * h
  <2>1. (i + 1) * w = h * w
    BY <1>5, Zenon
  <2> QED
    BY <1>1, <1>5, <2>1
<1> QED
  BY <1>1, <1>4, <1>5

LEMMA FirstArithmetic ==
  ASSUME NEW total \in Nat \ {0}, NEW x \in Nat, NEW y \in Nat, NEW w \in Nat \ {0}, NEW h \in Nat \ {0},
         x + w <= total
  PROVE  /\ y * total + x * h \in Nat /\ w * h \in Nat
         /\ y * total + (x + w) * h = y * total + x * h + w * h
         /\ x + w = total => (y + h) * total = y * total + x * h + w * h
         /\ \A a \in Nat : x + w <= a => y * total + x * h + w * h <= y * total + a * h
         /\ \A b, c \in Nat : y + h <= b => y * total + x * h + w * h <= b * total + c
<1>1. /\ y * total \in Nat /\ x * h \in Nat /\ w * h \in Nat /\ h * total \in Nat
      /\ (x + w) * h = x * h + w * h /\ (y + h) * total = y * total + h * total
      /\ total * h = h * total
  OBVIOUS
<1>2. x + w = total => x * h + w * h = h * total
  <2> SUFFICES ASSUME x + w = total PROVE x * h + w * h = h * total
    OBVIOUS
  <2>1. (x + w) * h = total * h
    BY Zenon
  <2> QED
    BY <1>1, <2>1
<1>3. ASSUME NEW a \in Nat, x + w <= a
      PROVE  y * total + x * h + w * h <= y * total + a * h
  <2>1. (x + w) * h <= a * h
    BY <1>3, TimesOrder
  <2>2. a * h \in Nat
    OBVIOUS
  <2> QED
    BY <1>1, <2>1, <2>2
<1>4. x * h + w * h <= h * total
  <2>1. (x + w) * h <= total * h
    BY TimesOrder
  <2> QED
    BY <1>1, <2>1
<1>5. ASSUME NEW b \in Nat, NEW c \in Nat, y + h <= b
      PROVE  y * total + x * h + w * h <= b * total + c
  <2>1. (y + h) * total <= b * total
    BY <1>5, TimesOrder
  <2>2. b * total \in Nat
    OBVIOUS
  <2> QED
    BY <1>1, <1>4, <2>1, <2>2
<1>6. y * total + x * h \in Nat
  BY <1>1
<1>7. y * total + (x + w) * h = y * total + x * h + w * h
  BY <1>1
<1>8. x + w = total => (y + h) * total = y * total + x * h + w * h
  BY <1>1, <1>2
<1> QED
  BY <1>1, <1>3, <1>5, <1>6, <1>7, <1>8

(* Tiles follow each other without a gap, from 0 to the last CTU.          *)
LEMMA FirstLemma ==
  ASSUME NEW p, IsPicture(p), NEW t \in 0..NumTiles(p) - 1
  PROVE  /\ First(p, t) \in Nat /\ Size(p, t) \in Nat
         /\ t = 0 => First(p, t) = 0
         /\ \A u \in 0..NumTiles(p) - 1 : t < u => First(p, t) + Size(p, t) <= First(p, u)
         /\ t + 1 < NumTiles(p) => First(p, t + 1) = First(p, t) + Size(p, t)
         /\ t + 1 = NumTiles(p) => First(p, t) + Size(p, t) = NumCtus(p)
<1> DEFINE tile == Tile(p, t)
           next == Tile(p, t + 1)
           x == tile.x
           y == tile.y
           w == tile.width
           h == tile.height
           total == p.width
<1>1. /\ x \in Nat /\ y \in Nat /\ w \in Nat \ {0} /\ h \in Nat \ {0}
      /\ x + w <= total /\ y + h <= p.height
  BY TileLemma
<1>2. total \in Nat \ {0} /\ p.height \in Nat \ {0}
  BY TilesLemma
<1>3. First(p, t) = y * total + x * h /\ Size(p, t) = w * h
  BY DEF First, Size
<1>4. ASSUME t = 0 PROVE x = 0 /\ y = 0
  <2>1. 1 \in 1..Len(p.rowEnds) /\ 1 \in 1..NumTileColumns(p) /\ NumTileColumns(p) \in Nat
    BY TilesLemma
  <2>2. TileRow(p, (1 - 1) * NumTileColumns(p) + 1 - 1) = 1
        /\ TileColumn(p, (1 - 1) * NumTileColumns(p) + 1 - 1) = 1
    BY <2>1, TileAtLemma, Zenon
  <2>3. (1 - 1) * NumTileColumns(p) + 1 - 1 = 0
    BY <2>1
  <2>4. TileRow(p, t) = 1 /\ TileColumn(p, t) = 1
    BY <1>4, <2>2, <2>3, Zenon
  <2>5. x = Begin(p.columnEnds, 1) /\ y = Begin(p.rowEnds, 1)
    BY <2>4, TileLemma
  <2> QED
    BY <2>5 DEF Begin
<1>5. t + 1 = NumTiles(p) => x + w = total /\ y + h = p.height
  BY TileNext
<1>6. t + 1 < NumTiles(p) =>
        \/ next.x = x + w /\ next.y = y /\ next.height = h
        \/ x + w = total /\ next.x = 0 /\ next.y = y + h /\ next.height \in Nat
  <2> SUFFICES ASSUME t + 1 < NumTiles(p)
               PROVE  \/ next.x = x + w /\ next.y = y /\ next.height = h
                      \/ x + w = total /\ next.x = 0 /\ next.y = y + h /\ next.height \in Nat
    OBVIOUS
  <2>1. t + 1 \in 0..NumTiles(p) - 1
    BY TilesLemma
  <2>2. next.height \in Nat
    BY <2>1, TileLemma
  <2> QED
    BY <2>2, TileNext
<1>7. First(p, t + 1) = next.y * total + next.x * next.height
  BY DEF First
<1>8. ASSUME NEW u \in 0..NumTiles(p) - 1
      PROVE  /\ First(p, u) = Tile(p, u).y * total + Tile(p, u).x * Tile(p, u).height
             /\ Tile(p, u).x \in Nat /\ Tile(p, u).y \in Nat /\ Tile(p, u).height \in Nat
             /\ t < u => \/ Tile(p, u).y = y /\ Tile(p, u).height = h /\ x + w <= Tile(p, u).x
                         \/ y + h <= Tile(p, u).y
  <2>1. Tile(p, u).x \in Nat /\ Tile(p, u).y \in Nat /\ Tile(p, u).height \in Nat
    BY TileLemma
  <2> QED
    BY <2>1, TileOrder DEF First
<1> HIDE DEF x, y, w, h, total, next
<1>9. /\ y * total + x * h \in Nat /\ w * h \in Nat
      /\ y * total + (x + w) * h = y * total + x * h + w * h
      /\ x + w = total => (y + h) * total = y * total + x * h + w * h
      /\ \A a \in Nat : x + w <= a => y * total + x * h + w * h <= y * total + a * h
      /\ \A b, c \in Nat : y + h <= b => y * total + x * h + w * h <= b * total + c
  BY <1>1, <1>2, FirstArithmetic, Zenon
<1>10. ASSUME t = 0 PROVE First(p, t) = 0
  BY <1>1, <1>2, <1>3, <1>4, <1>10
<1>11. ASSUME NEW u \in 0..NumTiles(p) - 1, t < u PROVE First(p, t) + Size(p, t) <= First(p, u)
  <2> DEFINE a == Tile(p, u).x
             b == Tile(p, u).y
             g == Tile(p, u).height
  <2>1. First(p, u) = b * total + a * g /\ a \in Nat /\ b \in Nat /\ g \in Nat
    BY <1>8
  <2>2. \/ b = y /\ g = h /\ x + w <= a
        \/ y + h <= b
    BY <1>8, <1>11
  <2> HIDE DEF a, b, g
  <2>3. a * g \in Nat
    BY <2>1
  <2>4. CASE b = y /\ g = h /\ x + w <= a
    <3>1. y * total + x * h + w * h <= y * total + a * h
      BY <1>9, <2>1, <2>4, Zenon
    <3> QED
      BY <1>3, <2>1, <2>4, <3>1, Zenon
  <2>5. CASE y + h <= b
    <3>1. y * total + x * h + w * h <= b * total + a * g
      BY <1>9, <2>1, <2>3, <2>5, Zenon
    <3> QED
      BY <1>3, <2>1, <3>1, Zenon
  <2> QED
    BY <2>2, <2>4, <2>5, Zenon
<1>12. ASSUME t + 1 < NumTiles(p) PROVE First(p, t + 1) = First(p, t) + Size(p, t)
  <2>1. CASE next.x = x + w /\ next.y = y /\ next.height = h
    BY <1>3, <1>7, <1>9, <2>1, Zenon
  <2>2. CASE x + w = total /\ next.x = 0 /\ next.y = y + h /\ next.height \in Nat
    <3>1. next.x * next.height = 0
      BY <2>2
    <3>2. (y + h) * total \in Nat
      BY <1>1, <1>2
    <3>3. (y + h) * total + 0 = (y + h) * total
      BY <3>2
    <3> QED
      BY <1>3, <1>7, <1>9, <2>2, <3>1, <3>3, Zenon
  <2> QED
    BY <1>6, <1>12, <2>1, <2>2, Zenon
<1>13. ASSUME t + 1 = NumTiles(p) PROVE First(p, t) + Size(p, t) = NumCtus(p)
  <2>1. (y + h) * total = NumCtus(p)
    <3>1. y + h = p.height
      BY <1>5, <1>13, Zenon
    <3>2. NumCtus(p) = total * p.height
      BY DEF NumCtus, total
    <3>3. p.height * total = total * p.height
      BY <1>2
    <3> QED
      BY <3>1, <3>2, <3>3, Zenon
  <2> QED
    BY <1>3, <1>5, <1>9, <1>13, <2>1, Zenon
<1> QED
  BY <1>3, <1>9, <1>10, <1>11, <1>12, <1>13, Zenon

LEMMA OffsetLemma ==
  ASSUME NEW p, IsPicture(p), NEW rs \in 0..NumCtus(p) - 1
  PROVE  /\ Offset(p, rs) \in 0..Size(p, TileIdxMap(p, rs)) - 1
         /\ LET tile == Tile(p, TileIdxMap(p, rs))
                i    == (rs \div p.width) - tile.y
                j    == (rs % p.width) - tile.x
            IN /\ i \in 0..tile.height - 1 /\ j \in 0..tile.width - 1
               /\ Offset(p, rs) = i * tile.width + j
               /\ j + 1 = tile.width => (i + 1) * tile.width = Offset(p, rs) + 1
               /\ i + 1 = tile.height /\ j + 1 = tile.width =>
                    Offset(p, rs) + 1 = Size(p, TileIdxMap(p, rs))
               /\ i * tile.width \in Nat
<1> DEFINE t    == TileIdxMap(p, rs)
           tile == Tile(p, t)
           w    == tile.width
           h    == tile.height
           i    == (rs \div p.width) - tile.y
           j    == (rs % p.width) - tile.x
<1>1. /\ t \in 0..NumTiles(p) - 1 /\ Inside(tile, rs % p.width, rs \div p.width)
      /\ rs % p.width \in Int /\ rs \div p.width \in Int
  <2>1. rs % p.width \in 0..p.width - 1 /\ rs \div p.width \in 0..p.height - 1
    BY TileIdxLemma
  <2> QED
    BY <2>1, TileIdxLemma
<1>2. tile.x \in Nat /\ tile.y \in Nat /\ w \in Nat \ {0} /\ h \in Nat \ {0}
  <2> HIDE DEF t
  <2> QED
    BY <1>1, TileLemma
<1>3. i \in 0..h - 1 /\ j \in 0..w - 1
  <2> HIDE DEF t, tile
  <2> QED
    BY <1>1, <1>2 DEF Inside
<1>4. Offset(p, rs) = i * w + j /\ Size(p, t) = w * h
  BY DEF Offset, Size
<1> HIDE DEF i, j, w, h, t
<1>5. /\ i * w + j \in 0..w * h - 1 /\ w * h \in Nat /\ i * w \in Nat
      /\ j + 1 = w => (i + 1) * w = i * w + j + 1
      /\ i + 1 = h /\ j + 1 = w => i * w + j + 1 = w * h
  BY <1>2, <1>3, RowArithmetic, Zenon
<1>6. /\ Offset(p, rs) \in 0..Size(p, t) - 1
      /\ j + 1 = w => (i + 1) * w = Offset(p, rs) + 1
      /\ i + 1 = h /\ j + 1 = w => Offset(p, rs) + 1 = Size(p, t)
  BY <1>4, <1>5, Zenon
<1> QED
  BY <1>3, <1>4, <1>5, <1>6, Zenon DEF i, j, w, h, t, tile

(* The next CTU is the next one in the order.                              *)
LEMMA OrdinalNext ==
  ASSUME NEW p, IsPicture(p), NEW rs \in 0..NumCtus(p) - 1
  PROVE  LET next == NextCtuRsAddr(p, rs) IN
         \/ next \in 0..NumCtus(p) - 1 /\ Ordinal(p, next) = Ordinal(p, rs) + 1
         \/ next = NumCtus(p) /\ Ordinal(p, rs) + 1 = NumCtus(p)
<1> DEFINE a    == rs % p.width
           b    == rs \div p.width
           t    == TileIdxMap(p, rs)
           tile == Tile(p, t)
           next == NextCtuRsAddr(p, rs)
           succ == Tile(p, t + 1)
           w    == tile.width
           h    == tile.height
           c    == next % p.width
           d    == next \div p.width
           u    == TileIdxMap(p, next)
           i    == b - tile.y
           j    == a - tile.x
<1>1. /\ i \in 0..h - 1 /\ j \in 0..w - 1 /\ Offset(p, rs) = i * w + j
      /\ j + 1 = w => (i + 1) * w = Offset(p, rs) + 1
      /\ i + 1 = h /\ j + 1 = w => Offset(p, rs) + 1 = Size(p, t)
      /\ Offset(p, rs) \in 0..Size(p, t) - 1 /\ i * w \in Nat
  BY OffsetLemma
<1>2. /\ a \in Nat /\ b \in Nat /\ t \in 0..NumTiles(p) - 1
  <2>1. a \in 0..p.width - 1 /\ b \in 0..p.height - 1 /\ t \in 0..NumTiles(p) - 1
    BY TileIdxLemma
  <2> QED
    BY <2>1
<1>3. tile.x \in Nat /\ tile.y \in Nat /\ w \in Nat \ {0} /\ h \in Nat \ {0}
  <2> HIDE DEF t
  <2> QED
    BY <1>2, TileLemma
<1>4. Ordinal(p, rs) = First(p, t) + Offset(p, rs)
  BY DEF Ordinal
<1>5. Ordinal(p, next) = First(p, u) + ((d - Tile(p, u).y) * Tile(p, u).width + (c - Tile(p, u).x))
  BY DEF Ordinal, Offset
<1>6. First(p, t) \in Nat /\ Size(p, t) \in Nat
  <2> HIDE DEF t
  <2> QED
    BY <1>2, FirstLemma
<1>7. /\ t + 1 < NumTiles(p) => First(p, t + 1) = First(p, t) + Size(p, t)
      /\ t + 1 = NumTiles(p) => First(p, t) + Size(p, t) = NumCtus(p)
  <2> HIDE DEF t
  <2> QED
    BY <1>2, FirstLemma
<1>8. \/ /\ a + 1 < tile.x + w
         /\ next \in 0..NumCtus(p) - 1 /\ u = t /\ c = a + 1 /\ d = b
      \/ /\ a + 1 = tile.x + w /\ b + 1 < tile.y + h
         /\ next \in 0..NumCtus(p) - 1 /\ u = t /\ c = tile.x /\ d = b + 1
      \/ /\ a + 1 = tile.x + w /\ b + 1 = tile.y + h /\ t + 1 < NumTiles(p)
         /\ next \in 0..NumCtus(p) - 1 /\ u = t + 1 /\ c = succ.x /\ d = succ.y
      \/ /\ a + 1 = tile.x + w /\ b + 1 = tile.y + h /\ t + 1 = NumTiles(p) /\ next = NumCtus(p)
  BY NextLemma, Zenon
<1>9. t + 1 < NumTiles(p) => succ.x \in Nat /\ succ.y \in Nat /\ succ.width \in Nat
  <2> SUFFICES ASSUME t + 1 < NumTiles(p) PROVE succ.x \in Nat /\ succ.y \in Nat /\ succ.width \in Nat
    OBVIOUS
  <2>1. t + 1 \in 0..NumTiles(p) - 1
    <3> HIDE DEF t
    <3> QED
      BY <1>2, TilesLemma
  <2> HIDE DEF t
  <2> QED
    BY <2>1, TileLemma
<1>10. tile = Tile(p, t) /\ succ = Tile(p, t + 1) /\ w = tile.width
  OBVIOUS
<1>i. i = b - tile.y /\ j = a - tile.x
  OBVIOUS
<1> HIDE DEF a, b, t, tile, next, succ, w, h, c, d, u, i, j
<1>11. CASE /\ a + 1 < tile.x + w
            /\ next \in 0..NumCtus(p) - 1 /\ u = t /\ c = a + 1 /\ d = b
  <2>1. d - tile.y = i /\ c - tile.x = j + 1
    BY <1>2, <1>3, <1>i, <1>11
  <2>2. Ordinal(p, next) = First(p, t) + (i * w + (j + 1))
    BY <1>5, <1>10, <1>11, <2>1, Zenon
  <2>3. i * w + (j + 1) = Offset(p, rs) + 1
    <3>1. i * w \in Nat /\ j \in Int /\ Offset(p, rs) = i * w + j
      BY <1>1
    <3> QED
      BY <3>1
  <2>4. Offset(p, rs) \in Int
    BY <1>1
  <2>5. Ordinal(p, next) = Ordinal(p, rs) + 1
    BY <1>4, <1>6, <2>2, <2>3, <2>4
  <2> QED
    BY <1>11, <2>5, Zenon DEF next
<1>12. CASE /\ a + 1 = tile.x + w /\ b + 1 < tile.y + h
            /\ next \in 0..NumCtus(p) - 1 /\ u = t /\ c = tile.x /\ d = b + 1
  <2>1. d - tile.y = i + 1 /\ c - tile.x = 0 /\ j + 1 = w
    BY <1>2, <1>3, <1>i, <1>12
  <2>2. Ordinal(p, next) = First(p, t) + ((i + 1) * w + 0)
    BY <1>5, <1>10, <1>12, <2>1, Zenon
  <2>3. (i + 1) * w = Offset(p, rs) + 1 /\ Offset(p, rs) \in Int
    BY <1>1, <2>1
  <2>5. Ordinal(p, next) = Ordinal(p, rs) + 1
    BY <1>4, <1>6, <2>2, <2>3
  <2> QED
    BY <1>12, <2>5, Zenon DEF next
<1>13. CASE /\ a + 1 = tile.x + w /\ b + 1 = tile.y + h /\ t + 1 < NumTiles(p)
            /\ next \in 0..NumCtus(p) - 1 /\ u = t + 1 /\ c = succ.x /\ d = succ.y
  <2>1. d - succ.y = 0 /\ c - succ.x = 0 /\ j + 1 = w /\ i + 1 = h
    BY <1>2, <1>3, <1>9, <1>i, <1>13
  <2>2. Ordinal(p, next) = First(p, t + 1) + (0 * succ.width + 0)
    BY <1>5, <1>10, <1>13, <2>1, Zenon
  <2>3. Offset(p, rs) + 1 = Size(p, t) /\ Offset(p, rs) \in Int
    BY <1>1, <2>1
  <2>4. 0 * succ.width = 0
    BY <1>9, <1>13
  <2>5. Ordinal(p, next) = Ordinal(p, rs) + 1
    BY <1>4, <1>6, <1>7, <1>13, <2>2, <2>3, <2>4
  <2> QED
    BY <1>13, <2>5, Zenon DEF next
<1>14. CASE /\ a + 1 = tile.x + w /\ b + 1 = tile.y + h /\ t + 1 = NumTiles(p) /\ next = NumCtus(p)
  <2>1. j + 1 = w /\ i + 1 = h
    BY <1>2, <1>3, <1>i, <1>14
  <2>3. Offset(p, rs) + 1 = Size(p, t) /\ Offset(p, rs) \in Int
    BY <1>1, <2>1
  <2>5. Ordinal(p, rs) + 1 = NumCtus(p)
    BY <1>4, <1>6, <1>7, <1>14, <2>3
  <2> QED
    BY <1>14, <2>5, Zenon DEF next
<1> QED
  BY <1>8, <1>11, <1>12, <1>13, <1>14, Zenon

(* m_ctuTsToRsAddrMap holds the CTUs in that order.                        *)
LEMMA MapLemma ==
  ASSUME NEW p, IsPicture(p)
  PROVE  LET map == CtuTsToRsAddrMap(p) IN
         /\ map \in [0..NumCtus(p) -> 0..NumCtus(p)] /\ map[NumCtus(p)] = NumCtus(p)
         /\ \A ts \in 0..NumCtus(p) - 1 :
              /\ map[ts] \in 0..NumCtus(p) - 1 /\ Ordinal(p, map[ts]) = ts
              /\ map[ts + 1] = NextCtuRsAddr(p, map[ts])
<1> DEFINE n    == NumCtus(p)
           S    == 0..n
           Next1(rs) == IF rs \in 0..n - 1 THEN NextCtuRsAddr(p, rs) ELSE n
           step == [k \in 1..n |-> [rs \in S |-> Next1(rs)]]
           IsMap(f) == f = [ts \in 0..n |-> IF ts = 0 THEN 0 ELSE NextCtuRsAddr(p, f[ts - 1])]
           map  == CtuTsToRsAddrMap(p)
           Good(f) == /\ f \in [0..n -> S] /\ f[n] = n
                      /\ \A ts \in 0..n - 1 : /\ f[ts] \in 0..n - 1 /\ Ordinal(p, f[ts]) = ts
                                              /\ f[ts + 1] = NextCtuRsAddr(p, f[ts])
<1>1. n \in Nat \ {0}
  BY TilesLemma
<1>2. ASSUME NEW rs \in 0..n - 1
      PROVE  /\ NextCtuRsAddr(p, rs) \in S
             /\ NextCtuRsAddr(p, rs) \in 0..n - 1 => Ordinal(p, NextCtuRsAddr(p, rs)) = Ordinal(p, rs) + 1
             /\ NextCtuRsAddr(p, rs) \notin 0..n - 1 =>
                  NextCtuRsAddr(p, rs) = n /\ Ordinal(p, rs) + 1 = n
  <2>1. \/ NextCtuRsAddr(p, rs) \in 0..n - 1 /\ Ordinal(p, NextCtuRsAddr(p, rs)) = Ordinal(p, rs) + 1
        \/ NextCtuRsAddr(p, rs) = n /\ Ordinal(p, rs) + 1 = n
    BY OrdinalNext
  <2>2. n \notin 0..n - 1 /\ n \in S /\ 0..n - 1 \subseteq S
    BY <1>1
  <2> HIDE DEF n, S
  <2> QED
    BY <2>1, <2>2, Zenon
<1>3. Ordinal(p, 0) = 0
  <2>1. 0 \in 0..n - 1 /\ p.width \in Nat \ {0}
    BY <1>1, TilesLemma
  <2>2. 0 % p.width = 0 /\ 0 \div p.width = 0
    BY <2>1
  <2> DEFINE t == TileIdxMap(p, 0)
  <2>3. /\ t \in 0..NumTiles(p) - 1 /\ Offset(p, 0) \in 0..Size(p, t) - 1
        /\ Offset(p, 0) = (0 - Tile(p, t).y) * Tile(p, t).width + (0 - Tile(p, t).x)
        /\ Inside(Tile(p, t), 0, 0)
    <3>0. 0 \in 0..NumCtus(p) - 1
      BY <2>1 DEF n
    <3>1. t \in 0..NumTiles(p) - 1 /\ Inside(Tile(p, t), 0 % p.width, 0 \div p.width)
      BY <3>0, TileIdxLemma
    <3>2. Offset(p, 0) \in 0..Size(p, t) - 1
      BY <3>0, OffsetLemma
    <3>3. Offset(p, 0) = ((0 \div p.width) - Tile(p, t).y) * Tile(p, t).width + ((0 % p.width) - Tile(p, t).x)
      BY DEF Offset
    <3> QED
      BY <2>2, <3>1, <3>2, <3>3, Zenon
  <2> HIDE DEF t
  <2>4. Tile(p, t).x = 0 /\ Tile(p, t).y = 0 /\ Tile(p, t).width \in Nat /\ Tile(p, t).height \in Nat
    <3>1. Tile(p, t).x \in Nat /\ Tile(p, t).y \in Nat /\ Tile(p, t).width \in Nat /\ Tile(p, t).height \in Nat
      BY <2>3, TileLemma
    <3>2. Tile(p, t).x <= 0 /\ Tile(p, t).y <= 0
      BY <2>3, Zenon DEF Inside
    <3> QED
      BY <3>1, <3>2
  <2>5. First(p, t) = 0 * p.width + 0 * Tile(p, t).height
        /\ Offset(p, 0) = (0 - 0) * Tile(p, t).width + (0 - 0)
    BY <2>3, <2>4, Zenon DEF First
  <2>6. First(p, t) = 0 /\ Offset(p, 0) = 0
    BY <2>1, <2>4, <2>5
  <2> QED
    BY <2>6 DEF Ordinal, t
<1>4. ASSUME NEW f, IsMap(f) PROVE Good(f)
  <2>1. f[0] = 0 /\ \A ts \in 0..n - 1 : f[ts + 1] = NextCtuRsAddr(p, f[ts])
    <3>1. 0 \in 0..n
      BY <1>1
    <3>2. ASSUME NEW ts \in 0..n - 1 PROVE f[ts + 1] = NextCtuRsAddr(p, f[ts])
      <4>1. ts + 1 \in 0..n /\ ts + 1 # 0 /\ (ts + 1) - 1 = ts
        BY <1>1
      <4>2. f[ts + 1] = NextCtuRsAddr(p, f[(ts + 1) - 1])
        BY <1>4, <4>1
      <4> QED
        BY <4>1, <4>2, Zenon
    <3>3. f[0] = 0
      BY <1>4, <3>1
    <3> QED
      BY <3>2, <3>3
  <2> DEFINE P == {ts \in 0..n - 1 : f[ts] \in 0..n - 1 /\ Ordinal(p, f[ts]) = ts}
  <2>2. 0 \in P
    BY <1>1, <1>3, <2>1
  <2>3. \A ts \in 0..(n - 1) - 1 : ts \in P => ts + 1 \in P
    <3> SUFFICES ASSUME NEW ts \in 0..(n - 1) - 1, ts \in P PROVE ts + 1 \in P
      OBVIOUS
    <3>1. ts \in 0..n - 1 /\ ts + 1 \in 0..n - 1 /\ ts + 1 # n
      BY <1>1
    <3>2. f[ts] \in 0..n - 1 /\ Ordinal(p, f[ts]) = ts
      OBVIOUS
    <3>3. f[ts + 1] = NextCtuRsAddr(p, f[ts])
      BY <2>1, <3>1
    <3> HIDE DEF n
    <3>4. f[ts + 1] \in 0..n - 1 /\ Ordinal(p, f[ts + 1]) = ts + 1
      BY <1>2, <3>1, <3>2, <3>3, Zenon
    <3> QED
      BY <3>1, <3>4
  <2>4. \A ts \in 0..n - 1 : ts \in P
    <3> HIDE DEF P, n
    <3>1. n - 1 \in Nat
      BY <1>1
    <3> QED
      BY <2>2, <2>3, <3>1, Induction, Zenon
  <2>5. f[n] = n
    <3>1. n - 1 \in 0..n - 1 /\ (n - 1) + 1 = n
      BY <1>1
    <3>2. f[n - 1] \in 0..n - 1 /\ Ordinal(p, f[n - 1]) = n - 1
      BY <2>4, <3>1
    <3>3. f[n] = NextCtuRsAddr(p, f[n - 1])
      BY <2>1, <3>1
    <3>4. ASSUME f[n] \in 0..n - 1 PROVE FALSE
      <4>1. Ordinal(p, f[n]) = n
        <5> HIDE DEF n
        <5> QED
          BY <1>2, <3>1, <3>2, <3>3, <3>4, Zenon
      <4>2. Ordinal(p, f[n]) \in 0..n - 1
        <5> HIDE DEF n
        <5>1. PICK rs \in 0..n - 1 : rs = f[n]
          BY <3>4
        <5>2. Offset(p, rs) \in 0..Size(p, TileIdxMap(p, rs)) - 1 /\ TileIdxMap(p, rs) \in 0..NumTiles(p) - 1
          BY OffsetLemma, TileIdxLemma DEF n
        <5> DEFINE t == TileIdxMap(p, rs)
        <5> HIDE DEF t
        <5>3. First(p, t) \in Nat /\ Size(p, t) \in Nat /\ First(p, t) + Size(p, t) <= n
          <6>1. /\ First(p, t) \in Nat /\ Size(p, t) \in Nat
                /\ \A u \in 0..NumTiles(p) - 1 : t < u => First(p, t) + Size(p, t) <= First(p, u)
                /\ t + 1 = NumTiles(p) => First(p, t) + Size(p, t) = NumCtus(p)
            BY <5>2, FirstLemma DEF t
          <6>2. NumTiles(p) \in Nat \ {0} /\ NumTiles(p) - 1 \in 0..NumTiles(p) - 1
            BY TilesLemma
          <6> DEFINE l == NumTiles(p) - 1
          <6>3. /\ First(p, l) \in Nat /\ Size(p, l) \in Nat
                /\ l + 1 = NumTiles(p) => First(p, l) + Size(p, l) = NumCtus(p)
            BY <6>2, FirstLemma
          <6>4. l + 1 = NumTiles(p) /\ t \in 0..l /\ t \in Int
            BY <5>2, <6>2 DEF t
          <6> HIDE DEF l
          <6>5. CASE t = l
            BY <6>1, <6>4, <6>5, <1>1 DEF n
          <6>6. CASE t < l
            BY <6>1, <6>2, <6>3, <6>4, <6>6, <1>1 DEF n, l
          <6> QED
            BY <6>2, <6>4, <6>5, <6>6 DEF l
        <5> QED
          BY <1>1, <5>1, <5>2, <5>3 DEF Ordinal, t
      <4> QED
        BY <1>1, <4>1, <4>2
    <3> HIDE DEF n
    <3> QED
      BY <1>2, <3>2, <3>3, <3>4, Zenon
  <2>6. f \in [0..n -> S]
    <3>1. \A ts \in 0..n : f[ts] \in S
      <4> SUFFICES ASSUME NEW ts \in 0..n PROVE f[ts] \in S
        OBVIOUS
      <4>1. ts \in 0..n - 1 \/ ts = n
        BY <1>1
      <4> QED
        BY <1>1, <2>4, <2>5, <4>1
    <3>2. f = [ts \in 0..n |-> f[ts]]
      BY <1>4
    <3> HIDE DEF n, S
    <3> QED
      BY <3>1, <3>2
  <2> QED
    BY <2>1, <2>4, <2>5, <2>6
<1>5. \E f : IsMap(f)
  <2>1. step \in [1..n -> [S -> S]] /\ 0 \in S
    <3>1. \A rs \in S : Next1(rs) \in S
      <4>1. n \in S
        BY <1>1
      <4> HIDE DEF S, n
      <4> QED
        BY <1>2, <4>1, Zenon
    <3> HIDE DEF Next1
    <3>2. [rs \in S |-> Next1(rs)] \in [S -> S]
      BY <3>1
    <3> QED
      BY <1>1, <3>2
  <2>a. PICK f : IsRecursive(f, n, S, 0, step)
    <3>1. n \in Nat
      BY <1>1
    <3> HIDE DEF n, S, step
    <3> QED
      BY <2>1, <3>1, Recursion, Zenon
  <2>2. f \in [0..n -> S] /\ f[0] = 0 /\ \A i \in 1..n : f[i] = step[i][f[i - 1]]
    <3> HIDE DEF n, S, step
    <3> QED
      BY <2>a, Zenon DEF IsRecursive
  <2>3. ASSUME NEW i \in 0..n PROVE f[i] = IF i = 0 THEN 0 ELSE Next1(f[i - 1])
    <3>1. CASE i = 0
      BY <2>2, <3>1
    <3>2. CASE i # 0
      <4>1. i \in 1..n /\ i - 1 \in 0..n
        BY <1>1, <3>2
      <4>2. f[i - 1] \in S
        BY <2>2, <4>1
      <4>3. f[i] = step[i][f[i - 1]]
        BY <2>2, <4>1
      <4> HIDE DEF Next1
      <4>4. step[i][f[i - 1]] = Next1(f[i - 1])
        BY <4>1, <4>2
      <4> QED
        BY <3>2, <4>3, <4>4
    <3> QED
      BY <3>1, <3>2
  <2> DEFINE Q == {ts \in 0..n - 1 : f[ts] \in 0..n - 1 /\ Ordinal(p, f[ts]) = ts}
  <2>4. 0 \in Q
    <3>1. f[0] = 0
      BY <1>1, <2>3
    <3> QED
      BY <1>1, <1>3, <3>1
  <2>5. \A ts \in 0..(n - 1) - 1 : ts \in Q => ts + 1 \in Q
    <3> SUFFICES ASSUME NEW ts \in 0..(n - 1) - 1, ts \in Q PROVE ts + 1 \in Q
      OBVIOUS
    <3>1. ts + 1 \in 0..n - 1 /\ ts + 1 # n /\ ts + 1 \in 0..n /\ ts + 1 # 0 /\ (ts + 1) - 1 = ts
      BY <1>1
    <3>2. f[ts] \in 0..n - 1 /\ Ordinal(p, f[ts]) = ts
      OBVIOUS
    <3>3. f[ts + 1] = NextCtuRsAddr(p, f[ts])
      <4>1. f[ts + 1] = Next1(f[(ts + 1) - 1])
        BY <2>3, <3>1
      <4>2. f[ts + 1] = Next1(f[ts])
        BY <3>1, <4>1, Zenon
      <4> QED
        BY <3>2, <4>2
    <3> HIDE DEF n
    <3>4. f[ts + 1] \in 0..n - 1 /\ Ordinal(p, f[ts + 1]) = ts + 1
      BY <1>2, <3>1, <3>2, <3>3, Zenon
    <3> QED
      BY <3>1, <3>4
  <2>6. \A ts \in 0..n - 1 : ts \in Q
    <3> HIDE DEF Q, n
    <3>1. n - 1 \in Nat
      BY <1>1
    <3> QED
      BY <2>4, <2>5, <3>1, Induction, Zenon
  <2>7. ASSUME NEW i \in 0..n PROVE f[i] = IF i = 0 THEN 0 ELSE NextCtuRsAddr(p, f[i - 1])
    <3>1. CASE i = 0
      BY <2>3, <3>1
    <3>2. CASE i # 0
      <4>1. i - 1 \in 0..n - 1
        BY <1>1, <3>2
      <4>2. f[i - 1] \in 0..n - 1
        BY <2>6, <4>1
      <4> QED
        BY <2>3, <3>2, <4>2
    <3> QED
      BY <3>1, <3>2
  <2>8. IsMap(f)
    <3>1. f = [i \in 0..n |-> f[i]]
      BY <2>2
    <3>2. [i \in 0..n |-> f[i]] = [i \in 0..n |-> IF i = 0 THEN 0 ELSE NextCtuRsAddr(p, f[i - 1])]
      BY <2>7
    <3> QED
      BY <3>1, <3>2, Zenon
  <2> QED
    BY <2>8
<1>6. map = CHOOSE f : IsMap(f)
  BY DEF CtuTsToRsAddrMap
<1>7. IsMap(map)
  <2> HIDE DEF IsMap, map
  <2> QED
    BY <1>5, <1>6, Zenon
<1>8. Good(map)
  BY <1>4, <1>7
<1> QED
  BY <1>8

LEMMA OrdinalRange ==
  ASSUME NEW p, IsPicture(p), NEW rs \in 0..NumCtus(p) - 1
  PROVE  /\ Ordinal(p, rs) \in 0..NumCtus(p) - 1
         /\ First(p, TileIdxMap(p, rs)) <= Ordinal(p, rs)
         /\ Ordinal(p, rs) < First(p, TileIdxMap(p, rs)) + Size(p, TileIdxMap(p, rs))
<1> DEFINE t == TileIdxMap(p, rs)
           l == NumTiles(p) - 1
<1>1. Offset(p, rs) \in 0..Size(p, t) - 1 /\ t \in 0..NumTiles(p) - 1
  BY OffsetLemma, TileIdxLemma
<1>2. Ordinal(p, rs) = First(p, t) + Offset(p, rs)
  BY DEF Ordinal
<1>3. NumTiles(p) \in Nat \ {0} /\ NumCtus(p) \in Nat
  BY TilesLemma
<1> SUFFICES /\ Ordinal(p, rs) \in 0..NumCtus(p) - 1
             /\ First(p, t) <= Ordinal(p, rs) /\ Ordinal(p, rs) < First(p, t) + Size(p, t)
  BY DEF t
<1> HIDE DEF t
<1>4. /\ First(p, t) \in Nat /\ Size(p, t) \in Nat
      /\ \A u \in 0..NumTiles(p) - 1 : t < u => First(p, t) + Size(p, t) <= First(p, u)
      /\ t + 1 = NumTiles(p) => First(p, t) + Size(p, t) = NumCtus(p)
  BY <1>1, FirstLemma
<1>5. l \in 0..NumTiles(p) - 1 /\ l + 1 = NumTiles(p)
  BY <1>3
<1>6. First(p, l) \in Nat /\ Size(p, l) \in Nat /\ First(p, l) + Size(p, l) = NumCtus(p)
  <2> HIDE DEF l
  <2> QED
    BY <1>5, FirstLemma
<1>7. First(p, t) + Size(p, t) <= NumCtus(p)
  <2> HIDE DEF l
  <2>1. t = l \/ t < l
    BY <1>1, <1>3, <1>5
  <2>2. CASE t = l
    BY <1>3, <1>6, <2>2
  <2>3. CASE t < l
    <3>1. First(p, t) + Size(p, t) <= First(p, l)
      BY <1>4, <1>5, <2>3
    <3> QED
      BY <1>3, <1>4, <1>6, <3>1
  <2> QED
    BY <2>1, <2>2, <2>3
<1> QED
  BY <1>1, <1>2, <1>3, <1>4, <1>7

(* No two CTUs have the same place in the order.                           *)
LEMMA OrdinalUnique ==
  ASSUME NEW p, IsPicture(p), NEW r \in 0..NumCtus(p) - 1, NEW s \in 0..NumCtus(p) - 1,
         Ordinal(p, r) = Ordinal(p, s)
  PROVE  r = s
<1> DEFINE t == TileIdxMap(p, r)
           u == TileIdxMap(p, s)
<1>1. t \in 0..NumTiles(p) - 1 /\ u \in 0..NumTiles(p) - 1
  BY TileIdxLemma
<1>2. /\ First(p, t) <= Ordinal(p, r) /\ Ordinal(p, r) < First(p, t) + Size(p, t)
      /\ First(p, u) <= Ordinal(p, r) /\ Ordinal(p, r) < First(p, u) + Size(p, u)
      /\ Ordinal(p, r) \in Int
  <2>1. /\ First(p, t) <= Ordinal(p, r) /\ Ordinal(p, r) < First(p, t) + Size(p, t)
        /\ Ordinal(p, r) \in 0..NumCtus(p) - 1
    BY OrdinalRange
  <2>2. First(p, u) <= Ordinal(p, s) /\ Ordinal(p, s) < First(p, u) + Size(p, u)
    BY OrdinalRange
  <2> HIDE DEF t, u
  <2> QED
    BY <2>1, <2>2
<1>3. t = u
  <2> HIDE DEF t, u
  <2>1. /\ First(p, t) \in Nat /\ Size(p, t) \in Nat
        /\ \A v \in 0..NumTiles(p) - 1 : t < v => First(p, t) + Size(p, t) <= First(p, v)
    BY <1>1, FirstLemma
  <2>2. /\ First(p, u) \in Nat /\ Size(p, u) \in Nat
        /\ \A v \in 0..NumTiles(p) - 1 : u < v => First(p, u) + Size(p, u) <= First(p, v)
    BY <1>1, FirstLemma
  <2>3. t < u \/ u < t \/ t = u
    BY <1>1, TilesLemma
  <2>4. CASE t < u
    <3>1. First(p, t) + Size(p, t) <= First(p, u)
      BY <1>1, <2>1, <2>4
    <3> QED
      BY <1>2, <2>1, <2>2, <3>1
  <2>5. CASE u < t
    <3>1. First(p, u) + Size(p, u) <= First(p, t)
      BY <1>1, <2>2, <2>5
    <3> QED
      BY <1>2, <2>1, <2>2, <3>1
  <2> QED
    BY <2>3, <2>4, <2>5
<1> DEFINE tile == Tile(p, t)
           i == (r \div p.width) - tile.y
           j == (r % p.width) - tile.x
           k == (s \div p.width) - tile.y
           l == (s % p.width) - tile.x
<1>4. Offset(p, r) = Offset(p, s)
  <2>1. Ordinal(p, r) = First(p, t) + Offset(p, r) /\ Ordinal(p, s) = First(p, t) + Offset(p, s)
    BY <1>3, Zenon DEF Ordinal
  <2>2. Offset(p, r) \in 0..Size(p, t) - 1
    BY OffsetLemma
  <2>3. Offset(p, s) \in 0..Size(p, u) - 1
    BY OffsetLemma
  <2>4. First(p, t) \in Nat /\ Size(p, t) \in Nat
    <3> HIDE DEF t
    <3> QED
      BY <1>1, FirstLemma
  <2>6. Offset(p, r) \in Int /\ Offset(p, s) \in Int
    BY <2>2, <2>3
  <2>7. First(p, t) + Offset(p, r) = First(p, t) + Offset(p, s)
    BY <2>1, Zenon
  <2>8. \A x \in Int : \A y \in Int : \A z \in Nat : z + x = z + y => x = y
    OBVIOUS
  <2> HIDE DEF t
  <2> QED
    BY <2>4, <2>6, <2>7, <2>8, Zenon
<1>5. i \in 0..tile.height - 1 /\ j \in 0..tile.width - 1 /\ Offset(p, r) = i * tile.width + j
  BY OffsetLemma
<1>6. k \in 0..tile.height - 1 /\ l \in 0..tile.width - 1 /\ Offset(p, s) = k * tile.width + l
  <2>1. LET v == Tile(p, u) IN
        /\ (s \div p.width) - v.y \in 0..v.height - 1 /\ (s % p.width) - v.x \in 0..v.width - 1
        /\ Offset(p, s) = ((s \div p.width) - v.y) * v.width + ((s % p.width) - v.x)
    BY OffsetLemma
  <2> HIDE DEF t, u
  <2> QED
    BY <1>3, <2>1, Zenon DEF i, j, k, l
<1>7. tile.x \in Nat /\ tile.y \in Nat /\ tile.width \in Nat \ {0} /\ tile.height \in Nat \ {0}
  <2> HIDE DEF t
  <2> QED
    BY <1>1, TileLemma
<1>8. /\ r \div p.width \in Int /\ r % p.width \in Int /\ s \div p.width \in Int /\ s % p.width \in Int
      /\ r = (r \div p.width) * p.width + (r % p.width)
      /\ s = (s \div p.width) * p.width + (s % p.width)
  <2>1. /\ r \div p.width \in 0..p.height - 1 /\ r % p.width \in 0..p.width - 1
        /\ r = (r \div p.width) * p.width + (r % p.width)
    BY TileIdxLemma
  <2>2. /\ s \div p.width \in 0..p.height - 1 /\ s % p.width \in 0..p.width - 1
        /\ s = (s \div p.width) * p.width + (s % p.width)
    BY TileIdxLemma
  <2> QED
    BY <2>1, <2>2
<1>9. i = k /\ j = l
  <2> HIDE DEF i, j, k, l, tile
  <2>1. i \in Nat /\ k \in Nat
    BY <1>5, <1>6, <1>7
  <2>2. (i * tile.width + j) \div tile.width = i /\ (i * tile.width + j) % tile.width = j
    BY <1>5, <1>7, <2>1, DivisionUnique, Zenon
  <2>3. (k * tile.width + l) \div tile.width = k /\ (k * tile.width + l) % tile.width = l
    BY <1>6, <1>7, <2>1, DivisionUnique, Zenon
  <2> QED
    BY <1>4, <1>5, <1>6, <2>2, <2>3, Zenon
<1>10. r \div p.width = s \div p.width /\ r % p.width = s % p.width
  <2>1. /\ r \div p.width - tile.y = s \div p.width - tile.y
        /\ (r % p.width) - tile.x = (s % p.width) - tile.x
    BY <1>9, Zenon
  <2>2. \A x \in Int : \A y \in Int : \A z \in Nat : x - z = y - z => x = y
    OBVIOUS
  <2> HIDE DEF tile
  <2>5. tile.x \in Nat /\ tile.y \in Nat
    BY <1>7
  <2>3. r \div p.width = s \div p.width
    <3>1. r \div p.width \in Int /\ s \div p.width \in Int
      BY <1>8
    <3> QED
      BY <2>1, <2>2, <2>5, <3>1, Zenon
  <2>4. r % p.width = s % p.width
    <3>1. r % p.width \in Int /\ s % p.width \in Int
      BY <1>8
    <3> QED
      BY <2>1, <2>2, <2>5, <3>1, Zenon
  <2> QED
    BY <2>3, <2>4
<1> QED
  BY <1>8, <1>10, Zenon

(* The maps of TComPicSym are inverse to each other.                       *)
LEMMA PicSymLemma ==
  ASSUME NEW p, IsPicture(p)
  PROVE  LET sym == PicSymOf(p) IN
         /\ sym.numCtusInFrame = NumCtus(p)
         /\ sym.tsToRs \in [0..NumCtus(p) -> 0..NumCtus(p)]
         /\ \A rs \in 0..NumCtus(p) - 1 : sym.rsToTs[rs] = Ordinal(p, rs)
         /\ \A ts \in 0..NumCtus(p) - 1 :
              /\ sym.tsToRs[ts] \in 0..NumCtus(p) - 1 /\ Ordinal(p, sym.tsToRs[ts]) = ts
              /\ sym.tsToRs[ts + 1] = NextCtuRsAddr(p, sym.tsToRs[ts])
         /\ \A rs \in 0..NumCtus(p) - 1 : sym.tileIdx[rs] = TileIdxMap(p, rs)
         /\ \A t \in 0..NumTiles(p) - 1 : sym.tiles[t] = Tile(p, t)
<1> DEFINE n   == NumCtus(p)
           map == CtuTsToRsAddrMap(p)
           sym == PicSymOf(p)
<1>1. n \in Nat \ {0}
  BY TilesLemma
<1>2. /\ map \in [0..n -> 0..n] /\ map[n] = n
      /\ \A ts \in 0..n - 1 : /\ map[ts] \in 0..n - 1 /\ Ordinal(p, map[ts]) = ts
                              /\ map[ts + 1] = NextCtuRsAddr(p, map[ts])
  BY MapLemma
<1>3. /\ sym.numCtusInFrame = n /\ sym.tsToRs = map
      /\ sym.rsToTs = [rs \in 0..n |-> CHOOSE ts \in 0..n : map[ts] = rs]
      /\ sym.tileIdx = [rs \in 0..n - 1 |-> TileIdxMap(p, rs)]
      /\ sym.tiles = [t \in 0..NumTiles(p) - 1 |-> Tile(p, t)]
  BY DEF PicSymOf
<1> HIDE DEF map, sym
<1>4. ASSUME NEW rs \in 0..n - 1 PROVE sym.rsToTs[rs] = Ordinal(p, rs)
  <2>1. rs \in 0..n /\ sym.rsToTs[rs] = CHOOSE ts \in 0..n : map[ts] = rs
    BY <1>1, <1>3
  <2>2. Ordinal(p, rs) \in 0..n - 1
    BY OrdinalRange
  <2> DEFINE o == Ordinal(p, rs)
  <2>3. map[o] \in 0..n - 1 /\ Ordinal(p, map[o]) = Ordinal(p, rs)
    <3> HIDE DEF n
    <3> QED
      BY <1>2, <2>2, Zenon
  <2>4. map[o] = rs
    <3> DEFINE m == map[o]
    <3>1. m \in 0..NumCtus(p) - 1 /\ rs \in 0..NumCtus(p) - 1 /\ Ordinal(p, m) = Ordinal(p, rs)
      BY <2>3
    <3> HIDE DEF m, n
    <3>2. m = rs
      BY <3>1, OrdinalUnique
    <3> QED
      BY <3>2 DEF m
  <2>5. ASSUME NEW ts \in 0..n, map[ts] = rs PROVE ts = o
    <3>a. ts # n
      <4>1. map[n] = n /\ rs # n
        BY <1>1, <1>2
      <4> QED
        BY <2>5, <4>1, Zenon
    <3>1. ts \in 0..n - 1
      BY <1>1, <3>a
    <3> HIDE DEF n
    <3> QED
      BY <1>2, <2>5, <3>1, Zenon
  <2>6. o \in 0..n
    BY <1>1, <2>2
  <2> HIDE DEF o, n
  <2>7. (CHOOSE ts \in 0..n : map[ts] = rs) = o
    BY <2>4, <2>5, <2>6
  <2> QED
    BY <2>1, <2>7, Zenon DEF o
<1>5. /\ \A rs \in 0..n - 1 : sym.tileIdx[rs] = TileIdxMap(p, rs)
      /\ \A t \in 0..NumTiles(p) - 1 : sym.tiles[t] = Tile(p, t)
  BY <1>3
<1> QED
  BY <1>2, <1>3, <1>4, <1>5, Zenon DEF sym

-----------------------------------------------------------------------------
(* Where the CTUs of the picture lie, in the order of coding.              *)
GoodSym == layout \in Layouts /\ picSym = PicSymOf(layout.picture)

LEMMA PictureLemma ==
  ASSUME GoodSym
  PROVE  /\ IsPicture(picture) /\ N = NumCtus(picture) /\ N \in Nat \ {0}
         /\ layout.sliceArgument \in Nat \ {0} /\ layout.segmentArgument \in Nat \ {0}
         /\ wavefronts \in BOOLEAN /\ layout.sliceMode \in Modes /\ layout.segmentMode \in Modes
         /\ NumTiles(picture) \in Nat \ {0} /\ picture.width \in Nat \ {0}
<1>1. layout \in Layouts /\ picSym = PicSymOf(picture)
  BY DEF GoodSym, picture
<1>2. IsPicture(picture)
  BY <1>1, LayoutsAssumption DEF IsPicture, picture
<1>3. N = NumCtus(picture)
  BY <1>1, <1>2, PicSymLemma DEF N
<1>4. NumTiles(picture) \in Nat \ {0} /\ NumCtus(picture) \in Nat \ {0} /\ picture.width \in Nat \ {0}
  BY <1>2, TilesLemma
<1>5. /\ layout.sliceArgument \in Nat \ {0} /\ layout.segmentArgument \in Nat \ {0}
      /\ wavefronts \in BOOLEAN /\ layout.sliceMode \in Modes /\ layout.segmentMode \in Modes
  BY <1>1, LayoutsAssumption DEF wavefronts
<1> QED
  BY <1>2, <1>3, <1>4, <1>5

LEMMA CtuLemma ==
  ASSUME GoodSym, NEW ts \in 0..N - 1
  PROVE  LET tile == TileOf(ts) IN
         /\ Rs(ts) \in 0..N - 1 /\ Ordinal(picture, Rs(ts)) = ts
         /\ TileIdx(ts) = TileIdxMap(picture, Rs(ts))
         /\ TileIdx(ts) \in 0..NumTiles(picture) - 1
         /\ tile = Tile(picture, TileIdx(ts))
         /\ tile.x \in Nat /\ tile.y \in Nat
         /\ tile.width \in Nat \ {0} /\ tile.height \in Nat \ {0}
         /\ tile.x + tile.width <= picture.width /\ tile.y + tile.height <= picture.height
         /\ X(ts) \in Nat /\ Y(ts) \in Nat /\ X(ts) < picture.width /\ Y(ts) < picture.height
         /\ tile.x <= X(ts) /\ X(ts) < tile.x + tile.width
         /\ tile.y <= Y(ts) /\ Y(ts) < tile.y + tile.height
<1>1. IsPicture(picture) /\ N = NumCtus(picture) /\ picSym = PicSymOf(picture)
  BY PictureLemma DEF GoodSym, picture
<1>2. Rs(ts) \in 0..N - 1 /\ Ordinal(picture, Rs(ts)) = ts
  BY <1>1, PicSymLemma DEF Rs
<1>3. TileIdx(ts) = TileIdxMap(picture, Rs(ts))
  BY <1>1, <1>2, PicSymLemma DEF TileIdx
<1> DEFINE t == TileIdx(ts)
<1>4. /\ X(ts) \in 0..picture.width - 1 /\ Y(ts) \in 0..picture.height - 1
      /\ t \in 0..NumTiles(picture) - 1
      /\ Inside(Tile(picture, t), X(ts), Y(ts))
  BY <1>1, <1>2, <1>3, TileIdxLemma DEF X, Y
<1>5. TileOf(ts) = Tile(picture, t)
  BY <1>1, <1>4, PicSymLemma DEF TileOf
<1> HIDE DEF t
<1>6. LET tile == Tile(picture, t) IN
      /\ tile.x \in Nat /\ tile.y \in Nat
      /\ tile.width \in Nat \ {0} /\ tile.height \in Nat \ {0}
      /\ tile.x + tile.width <= picture.width /\ tile.y + tile.height <= picture.height
  BY <1>1, <1>4, TileLemma
<1>7. LET tile == TileOf(ts) IN
      /\ tile.x <= X(ts) /\ X(ts) < tile.x + tile.width
      /\ tile.y <= Y(ts) /\ Y(ts) < tile.y + tile.height
  BY <1>4, <1>5, Zenon DEF Inside
<1>8. /\ X(ts) \in Nat /\ Y(ts) \in Nat /\ X(ts) < picture.width /\ Y(ts) < picture.height
  BY <1>1, <1>4, TilesLemma
<1> QED
  BY <1>2, <1>3, <1>4, <1>5, <1>6, <1>7, <1>8, Zenon DEF t

(* A CTU's place in the order is its place in its tile.                    *)
LEMMA PlaceLemma ==
  ASSUME GoodSym, NEW ts \in 0..N - 1
  PROVE  LET tile == TileOf(ts) IN
         /\ TileStart(ts) = First(picture, TileIdx(ts))
         /\ TileStart(ts) \in Nat
         /\ ts = TileStart(ts) + ((Y(ts) - tile.y) * tile.width + (X(ts) - tile.x))
         /\ TileStart(ts) <= ts /\ ts < TileStart(ts) + tile.width * tile.height
         /\ tile.width * tile.height \in Nat
         /\ tile.width * tile.height = Size(picture, TileIdx(ts))
         /\ TileStart(ts) + tile.width * tile.height <= N
<1> DEFINE t    == TileIdx(ts)
           tile == TileOf(ts)
           rs   == tile.y * picture.width + tile.x
<1>1. IsPicture(picture) /\ N = NumCtus(picture) /\ picSym = PicSymOf(picture) /\ N \in Nat
  BY PictureLemma DEF GoodSym, picture
<1>2. /\ Rs(ts) \in 0..N - 1 /\ Ordinal(picture, Rs(ts)) = ts
      /\ t = TileIdxMap(picture, Rs(ts)) /\ t \in 0..NumTiles(picture) - 1
      /\ tile = Tile(picture, t)
      /\ tile.x \in Nat /\ tile.y \in Nat /\ tile.width \in Nat \ {0} /\ tile.height \in Nat \ {0}
      /\ tile.x + tile.width <= picture.width /\ tile.y + tile.height <= picture.height
  BY CtuLemma
<1>3. /\ Size(picture, t) = tile.width * tile.height
      /\ First(picture, t) \in Nat /\ Size(picture, t) \in Nat
  <2> HIDE DEF t, tile
  <2> QED
    BY <1>1, <1>2, FirstLemma DEF Size
<1>4. /\ tile.x \in 0..picture.width - 1 /\ tile.y \in 0..picture.height - 1
  <2>1. picture.width \in Nat /\ picture.height \in Nat
    BY <1>1, TilesLemma
  <2> HIDE DEF tile
  <2> QED
    BY <1>2, <2>1
<1>5. /\ rs \in 0..NumCtus(picture) - 1 /\ rs % picture.width = tile.x /\ rs \div picture.width = tile.y
  <2> HIDE DEF tile
  <2> QED
    BY <1>1, <1>4, AtLemma
<1>6. Inside(tile, tile.x, tile.y)
  <2> HIDE DEF tile
  <2> QED
    BY <1>2 DEF Inside
<1>7. TileIdxMap(picture, rs) = t
  <2>1. Inside(Tile(picture, t), rs % picture.width, rs \div picture.width)
    BY <1>2, <1>5, <1>6, Zenon
  <2> HIDE DEF rs, t
  <2> QED
    BY <1>1, <1>2, <1>5, <2>1, TileIdxLemma
<1>8. Ordinal(picture, rs) = First(picture, t)
  <2>1. Ordinal(picture, rs) =
          First(picture, t) + ((tile.y - tile.y) * tile.width + (tile.x - tile.x))
    <3> HIDE DEF rs, t, tile
    <3> QED
      BY <1>2, <1>5, <1>7, Zenon DEF Ordinal, Offset
  <2>2. tile.y - tile.y = 0 /\ tile.x - tile.x = 0 /\ 0 * tile.width = 0
    <3> HIDE DEF tile
    <3> QED
      BY <1>2
  <2>3. Ordinal(picture, rs) = First(picture, t) + (0 * tile.width + 0)
    <3> HIDE DEF rs, t, tile
    <3> QED
      BY <2>1, <2>2, Zenon
  <2> HIDE DEF rs, t, tile
  <2> QED
    BY <1>3, <2>2, <2>3
<1>9. TileStart(ts) = First(picture, t)
  <2>1. TileStart(ts) = picSym.rsToTs[rs]
    BY DEF TileStart, RsToTs
  <2> HIDE DEF rs, t
  <2> QED
    BY <1>1, <1>5, <1>8, <2>1, PicSymLemma
<1>10. ts = First(picture, t) + ((Y(ts) - tile.y) * tile.width + (X(ts) - tile.x))
  <2> HIDE DEF t, tile
  <2> QED
    BY <1>2, Zenon DEF Ordinal, Offset, X, Y
<1>11. First(picture, t) <= ts /\ ts < First(picture, t) + Size(picture, t)
  <2> HIDE DEF t, tile
  <2> QED
    BY <1>1, <1>2, OrdinalRange
<1>12. First(picture, t) + Size(picture, t) <= N
  <2> DEFINE l == NumTiles(picture) - 1
  <2>1. NumTiles(picture) \in Nat \ {0}
    BY <1>1, TilesLemma
  <2>2. l \in 0..NumTiles(picture) - 1 /\ l + 1 = NumTiles(picture)
    BY <2>1
  <2> HIDE DEF l, t
  <2>3. First(picture, l) \in Nat /\ Size(picture, l) \in Nat /\ First(picture, l) + Size(picture, l) = N
    BY <1>1, <2>2, FirstLemma
  <2>4. t < l => First(picture, t) + Size(picture, t) <= First(picture, l)
    BY <1>1, <1>2, <2>2, FirstLemma
  <2>5. t = l \/ t < l
    BY <1>2, <2>1, <2>2
  <2>6. CASE t = l
    BY <1>1, <2>3, <2>6
  <2>7. CASE t < l
    BY <1>1, <1>3, <2>3, <2>4, <2>7
  <2> QED
    BY <2>5, <2>6, <2>7
<1> HIDE DEF t, tile
<1> QED
  BY <1>3, <1>9, <1>10, <1>11, <1>12, Zenon DEF t, tile

(* The CTUs of a tile are those from its first one on.                     *)
LEMMA SameTile ==
  ASSUME GoodSym, NEW ts \in 0..N - 1, NEW u \in 0..N - 1
  PROVE  LET after == TileStart(ts) + TileOf(ts).width * TileOf(ts).height IN
         /\ TileIdx(u) = TileIdx(ts) =>
              TileOf(u) = TileOf(ts) /\ TileStart(u) = TileStart(ts) /\ TileStart(ts) <= u /\ u < after
         /\ TileIdx(ts) < TileIdx(u) => after <= TileStart(u) /\ after <= u
         /\ TileStart(ts) <= u /\ u < after => TileIdx(u) = TileIdx(ts)
         /\ ts <= u => TileIdx(ts) <= TileIdx(u)
<1> DEFINE t == TileIdx(ts)
           v == TileIdx(u)
           a == TileStart(ts)
           b == TileOf(ts).width * TileOf(ts).height
           c == TileStart(u)
           d == TileOf(u).width * TileOf(u).height
<1>1. /\ a = First(picture, t) /\ a \in Nat /\ b \in Nat /\ b = Size(picture, t)
      /\ a <= ts /\ ts < a + b
  BY PlaceLemma
<1>2. /\ c = First(picture, v) /\ c \in Nat /\ d \in Nat /\ d = Size(picture, v)
      /\ c <= u /\ u < c + d
  BY PlaceLemma
<1>3. t \in 0..NumTiles(picture) - 1 /\ TileOf(ts) = Tile(picture, t)
  BY CtuLemma
<1>4. v \in 0..NumTiles(picture) - 1 /\ TileOf(u) = Tile(picture, v)
  BY CtuLemma
<1>5. IsPicture(picture) /\ N \in Nat
  BY PictureLemma
<1>a. b = TileOf(ts).width * TileOf(ts).height /\ d = TileOf(u).width * TileOf(u).height
  OBVIOUS
<1> SUFFICES
         /\ v = t => TileOf(u) = TileOf(ts) /\ c = a /\ a <= u /\ u < a + b
         /\ t < v => a + b <= c /\ a + b <= u
         /\ a <= u /\ u < a + b => v = t
         /\ ts <= u => t <= v
  BY Zenon
<1> HIDE DEF t, v, a, b, c, d
<1>6. t < v => a + b <= c
  BY <1>1, <1>2, <1>3, <1>4, <1>5, FirstLemma
<1>7. v < t => c + d <= a
  BY <1>1, <1>2, <1>3, <1>4, <1>5, FirstLemma
<1>8. v = t => TileOf(u) = TileOf(ts) /\ c = a /\ d = b
  BY <1>1, <1>2, <1>3, <1>4, Zenon
<1>9. t \in Int /\ v \in Int /\ ts \in Int /\ u \in Int
  BY <1>3, <1>4, <1>5, PictureLemma
<1>10. v = t => a <= u /\ u < a + b
  BY <1>2, <1>8, Zenon
<1>11. /\ t < v => a + b <= c /\ a + b <= u
       /\ a <= u /\ u < a + b => v = t
       /\ ts <= u => t <= v
  BY <1>1, <1>2, <1>6, <1>7, <1>9
<1> QED
  BY <1>8, <1>10, <1>11

LEMMA FirstOfTileLemma ==
  ASSUME GoodSym, NEW ts \in 0..N - 1
  PROVE  FirstOfTile(ts) <=> ts = TileStart(ts)
<1> DEFINE tile == TileOf(ts)
           i == Y(ts) - tile.y
           j == X(ts) - tile.x
           w == tile.width
<1>1. /\ X(ts) \in Nat /\ Y(ts) \in Nat /\ tile.x \in Nat /\ tile.y \in Nat /\ w \in Nat \ {0}
      /\ tile.x <= X(ts) /\ X(ts) < tile.x + w /\ tile.y <= Y(ts)
  BY CtuLemma
<1>2. TileStart(ts) \in Nat /\ ts = TileStart(ts) + (i * w + j)
  BY PlaceLemma
<1>3. /\ i \in Nat /\ j \in 0..w - 1 /\ (FirstOfTile(ts) <=> i = 0 /\ j = 0)
  <2> HIDE DEF tile, w
  <2>1. FirstOfTile(ts) <=> X(ts) = tile.x /\ Y(ts) = tile.y
    BY DEF FirstOfTile, tile
  <2> QED
    BY <1>1, <2>1
<1> HIDE DEF i, j, w
<1>4. CASE i = 0
  <2>1. i * w = 0
    BY <1>1, <1>4
  <2> QED
    BY <1>2, <1>3, <1>4, <2>1
<1>5. CASE i # 0
  <2>1. 1 * w <= i * w
    BY <1>1, <1>3, <1>5, TimesOrder
  <2>2. i * w \in Nat /\ 1 * w = w
    BY <1>1, <1>3
  <2> QED
    BY <1>1, <1>2, <1>3, <1>5, <2>1, <2>2
<1> QED
  BY <1>4, <1>5

(* The CTUs that follow a CTU in its row of the tile.                      *)
LEMMA RowLemma ==
  ASSUME GoodSym, NEW ts \in 0..N - 1, NEW u \in 0..N - 1,
         ts <= u, u - ts < TileOf(ts).width - (X(ts) - TileOf(ts).x)
  PROVE  TileIdx(u) = TileIdx(ts) /\ Y(u) = Y(ts) /\ X(u) = X(ts) + (u - ts)
<1> DEFINE tile == TileOf(ts)
           w == tile.width
           h == tile.height
           i == Y(ts) - tile.y
           j == X(ts) - tile.x
           k == Y(u) - tile.y
           l == X(u) - tile.x
<1>1. /\ X(ts) \in Nat /\ Y(ts) \in Nat /\ tile.x \in Nat /\ tile.y \in Nat
      /\ w \in Nat \ {0} /\ h \in Nat \ {0}
      /\ tile.x <= X(ts) /\ X(ts) < tile.x + w /\ tile.y <= Y(ts) /\ Y(ts) < tile.y + h
  BY CtuLemma
<1>2. TileStart(ts) \in Nat /\ ts = TileStart(ts) + (i * w + j) /\ TileStart(ts) <= ts
  BY PlaceLemma
<1>3. i \in 0..h - 1 /\ j \in 0..w - 1 /\ u - ts < w - j /\ u - ts \in Nat
  <2>1. ts \in Int /\ u \in Int
    BY PictureLemma
  <2> HIDE DEF w, h, tile
  <2> QED
    BY <1>1, <2>1 DEF tile, w
<1> DEFINE m == j + (u - ts)
<1>4. m \in 0..w - 1
  <2>1. ts \in Int /\ u \in Int /\ w \in Nat
    BY <1>1, PictureLemma
  <2> HIDE DEF j, w
  <2> QED
    BY <1>3, <2>1
<1>5. u = TileStart(ts) + (i * w + m)
  <2>1. ts \in Int /\ u \in Int
    BY PictureLemma
  <2>2. i * w \in Int /\ j \in Int
    <3> HIDE DEF i, j, w
    <3> QED
      BY <1>1, <1>3
  <2> HIDE DEF i, j, w
  <2> QED
    BY <1>2, <2>1, <2>2
<1>6. i * w + m < w * h /\ i * w + m \in Nat /\ w * h \in Nat
  <2> HIDE DEF i, m, w, h
  <2>1. i * w + m \in 0..w * h - 1 /\ w * h \in Nat
    BY <1>1, <1>3, <1>4, RowArithmetic
  <2> QED
    BY <2>1
<1>7. TileStart(ts) <= u /\ u < TileStart(ts) + w * h
  <2> HIDE DEF i, m, w, h
  <2> QED
    BY <1>2, <1>5, <1>6
<1>8. TileIdx(u) = TileIdx(ts) /\ TileOf(u) = tile /\ TileStart(u) = TileStart(ts)
  BY <1>7, SameTile
<1>9. /\ X(u) \in Nat /\ Y(u) \in Nat /\ k \in Nat /\ l \in 0..w - 1
      /\ u = TileStart(ts) + (k * w + l)
  <2>1. LET v == TileOf(u) IN
        /\ X(u) \in Nat /\ Y(u) \in Nat
        /\ v.x <= X(u) /\ X(u) < v.x + v.width /\ v.y <= Y(u)
    BY CtuLemma
  <2>2. LET v == TileOf(u) IN
        u = TileStart(u) + ((Y(u) - v.y) * v.width + (X(u) - v.x))
    BY PlaceLemma
  <2> HIDE DEF tile
  <2>3. X(u) \in Nat /\ Y(u) \in Nat /\ tile.x <= X(u) /\ X(u) < tile.x + w /\ tile.y <= Y(u)
    BY <1>8, <2>1, Zenon
  <2>4. k \in Nat /\ l \in 0..w - 1
    BY <1>1, <2>3
  <2>5. u = TileStart(ts) + (k * w + l)
    BY <1>8, <2>2, Zenon
  <2> QED
    BY <2>3, <2>4, <2>5
<1>10. i = k /\ m = l
  <2>1. i * w + m = k * w + l
    <3>1. i * w + m \in Int /\ k * w + l \in Int
      <4> HIDE DEF i, m, w, k, l
      <4> QED
        BY <1>1, <1>3, <1>4, <1>9
    <3> DEFINE f == i * w + m
               g == k * w + l
    <3>2. f \in Int /\ g \in Int /\ TileStart(ts) + f = TileStart(ts) + g /\ TileStart(ts) \in Nat
      BY <1>2, <1>5, <1>9, <3>1, Zenon
    <3> HIDE DEF f, g
    <3>3. f = g
      BY <3>2
    <3> QED
      BY <3>3 DEF f, g
  <2> HIDE DEF i, k, l, m, w, h
  <2>2. i \in Nat
    BY <1>1, <1>3
  <2>3. (i * w + m) \div w = i /\ (i * w + m) % w = m
    BY <1>1, <1>4, <2>2, DivisionUnique, Zenon
  <2>4. (k * w + l) \div w = k /\ (k * w + l) % w = l
    BY <1>1, <1>9, DivisionUnique, Zenon
  <2> QED
    BY <2>1, <2>3, <2>4, Zenon
<1>11. Y(u) = Y(ts) /\ X(u) = X(ts) + (u - ts)
  <2>1. ts \in Int /\ u \in Int
    BY PictureLemma
  <2> HIDE DEF tile
  <2> QED
    BY <1>1, <1>9, <1>10, <2>1
<1> QED
  BY <1>8, <1>11

(* From a CTU to the next one.                                             *)
LEMMA StepLemma ==
  ASSUME GoodSym, NEW ts \in 0..N - 1
  PROVE  LET tile == TileOf(ts) IN
         \/ /\ ts + 1 < N /\ X(ts) + 1 < tile.x + tile.width
            /\ TileIdx(ts + 1) = TileIdx(ts) /\ X(ts + 1) = X(ts) + 1 /\ Y(ts + 1) = Y(ts)
         \/ /\ ts + 1 < N /\ X(ts) + 1 = tile.x + tile.width /\ Y(ts) + 1 < tile.y + tile.height
            /\ TileIdx(ts + 1) = TileIdx(ts) /\ X(ts + 1) = tile.x /\ Y(ts + 1) = Y(ts) + 1
         \/ /\ ts + 1 < N /\ X(ts) + 1 = tile.x + tile.width /\ Y(ts) + 1 = tile.y + tile.height
            /\ TileIdx(ts + 1) = TileIdx(ts) + 1 /\ FirstOfTile(ts + 1)
         \/ /\ ts + 1 = N /\ X(ts) + 1 = tile.x + tile.width /\ Y(ts) + 1 = tile.y + tile.height
            /\ TileIdx(ts) + 1 = NumTiles(picture)
<1> DEFINE rs   == Rs(ts)
           tile == TileOf(ts)
           t    == TileIdx(ts)
           next == NextCtuRsAddr(picture, rs)
           succ == Tile(picture, t + 1)
<1>1. IsPicture(picture) /\ N = NumCtus(picture) /\ picSym = PicSymOf(picture) /\ N \in Nat \ {0}
  BY PictureLemma DEF GoodSym, picture
<1>2. /\ rs \in 0..N - 1 /\ Ordinal(picture, rs) = ts /\ t = TileIdxMap(picture, rs)
      /\ tile = Tile(picture, t)
  BY CtuLemma
<1>3. Rs(ts + 1) = next
  BY <1>1, PicSymLemma DEF Rs
<1>4. /\ X(ts) = rs % picture.width /\ Y(ts) = rs \div picture.width
      /\ X(ts + 1) = next % picture.width /\ Y(ts + 1) = next \div picture.width
  BY <1>3, Zenon DEF X, Y
<1>5. ts + 1 \in 0..N - 1 \/ ts + 1 = N
  BY <1>1
<1>6. CASE ts + 1 \in 0..N - 1
  <2>1. /\ next \in 0..N - 1 /\ next # NumCtus(picture)
        /\ TileIdx(ts + 1) = TileIdxMap(picture, next)
        /\ TileOf(ts + 1) = Tile(picture, TileIdx(ts + 1))
    <3>1. Rs(ts + 1) \in 0..N - 1 /\ TileIdx(ts + 1) = TileIdxMap(picture, Rs(ts + 1))
          /\ TileOf(ts + 1) = Tile(picture, TileIdx(ts + 1))
      BY <1>6, CtuLemma
    <3> HIDE DEF next
    <3> QED
      BY <1>1, <1>3, <3>1
  <2>2. LET a == X(ts)
            b == Y(ts)
            q == TileIdx(ts + 1)
        IN
         \/ /\ a + 1 < tile.x + tile.width
            /\ q = t /\ X(ts + 1) = a + 1 /\ Y(ts + 1) = b
         \/ /\ a + 1 = tile.x + tile.width /\ b + 1 < tile.y + tile.height
            /\ q = t /\ X(ts + 1) = tile.x /\ Y(ts + 1) = b + 1
         \/ /\ a + 1 = tile.x + tile.width /\ b + 1 = tile.y + tile.height
            /\ q = t + 1 /\ X(ts + 1) = succ.x /\ Y(ts + 1) = succ.y
    <3>1. rs \in 0..NumCtus(picture) - 1
      BY <1>1, <1>2
    <3>2. LET a    == rs % picture.width
              b    == rs \div picture.width
         IN
         \/ /\ a + 1 < tile.x + tile.width
            /\ TileIdxMap(picture, next) = t
            /\ next % picture.width = a + 1 /\ next \div picture.width = b
         \/ /\ a + 1 = tile.x + tile.width /\ b + 1 < tile.y + tile.height
            /\ TileIdxMap(picture, next) = t
            /\ next % picture.width = tile.x /\ next \div picture.width = b + 1
         \/ /\ a + 1 = tile.x + tile.width /\ b + 1 = tile.y + tile.height
            /\ TileIdxMap(picture, next) = t + 1
            /\ next % picture.width = succ.x /\ next \div picture.width = succ.y
         \/ next = NumCtus(picture)
      <4> HIDE DEF rs, t, tile
      <4> QED
        BY <1>1, <1>2, <3>1, NextLemma, Zenon DEF next, succ
    <3> HIDE DEF rs, t, tile, next, succ
    <3> QED
      BY <1>4, <2>1, <3>2, Zenon
  <2>3. ts + 1 < N
    BY <1>1, <1>6
  <2>4. TileIdx(ts + 1) = t + 1 /\ X(ts + 1) = succ.x /\ Y(ts + 1) = succ.y => FirstOfTile(ts + 1)
    BY <2>1, Zenon DEF FirstOfTile
  <2> HIDE DEF rs, t, tile, next, succ
  <2> QED
    BY <2>2, <2>3, <2>4, Zenon DEF t, tile
<1>7. CASE ts + 1 = N
  <2>1. next = N
    BY <1>1, <1>3, <1>7, MapLemma DEF Rs, PicSymOf
  <2>2. N \notin 0..N - 1
    BY <1>1
  <2>3. LET a    == rs % picture.width
            b    == rs \div picture.width
        IN a + 1 = tile.x + tile.width /\ b + 1 = tile.y + tile.height
           /\ t + 1 = NumTiles(picture)
    <3>1. rs \in 0..NumCtus(picture) - 1
      BY <1>1, <1>2
    <3> HIDE DEF rs, t, tile
    <3> QED
      BY <1>1, <1>2, <2>1, <2>2, <3>1, NextLemma, Zenon DEF next, succ
  <2> HIDE DEF rs, t, tile, next, succ
  <2> QED
    BY <1>4, <1>7, <2>3, Zenon DEF t, tile
<1> QED
  BY <1>5, <1>6, <1>7

-----------------------------------------------------------------------------
(* Where slices and slice segments may end.                                *)
LEMMA CtusOfTilesLemma ==
  ASSUME GoodSym, NEW start \in 0..N - 1, NEW n \in Nat \ {0}
  PROVE  LET size == CtusOfTiles(TileIdx(start), n)
             end  == TileStart(start) + size
         IN /\ size \in Nat /\ end <= N
            /\ TileStart(start) + TileOf(start).width * TileOf(start).height <= end
            /\ end < N => FirstOfTile(end)
<1> DEFINE t == TileIdx(start)
           a == TileStart(start)
           b == TileOf(start).width * TileOf(start).height
           S == {ts \in 0..N - 1 : TileIdx(ts) \in t..t + n - 1}
           T == {u \in 0..N : u = N \/ TileIdx(u) >= t + n}
<1>1. N \in Nat \ {0} /\ t \in Nat
  <2>1. N \in Nat \ {0} /\ NumTiles(picture) \in Nat /\ t \in 0..NumTiles(picture) - 1
    BY PictureLemma, CtuLemma
  <2> HIDE DEF t
  <2> QED
    BY <2>1
<1>2. a \in Nat /\ b \in Nat /\ a <= start /\ start < a + b /\ a + b <= N
  BY PlaceLemma
<1>3. \A ts \in 0..N - 1 : TileIdx(ts) \in Int
  <2> SUFFICES ASSUME NEW ts \in 0..N - 1 PROVE TileIdx(ts) \in Int
    OBVIOUS
  <2>1. TileIdx(ts) \in 0..NumTiles(picture) - 1
    BY CtuLemma
  <2> QED
    BY <2>1
<1>4. PICK end \in T : \A u \in T : end <= u
  <2>1. T \in SUBSET Nat /\ T # {}
    BY <1>1
  <2> HIDE DEF T
  <2> QED
    BY <2>1, LeastNumber, Zenon
<1> HIDE DEF b
<1>5. end \in 0..N /\ (end = N \/ TileIdx(end) >= t + n)
  BY <1>4
<1>6. \A u \in 0..N - 1 : u < end => TileIdx(u) < t + n
  <2> SUFFICES ASSUME NEW u \in 0..N - 1, u < end PROVE TileIdx(u) < t + n
    OBVIOUS
  <2>1. u \notin T
    <3> HIDE DEF T
    <3> QED
      BY <1>1, <1>4, <1>5
  <2>2. ~(TileIdx(u) >= t + n) /\ TileIdx(u) \in Int
    BY <1>1, <1>3, <2>1
  <2> HIDE DEF t
  <2> QED
    BY <1>1, <2>2
<1>7. a + b <= end /\ a < end
  <2>1. CASE end = N
    BY <1>1, <1>2, <2>1
  <2>2. CASE end # N
    <3>1. end \in 0..N - 1
      BY <1>1, <1>5, <2>2
    <3>2. t < TileIdx(end)
      <4>1. TileIdx(end) >= t + n /\ TileIdx(end) \in Int
        BY <1>3, <1>5, <2>2, <3>1
      <4> HIDE DEF t
      <4> QED
        BY <1>1, <4>1
    <3>3. a + b <= end
      BY <3>1, <3>2, SameTile DEF b
    <3> HIDE DEF a
    <3> QED
      BY <1>1, <1>2, <3>1, <3>3
  <2> QED
    BY <2>1, <2>2
<1>8. end < N => FirstOfTile(end)
  <2> SUFFICES ASSUME end < N PROVE FirstOfTile(end)
    OBVIOUS
  <2> HIDE DEF a
  <2>1. end - 1 \in 0..N - 1 /\ (end - 1) + 1 = end /\ end - 1 < end /\ end \in 0..N - 1
    BY <1>1, <1>2, <1>5, <1>7
  <2>2. TileIdx(end - 1) < t + n /\ TileIdx(end - 1) \in Int
    BY <1>3, <1>6, <2>1
  <2>3. TileIdx(end) >= t + n /\ TileIdx(end) \in Int
    BY <1>1, <1>3, <1>5, <2>1
  <2>4. TileIdx(end) # TileIdx(end - 1)
    <3> HIDE DEF t
    <3> QED
      BY <1>1, <2>2, <2>3
  <2>5. \/ TileIdx((end - 1) + 1) = TileIdx(end - 1)
        \/ FirstOfTile((end - 1) + 1)
        \/ (end - 1) + 1 = N
    BY <2>1, StepLemma
  <2> QED
    BY <1>1, <2>1, <2>4, <2>5
<1>9. S = a..end - 1
  <2>1. ASSUME NEW ts \in S PROVE ts \in a..end - 1
    <3>1. ts \in 0..N - 1 /\ TileIdx(ts) \in t..t + n - 1
      OBVIOUS
    <3>2. ts < end
      <4> SUFFICES ASSUME end <= ts PROVE FALSE
        BY <1>1, <1>5, <3>1
      <4>1. end \in 0..N - 1
        BY <1>1, <1>5, <3>1
      <4>2. TileIdx(end) <= TileIdx(ts) /\ TileIdx(end) \in Int /\ TileIdx(ts) \in Int
        BY <1>3, <3>1, <4>1, SameTile
      <4>3. TileIdx(end) >= t + n
        BY <1>1, <1>5, <4>1
      <4> HIDE DEF t
      <4> QED
        BY <1>1, <3>1, <4>2, <4>3
    <3>3. a <= ts
      <4> SUFFICES ASSUME ts < a PROVE FALSE
        <5> HIDE DEF a
        <5> QED
          BY <1>1, <1>2, <3>1
      <4>1. ts <= start
        <5> HIDE DEF a
        <5> QED
          BY <1>1, <1>2, <3>1
      <4>2. TileIdx(ts) <= t /\ TileIdx(ts) \in Int
        BY <1>3, <3>1, <4>1, SameTile
      <4>3. TileIdx(ts) = t
        <5> HIDE DEF t
        <5> QED
          BY <1>1, <3>1, <4>2
      <4>4. a <= ts
        BY <3>1, <4>3, SameTile
      <4> HIDE DEF a
      <4> QED
        BY <1>1, <1>2, <3>1, <4>4
    <3> HIDE DEF a
    <3> QED
      BY <1>1, <1>2, <1>5, <3>1, <3>2, <3>3
  <2>2. ASSUME NEW ts \in a..end - 1 PROVE ts \in S
    <3>1. ts \in 0..N - 1 /\ ts < end /\ a <= ts /\ a \in 0..N - 1
      <4> HIDE DEF a
      <4> QED
        BY <1>1, <1>2, <1>5
    <3>2. TileIdx(a) = t
      <4>1. a <= a /\ a < a + b
        <5> HIDE DEF a
        <5> QED
          BY <1>2
      <4> QED
        BY <3>1, <4>1, SameTile DEF b
    <3>3. TileIdx(a) <= TileIdx(ts)
      BY <3>1, SameTile
    <3>4. TileIdx(ts) < t + n /\ TileIdx(ts) \in Int
      BY <1>3, <1>6, <3>1
    <3>5. TileIdx(ts) \in t..t + n - 1
      <4> HIDE DEF t, a
      <4> QED
        BY <1>1, <3>2, <3>3, <3>4
    <3> QED
      BY <3>1, <3>5
  <2> HIDE DEF S, a
  <2> QED
    BY <2>1, <2>2
<1>10. CtusOfTiles(t, n) = end - a
  <2>1. Cardinality(a..end - 1) = end - a
    <3>1. a \in Int /\ end - 1 \in Int /\ ~(a > end - 1)
      <4> HIDE DEF a
      <4> QED
        BY <1>1, <1>2, <1>5, <1>7
    <3> HIDE DEF a
    <3>2. Cardinality(a..end - 1) = (end - 1) - a + 1
      BY <3>1, FS_Interval
    <3> QED
      BY <1>1, <1>2, <1>5, <3>2
  <2> QED
    BY <1>9, <2>1, Zenon DEF CtusOfTiles
<1>11. CtusOfTiles(t, n) \in Nat /\ a + CtusOfTiles(t, n) = end
  <2> HIDE DEF a, t
  <2> QED
    BY <1>1, <1>2, <1>5, <1>7, <1>10
<1> SUFFICES /\ CtusOfTiles(t, n) \in Nat /\ a + CtusOfTiles(t, n) <= N
             /\ a + b <= a + CtusOfTiles(t, n)
             /\ a + CtusOfTiles(t, n) < N => FirstOfTile(a + CtusOfTiles(t, n))
  BY Zenon DEF b
<1> HIDE DEF a, t
<1>12. end <= N
  BY <1>1, <1>5
<1> QED
  BY <1>7, <1>8, <1>11, <1>12, Zenon

(* A CTU's column in its tile.                                             *)
LEMMA ColumnLemma ==
  ASSUME GoodSym, NEW ts \in 0..N - 1
  PROVE  (ts - TileStart(ts)) % TileOf(ts).width = X(ts) - TileOf(ts).x
<1> DEFINE tile == TileOf(ts)
           i == Y(ts) - tile.y
           j == X(ts) - tile.x
           w == tile.width
<1>1. /\ X(ts) \in Nat /\ Y(ts) \in Nat /\ tile.x \in Nat /\ tile.y \in Nat /\ w \in Nat \ {0}
      /\ tile.x <= X(ts) /\ X(ts) < tile.x + w /\ tile.y <= Y(ts)
  BY CtuLemma
<1>2. TileStart(ts) \in Nat /\ ts = TileStart(ts) + (i * w + j)
  BY PlaceLemma
<1>3. i \in Nat /\ j \in 0..w - 1
  <2> HIDE DEF tile, w
  <2> QED
    BY <1>1 DEF w
<1> SUFFICES (ts - TileStart(ts)) % w = j
  OBVIOUS
<1> HIDE DEF i, j, w
<1>4. i * w + j \in Nat /\ (i * w + j) % w = j
  BY <1>1, <1>3, DivisionUnique, Zenon
<1> DEFINE k == i * w + j
<1>5. k \in Nat /\ ts = TileStart(ts) + k
  BY <1>2, <1>4, Zenon
<1> HIDE DEF k
<1>6. ts - TileStart(ts) = k
  BY <1>2, <1>5
<1> QED
  BY <1>4, <1>6, Zenon DEF k

(* Where calculateBoundingCtuTsAddrForSlice() ends a slice or a segment:   *)
(* with CTU counts and byte limits, all that begins there and ends no      *)
(* later is legal; with whole tiles, what it returns is.                   *)
LEMMA BoundLemma ==
  ASSUME GoodSym, NEW start \in 0..N - 1, NEW mode \in Modes, NEW argument \in Nat \ {0}
  PROVE  LET bound == BoundingCtuTsAddr(start, mode, argument) IN
         /\ bound \in 0..N /\ start < bound
         /\ mode \in {"ctus", "bytes"} => /\ \A to \in 0..N : start < to /\ to <= bound => IsLegal(start, to)
                                          /\ bound <= TileStart(start) + TileOf(start).width * TileOf(start).height
         /\ mode \in {"none", "tiles"} /\ FirstOfTile(start) =>
              IsLegal(start, bound) /\ (bound = N \/ FirstOfTile(bound))
         /\ mode = "none" => bound = N
         /\ mode = "tiles" => TileStart(start) + TileOf(start).width * TileOf(start).height <= bound
<1> DEFINE bound == BoundingCtuTsAddr(start, mode, argument)
           asked == AskedBound(start, mode, argument)
           tile == TileOf(start)
           a == TileStart(start)
           area == tile.width * tile.height
           size == CtusOfTiles(TileIdx(start), argument)
           column == (start - a) % tile.width
           rowEnd  == IF wavefronts /\ column # 0 THEN start + tile.width - column ELSE asked
           tileEnd == IF NumTiles(picture) > 1 THEN a + area ELSE asked
<1>1. /\ N \in Nat \ {0} /\ start \in Nat /\ start < N /\ argument \in Nat /\ argument > 0
      /\ wavefronts \in BOOLEAN
  BY PictureLemma
<1>2. a \in Nat /\ area \in Nat /\ a <= start /\ start < a + area /\ a + area <= N
  BY PlaceLemma
<1>3. size \in Nat /\ a + size <= N /\ a + area <= a + size /\ (a + size < N => FirstOfTile(a + size))
  BY CtusOfTilesLemma
<1>4. column = X(start) - tile.x /\ tile.width \in Nat /\ column \in 0..tile.width - 1
  <2>1. column = X(start) - tile.x
    BY ColumnLemma
  <2>2. X(start) \in Nat /\ tile.x \in Nat /\ tile.width \in Nat /\ tile.x <= X(start)
        /\ X(start) < tile.x + tile.width
    BY CtuLemma
  <2> HIDE DEF tile, column
  <2> QED
    BY <2>1, <2>2
<1>5. bound = IF mode \in {"none", "tiles"} THEN asked ELSE Least(asked, Least(rowEnd, tileEnd))
  BY DEF BoundingCtuTsAddr
<1>6. asked = CASE mode = "ctus"  -> Least(start + argument, N)
                [] mode = "tiles" -> Least(start + size, N)
                [] OTHER          -> N
  BY DEF AskedBound
<1>7. FirstOfTile(start) <=> start = a
  BY FirstOfTileLemma
<1>8. NumTiles(picture) = 1 => \A u \in 0..N - 1 : TileIdx(u) = TileIdx(start)
  <2> SUFFICES ASSUME NumTiles(picture) = 1, NEW u \in 0..N - 1 PROVE TileIdx(u) = TileIdx(start)
    OBVIOUS
  <2>1. TileIdx(u) \in 0..NumTiles(picture) - 1 /\ TileIdx(start) \in 0..NumTiles(picture) - 1
    BY CtuLemma
  <2> QED
    BY <2>1
<1>9. NumTiles(picture) \in Nat \ {0}
  BY PictureLemma
<1>a. bound = BoundingCtuTsAddr(start, mode, argument)
  OBVIOUS
<1>b. a = TileStart(start) /\ area = TileOf(start).width * TileOf(start).height /\ tile = TileOf(start)
  OBVIOUS
<1> HIDE DEF bound, a, tile, area, size, column, asked
<1>10. asked \in 0..N /\ start < asked
  <2>1. mode = "ctus" => asked = Least(start + argument, N)
    BY <1>6
  <2>2. mode = "tiles" => asked = Least(start + size, N)
    BY <1>6
  <2>3. mode \notin {"ctus", "tiles"} => asked = N
    BY <1>6
  <2>4. start < start + argument /\ start + argument \in Nat /\ start < start + size /\ start + size \in Nat
    BY <1>1, <1>2, <1>3
  <2>5. \A x \in Nat : start < x => Least(x, N) \in 0..N /\ start < Least(x, N)
    BY <1>1 DEF Least
  <2> QED
    BY <1>1, <2>1, <2>2, <2>3, <2>4, <2>5
<1>11. /\ mode = "none" => asked = N
       /\ mode = "tiles" => asked = Least(start + size, N)
  BY <1>6
<1>12. CASE mode \in {"none", "tiles"}
  <2>1. bound = asked
    BY <1>5, <1>12
  <2>2. mode = "tiles" => a + area <= bound
    BY <1>1, <1>2, <1>3, <1>11, <2>1 DEF Least
  <2>3. start = a => bound = N \/ FirstOfTile(bound)
    <3>1. CASE mode = "none"
      BY <1>11, <2>1, <3>1
    <3>2. CASE mode = "tiles"
      <4>1. start = a => bound = a + size \/ bound = N
        BY <1>1, <1>2, <1>3, <1>11, <2>1, <3>2 DEF Least
      <4>2. a + size = N \/ a + size < N
        BY <1>1, <1>2, <1>3
      <4> QED
        BY <1>3, <4>1, <4>2
    <3> QED
      BY <1>12, <3>1, <3>2
  <2>4. FirstOfTile(start) => X(start) = TileOf(start).x
    BY DEF FirstOfTile
  <2>5. FirstOfTile(start) => IsLegal(start, bound)
    BY <1>7, <1>10, <2>1, <2>3, <2>4 DEF IsLegal
  <2>6. mode \notin {"ctus", "bytes"}
    BY <1>12
  <2> QED
    BY <1>7, <1>10, <1>11, <2>1, <2>2, <2>3, <2>5, <2>6, <1>a, <1>b, Zenon
<1>13. CASE mode \in {"ctus", "bytes"}
  <2>1. bound = Least(asked, Least(rowEnd, tileEnd)) /\ mode \notin {"none", "tiles"}
    BY <1>5, <1>13
  <2>2. /\ wavefronts /\ column # 0 => rowEnd = start + tile.width - column
        /\ ~(wavefronts /\ column # 0) => rowEnd = asked
        /\ NumTiles(picture) > 1 => tileEnd = a + area
        /\ ~(NumTiles(picture) > 1) => tileEnd = asked
    OBVIOUS
  <2> HIDE DEF rowEnd, tileEnd
  <2>3. rowEnd \in Nat /\ start < rowEnd /\ tileEnd \in Nat /\ start < tileEnd
    BY <1>1, <1>2, <1>4, <1>10, <2>2
  <2>4. bound \in 0..N /\ start < bound /\ bound <= rowEnd /\ bound <= tileEnd
    BY <1>1, <1>10, <2>1, <2>3 DEF Least
  <2>5. bound <= a + area
    <3>1. CASE NumTiles(picture) > 1
      BY <2>2, <2>4, <3>1
    <3>2. CASE NumTiles(picture) = 1
      <4>1. N - 1 \in 0..N - 1 /\ start <= N - 1
        BY <1>1
      <4>2. TileIdx(N - 1) = TileIdx(start)
        BY <1>8, <3>2, <4>1
      <4>3. N - 1 < a + area
        BY <1>b, <4>1, <4>2, SameTile
      <4> QED
        BY <1>1, <1>2, <2>4, <4>3
    <3> QED
      BY <1>9, <3>1, <3>2
  <2>6. ASSUME NEW to \in 0..N, start < to, to <= bound
        PROVE  IsLegal(start, to)
    <3>1. to - 1 \in 0..N - 1 /\ start <= to - 1 /\ to - 1 < a + area /\ a <= to - 1
      BY <1>1, <1>2, <2>4, <2>5, <2>6
    <3>2. TileIdx(to - 1) = TileIdx(start)
      BY <1>b, <3>1, SameTile
    <3>3. wavefronts /\ X(start) # tile.x => Y(to - 1) = Y(start)
      <4> SUFFICES ASSUME wavefronts, X(start) # tile.x PROVE Y(to - 1) = Y(start)
        OBVIOUS
      <4>1. X(start) \in Nat /\ tile.x \in Nat
        BY CtuLemma DEF tile
      <4>2. rowEnd = start + tile.width - column
        BY <1>4, <2>2, <4>1
      <4>3. (to - 1) - start < tile.width - column
        BY <1>1, <1>4, <2>4, <2>6, <4>2
      <4>4. (to - 1) - start < TileOf(start).width - (X(start) - TileOf(start).x)
        BY <1>4, <1>b, <4>3, Zenon
      <4> QED
        BY <3>1, <4>4, RowLemma
    <3> QED
      BY <1>b, <2>6, <3>2, <3>3 DEF IsLegal
  <2> QED
    BY <1>a, <1>b, <1>13, <2>1, <2>4, <2>5, <2>6, Zenon
<1> QED
  BY <1>12, <1>13 DEF Modes

-----------------------------------------------------------------------------
(* The layout and the maps never change.                                   *)
LEMMA FixedPlaces ==
  ASSUME UNCHANGED fixedVars, NEW ts
  PROVE  /\ layout' = layout /\ picSym' = picSym /\ picture' = picture /\ N' = N
         /\ Rs(ts)' = Rs(ts) /\ RsToTs(ts)' = RsToTs(ts) /\ X(ts)' = X(ts) /\ Y(ts)' = Y(ts)
         /\ TileIdx(ts)' = TileIdx(ts) /\ TileOf(ts)' = TileOf(ts) /\ TileStart(ts)' = TileStart(ts)
         /\ (FirstOfTile(ts)' <=> FirstOfTile(ts)) /\ Substream(ts)' = Substream(ts)
         /\ (SecondOfRow(ts)' <=> SecondOfRow(ts)) /\ (StartsRow(ts)' <=> StartsRow(ts))
         /\ (EndsSubstream(ts)' <=> EndsSubstream(ts)) /\ wavefronts' = wavefronts
<1>1. layout' = layout /\ picSym' = picSym
  BY DEF fixedVars
<1>2. picture' = picture /\ wavefronts' = wavefronts /\ N' = N
  BY <1>1 DEF picture, wavefronts, N
<1>3. Rs(ts)' = Rs(ts) /\ RsToTs(ts)' = RsToTs(ts)
  BY <1>1 DEF Rs, RsToTs
<1>4. X(ts)' = X(ts) /\ Y(ts)' = Y(ts) /\ TileIdx(ts)' = TileIdx(ts)
  BY <1>1, <1>2 DEF X, Y, TileIdx, Rs
<1>5. TileOf(ts)' = TileOf(ts)
  BY <1>1, <1>4 DEF TileOf
<1>6. TileStart(ts)' = TileStart(ts)
  BY <1>1, <1>2, <1>5 DEF TileStart, RsToTs
<1>7. Substream(ts)' = Substream(ts)
  BY <1>2, <1>3 DEF Substream
<1>8. /\ (FirstOfTile(ts)' <=> FirstOfTile(ts)) /\ (SecondOfRow(ts)' <=> SecondOfRow(ts))
      /\ (StartsRow(ts)' <=> StartsRow(ts)) /\ (EndsSubstream(ts)' <=> EndsSubstream(ts))
  BY <1>2, <1>4, <1>5 DEF FirstOfTile, SecondOfRow, StartsRow, EndsSubstream
<1> QED
  BY <1>1, <1>2, <1>3, <1>4, <1>5, <1>6, <1>7, <1>8

LEMMA FixedBounds ==
  ASSUME UNCHANGED fixedVars, NEW a, NEW b, NEW c
  PROVE  /\ (IsLegal(a, b)' <=> IsLegal(a, b))
         /\ BoundingCtuTsAddr(a, b, c)' = BoundingCtuTsAddr(a, b, c)
<1>1. /\ layout' = layout /\ picSym' = picSym /\ picture' = picture /\ N' = N
      /\ wavefronts' = wavefronts
  BY FixedPlaces
<1>2. IsLegal(a, b)' <=> IsLegal(a, b)
  <2>1. /\ X(a)' = X(a) /\ Y(a)' = Y(a) /\ TileOf(a)' = TileOf(a) /\ TileIdx(a)' = TileIdx(a)
        /\ (FirstOfTile(a)' <=> FirstOfTile(a))
    BY FixedPlaces
  <2>2. Y(b - 1)' = Y(b - 1) /\ TileIdx(b - 1)' = TileIdx(b - 1)
    BY FixedPlaces
  <2>3. FirstOfTile(b)' <=> FirstOfTile(b)
    BY FixedPlaces
  <2> QED
    BY <1>1, <2>1, <2>2, <2>3 DEF IsLegal
<1>3. CtusOfTiles(TileIdx(a), c)' = CtusOfTiles(TileIdx(a), c)
  <2>1. \A ts : TileIdx(ts)' = TileIdx(ts)
    BY FixedPlaces
  <2>2. {ts \in 0..N - 1 : TileIdx(ts) \in TileIdx(a)..TileIdx(a) + c - 1}'
          = {ts \in 0..N - 1 : TileIdx(ts) \in TileIdx(a)..TileIdx(a) + c - 1}
    BY <1>1, <2>1, Zenon
  <2> QED
    BY <2>2, Zenon DEF CtusOfTiles
<1>4. AskedBound(a, b, c)' = AskedBound(a, b, c)
  BY <1>1, <1>3, Zenon DEF AskedBound, Least
<1>5. /\ TileOf(a)' = TileOf(a) /\ TileStart(a)' = TileStart(a)
  BY FixedPlaces
<1>6. BoundingCtuTsAddr(a, b, c)' = BoundingCtuTsAddr(a, b, c)
  BY <1>1, <1>4, <1>5, Zenon DEF BoundingCtuTsAddr, Least
<1> QED
  BY <1>2, <1>6

-----------------------------------------------------------------------------
(* The slices and the slice segments.                                      *)
SliceBound(s) == BoundingCtuTsAddr(s.sliceStart, layout.sliceMode, layout.sliceArgument)
SegmentBound(s) == BoundingCtuTsAddr(s.start, layout.segmentMode, layout.segmentArgument)
WholeTiles == {"none", "tiles"}

(* A slice may consist of several segments.                                *)
Divides == /\ layout.segmentMode # "none"
           /\ layout.segmentMode = "tiles" => layout.sliceMode \in WholeTiles

(* A segment that has been allocated, one whose end is bounded, and one    *)
(* that is complete.                                                       *)
Opened(s) ==
  /\ s \in Segments /\ s.start \in 0..N - 1 /\ s.sliceStart \in 0..N - 1
  /\ s.sliceStart <= s.start /\ s.start < SliceBound(s)
  /\ IF s.dependent THEN Divides /\ s.sliceStart < s.start ELSE s.sliceStart = s.start
  /\ layout.sliceMode \in WholeTiles => FirstOfTile(s.sliceStart)
  /\ layout.sliceMode \in WholeTiles /\ layout.segmentMode = "tiles" => FirstOfTile(s.start)

IsBounded(s) ==
  Opened(s) /\ s.sliceEnd = SliceBound(s) /\ s.end = Least(SegmentBound(s), s.sliceEnd)

Complete(s) ==
  /\ Opened(s)
  /\ s.start < s.end /\ s.end <= s.sliceEnd /\ s.sliceEnd <= SliceBound(s)
  /\ IsLegal(s.start, s.end) /\ IsLegal(s.sliceStart, s.sliceEnd)
  /\ layout.sliceMode \in WholeTiles => s.sliceEnd = N \/ FirstOfTile(s.sliceEnd)
  /\ s.end < s.sliceEnd => Divides /\ (layout.segmentMode = "tiles" => FirstOfTile(s.end))

Linked(s, next) ==
  /\ next.start = s.end /\ (next.dependent <=> s.end < s.sliceEnd)
  /\ next.sliceStart = IF next.dependent THEN s.sliceStart ELSE s.end

(* The segments of a picture, the last of which may not be complete.       *)
Cover(segs) ==
  /\ segs \in Seq(Segments) /\ Len(segs) > 0
  /\ segs[1].start = 0 /\ ~segs[1].dependent
  /\ \A i \in 1..Len(segs) - 1 : Complete(segs[i]) /\ Linked(segs[i], segs[i + 1])

Cutting == phase \in {"compressSlice", "compressCtu"}

SlicesInv ==
  /\ GoodSym /\ phase \in Phases /\ Cover(segments)
  /\ phase = "compressSlice" => Opened(Compressed)
  /\ phase = "compressCtu" => /\ IsBounded(Compressed) /\ ctu \in Nat
                              /\ Compressed.start <= ctu /\ ctu < Compressed.end
  /\ ~Cutting => Complete(Compressed) /\ Compressed.end = N

LEMMA FixedSegment ==
  ASSUME UNCHANGED fixedVars, NEW s
  PROVE  /\ Opened(s)' <=> Opened(s)
         /\ IsBounded(s)' <=> IsBounded(s)
         /\ Complete(s)' <=> Complete(s)
         /\ Segments' = Segments
<1>1. layout' = layout /\ picSym' = picSym /\ N' = N
  BY FixedPlaces
<1>2. \A a : \A b : \A c :
         /\ (IsLegal(a, b)' <=> IsLegal(a, b)) /\ (FirstOfTile(a)' <=> FirstOfTile(a))
         /\ BoundingCtuTsAddr(a, b, c)' = BoundingCtuTsAddr(a, b, c)
  BY FixedPlaces, FixedBounds
<1>3. SliceBound(s)' = SliceBound(s) /\ SegmentBound(s)' = SegmentBound(s)
  BY <1>1, <1>2, Zenon DEF SliceBound, SegmentBound
<1>4. Segments' = Segments
  BY <1>1 DEF Segments, Addresses
<1>5. Divides' <=> Divides
  BY <1>1 DEF Divides
<1>6. Opened(s)' <=> Opened(s)
  BY <1>1, <1>2, <1>3, <1>4, <1>5, Zenon DEF Opened
<1>7. IsBounded(s)' <=> IsBounded(s)
  BY <1>3, <1>6, Zenon DEF IsBounded
<1>8. Complete(s)' <=> Complete(s)
  BY <1>1, <1>2, <1>3, <1>5, <1>6, Zenon DEF Complete
<1> QED
  BY <1>4, <1>6, <1>7, <1>8

LEMMA FixedSegments ==
  ASSUME UNCHANGED fixedVars, NEW s
  PROVE  /\ Opened(s)' <=> Opened(s)
         /\ IsBounded(s)' <=> IsBounded(s)
         /\ Complete(s)' <=> Complete(s)
         /\ Cover(s)' <=> Cover(s)
         /\ GoodSym' <=> GoodSym
<1>1. GoodSym' <=> GoodSym
  BY FixedPlaces DEF GoodSym
<1>2. \A a : Complete(a)' <=> Complete(a)
  BY FixedSegment
<1>3. Cover(s)' <=> Cover(s)
  BY <1>2, FixedSegment, Zenon DEF Cover, Linked
<1> QED
  BY <1>1, <1>3, FixedSegment

LEMMA BoundedIsBounded ==
  ASSUME GoodSym, NEW s, Opened(s)
  PROVE  LET b == Bounded(s) IN
         /\ IsBounded(b) /\ b.start = s.start /\ b.sliceStart = s.sliceStart /\ b.dependent = s.dependent
         /\ s.start < b.end
<1> DEFINE b == Bounded(s)
           e == Least(SegmentBound(s), SliceBound(s))
<1>1. /\ s \in Segments /\ s.start \in 0..N - 1 /\ s.sliceStart \in 0..N - 1
      /\ s.start < SliceBound(s)
  BY DEF Opened
<1>2. SliceBound(s) \in 0..N
  BY <1>1, PictureLemma, BoundLemma DEF SliceBound
<1>3. SegmentBound(s) \in 0..N /\ s.start < SegmentBound(s)
  BY <1>1, PictureLemma, BoundLemma DEF SegmentBound
<1>4. N \in Nat
  BY PictureLemma
<1>5. e \in 0..N /\ s.start < e
  BY <1>1, <1>2, <1>3, <1>4 DEF Least
<1>6. b = [[s EXCEPT !.sliceEnd = SliceBound(s)] EXCEPT !.end = e]
  <2>1. b = [s EXCEPT !.sliceEnd = SliceBound(s), !.end = e]
    BY Zenon DEF Bounded, SliceBound, SegmentBound
  <2> QED
    BY <2>1
<1> HIDE DEF b, e
<1>7. /\ b \in Segments /\ b.start = s.start /\ b.sliceStart = s.sliceStart
      /\ b.dependent = s.dependent /\ b.sliceEnd = SliceBound(s) /\ b.end = e
  BY <1>1, <1>2, <1>5, <1>6 DEF Segments, Addresses
<1>8. SliceBound(b) = SliceBound(s) /\ SegmentBound(b) = SegmentBound(s)
  BY <1>7, Zenon DEF SliceBound, SegmentBound
<1>9. Opened(b)
  BY <1>7, <1>8, Zenon DEF Opened
<1>10. IsBounded(b)
  BY <1>7, <1>8, <1>9, Zenon DEF IsBounded, e
<1> QED
  BY <1>5, <1>7, <1>10, Zenon DEF b

LEMMA BoundedLemma ==
  ASSUME GoodSym, NEW s, IsBounded(s)
  PROVE  /\ Opened(s) /\ s.start \in Nat /\ s.end \in Nat /\ s.sliceEnd \in Nat /\ s.sliceStart \in Nat
         /\ s.start < s.end /\ s.end <= s.sliceEnd /\ s.sliceEnd <= N /\ s.sliceStart <= s.start
         /\ s.sliceEnd = SliceBound(s)
         /\ layout.segmentMode \in {"ctus", "bytes"} =>
              \A to \in 0..N : s.start < to /\ to <= s.end => IsLegal(s.start, to)
         /\ layout.sliceMode \in {"ctus", "bytes"} =>
              \A to \in 0..N : s.sliceStart < to /\ to <= s.sliceEnd => IsLegal(s.sliceStart, to)
         /\ IsLegal(s.start, s.end) /\ IsLegal(s.sliceStart, s.sliceEnd)
         /\ layout.sliceMode \in WholeTiles => s.sliceEnd = N \/ FirstOfTile(s.sliceEnd)
         /\ s.end < s.sliceEnd => Divides /\ (layout.segmentMode = "tiles" => FirstOfTile(s.end))
<1> DEFINE a == s.start
           f == s.sliceStart
           g == SegmentBound(s)
           h == SliceBound(s)
           e == s.end
           m == layout.segmentMode
           o == layout.sliceMode
<1>0. /\ N \in Nat /\ m \in Modes /\ o \in Modes
      /\ layout.sliceArgument \in Nat \ {0} /\ layout.segmentArgument \in Nat \ {0}
  BY PictureLemma
<1>1. Opened(s) /\ s.sliceEnd = h /\ e = Least(g, h)
  BY DEF IsBounded
<1>2. /\ a \in 0..N - 1 /\ f \in 0..N - 1 /\ f <= a /\ a < h
      /\ IF s.dependent THEN Divides /\ f < a ELSE f = a
      /\ o \in WholeTiles => FirstOfTile(f)
      /\ o \in WholeTiles /\ m = "tiles" => FirstOfTile(a)
  BY <1>1 DEF Opened
<1>3. /\ h \in 0..N
      /\ o \in {"ctus", "bytes"} =>
            /\ \A to \in 0..N : f < to /\ to <= h => IsLegal(f, to)
            /\ h <= TileStart(f) + TileOf(f).width * TileOf(f).height
      /\ o \in WholeTiles /\ FirstOfTile(f) => IsLegal(f, h) /\ (h = N \/ FirstOfTile(h))
  BY <1>0, <1>2, BoundLemma DEF SliceBound, WholeTiles
<1>4. /\ g \in 0..N /\ a < g
      /\ m \in {"ctus", "bytes"} => \A to \in 0..N : a < to /\ to <= g => IsLegal(a, to)
      /\ m \in WholeTiles /\ FirstOfTile(a) => IsLegal(a, g) /\ (g = N \/ FirstOfTile(g))
      /\ m = "none" => g = N
      /\ m = "tiles" => TileStart(a) + TileOf(a).width * TileOf(a).height <= g
  BY <1>0, <1>2, BoundLemma DEF SegmentBound, WholeTiles
<1>a. \A t \in 0..N - 1 : TileStart(t) + TileOf(t).width * TileOf(t).height \in Nat
  <2> SUFFICES ASSUME NEW t \in 0..N - 1
               PROVE  TileStart(t) + TileOf(t).width * TileOf(t).height \in Nat
    OBVIOUS
  <2> DEFINE area == TileOf(t).width * TileOf(t).height
  <2>1. TileStart(t) \in Nat /\ area \in Nat
    BY PlaceLemma
  <2> HIDE DEF area
  <2>2. TileStart(t) + area \in Nat
    BY <2>1
  <2> QED
    BY <2>2 DEF area
<1> HIDE DEF a, f, g, h, e, m, o
<1>5. e \in 0..N /\ a < e /\ e <= h /\ e <= g /\ (e = g \/ e = h)
  BY <1>0, <1>1, <1>2, <1>3, <1>4 DEF Least
<1>6. IsLegal(f, h)
  <2>1. CASE o \in {"ctus", "bytes"}
    <3>1. f < h /\ h <= h /\ h \in 0..N
      BY <1>0, <1>2, <1>3
    <3> QED
      BY <1>3, <2>1, <3>1
  <2>2. CASE o \in WholeTiles
    BY <1>2, <1>3, <2>2
  <2> QED
    BY <1>0, <2>1, <2>2 DEF Modes, WholeTiles
<1>7. e < h => Divides /\ (m = "tiles" => FirstOfTile(e))
  <2> SUFFICES ASSUME e < h PROVE Divides /\ (m = "tiles" => FirstOfTile(e))
    OBVIOUS
  <2>1. e = g
    BY <1>0, <1>3, <1>5
  <2>2. m # "none"
    BY <1>0, <1>3, <1>4, <2>1
  <2>3. m = "tiles" => o \in WholeTiles
    <3> SUFFICES ASSUME m = "tiles", o \notin WholeTiles PROVE FALSE
      OBVIOUS
    <3>1. o \in {"ctus", "bytes"} /\ ~Divides
      BY <1>0 DEF Modes, WholeTiles, Divides, m, o
    <3>2. f = a
      BY <1>2, <3>1
    <3> DEFINE z == TileStart(a) + TileOf(a).width * TileOf(a).height
    <3>3. h <= z
      BY <1>3, <3>1, <3>2
    <3>4. z <= g /\ z \in Nat
      BY <1>2, <1>4, <1>a
    <3> HIDE DEF z
    <3> QED
      BY <1>0, <1>3, <1>4, <2>1, <3>3, <3>4
  <2>4. Divides
    BY <2>2, <2>3 DEF Divides, m, o
  <2>5. m = "tiles" => FirstOfTile(e)
    <3>1. m = "tiles" => m \in WholeTiles
      BY DEF WholeTiles
    <3>2. g # N
      BY <1>0, <1>3, <2>1
    <3> QED
      BY <1>2, <1>4, <2>1, <2>3, <3>1, <3>2
  <2> QED
    BY <2>4, <2>5
<1>8. IsLegal(a, e)
  <2>1. CASE m \in {"ctus", "bytes"}
    BY <1>4, <1>5, <2>1
  <2>2. CASE m \in WholeTiles /\ ~Divides
    <3>1. f = a
      BY <1>2, <2>2
    <3>2. e = h
      BY <1>0, <1>3, <1>5, <1>7, <2>2
    <3> QED
      BY <1>6, <3>1, <3>2
  <2>3. CASE m \in WholeTiles /\ Divides
    <3>1. m = "tiles" /\ o \in WholeTiles
      BY <2>3 DEF Divides, WholeTiles, m, o
    <3>2. FirstOfTile(a)
      BY <1>2, <3>1
    <3>3. X(a) = TileOf(a).x
      BY <3>2 DEF FirstOfTile
    <3>4. e = N \/ FirstOfTile(e)
      BY <1>2, <1>3, <1>4, <1>5, <2>3, <3>1, <3>2
    <3> QED
      BY <1>5, <3>2, <3>3, <3>4 DEF IsLegal
  <2> QED
    BY <1>0, <2>1, <2>2, <2>3 DEF Modes, WholeTiles
<1>9. m \in {"ctus", "bytes"} => \A to \in 0..N : a < to /\ to <= e => IsLegal(a, to)
  <2> SUFFICES ASSUME m \in {"ctus", "bytes"}, NEW to \in 0..N, a < to, to <= e PROVE IsLegal(a, to)
    OBVIOUS
  <2>1. to <= g
    BY <1>0, <1>4, <1>5
  <2> QED
    BY <1>4, <2>1
<1>10. /\ a \in Nat /\ e \in Nat /\ h \in Nat /\ f \in Nat /\ h <= N
  BY <1>0, <1>2, <1>3, <1>5
<1>11. o \in WholeTiles => h = N \/ FirstOfTile(h)
  BY <1>2, <1>3
<1>12. o \in {"ctus", "bytes"} => \A to \in 0..N : f < to /\ to <= h => IsLegal(f, to)
  BY <1>3
<1> QED
  BY <1>1, <1>2, <1>5, <1>6, <1>7, <1>8, <1>9, <1>10, <1>11, <1>12, Zenon DEF a, e, f, h, m, o

(* A segment ends at its bound or where the bytes exceed their limit.      *)
LEMMA CutLemma ==
  ASSUME GoodSym, NEW s, IsBounded(s), ctu \in Nat, s.start <= ctu, ctu < s.end,
         NEW overSlice \in BOOLEAN, overSlice => layout.sliceMode = "bytes",
         NEW overSegment \in BOOLEAN, overSegment => layout.segmentMode = "bytes"
  PROVE  LET c == Cut(s, overSlice, overSegment) IN
         /\ c.start = s.start /\ c.sliceStart = s.sliceStart /\ c.dependent = s.dependent
         /\ c.end \in Nat /\ c.end <= s.end
         /\ ctu + 1 < c.end => c = s
         /\ ~(ctu + 1 < c.end) => Complete(c) /\ (c.end = ctu \/ c.end = ctu + 1)
<1> DEFINE c == Cut(s, overSlice, overSegment)
           v == IF ctu = s.start THEN ctu + 1 ELSE ctu
<1>0. /\ Opened(s) /\ s.start \in Nat /\ s.end \in Nat /\ s.sliceEnd \in Nat /\ s.sliceStart \in Nat
      /\ s.start < s.end /\ s.end <= s.sliceEnd /\ s.sliceEnd <= N /\ s.sliceStart <= s.start
      /\ s.sliceEnd = SliceBound(s)
      /\ layout.segmentMode \in {"ctus", "bytes"} =>
           \A to \in 0..N : s.start < to /\ to <= s.end => IsLegal(s.start, to)
      /\ layout.sliceMode \in {"ctus", "bytes"} =>
           \A to \in 0..N : s.sliceStart < to /\ to <= s.sliceEnd => IsLegal(s.sliceStart, to)
      /\ IsLegal(s.start, s.end) /\ IsLegal(s.sliceStart, s.sliceEnd)
      /\ layout.sliceMode \in WholeTiles => s.sliceEnd = N \/ FirstOfTile(s.sliceEnd)
      /\ s.end < s.sliceEnd => Divides /\ (layout.segmentMode = "tiles" => FirstOfTile(s.end))
  BY BoundedLemma
<1>n. N \in Nat
  BY PictureLemma
<1>s. s \in Segments
  BY <1>0 DEF Opened
<1>1. v \in 0..N /\ s.start < v /\ v <= s.end /\ v <= ctu + 1 /\ (v = ctu \/ v = ctu + 1)
  BY <1>0, <1>n
<1>2. /\ overSlice => c = [[s EXCEPT !.end = v] EXCEPT !.sliceEnd = v]
      /\ ~overSlice /\ overSegment => c = [s EXCEPT !.end = v]
      /\ ~overSlice /\ ~overSegment => c = s
  BY DEF Cut
<1> HIDE DEF c, v
<1>3. /\ c \in Segments /\ c.start = s.start /\ c.sliceStart = s.sliceStart /\ c.dependent = s.dependent
      /\ overSlice => c.end = v /\ c.sliceEnd = v
      /\ ~overSlice => c.sliceEnd = s.sliceEnd
      /\ ~overSlice /\ overSegment => c.end = v
      /\ ~overSlice /\ ~overSegment => c.end = s.end /\ c = s
  BY <1>1, <1>2, <1>s DEF Segments, Addresses
<1>4. c.end \in Nat /\ c.end <= s.end /\ (ctu + 1 < c.end => c = s)
  BY <1>0, <1>1, <1>3
<1>5. SliceBound(c) = SliceBound(s) /\ SegmentBound(c) = SegmentBound(s)
  BY <1>3, Zenon DEF SliceBound, SegmentBound
<1>6. Opened(c)
  BY <1>0, <1>3, <1>5, Zenon DEF Opened
<1>7. CASE overSlice
  <2>1. layout.sliceMode = "bytes" /\ layout.sliceMode \notin WholeTiles
    BY <1>7 DEF WholeTiles
  <2>2. IsLegal(s.sliceStart, v)
    BY <1>0, <1>1, <1>n, <2>1
  <2>3. IsLegal(s.start, v)
    <3>1. CASE layout.segmentMode \in {"ctus", "bytes"}
      BY <1>0, <1>1, <3>1
    <3>2. CASE layout.segmentMode \in WholeTiles
      <4>1. ~Divides
        BY <2>1, <3>2 DEF Divides, WholeTiles
      <4>2. s.sliceStart = s.start
        BY <1>0, <4>1 DEF Opened
      <4> QED
        BY <2>2, <4>2
    <3>3. layout.segmentMode \in Modes
      BY PictureLemma
    <3> QED
      BY <3>1, <3>2, <3>3 DEF Modes, WholeTiles
  <2>4. c.end = v /\ c.sliceEnd = v /\ v <= SliceBound(c) /\ ~(v < v)
    BY <1>0, <1>1, <1>3, <1>5, <1>7, <1>n
  <2>5. Complete(c)
    <3>1. v <= v
      BY <1>1
    <3> QED
      BY <1>1, <1>3, <1>6, <2>1, <2>2, <2>3, <2>4, <3>1, Zenon DEF Complete
  <2> QED
    BY <1>1, <1>3, <1>4, <2>4, <2>5, Zenon DEF c
<1>8. CASE ~overSlice /\ overSegment
  <2>1. layout.segmentMode = "bytes"
    BY <1>8
  <2>2. IsLegal(s.start, v) /\ Divides
    BY <1>0, <1>1, <2>1 DEF Divides
  <2>3. c.end = v /\ c.sliceEnd = s.sliceEnd /\ v <= s.sliceEnd /\ s.sliceEnd <= SliceBound(c)
    BY <1>0, <1>1, <1>3, <1>5, <1>8, <1>n
  <2>4. layout.segmentMode # "tiles"
    BY <2>1
  <2>5. Complete(c)
    BY <1>0, <1>1, <1>3, <1>6, <2>2, <2>3, <2>4, Zenon DEF Complete
  <2> QED
    BY <1>1, <1>3, <1>4, <2>3, <2>5, Zenon DEF c
<1>9. CASE ~overSlice /\ ~overSegment
  <2>1. c = s
    BY <1>3, <1>9
  <2>2. s.sliceEnd <= SliceBound(s)
    BY <1>0
  <2>3. Complete(c)
    BY <1>0, <2>1, <2>2, Zenon DEF Complete
  <2>4. ~(ctu + 1 < c.end) => c.end = ctu + 1
    BY <1>0, <2>1
  <2> QED
    BY <1>3, <1>4, <2>3, <2>4, Zenon DEF c
<1> QED
  BY <1>7, <1>8, <1>9

(* The next segment goes on where the last one ended.                      *)
LEMMA NextSegmentLemma ==
  ASSUME GoodSym, NEW s, Complete(s), s.end < N
  PROVE  Opened(NextSegment(s)) /\ Linked(s, NextSegment(s)) /\ NextSegment(s) \in Segments
<1> DEFINE d == s.end < s.sliceEnd
           f == IF d THEN s.sliceStart ELSE s.end
           x == NextSegment(s)
<1>1. /\ Opened(s)
      /\ s.start < s.end /\ s.end <= s.sliceEnd /\ s.sliceEnd <= SliceBound(s)
      /\ IsLegal(s.start, s.end) /\ IsLegal(s.sliceStart, s.sliceEnd)
      /\ layout.sliceMode \in WholeTiles => s.sliceEnd = N \/ FirstOfTile(s.sliceEnd)
      /\ s.end < s.sliceEnd => Divides /\ (layout.segmentMode = "tiles" => FirstOfTile(s.end))
  BY DEF Complete
<1>2. /\ s \in Segments /\ s.start \in 0..N - 1 /\ s.sliceStart \in 0..N - 1
      /\ s.sliceStart <= s.start
      /\ layout.sliceMode \in WholeTiles => FirstOfTile(s.sliceStart)
  BY <1>1 DEF Opened
<1>3. N \in Nat /\ s.end \in 0..N - 1 /\ s.sliceEnd \in 0..N
  <2>1. N \in Nat
    BY PictureLemma
  <2> QED
    BY <1>2, <2>1 DEF Segments, Addresses
<1>4. x = [[[s EXCEPT !.start = s.end] EXCEPT !.dependent = d] EXCEPT !.sliceStart = f]
  BY <1>2, <1>3 DEF NextSegment, Segments, Addresses
<1>6. d \in BOOLEAN /\ f \in 0..N - 1 /\ f <= s.end /\ (d => f = s.sliceStart /\ f < s.end) /\ (~d => f = s.end)
  BY <1>1, <1>2, <1>3
<1>5. /\ x \in Segments /\ x.start = s.end /\ x.dependent = d /\ x.sliceStart = f
  <2> HIDE DEF d, f, x
  <2> QED
    BY <1>2, <1>3, <1>4, <1>6 DEF Segments, Addresses
<1> HIDE DEF x
<1>7. Linked(s, x)
  BY <1>5, Zenon DEF Linked
<1>8. s.end < SliceBound(x)
  <2>1. CASE d
    <3>1. SliceBound(x) = SliceBound(s)
      BY <1>5, <1>6, <2>1 DEF SliceBound
    <3>2. SliceBound(s) \in Int
      BY <1>2, PictureLemma, BoundLemma DEF SliceBound
    <3> QED
      BY <1>1, <1>3, <2>1, <3>1, <3>2
  <2>2. CASE ~d
    BY <1>3, <1>5, <1>6, <2>2, PictureLemma, BoundLemma DEF SliceBound
  <2> QED
    BY <2>1, <2>2
<1>9. ~d => s.sliceEnd = s.end
  BY <1>1, <1>3
<1>10. layout.sliceMode \in WholeTiles => FirstOfTile(f)
  <2>1. s.end # N
    BY <1>3
  <2> HIDE DEF d, f
  <2> QED
    BY <1>1, <1>2, <1>6, <1>9, <2>1, Zenon
<1>11. layout.sliceMode \in WholeTiles /\ layout.segmentMode = "tiles" => FirstOfTile(s.end)
  <2>1. s.end # N
    BY <1>3
  <2> QED
    BY <1>1, <1>6, <1>9, <2>1, Zenon
<1>12. Opened(x)
  <2>1. IF d THEN Divides /\ f < s.end ELSE f = s.end
    BY <1>1, <1>6
  <2> HIDE DEF d, f
  <2> QED
    BY <1>3, <1>5, <1>6, <1>8, <1>10, <1>11, <2>1, Zenon DEF Opened
<1> QED
  BY <1>5, <1>7, <1>12 DEF x

LEMMA CoverReplace ==
  ASSUME NEW segs, Cover(segs), NEW s \in Segments, s.start = segs[Len(segs)].start,
         s.sliceStart = segs[Len(segs)].sliceStart, s.dependent = segs[Len(segs)].dependent
  PROVE  LET t == [segs EXCEPT ![Len(segs)] = s] IN
         Cover(t) /\ Len(t) = Len(segs) /\ t[Len(t)] = s
<1> DEFINE n == Len(segs)
           t == [segs EXCEPT ![n] = s]
<1>1. /\ segs \in Seq(Segments) /\ n \in Nat /\ n > 0
      /\ segs[1].start = 0 /\ ~segs[1].dependent
      /\ \A i \in 1..n - 1 : Complete(segs[i]) /\ Linked(segs[i], segs[i + 1])
  BY DEF Cover
<1>2. t \in Seq(Segments) /\ Len(t) = n /\ t[n] = s /\ \A i \in 1..n - 1 : t[i] = segs[i]
  BY <1>1
<1> HIDE DEF t
<1>3. t[1].start = 0 /\ ~t[1].dependent
  BY <1>1, <1>2
<1>4. ASSUME NEW i \in 1..n - 1 PROVE Complete(t[i]) /\ Linked(t[i], t[i + 1])
  <2>1. CASE i + 1 = n
    <3>1. Linked(segs[i], segs[n])
      BY <1>1, <2>1
    <3>2. Linked(segs[i], s)
      BY <3>1 DEF Linked
    <3> QED
      BY <1>1, <1>2, <2>1, <3>2
  <2>2. CASE i + 1 # n
    <3>1. i + 1 \in 1..n - 1
      BY <1>1, <2>2
    <3> QED
      BY <1>1, <1>2, <3>1
  <2> QED
    BY <2>1, <2>2
<1>5. Cover(t)
  BY <1>1, <1>2, <1>3, <1>4 DEF Cover
<1> QED
  BY <1>2, <1>5 DEF t

LEMMA CoverAppend ==
  ASSUME NEW segs, Cover(segs), Complete(segs[Len(segs)]), NEW x \in Segments,
         Linked(segs[Len(segs)], x)
  PROVE  LET t == Append(segs, x) IN Cover(t) /\ Len(t) = Len(segs) + 1 /\ t[Len(t)] = x
<1> DEFINE n == Len(segs)
           t == Append(segs, x)
<1>1. /\ segs \in Seq(Segments) /\ n \in Nat /\ n > 0
      /\ segs[1].start = 0 /\ ~segs[1].dependent
      /\ \A i \in 1..n - 1 : Complete(segs[i]) /\ Linked(segs[i], segs[i + 1])
  BY DEF Cover
<1>2. t \in Seq(Segments) /\ Len(t) = n + 1 /\ t[n + 1] = x /\ \A i \in 1..n : t[i] = segs[i]
  BY <1>1
<1> HIDE DEF t
<1>3. t[1].start = 0 /\ ~t[1].dependent
  BY <1>1, <1>2
<1>4. ASSUME NEW i \in 1..n PROVE Complete(t[i]) /\ Linked(t[i], t[i + 1])
  <2>1. CASE i = n
    BY <1>1, <1>2, <2>1
  <2>2. CASE i # n
    <3>1. i \in 1..n - 1 /\ i + 1 \in 1..n
      BY <1>1, <2>2
    <3> QED
      BY <1>1, <1>2, <3>1
  <2> QED
    BY <2>1, <2>2
<1>5. Cover(t)
  BY <1>1, <1>2, <1>3, <1>4 DEF Cover
<1> QED
  BY <1>2, <1>5 DEF t

LEMMA FixedInNext ==
  ASSUME UNCHANGED fixedVars
  PROVE  /\ Cover(segments') => Cover(segments)'
         /\ Opened(Compressed') => Opened(Compressed)'
         /\ IsBounded(Compressed') => IsBounded(Compressed)'
         /\ Complete(Compressed') => Complete(Compressed)'
BY FixedSegments

LEMMA SlicesInit == Init => SlicesInv
<1> SUFFICES ASSUME Init PROVE SlicesInv
  OBVIOUS
<1> DEFINE s == [sliceStart |-> 0, sliceEnd |-> N, start |-> 0, end |-> N, dependent |-> FALSE]
<1>1. GoodSym /\ phase = "compressSlice" /\ segments = <<s>>
  BY DEF Init, EncoderInit, GoodSym, picture
<1>2. /\ N \in Nat \ {0} /\ layout.sliceArgument \in Nat \ {0} /\ layout.sliceMode \in Modes
  BY <1>1, PictureLemma
<1>3. s \in Segments
  BY <1>2 DEF Segments, Addresses
<1>4. s.start = 0 /\ s.sliceStart = 0 /\ s.dependent = FALSE
  OBVIOUS
<1> HIDE DEF s
<1>5. 0 \in 0..N - 1 /\ 0 <= 0
  BY <1>2
<1>6. 0 < SliceBound(s)
  BY <1>1, <1>2, <1>4, <1>5, BoundLemma DEF SliceBound
<1>7. FirstOfTile(0)
  <2>1. TileStart(0) \in Nat /\ TileStart(0) <= 0
    BY <1>1, <1>5, PlaceLemma
  <2> QED
    BY <1>1, <1>5, <2>1, FirstOfTileLemma
<1>8. Opened(s)
  BY <1>3, <1>4, <1>5, <1>6, <1>7, Zenon DEF Opened
<1>9. Len(segments) = 1 /\ segments[1] = s /\ segments \in Seq(Segments)
  BY <1>1, <1>3
<1>10. Cover(segments)
  BY <1>4, <1>9 DEF Cover
<1> QED
  BY <1>1, <1>8, <1>9, <1>10 DEF SlicesInv, Compressed, Phases, Cutting

LEMMA SlicesStep == SlicesInv /\ [Next]_vars => SlicesInv'
<1> SUFFICES ASSUME SlicesInv, [Next]_vars PROVE SlicesInv'
  OBVIOUS
<1>1. /\ GoodSym /\ phase \in Phases /\ Cover(segments)
      /\ phase = "compressSlice" => Opened(Compressed)
      /\ phase = "compressCtu" => /\ IsBounded(Compressed) /\ ctu \in Nat
                                  /\ Compressed.start <= ctu /\ ctu < Compressed.end
      /\ ~Cutting => Complete(Compressed) /\ Compressed.end = N
  BY DEF SlicesInv
<1>2. segments \in Seq(Segments) /\ Len(segments) \in Nat /\ Len(segments) > 0
  BY <1>1 DEF Cover
<1>n. N \in Nat
  BY <1>1, PictureLemma
<1>3. ASSUME UNCHANGED fixedVars, UNCHANGED segments, phase' \in Phases,
             ~Cutting, phase' \notin {"compressSlice", "compressCtu"}
      PROVE  SlicesInv'
  <2>1. ~Cutting' /\ phase' # "compressSlice" /\ phase' # "compressCtu"
    BY <1>3 DEF Cutting
  <2>2. GoodSym' /\ Complete(Compressed)' /\ Cover(segments)'
    <3>1. Compressed' = Compressed
      BY <1>3 DEF Compressed
    <3>2. \A s : (Complete(s)' <=> Complete(s)) /\ (Cover(s)' <=> Cover(s))
      BY <1>3, FixedSegments
    <3>3. GoodSym'
      BY <1>1, <1>3, FixedSegments
    <3>4. Complete(Compressed)'
      <4>1. Complete(Compressed)
        BY <1>1, <1>3
      <4> QED
        BY <1>3, <4>1, FixedSegments DEF Compressed
    <3>5. Cover(segments)'
      BY <1>1, <1>3, FixedSegments
    <3> QED
      BY <3>3, <3>4, <3>5
  <2>3. (Compressed.end = N)'
    BY <1>1, <1>3, FixedPlaces DEF Compressed
  <2> QED
    BY <1>3, <2>1, <2>2, <2>3 DEF SlicesInv
<1>4. CASE CompressSlice /\ UNCHANGED decoderVars
  <2> DEFINE s == Compressed
             b == Bounded(s)
  <2>1. /\ phase = "compressSlice" /\ phase' = "compressCtu" /\ UNCHANGED fixedVars
        /\ segments' = [segments EXCEPT ![Len(segments)] = b]
        /\ ctu' = s.start
    BY <1>4 DEF CompressSlice, Compressed
  <2>2. Opened(s)
    BY <1>1, <2>1
  <2>3. /\ IsBounded(b) /\ b.start = s.start /\ b.sliceStart = s.sliceStart /\ b.dependent = s.dependent
        /\ s.start < b.end
    BY <1>1, <2>2, BoundedIsBounded
  <2>4. s = segments[Len(segments)] /\ s.start \in 0..N - 1
    BY <2>2 DEF Opened, Compressed
  <2>5. b \in Segments
    BY <2>3 DEF IsBounded, Opened
  <2> HIDE DEF s, b
  <2>6. Cover(segments') /\ Len(segments') = Len(segments) /\ segments'[Len(segments')] = b
    <3>1. /\ b.start = segments[Len(segments)].start
          /\ b.sliceStart = segments[Len(segments)].sliceStart
          /\ b.dependent = segments[Len(segments)].dependent
      BY <2>3, <2>4
    <3>2. LET t == [segments EXCEPT ![Len(segments)] = b] IN
          Cover(t) /\ Len(t) = Len(segments) /\ t[Len(t)] = b
      BY <1>1, <2>5, <3>1, CoverReplace
    <3> QED
      BY <2>1, <3>2, Zenon
  <2>7. Compressed' = b
    BY <2>6 DEF Compressed
  <2>8. GoodSym' /\ Cover(segments)' /\ IsBounded(Compressed)'
    <3>1. GoodSym'
      BY <1>1, <2>1, FixedSegments
    <3>2. Cover(segments')
      BY <2>6
    <3>3. Cover(segments)'
      BY <2>1, <2>6, FixedInNext
    <3>4. IsBounded(Compressed)'
      BY <2>1, <2>3, <2>7, FixedInNext
    <3> QED
      BY <3>1, <3>3, <3>4
  <2>9. (/\ ctu \in Nat /\ Compressed.start <= ctu /\ ctu < Compressed.end)'
    BY <2>1, <2>3, <2>4, <2>7
  <2>10. Cutting' /\ phase' \in Phases /\ phase' # "compressSlice"
    BY <2>1 DEF Cutting, Phases
  <2> QED
    BY <2>8, <2>9, <2>10 DEF SlicesInv
<1>5. CASE CompressCtu /\ UNCHANGED decoderVars
  <2>1. phase = "compressCtu" /\ UNCHANGED fixedVars
    BY <1>5 DEF CompressCtu
  <2> DEFINE s == Compressed
  <2>2. IsBounded(s) /\ ctu \in Nat /\ s.start <= ctu /\ ctu < s.end
    BY <1>1, <2>1
  <2>3. PICK overSlice \in BOOLEAN, overSegment \in BOOLEAN :
          /\ overSlice => layout.sliceMode = "bytes"
          /\ overSegment => layout.segmentMode = "bytes"
          /\ IF ctu + 1 < Cut(s, overSlice, overSegment).end
               THEN /\ ctu' = ctu + 1
                    /\ UNCHANGED <<phase, segments, segmentEnd>>
               ELSE FinishCompress(Cut(s, overSlice, overSegment), coder')
    <3>1. PICK overSlice \in {FALSE} \cup (IF layout.sliceMode = "bytes" THEN {TRUE} ELSE {}),
               overSegment \in {FALSE} \cup (IF layout.segmentMode = "bytes" THEN {TRUE} ELSE {}) :
            IF ctu + 1 < Cut(s, overSlice, overSegment).end
               THEN /\ ctu' = ctu + 1
                    /\ UNCHANGED <<phase, segments, segmentEnd>>
               ELSE FinishCompress(Cut(s, overSlice, overSegment), coder')
      BY <1>5, Zenon DEF CompressCtu
    <3>2. /\ overSlice \in BOOLEAN /\ (overSlice => layout.sliceMode = "bytes")
          /\ overSegment \in BOOLEAN /\ (overSegment => layout.segmentMode = "bytes")
      OBVIOUS
    <3> QED
      BY <3>1, <3>2, Zenon
  <2> DEFINE c == Cut(s, overSlice, overSegment)
  <2>4. /\ c.start = s.start /\ c.sliceStart = s.sliceStart /\ c.dependent = s.dependent
        /\ c.end \in Nat /\ c.end <= s.end
        /\ ctu + 1 < c.end => c = s
        /\ ~(ctu + 1 < c.end) => Complete(c) /\ (c.end = ctu \/ c.end = ctu + 1)
    <3> HIDE DEF s
    <3> QED
      BY <1>1, <2>2, <2>3, CutLemma
  <2>5. s = segments[Len(segments)]
    BY DEF Compressed
  <2> HIDE DEF c
  <2>6. CASE ctu + 1 < c.end
    <3>1. ctu' = ctu + 1 /\ phase' = phase /\ segments' = segments
      BY <2>3, <2>6 DEF c
    <3>2. Compressed' = Compressed
      BY <3>1 DEF Compressed
    <3> HIDE DEF s
    <3>3. GoodSym' /\ Cover(segments)' /\ IsBounded(Compressed)'
      <4>1. GoodSym'
        BY <1>1, <2>1, FixedSegments
      <4>2. Cover(segments)'
        BY <1>1, <2>1, <3>1, FixedInNext
      <4>3. IsBounded(Compressed)'
        BY <2>1, <2>2, <3>2, FixedInNext DEF s
      <4> QED
        BY <4>1, <4>2, <4>3
    <3>4. c = s
      BY <2>4, <2>6
    <3>5. s.start \in Int
      BY <2>2 DEF IsBounded, Opened
    <3>6. (/\ ctu \in Nat /\ Compressed.start <= ctu /\ ctu < Compressed.end)'
      <4>1. ctu + 1 \in Nat /\ s.start <= ctu + 1 /\ ctu + 1 < s.end
        BY <2>2, <2>6, <3>4, <3>5
      <4> QED
        BY <3>1, <3>2, <4>1 DEF s
    <3>7. Cutting' /\ phase' \in Phases /\ phase' # "compressSlice"
      BY <2>1, <3>1 DEF Cutting, Phases
    <3> QED
      BY <3>3, <3>6, <3>7 DEF SlicesInv
  <2>7. CASE ~(ctu + 1 < c.end)
    <3>1. /\ segments' = IF c.end < N
                           THEN Append([segments EXCEPT ![Len(segments)] = c], NextSegment(c))
                           ELSE [segments EXCEPT ![Len(segments)] = c]
          /\ phase' = IF c.end < N THEN "compressSlice" ELSE "encodeSlice"
      BY <2>3, <2>7, Zenon DEF FinishCompress, c
    <3> HIDE DEF s
    <3> DEFINE t == [segments EXCEPT ![Len(segments)] = c]
    <3>2. Complete(c)
      BY <2>4, <2>7
    <3>3. c \in Segments /\ c.end <= N
      <4>1. c \in Segments
        BY <3>2 DEF Complete, Opened
      <4> QED
        BY <1>n, <4>1 DEF Segments, Addresses
    <3>4. Cover(t) /\ Len(t) = Len(segments) /\ t[Len(t)] = c
      <4>1. /\ c.start = segments[Len(segments)].start
            /\ c.sliceStart = segments[Len(segments)].sliceStart
            /\ c.dependent = segments[Len(segments)].dependent
        BY <2>4, <2>5
      <4> QED
        BY <1>1, <3>3, <4>1, CoverReplace
    <3> HIDE DEF t
    <3>5. CASE c.end < N
      <4> DEFINE x == NextSegment(c)
      <4>1. Opened(x) /\ Linked(c, x) /\ x \in Segments
        BY <1>1, <3>2, <3>5, NextSegmentLemma
      <4>2. segments' = Append(t, x) /\ phase' = "compressSlice"
        BY <3>1, <3>5 DEF t
      <4> HIDE DEF x
      <4>3. Cover(Append(t, x)) /\ Append(t, x)[Len(Append(t, x))] = x
        BY <3>2, <3>4, <4>1, CoverAppend
      <4>4. Compressed' = x
        BY <4>2, <4>3, Zenon DEF Compressed
      <4>5. GoodSym' /\ Cover(segments)' /\ Opened(Compressed)'
        <5>1. GoodSym'
          BY <1>1, <2>1, FixedSegments
        <5>2. Cover(segments)'
          BY <2>1, <4>2, <4>3, FixedInNext
        <5>3. Opened(Compressed)'
          BY <2>1, <4>1, <4>4, FixedInNext
        <5> QED
          BY <5>1, <5>2, <5>3
      <4>6. Cutting' /\ phase' \in Phases /\ phase' # "compressCtu"
        BY <4>2 DEF Cutting, Phases
      <4> QED
        BY <4>5, <4>6 DEF SlicesInv
    <3>6. CASE ~(c.end < N)
      <4>1. segments' = t /\ phase' = "encodeSlice"
        BY <3>1, <3>6 DEF t
      <4>2. c.end = N
        BY <1>n, <2>4, <3>3, <3>6
      <4>3. Compressed' = c
        BY <3>4, <4>1, Zenon DEF Compressed
      <4>4. GoodSym' /\ Cover(segments)' /\ Complete(Compressed)'
        <5>1. GoodSym'
          BY <1>1, <2>1, FixedSegments
        <5>2. Cover(segments)'
          BY <2>1, <3>4, <4>1, FixedInNext
        <5>3. Complete(Compressed)'
          BY <2>1, <3>2, <4>3, FixedInNext
        <5> QED
          BY <5>1, <5>2, <5>3
      <4>5. (Compressed.end = N)'
        BY <2>1, <4>2, <4>3, FixedPlaces
      <4>6. ~Cutting' /\ phase' \in Phases /\ phase' # "compressCtu" /\ phase' # "compressSlice"
        BY <4>1 DEF Cutting, Phases
      <4> QED
        BY <4>4, <4>5, <4>6 DEF SlicesInv
    <3> QED
      BY <3>5, <3>6
  <2> QED
    BY <2>6, <2>7
<1>6. CASE EncodeSlice /\ UNCHANGED decoderVars
  BY <1>3, <1>6 DEF EncodeSlice, Cutting, Phases
<1>7. CASE EncodeCtu /\ UNCHANGED decoderVars
  <2>1. phase = "encodeCtu" /\ phase' \in {"encodeSlice", "decodeSlice", "encodeCtu"}
    BY <1>7 DEF EncodeCtu
  <2>2. UNCHANGED fixedVars /\ UNCHANGED segments
    BY <1>7 DEF EncodeCtu
  <2> QED
    BY <1>3, <2>1, <2>2 DEF Cutting, Phases
<1>8. CASE DecodeSlice
  BY <1>3, <1>8 DEF DecodeSlice, Cutting, Phases
<1>9. CASE DecodeCtu
  <2>1. phase = "decodeCtu" /\ phase' \in {"decodeSlice", "decodeCtu", "done", "lost"}
    BY <1>9 DEF DecodeCtu, Decode, FinishDecode, LosePlace
  <2>2. UNCHANGED fixedVars /\ UNCHANGED segments
    BY <1>9 DEF DecodeCtu
  <2> QED
    BY <1>3, <2>1, <2>2 DEF Cutting, Phases
<1>10. CASE UNCHANGED vars
  <2>1. UNCHANGED fixedVars /\ segments' = segments /\ phase' = phase /\ ctu' = ctu
    BY <1>10 DEF vars, encoderVars, fixedVars
  <2>2. Compressed' = Compressed
    BY <2>1 DEF Compressed
  <2>3. GoodSym' /\ Cover(segments)'
    BY <1>1, <2>1, FixedSegments
  <2>4. /\ Opened(Compressed)' <=> Opened(Compressed)
        /\ IsBounded(Compressed)' <=> IsBounded(Compressed)
        /\ Complete(Compressed)' <=> Complete(Compressed)
        /\ (Compressed.end = N)' <=> Compressed.end = N
    BY <2>1, <2>2, FixedInNext, FixedSegments, FixedPlaces
  <2> QED
    BY <1>1, <2>1, <2>2, <2>3, <2>4 DEF SlicesInv, Cutting
<1>11. \/ CompressSlice /\ UNCHANGED decoderVars
       \/ CompressCtu /\ UNCHANGED decoderVars
       \/ EncodeSlice /\ UNCHANGED decoderVars
       \/ EncodeCtu /\ UNCHANGED decoderVars
       \/ DecodeSlice \/ DecodeCtu \/ UNCHANGED vars
  BY DEF Next, EncoderNext
<1> QED
  BY <1>4, <1>5, <1>6, <1>7, <1>8, <1>9, <1>10, <1>11

LEMMA SlicesInvImplies == SlicesInv => SlicesAreLegal
<1> SUFFICES ASSUME SlicesInv, ~Cutting
             PROVE  /\ segments[1].start = 0 /\ segments[Len(segments)].end = N
                    /\ \A i \in DOMAIN segments :
                         /\ IsLegal(segments[i].start, segments[i].end)
                         /\ i < Len(segments) => segments[i + 1].start = segments[i].end
                         /\ LET last == CHOOSE j \in DOMAIN segments :
                                          /\ segments[j].sliceStart = segments[i].sliceStart
                                          /\ j < Len(segments) => ~segments[j + 1].dependent
                            IN IsLegal(segments[i].sliceStart, segments[last].end)
  BY DEF SlicesAreLegal, Cutting
<1> DEFINE n == Len(segments)
<1>1. GoodSym /\ Cover(segments) /\ Complete(segments[n]) /\ segments[n].end = N
  BY DEF SlicesInv, Compressed
<1>2. /\ segments \in Seq(Segments) /\ n \in Nat /\ n > 0 /\ DOMAIN segments = 1..n
      /\ segments[1].start = 0
      /\ \A i \in 1..n - 1 : Complete(segments[i]) /\ Linked(segments[i], segments[i + 1])
  BY <1>1 DEF Cover
<1>3. N \in Nat
  BY <1>1, PictureLemma
<1> HIDE DEF n
<1>4. \A i \in 1..n : Complete(segments[i])
  <2> SUFFICES ASSUME NEW i \in 1..n PROVE Complete(segments[i])
    OBVIOUS
  <2>1. i \in 1..n - 1 \/ i = n
    BY <1>2
  <2> QED
    BY <1>1, <1>2, <2>1
<1> DEFINE IsLast(i, j) == /\ segments[j].sliceStart = segments[i].sliceStart
                           /\ j < n => ~segments[j + 1].dependent
<1>5. ASSUME NEW i \in 1..n PROVE \E j \in 1..n : IsLast(i, j)
  <2> DEFINE T == {j \in 1..n : i <= j /\ (j < n => ~segments[j + 1].dependent)}
  <2>1. T \in SUBSET Nat /\ n \in T
    BY <1>2
  <2>2. PICK j \in T : \A k \in T : j <= k
    <3>1. T # {}
      BY <2>1
    <3> HIDE DEF T
    <3> QED
      BY <2>1, <3>1, LeastNumber, Zenon
  <2>3. j \in 1..n /\ i <= j /\ (j < n => ~segments[j + 1].dependent)
    BY <2>2
  <2>4. ASSUME NEW k \in 1..n, i <= k, k < j
        PROVE  segments[k + 1].sliceStart = segments[k].sliceStart
    <3>1. k \notin T
      <4>1. ~(j <= k)
        BY <2>3, <2>4
      <4> HIDE DEF T
      <4> QED
        BY <2>2, <4>1, Zenon
    <3>2. k < n /\ segments[k + 1].dependent /\ k \in 1..n - 1
      BY <1>2, <2>3, <2>4, <3>1
    <3>3. Linked(segments[k], segments[k + 1])
      BY <1>2, <3>2
    <3> QED
      BY <3>2, <3>3, Zenon DEF Linked
  <2> DEFINE P == {d \in 0..j - i : segments[i + d].sliceStart = segments[i].sliceStart}
  <2>5. 0 \in P
    BY <2>3
  <2>6. \A d \in 0..(j - i) - 1 : d \in P => d + 1 \in P
    <3> SUFFICES ASSUME NEW d \in 0..(j - i) - 1, d \in P PROVE d + 1 \in P
      OBVIOUS
    <3>1. i + d \in 1..n /\ i <= i + d /\ i + d < j /\ d + 1 \in 0..j - i
      BY <1>2, <2>3
    <3>2. segments[(i + d) + 1].sliceStart = segments[i + d].sliceStart
      BY <2>4, <3>1
    <3>3. (i + d) + 1 = i + (d + 1)
      BY <2>3
    <3>4. segments[i + d].sliceStart = segments[i].sliceStart
      OBVIOUS
    <3>5. segments[i + (d + 1)].sliceStart = segments[i].sliceStart
      BY <3>2, <3>3, <3>4, Zenon
    <3> QED
      BY <3>1, <3>5
  <2>7. j - i \in P
    <3>1. j - i \in Nat /\ j - i \in 0..j - i
      BY <1>2, <2>3
    <3> DEFINE m == j - i
    <3> HIDE DEF P
    <3>2. m \in Nat /\ \A d \in 0..m - 1 : d \in P => d + 1 \in P
      BY <2>6, <3>1
    <3> HIDE DEF m
    <3>3. \A d \in 0..m : d \in P
      BY <2>5, <3>2, Induction, Zenon
    <3>4. m \in 0..m
      BY <3>2
    <3> QED
      BY <3>3, <3>4, Zenon DEF m
  <2>8. segments[j].sliceStart = segments[i].sliceStart
    <3>1. i + (j - i) = j
      BY <2>3
    <3>2. segments[i + (j - i)].sliceStart = segments[i].sliceStart
      BY <2>7
    <3> QED
      BY <3>1, <3>2, Zenon
  <2> HIDE DEF T, P
  <2> QED
    BY <2>3, <2>8
<1>6. ASSUME NEW i \in 1..n, NEW j \in 1..n, IsLast(i, j)
      PROVE  IsLegal(segments[i].sliceStart, segments[j].end)
  <2>1. Complete(segments[j])
    BY <1>4
  <2>2. /\ IsLegal(segments[j].sliceStart, segments[j].sliceEnd)
        /\ segments[j].end <= segments[j].sliceEnd
    BY <2>1 DEF Complete
  <2>3. segments[j].end \in Nat /\ segments[j].sliceEnd \in Nat /\ segments[j].sliceEnd <= N
    <3>1. segments[j] \in Segments
      BY <2>1 DEF Complete, Opened
    <3> QED
      BY <1>3, <3>1 DEF Segments, Addresses
  <2>4. segments[j].end = segments[j].sliceEnd
    <3>1. CASE j < n
      <4>1. j \in 1..n - 1
        BY <1>2, <3>1
      <4>2. Linked(segments[j], segments[j + 1])
        BY <1>2, <4>1
      <4>3. ~segments[j + 1].dependent
        BY <1>6, <3>1
      <4>4. ~(segments[j].end < segments[j].sliceEnd)
        BY <4>2, <4>3 DEF Linked
      <4> QED
        BY <2>2, <2>3, <4>4
    <3>2. CASE ~(j < n)
      <4>1. j = n
        BY <1>2, <3>2
      <4> QED
        BY <1>1, <1>3, <2>2, <2>3, <4>1 DEF n
    <3> QED
      BY <3>1, <3>2
  <2>5. segments[j].sliceStart = segments[i].sliceStart
    BY <1>6
  <2> QED
    BY <2>2, <2>4, <2>5, Zenon
<1>7. ASSUME NEW i \in DOMAIN segments
      PROVE  LET last == CHOOSE j \in DOMAIN segments : IsLast(i, j)
             IN IsLegal(segments[i].sliceStart, segments[last].end)
  <2> DEFINE last == CHOOSE j \in DOMAIN segments : IsLast(i, j)
  <2>1. last \in DOMAIN segments /\ IsLast(i, last)
    <3>1. \E j \in DOMAIN segments : IsLast(i, j)
      BY <1>2, <1>5
    <3> HIDE DEF IsLast
    <3> QED
      BY <3>1, Zenon
  <2> HIDE DEF last
  <2>2. IsLegal(segments[i].sliceStart, segments[last].end)
    <3> HIDE DEF IsLast
    <3> QED
      BY <1>2, <1>6, <2>1
  <2> QED
    BY <2>2 DEF last
<1>8. ASSUME NEW i \in DOMAIN segments
      PROVE  /\ IsLegal(segments[i].start, segments[i].end)
             /\ i < n => segments[i + 1].start = segments[i].end
  <2>1. IsLegal(segments[i].start, segments[i].end)
    BY <1>2, <1>4 DEF Complete
  <2>2. i < n => segments[i + 1].start = segments[i].end
    <3> SUFFICES ASSUME i < n PROVE segments[i + 1].start = segments[i].end
      OBVIOUS
    <3>1. i \in 1..n - 1
      BY <1>2
    <3> QED
      BY <1>2, <3>1 DEF Linked
  <2> QED
    BY <2>1, <2>2
<1> QED
  BY <1>1, <1>2, <1>7, <1>8, Zenon DEF n

(* Whatever the picture, its tiles, the wavefronts and the limits on slices *)
(* and segments: what compressSlice() cuts covers the picture, each CTU    *)
(* once, in slices and segments that the standard allows.                  *)
THEOREM SlicesLegal == Spec => []SlicesAreLegal
<1>1. Init => SlicesInv
  BY SlicesInit
<1>2. SlicesInv /\ [Next]_vars => SlicesInv'
  BY SlicesStep
<1>3. SlicesInv => SlicesAreLegal
  BY SlicesInvImplies
<1> QED
  BY <1>1, <1>2, <1>3, PTL DEF Spec

-----------------------------------------------------------------------------
(* The CTU above and to the right of the first one of a row.               *)
LEMMA OrdinalPlace ==
  ASSUME GoodSym, NEW rs \in 0..N - 1
  PROVE  RsToTs(rs) \in 0..N - 1 /\ Rs(RsToTs(rs)) = rs
<1>1. IsPicture(picture) /\ N = NumCtus(picture) /\ picSym = PicSymOf(picture)
  BY PictureLemma DEF GoodSym, picture
<1>2. RsToTs(rs) = Ordinal(picture, rs)
  BY <1>1, PicSymLemma DEF RsToTs
<1> DEFINE ts == RsToTs(rs)
<1>3. ts \in 0..N - 1
  BY <1>1, <1>2, OrdinalRange
<1> HIDE DEF ts
<1>4. Rs(ts) \in 0..N - 1 /\ Ordinal(picture, Rs(ts)) = ts
  BY <1>3, CtuLemma
<1> DEFINE q == Rs(ts)
<1>5. q \in 0..NumCtus(picture) - 1 /\ rs \in 0..NumCtus(picture) - 1
      /\ Ordinal(picture, q) = Ordinal(picture, rs)
  BY <1>1, <1>2, <1>4 DEF ts
<1> HIDE DEF q
<1>6. q = rs
  BY <1>1, <1>5, OrdinalUnique
<1> QED
  BY <1>3, <1>6 DEF q, ts

LEMMA TopRightPlace ==
  ASSUME GoodSym, NEW ts \in 0..N - 1, X(ts) = TileOf(ts).x
  PROVE  LET tile     == TileOf(ts)
             topRight == RsToTs(Rs(ts) - picture.width + 1)
             same     == tile.width >= 2 /\ Y(ts) > tile.y
         IN /\ Y(ts) > 0 /\ X(ts) + 1 < picture.width => (TileIdx(topRight) = TileIdx(ts) <=> same)
            /\ same => /\ Y(ts) > 0 /\ X(ts) + 1 < picture.width
                       /\ topRight = ts - tile.width + 1 /\ topRight \in 0..N - 1
                       /\ X(topRight) = tile.x + 1 /\ TileIdx(topRight) = TileIdx(ts)
                       /\ TileStart(ts) < topRight
<1> DEFINE tile == TileOf(ts)
           w    == tile.width
           t    == TileIdx(ts)
           W    == picture.width
           rs   == Rs(ts) - W + 1
           tr   == RsToTs(rs)
           a    == X(ts) + 1
           b    == Y(ts) - 1
<1>1. /\ Rs(ts) \in 0..N - 1 /\ t \in 0..NumTiles(picture) - 1
      /\ tile = Tile(picture, t)
      /\ tile.x \in Nat /\ tile.y \in Nat /\ w \in Nat \ {0} /\ tile.height \in Nat \ {0}
      /\ tile.x + w <= W
      /\ X(ts) \in Nat /\ Y(ts) \in Nat /\ X(ts) < W /\ Y(ts) < picture.height
      /\ tile.y <= Y(ts) /\ Y(ts) < tile.y + tile.height
  BY CtuLemma
<1>2. IsPicture(picture) /\ N = NumCtus(picture) /\ N \in Nat /\ W \in Nat \ {0}
      /\ picture.height \in Nat
  BY PictureLemma, TilesLemma
<1>3. Rs(ts) = Y(ts) * W + X(ts)
  <2>1. Rs(ts) \in 0..NumCtus(picture) - 1
    BY <1>1, <1>2
  <2> QED
    BY <1>2, <2>1, TileIdxLemma, Zenon DEF X, Y
<1>x. X(ts) = tile.x
  OBVIOUS
<1>t. tile = TileOf(ts) /\ t = TileIdx(ts) /\ W = picture.width /\ w = tile.width
  OBVIOUS
<1>4. ASSUME Y(ts) > 0, a < W
      PROVE  /\ tr \in 0..N - 1 /\ X(tr) = a /\ Y(tr) = b
             /\ (TileIdx(tr) = t <=> Inside(Tile(picture, t), a, b))
  <2>1. a \in 0..W - 1 /\ b \in 0..picture.height - 1 /\ b \in Nat
    <3> HIDE DEF W
    <3> QED
      BY <1>1, <1>2, <1>4
  <2>2. rs = b * W + a
    <3>1. Y(ts) * W = b * W + W
      <4> HIDE DEF W
      <4> QED
        BY <1>1, <1>2
    <3>2. Y(ts) * W \in Int /\ b * W \in Int
      <4> HIDE DEF W
      <4> QED
        BY <1>1, <1>2
    <3> DEFINE c == Y(ts) * W
               d == b * W
    <3>3. c = d + W /\ c \in Int /\ d \in Int /\ Rs(ts) = c + X(ts)
      BY <1>3, <3>1, <3>2, Zenon
    <3> HIDE DEF c, d, W
    <3>4. Rs(ts) - W + 1 = d + (X(ts) + 1)
      BY <1>1, <1>2, <3>3
    <3> QED
      BY <3>4 DEF d
  <2>3. /\ rs \in 0..N - 1 /\ rs % W = a /\ rs \div W = b
    <3>1. /\ b * W + a \in 0..NumCtus(picture) - 1
          /\ (b * W + a) % W = a /\ (b * W + a) \div W = b
      <4> HIDE DEF a, b
      <4> QED
        BY <1>2, <2>1, AtLemma
    <3> HIDE DEF rs, a, b, W
    <3> QED
      BY <1>2, <2>2, <3>1, Zenon
  <2> HIDE DEF rs, a, b
  <2>4. tr \in 0..N - 1 /\ Rs(tr) = rs
    BY <2>3, OrdinalPlace
  <2>5. X(tr) = a /\ Y(tr) = b
    BY <2>3, <2>4 DEF X, Y
  <2> HIDE DEF tr
  <2>6. TileIdx(tr) = TileIdxMap(picture, rs)
    <3>1. TileIdx(tr) = TileIdxMap(picture, Rs(tr))
      BY <2>4, CtuLemma
    <3> QED
      BY <2>4, <3>1, Zenon
  <2>7. TileIdxMap(picture, rs) = t <=> Inside(Tile(picture, t), a, b)
    <3>1. rs \in 0..NumCtus(picture) - 1
      BY <1>2, <2>3
    <3>2. /\ Inside(Tile(picture, TileIdxMap(picture, rs)), a, b)
          /\ \A u \in 0..NumTiles(picture) - 1 :
               Inside(Tile(picture, u), a, b) => u = TileIdxMap(picture, rs)
      <4>1. /\ Inside(Tile(picture, TileIdxMap(picture, rs)), rs % W, rs \div W)
            /\ \A u \in 0..NumTiles(picture) - 1 :
                 Inside(Tile(picture, u), rs % W, rs \div W) => u = TileIdxMap(picture, rs)
        BY <1>2, <3>1, TileIdxLemma, Zenon
      <4> HIDE DEF W
      <4> QED
        BY <2>3, <4>1, Zenon
    <3> HIDE DEF t
    <3> QED
      BY <1>1, <3>2, Zenon
  <2> QED
    BY <2>4, <2>5, <2>6, <2>7, Zenon
<1>5. Y(ts) > 0 => (Inside(Tile(picture, t), a, b) <=> w >= 2 /\ Y(ts) > tile.y)
  <2>1. Inside(tile, a, b) <=> /\ tile.x <= a /\ a < tile.x + tile.width
                               /\ tile.y <= b /\ b < tile.y + tile.height
    BY Zenon DEF Inside
  <2> HIDE DEF tile, t
  <2> QED
    BY <1>1, <1>t, <1>x, <2>1
<1>6. w >= 2 /\ Y(ts) > tile.y => Y(ts) > 0 /\ a < W
  <2> HIDE DEF tile, W, w
  <2> QED
    BY <1>1, <1>2, <1>x
<1>7. ASSUME w >= 2, Y(ts) > tile.y
      PROVE  tr = ts - w + 1 /\ TileStart(ts) < tr
  <2>1. tr \in 0..N - 1 /\ X(tr) = a /\ Y(tr) = b /\ TileIdx(tr) = t
    BY <1>4, <1>5, <1>6, <1>7
  <2>2. TileOf(tr) = tile /\ TileStart(tr) = TileStart(ts)
    <3> HIDE DEF tr
    <3> QED
      BY <2>1, SameTile
  <2>3. LET v == TileOf(tr) IN tr = TileStart(tr) + ((Y(tr) - v.y) * v.width + (X(tr) - v.x))
    <3> HIDE DEF tr
    <3> QED
      BY <2>1, PlaceLemma
  <2>4. tr = TileStart(ts) + ((b - tile.y) * w + (a - tile.x))
    <3> HIDE DEF tr, tile, a, b
    <3> QED
      BY <2>1, <2>2, <2>3, Zenon DEF w
  <2>5. TileStart(ts) \in Nat /\ ts = TileStart(ts) + ((Y(ts) - tile.y) * w + (X(ts) - tile.x))
    BY PlaceLemma
  <2> DEFINE i == b - tile.y
             j == Y(ts) - tile.y
  <2>6. i \in Nat /\ j = i + 1 /\ a - tile.x = 1 /\ X(ts) - tile.x = 0 /\ w \in Nat
    <3> HIDE DEF tile, w
    <3> QED
      BY <1>1, <1>7, <1>x
  <2> HIDE DEF i, j, tr, w
  <2>7. tr = TileStart(ts) + (i * w + 1) /\ ts = TileStart(ts) + (j * w + 0)
    BY <2>4, <2>5, <2>6, Zenon DEF i, j
  <2>8. j * w = i * w + w /\ i * w \in Nat
    BY <2>6
  <2> DEFINE k == i * w
  <2>9. tr = TileStart(ts) + (k + 1) /\ ts = TileStart(ts) + (k + w + 0) /\ k \in Nat
    BY <2>7, <2>8, Zenon
  <2> HIDE DEF k
  <2> QED
    BY <2>5, <2>6, <2>9
<1>8. w >= 2 /\ Y(ts) > tile.y => X(tr) = tile.x + 1 /\ TileIdx(tr) = t /\ tr \in 0..N - 1
  BY <1>4, <1>5, <1>6, <1>x
<1> QED
  BY <1>4, <1>5, <1>6, <1>7, <1>8, Zenon

(* It is the last second one of a row that has been coded.                 *)
LEMMA TopRightIsLast ==
  ASSUME GoodSym, NEW ts \in 0..N - 1, StartsRow(ts), TileOf(ts).width >= 2, Y(ts) > TileOf(ts).y
  PROVE  LET topRight == ts - TileOf(ts).width + 1 IN
         /\ topRight \in 0..N - 1 /\ topRight < ts /\ SecondOfRow(topRight)
         /\ \A u \in topRight + 1..ts - 1 : ~SecondOfRow(u)
<1> DEFINE tile == TileOf(ts)
           tr == ts - tile.width + 1
<1>1. X(ts) = tile.x /\ wavefronts
  BY DEF StartsRow
<1>2. /\ tr \in 0..N - 1 /\ X(tr) = tile.x + 1 /\ TileIdx(tr) = TileIdx(ts)
  BY <1>1, TopRightPlace
<1>3. tile.width \in Nat /\ tile.x \in Nat /\ tile.width >= 2 /\ N \in Nat
  BY CtuLemma, PictureLemma
<1> HIDE DEF tile
<1>4. tr < ts
  BY <1>3
<1>5. TileOf(tr) = tile
  <2> HIDE DEF tr
  <2> QED
    BY <1>2, SameTile DEF tile
<1>6. SecondOfRow(tr)
  BY <1>1, <1>2, <1>5 DEF SecondOfRow
<1>7. ASSUME NEW u \in tr + 1..ts - 1 PROVE ~SecondOfRow(u)
  <2>1. u \in 0..N - 1 /\ tr <= u /\ u - tr < tile.width - (X(tr) - tile.x) /\ u - tr > 0 /\ u \in Int
    <3>1. X(tr) - tile.x = 1
      BY <1>2, <1>3
    <3> QED
      BY <1>2, <1>3, <3>1
  <2> HIDE DEF tr
  <2>2. TileIdx(u) = TileIdx(tr) /\ X(u) = X(tr) + (u - tr)
    BY <1>2, <1>5, <2>1, RowLemma
  <2>3. TileOf(u) = tile
    BY <1>2, <1>5, <2>1, <2>2, SameTile
  <2>4. X(u) # tile.x + 1
    BY <1>2, <1>3, <2>1, <2>2
  <2> QED
    BY <2>3, <2>4 DEF SecondOfRow
<1> QED
  BY <1>2, <1>4, <1>6, <1>7 DEF tile

-----------------------------------------------------------------------------
(* Which slice a CTU is in.                                                *)

(* Segments in order, each of which begins a slice or continues one.       *)
Chain(segs) ==
  /\ Len(segs) \in Nat /\ Len(segs) > 0 /\ DOMAIN segs = 1..Len(segs)
  /\ segs[1].start = 0
  /\ \A i \in 1..Len(segs) : /\ segs[i].start \in Nat /\ segs[i].sliceStart \in Nat
                             /\ segs[i].dependent \in BOOLEAN
                             /\ segs[i].sliceStart <= segs[i].start
                             /\ segs[i].dependent <=> segs[i].sliceStart < segs[i].start
                             /\ \E j \in 1..i : segs[j].start = segs[i].sliceStart
  /\ \A i, j \in 1..Len(segs) :
       i < j => /\ segs[i].start < segs[j].start
                /\ \/ segs[j].sliceStart = segs[i].sliceStart
                   \/ segs[i].start < segs[j].sliceStart

(* A CTU of the kth segment. *)
Held(segs, k, ts) ==
  k \in 1..Len(segs) /\ segs[k].start <= ts /\ (k < Len(segs) => ts < segs[k + 1].start)

LEMMA HeldLemma ==
  ASSUME NEW segs, Chain(segs), NEW ts \in Nat, NEW k, Held(segs, k, ts)
  PROVE  /\ \A j \in 1..Len(segs) : segs[j].start <= ts <=> j <= k
         /\ SliceOf(segs, ts) = segs[k].sliceStart
<1> DEFINE n == Len(segs)
<1>1. /\ n \in Nat /\ DOMAIN segs = 1..n /\ k \in 1..n /\ segs[k].start <= ts
      /\ k < n => ts < segs[k + 1].start
      /\ \A i \in 1..n : segs[i].start \in Nat
      /\ \A i, j \in 1..n : i < j => segs[i].start < segs[j].start
  BY DEF Chain, Held
<1> HIDE DEF n
<1>2. ASSUME NEW j \in 1..n PROVE segs[j].start <= ts <=> j <= k
  <2>1. CASE j <= k
    <3>1. segs[j].start <= segs[k].start
      <4>1. j = k \/ j < k
        BY <1>1, <2>1
      <4> QED
        BY <1>1, <4>1
    <3>2. segs[j].start \in Nat /\ segs[k].start \in Nat
      BY <1>1
    <3> QED
      BY <1>1, <2>1, <3>1, <3>2
  <2>2. CASE ~(j <= k)
    <3>1. k + 1 \in 1..n /\ k < n /\ (j = k + 1 \/ k + 1 < j)
      BY <1>1, <2>2
    <3>2. segs[k + 1].start <= segs[j].start
      BY <1>1, <3>1
    <3>3. segs[j].start \in Nat /\ segs[k + 1].start \in Nat /\ ts < segs[k + 1].start
      BY <1>1, <3>1
    <3> QED
      BY <2>2, <3>2, <3>3
  <2> QED
    BY <2>1, <2>2
<1>3. SliceOf(segs, ts) = segs[k].sliceStart
  <2> DEFINE before == {i \in DOMAIN segs : segs[i].start <= ts}
             c == CHOOSE i \in before : \A j \in before : j <= i
  <2>1. before = 1..k
    BY <1>1, <1>2
  <2>2. c = k
    <3> HIDE DEF before
    <3>1. \A i : (i \in before /\ \A j \in before : j <= i) <=> i = k
      BY <1>1, <2>1
    <3>2. k \in before /\ \A j \in before : j <= k
      BY <3>1
    <3>3. c \in before /\ \A j \in before : j <= c
      BY <3>2, Zenon
    <3> QED
      BY <3>1, <3>3, Zenon
  <2> HIDE DEF c
  <2>3. SliceOf(segs, ts) = segs[c].sliceStart
    BY Zenon DEF SliceOf, c
  <2> QED
    BY <2>2, <2>3, Zenon
<1> QED
  BY <1>2, <1>3 DEF n

LEMMA HolderExists ==
  ASSUME NEW segs, Chain(segs), NEW ts \in Nat
  PROVE  \E k \in 1..Len(segs) : Held(segs, k, ts)
<1> DEFINE n == Len(segs)
           R == {d \in 0..n - 1 : segs[n - d].start <= ts}
<1>1. /\ n \in Nat /\ n > 0 /\ segs[1].start = 0 /\ \A i \in 1..n : segs[i].start \in Nat
  BY DEF Chain
<1>2. R \in SUBSET Nat /\ n - 1 \in R
  <2>1. n - (n - 1) = 1 /\ n - 1 \in 0..n - 1
    BY <1>1
  <2>2. segs[n - (n - 1)].start <= ts
    BY <1>1, <2>1
  <2> QED
    BY <1>1, <2>1, <2>2
<1>3. PICK d \in R : \A c \in R : d <= c
  <2> HIDE DEF R
  <2>1. R # {}
    BY <1>2
  <2> QED
    BY <1>2, <2>1, LeastNumber, Zenon
<1> DEFINE k == n - d
<1>4. d \in 0..n - 1 /\ segs[k].start <= ts
  OBVIOUS
<1>5. k \in 1..n
  BY <1>1, <1>4
<1>6. ASSUME k < n PROVE ts < segs[k + 1].start
  <2>1. d - 1 \in 0..n - 1 /\ n - (d - 1) = k + 1 /\ k + 1 \in 1..n /\ ~(d <= d - 1)
    BY <1>1, <1>4, <1>6
  <2>2. d - 1 \notin R
    <3> HIDE DEF R
    <3> QED
      BY <1>3, <2>1
  <2>3. ~(segs[n - (d - 1)].start <= ts)
    BY <2>1, <2>2
  <2>4. ~(segs[k + 1].start <= ts) /\ segs[k + 1].start \in Nat
    BY <1>1, <2>1, <2>3, Zenon
  <2> HIDE DEF k
  <2> QED
    BY <2>4
<1> HIDE DEF k, R
<1> QED
  BY <1>4, <1>5, <1>6 DEF Held, n

LEMMA SliceOfLemma ==
  ASSUME NEW segs, Chain(segs), NEW ts \in Nat, NEW k, Held(segs, k, ts), NEW u \in Nat, u <= ts
  PROVE  SliceOf(segs, u) = SliceOf(segs, ts) <=> segs[k].sliceStart <= u
<1> DEFINE n == Len(segs)
<1>1. PICK j \in 1..n : Held(segs, j, u)
  BY HolderExists
<1>2. k \in 1..n /\ n \in Nat
  BY DEF Held, Chain
<1>3. SliceOf(segs, ts) = segs[k].sliceStart /\ SliceOf(segs, u) = segs[j].sliceStart
  BY <1>1, HeldLemma
<1>4. j <= k
  <2>1. segs[j].start <= u /\ segs[j].start \in Nat
    BY <1>1 DEF Held, Chain
  <2>2. segs[j].start <= ts
    BY <2>1
  <2> QED
    BY <2>2, HeldLemma
<1>5. /\ segs[j].start \in Nat /\ segs[j].sliceStart \in Nat /\ segs[k].sliceStart \in Nat
      /\ segs[j].sliceStart <= segs[j].start /\ segs[j].start <= u
      /\ j < k => segs[k].sliceStart = segs[j].sliceStart \/ segs[j].start < segs[k].sliceStart
  BY <1>1, <1>2 DEF Chain, Held
<1>6. ASSUME segs[k].sliceStart <= u, segs[k].sliceStart # segs[j].sliceStart PROVE FALSE
  <2>1. j < k
    <3>1. j # k
      BY <1>6
    <3> QED
      BY <1>2, <1>4, <3>1
  <2>2. segs[j].start < segs[k].sliceStart
    BY <1>5, <1>6, <2>1
  <2>3. PICK i \in 1..k : segs[i].start = segs[k].sliceStart
    BY <1>2 DEF Chain
  <2>4. i \in 1..n
    BY <1>2
  <2>5. i <= j
    <3>1. segs[i].start <= u
      BY <1>6, <2>3
    <3> QED
      BY <1>1, <2>4, <3>1, HeldLemma
  <2>6. segs[i].start <= segs[j].start
    <3>1. i = j \/ i < j
      BY <2>4, <2>5
    <3>2. i < j => segs[i].start < segs[j].start
      BY <2>4 DEF Chain
    <3>3. segs[i].start \in Nat
      BY <2>4 DEF Chain
    <3> QED
      BY <1>5, <3>1, <3>2, <3>3
  <2> QED
    BY <1>5, <2>2, <2>3, <2>6
<1> QED
  BY <1>3, <1>5, <1>6

(* The CTU above and to the right of the first one of a row is there.      *)
Available(s, ts) ==
  /\ TileOf(ts).width >= 2 /\ Y(ts) > TileOf(ts).y
  /\ s.sliceStart <= ts - TileOf(ts).width + 1

LEMMA TopRightLemma ==
  ASSUME GoodSym, NEW segs, Chain(segs), NEW ts \in 0..N - 1, StartsRow(ts),
         NEW k, Held(segs, k, ts)
  PROVE  TopRightAvailable(segs, ts) <=> Available(segs[k], ts)
<1> DEFINE tr == RsToTs(Rs(ts) - picture.width + 1)
           same == TileOf(ts).width >= 2 /\ Y(ts) > TileOf(ts).y
<1>1. X(ts) = TileOf(ts).x
  BY DEF StartsRow
<1>2. /\ Y(ts) > 0 /\ X(ts) + 1 < picture.width => (TileIdx(tr) = TileIdx(ts) <=> same)
      /\ same => /\ Y(ts) > 0 /\ X(ts) + 1 < picture.width
                 /\ tr = ts - TileOf(ts).width + 1 /\ tr \in 0..N - 1
                 /\ TileIdx(tr) = TileIdx(ts)
  BY <1>1, TopRightPlace, Zenon
<1>3. same => tr <= ts /\ tr \in Nat /\ ts \in Nat
  <2>1. N \in Nat /\ TileOf(ts).width \in Nat
    BY PictureLemma, CtuLemma
  <2> HIDE DEF tr
  <2> QED
    BY <1>2, <2>1
<1>4. same => (SliceOf(segs, tr) = SliceOf(segs, ts) <=> segs[k].sliceStart <= tr)
  <2> HIDE DEF tr
  <2> QED
    BY <1>3, SliceOfLemma
<1>5. TopRightAvailable(segs, ts)
        <=> /\ Y(ts) > 0 /\ X(ts) + 1 < picture.width
            /\ TileIdx(tr) = TileIdx(ts) /\ SliceOf(segs, tr) = SliceOf(segs, ts)
  BY Zenon DEF TopRightAvailable
<1> HIDE DEF tr
<1> QED
  BY <1>2, <1>4, <1>5, Zenon DEF Available

LEMMA RowsApart ==
  ASSUME NEW w \in Nat, NEW i \in Nat, NEW k \in Nat
  PROVE  /\ i * w \in Nat /\ k * w \in Nat
         /\ i < k => i * w + w <= k * w
         /\ k <= i => k * w <= i * w
<1>1. i * w \in Nat /\ k * w \in Nat
  OBVIOUS
<1>2. k <= i => k * w <= i * w
  BY TimesOrder
<1>3. ASSUME i < k PROVE i * w + w <= k * w
  <2>1. (i + 1) * w <= k * w
    BY <1>3, TimesOrder
  <2>2. (i + 1) * w = i * w + w
    OBVIOUS
  <2> QED
    BY <2>1, <2>2, Zenon
<1> QED
  BY <1>1, <1>2, <1>3

(* A dependent segment that begins a wavefront row finds the CTU above and *)
(* to the right in its slice: a slice that does not begin a row would have *)
(* ended in it.                                                            *)
LEMMA ContinuesAvailable ==
  ASSUME GoodSym, NEW s, Complete(s), Continues(s), StartsRow(s.start)
  PROVE  Available(s, s.start)
<1> DEFINE f == s.sliceStart
           a == s.start
           e == s.sliceEnd
           l == e - 1
           tile == TileOf(a)
           w == tile.width
           b == TileStart(a)
           i == Y(a) - tile.y
<1>1. /\ a \in 0..N - 1 /\ f \in 0..N - 1 /\ f < a /\ s \in Segments
      /\ a < s.end /\ s.end <= e /\ IsLegal(f, e)
  BY DEF Complete, Opened, Continues
<1>2. N \in Nat /\ s.end \in 0..N /\ e \in 0..N
  <2>1. N \in Nat
    BY PictureLemma
  <2> QED
    BY <1>1, <2>1 DEF Segments, Addresses
<1>3. l \in 0..N - 1 /\ a <= l /\ f <= a /\ f <= l
  <2> HIDE DEF a, f, e
  <2> QED
    BY <1>1, <1>2
<1>4. X(a) = tile.x /\ wavefronts /\ ~FirstOfTile(a) /\ w >= 2
  BY DEF StartsRow, Continues
<1>5. /\ tile.x \in Nat /\ tile.y \in Nat /\ w \in Nat /\ Y(a) \in Nat /\ X(a) \in Nat /\ tile.y <= Y(a)
      /\ b \in Nat /\ a = b + (i * w + (X(a) - tile.x))
  <2> HIDE DEF a
  <2> QED
    BY <1>1, CtuLemma, PlaceLemma
<1>6. Y(a) # tile.y
  BY <1>4 DEF FirstOfTile
<1> HIDE DEF tile, w, b, l
<1>7. i \in Nat /\ i > 0 /\ Y(a) > tile.y /\ X(a) - tile.x = 0
  <2>1. X(a) = tile.x /\ tile.x \in Nat
    BY <1>4, <1>5
  <2>2. Y(a) \in Nat /\ tile.y \in Nat /\ tile.y <= Y(a) /\ Y(a) # tile.y
    BY <1>5, <1>6
  <2> HIDE DEF a
  <2>3. X(a) - tile.x = 0
    BY <2>1
  <2>4. i \in Nat /\ i > 0 /\ Y(a) > tile.y
    BY <2>2
  <2> QED
    BY <2>3, <2>4
<1> HIDE DEF i
<1>8. i * w \in Nat /\ a = b + i * w /\ w <= i * w
  <2>1. i * w \in Nat /\ 0 * w + w <= i * w /\ 0 * w = 0
    BY <1>5, <1>7, RowsApart
  <2> DEFINE p == i * w
  <2>2. p \in Nat /\ w <= p /\ a = b + (p + (X(a) - tile.x))
    <3> HIDE DEF a, p
    <3>1. p \in Nat /\ 0 + w <= p
      BY <2>1 DEF p
    <3> QED
      BY <1>5, <3>1 DEF p
  <2> HIDE DEF p, a
  <2>3. a = b + p
    BY <1>5, <1>7, <2>2
  <2> QED
    BY <2>2, <2>3 DEF p
<1>9. f <= a - w
  <2>1. CASE FirstOfTile(f)
    <3>1. f = TileStart(f)
      BY <1>1, <2>1, FirstOfTileLemma
    <3>2. TileIdx(f) <= TileIdx(a) /\ TileIdx(f) \in Int /\ TileIdx(a) \in Int
      <4> HIDE DEF f, a
      <4> QED
        BY <1>1, <1>3, SameTile, CtuLemma
    <3>3. f <= b
      <4>1. CASE TileIdx(a) = TileIdx(f)
        <5>1. TileStart(a) = TileStart(f) /\ TileStart(a) \in Nat
          <6> HIDE DEF f, a
          <6> QED
            BY <1>1, <4>1, SameTile, PlaceLemma
        <5> HIDE DEF f, a
        <5> QED
          BY <3>1, <5>1 DEF b
      <4>2. CASE TileIdx(f) < TileIdx(a)
        <5> DEFINE z == TileStart(f) + TileOf(f).width * TileOf(f).height
        <5>1. z <= TileStart(a) /\ f < z
          <6> HIDE DEF f, a
          <6> QED
            BY <1>1, <4>2, SameTile, PlaceLemma
        <5>2. z \in Nat
          <6>1. TileStart(f) \in Nat /\ TileOf(f).width * TileOf(f).height \in Nat
            BY <1>1, PlaceLemma
          <6> QED
            BY <6>1
        <5> HIDE DEF z, f, a
        <5> QED
          BY <1>1, <1>5, <5>1, <5>2 DEF b
      <4> QED
        BY <3>2, <4>1, <4>2
    <3> DEFINE p == i * w
    <3>4. p \in Nat /\ a = b + p /\ w <= p
      BY <1>8
    <3> HIDE DEF f, a, p
    <3> QED
      BY <1>1, <1>5, <3>3, <3>4
  <2>2. CASE ~FirstOfTile(f)
    <3>1. TileIdx(f) = TileIdx(l) /\ (X(f) # TileOf(f).x => Y(l) = Y(f))
      BY <1>1, <1>4, <2>2 DEF IsLegal, l
    <3>2. TileIdx(f) <= TileIdx(a) /\ TileIdx(a) <= TileIdx(l) /\ TileIdx(f) \in Int /\ TileIdx(a) \in Int
      <4> HIDE DEF f, a
      <4> QED
        BY <1>1, <1>3, SameTile, CtuLemma
    <3>3. TileIdx(f) = TileIdx(a) /\ TileIdx(l) = TileIdx(a)
      BY <3>1, <3>2
    <3>4. /\ TileOf(f) = tile /\ TileStart(f) = b
          /\ TileOf(l) = tile /\ TileStart(l) = b
      <4> HIDE DEF f, a
      <4> QED
        BY <1>1, <1>3, <3>3, SameTile DEF tile, b
    <3> DEFINE j == Y(f) - tile.y
               c == X(f) - tile.x
               m == Y(l) - tile.y
               d == X(l) - tile.x
    <3>5. /\ f = b + (j * w + c) /\ j \in Nat /\ c \in Nat
          /\ l = b + (m * w + d) /\ m \in Nat /\ d \in Nat /\ d < w
          /\ X(f) \in Nat
      <4>1. /\ f = TileStart(f) + ((Y(f) - TileOf(f).y) * TileOf(f).width + (X(f) - TileOf(f).x))
            /\ l = TileStart(l) + ((Y(l) - TileOf(l).y) * TileOf(l).width + (X(l) - TileOf(l).x))
        <5> HIDE DEF f
        <5> QED
          BY <1>1, <1>3, PlaceLemma
      <4>2. /\ X(f) \in Nat /\ Y(f) \in Nat /\ TileOf(f).x <= X(f) /\ TileOf(f).y <= Y(f)
            /\ X(l) \in Nat /\ Y(l) \in Nat /\ TileOf(l).x <= X(l) /\ TileOf(l).y <= Y(l)
            /\ X(l) < TileOf(l).x + TileOf(l).width
        <5> HIDE DEF f
        <5> QED
          BY <1>1, <1>3, CtuLemma
      <4>3. j \in Nat /\ c \in Nat /\ m \in Nat /\ d \in Nat /\ d < w
        <5>1. w = tile.width
          BY DEF w
        <5> HIDE DEF f
        <5> QED
          BY <1>5, <3>4, <4>2, <5>1
      <4>4. f = b + (j * w + c) /\ l = b + (m * w + d)
        BY <3>4, <4>1, Zenon DEF w
      <4> QED
        BY <4>2, <4>3, <4>4
    <3>6. c # 0 => m = j
      <4>1. c # 0 => X(f) # tile.x
        BY <1>5, <3>5
      <4> QED
        BY <3>1, <3>4, <4>1
    <3> HIDE DEF j, c, m, d, f, a
    <3>7. /\ j * w \in Nat /\ i * w \in Nat /\ m * w \in Nat
          /\ j < i => j * w + w <= i * w
          /\ i <= j => i * w <= j * w
      BY <1>5, <1>7, <3>5, RowsApart
    <3> DEFINE p == i * w
               q == j * w
               r == m * w
    <3>8. /\ p \in Nat /\ q \in Nat /\ r \in Nat /\ a = b + p /\ f = b + (q + c) /\ l = b + (r + d)
          /\ j < i => q + w <= p
          /\ i <= j => p <= q
          /\ c # 0 => r = q
      BY <1>8, <3>5, <3>6, <3>7
    <3> HIDE DEF p, q, r
    <3>9. j < i
      BY <1>1, <1>5, <1>7, <3>5, <3>8
    <3>10. c = 0
      BY <1>3, <1>5, <3>5, <3>8, <3>9
    <3> QED
      BY <1>5, <3>8, <3>9, <3>10
  <2> QED
    BY <2>1, <2>2
<1>10. f <= a - w + 1
  <2> HIDE DEF f, a
  <2> QED
    BY <1>1, <1>5, <1>9
<1> QED
  BY <1>4, <1>7, <1>10 DEF Available, tile, w

-----------------------------------------------------------------------------
(* The states CTUs are coded in.                                           *)
LEMMA StateLemma ==
  ASSUME NEW c \in States, NEW d \in States, NEW s, s.sliceStart \in Addresses
  PROVE  /\ Fresh(s) \in States /\ Fresh(s).running
         /\ ResetEntropy(c, s) \in States /\ ResetEntropy(c, s).running
         /\ ResetEntropy(c, s) = [contexts |-> <<s.sliceStart>>, palette |-> c.palette, running |-> TRUE]
         /\ Load(c, d) \in States /\ (Load(c, d).running <=> c.running)
         /\ Load(c, d) = [contexts |-> d.contexts, palette |-> d.palette, running |-> c.running]
         /\ \A ts \in Addresses : CodeCtu(c, ts) \in States /\ (CodeCtu(c, ts).running <=> c.running)
<1>1. c.contexts \in Seq(Addresses) /\ c.palette \in Seq(Addresses) /\ c.running \in BOOLEAN
  BY DEF States
<1>2. d.contexts \in Seq(Addresses) /\ d.palette \in Seq(Addresses)
  BY DEF States
<1>3. c = [contexts |-> c.contexts, palette |-> c.palette, running |-> c.running]
  BY DEF States
<1>4. <<s.sliceStart>> \in Seq(Addresses) /\ << >> \in Seq(Addresses)
  OBVIOUS
<1> DEFINE q == <<s.sliceStart>>
           e == << >>
<1>q. q \in Seq(Addresses) /\ e \in Seq(Addresses)
  BY <1>4
<1>5. Fresh(s) \in States /\ Fresh(s).running
  <2>1. Fresh(s) = [contexts |-> q, palette |-> e, running |-> TRUE]
    BY Zenon DEF Fresh
  <2> HIDE DEF q, e
  <2> QED
    BY <1>q, <2>1 DEF States
<1>6. ResetEntropy(c, s) = [contexts |-> <<s.sliceStart>>, palette |-> c.palette, running |-> TRUE]
  <2>1. ResetEntropy(c, s) = [c EXCEPT !.contexts = q, !.running = TRUE]
    BY Zenon DEF ResetEntropy
  <2> HIDE DEF q
  <2>2. ResetEntropy(c, s) = [contexts |-> q, palette |-> c.palette, running |-> TRUE]
    BY <1>3, <2>1
  <2> QED
    BY <2>2 DEF q
<1>7. Load(c, d) = [contexts |-> d.contexts, palette |-> d.palette, running |-> c.running]
  <2> DEFINE x == d.contexts
             p == d.palette
  <2>1. Load(c, d) = [c EXCEPT !.contexts = x, !.palette = p]
    BY Zenon DEF Load
  <2> HIDE DEF x, p
  <2>2. Load(c, d) = [contexts |-> x, palette |-> p, running |-> c.running]
    BY <1>3, <2>1
  <2> QED
    BY <2>2 DEF x, p
<1>8. ResetEntropy(c, s) \in States /\ ResetEntropy(c, s).running
  BY <1>1, <1>4, <1>6 DEF States
<1>9. Load(c, d) \in States /\ (Load(c, d).running <=> c.running)
  BY <1>1, <1>2, <1>7 DEF States
<1>10. ASSUME NEW ts \in Addresses
       PROVE  CodeCtu(c, ts) \in States /\ (CodeCtu(c, ts).running <=> c.running)
  <2> DEFINE p == IF ts \in layout.palettes THEN Append(c.palette, ts) ELSE c.palette
             x == Append(c.contexts, ts)
  <2>1. p \in Seq(Addresses) /\ x \in Seq(Addresses)
    BY <1>1
  <2> HIDE DEF p, x
  <2>2. CodeCtu(c, ts) = [contexts |-> x, palette |-> p, running |-> c.running]
    <3>1. CodeCtu(c, ts) = [c EXCEPT !.contexts = x, !.palette = p]
      BY DEF CodeCtu, p, x
    <3> QED
      BY <1>3, <3>1
  <2> QED
    BY <1>1, <2>1, <2>2 DEF States
<1> QED
  BY <1>5, <1>6, <1>7, <1>8, <1>9, <1>10

(* The state a CTU leaves behind, the one a CTU finds, and the one it is   *)
(* coded in, when T holds the states in which CTUs have been coded.        *)
After(T, u) == CodeCtu(T[u], u)

Before(T, s, ts) ==
  IF ts = s.start THEN IF Continues(s) THEN Load(Fresh(s), After(T, ts - 1)) ELSE Fresh(s)
  ELSE After(T, ts - 1)

Begins(T, s, ts) ==
  IF FirstOfTile(ts) THEN Fresh(s)
  ELSE IF ~StartsRow(ts) THEN Before(T, s, ts)
  ELSE IF Available(s, ts)
    THEN Load(ResetEntropy(Before(T, s, ts), s), After(T, ts - TileOf(ts).width + 1))
    ELSE ResetEntropy(Before(T, s, ts), s)

Histories == [0..N - 1 -> States]

Header(s) ==
  /\ s.start \in 0..N - 1 /\ s.sliceStart \in 0..N - 1 /\ s.sliceStart <= s.start
  /\ s.dependent \in BOOLEAN /\ (s.dependent <=> s.sliceStart < s.start)

LEMMA OpenedHeader ==
  ASSUME NEW s, Opened(s)
  PROVE  Header(s)
<1>1. s.dependent \in BOOLEAN
  BY DEF Opened, Segments
<1>2. /\ s.start \in 0..N - 1 /\ s.sliceStart \in 0..N - 1 /\ s.sliceStart <= s.start
      /\ IF s.dependent THEN s.sliceStart < s.start ELSE s.sliceStart = s.start
  BY DEF Opened
<1> QED
  BY <1>1, <1>2 DEF Header

LEMMA AfterType ==
  ASSUME N \in Nat, NEW T \in Histories, NEW u \in 0..N - 1
  PROVE  After(T, u) \in States /\ (After(T, u).running <=> T[u].running)
<1>1. T[u] \in States /\ u \in Addresses
  BY DEF Histories, Addresses
<1>2. \A ts \in Addresses : CodeCtu(T[u], ts) \in States /\ (CodeCtu(T[u], ts).running <=> T[u].running)
  <2> DEFINE s == [sliceStart |-> u]
  <2>1. s.sliceStart \in Addresses
    BY <1>1
  <2> QED
    BY <1>1, <2>1, StateLemma
<1> QED
  BY <1>1, <1>2 DEF After

LEMMA BeforeType ==
  ASSUME N \in Nat, NEW T \in Histories, NEW s, Header(s), NEW u \in 0..N - 1, s.start <= u
  PROVE  /\ Before(T, s, u) \in States
         /\ (\A v \in 0..u - 1 : T[v].running) => Before(T, s, u).running
         /\ u # s.start \/ Continues(s) => u - 1 \in s.sliceStart..u - 1 /\ u - 1 \in 0..N - 1
<1>1. /\ s.start \in 0..N - 1 /\ s.sliceStart \in 0..N - 1 /\ s.sliceStart <= s.start
      /\ (s.dependent <=> s.sliceStart < s.start) /\ s.sliceStart \in Addresses
  BY DEF Header, Addresses
<1>2. Continues(s) => s.dependent
  BY DEF Continues
<1>3. u # s.start \/ Continues(s) => u - 1 \in s.sliceStart..u - 1 /\ u - 1 \in 0..N - 1
  BY <1>1, <1>2
<1>4. u # s.start \/ Continues(s) =>
        After(T, u - 1) \in States /\ (After(T, u - 1).running <=> T[u - 1].running)
  BY <1>3, AfterType
<1>5. u # s.start \/ Continues(s) => u - 1 \in 0..u - 1
  BY <1>1, <1>3
<1>6. Fresh(s) \in States /\ Fresh(s).running
  <2>1. s.sliceStart \in Seq(Addresses) \/ TRUE
    OBVIOUS
  <2>2. <<s.sliceStart>> \in Seq(Addresses) /\ << >> \in Seq(Addresses)
    BY <1>1
  <2> QED
    BY <2>2 DEF Fresh, States
<1>7. CASE u = s.start /\ Continues(s)
  <2>1. Before(T, s, u) = Load(Fresh(s), After(T, u - 1))
    BY <1>7, Zenon DEF Before
  <2>2. Load(Fresh(s), After(T, u - 1)) \in States /\ Load(Fresh(s), After(T, u - 1)).running
    BY <1>1, <1>4, <1>6, <1>7, StateLemma
  <2> QED
    BY <1>3, <2>1, <2>2
<1>8. CASE u = s.start /\ ~Continues(s)
  <2>1. Before(T, s, u) = Fresh(s)
    BY <1>8, Zenon DEF Before
  <2> QED
    BY <1>3, <1>6, <2>1
<1>9. CASE u # s.start
  <2>1. Before(T, s, u) = After(T, u - 1)
    BY <1>9, Zenon DEF Before
  <2> QED
    BY <1>3, <1>4, <1>5, <1>9, <2>1
<1> QED
  BY <1>7, <1>8, <1>9

LEMMA AvailableRange ==
  ASSUME GoodSym, NEW s, Header(s), NEW u \in 0..N - 1, Available(s, u)
  PROVE  /\ u - TileOf(u).width + 1 \in s.sliceStart..u - 1
         /\ u - TileOf(u).width + 1 \in 0..N - 1
<1>1. TileOf(u).width \in Nat /\ N \in Nat
  BY CtuLemma, PictureLemma
<1>2. TileOf(u).width >= 2 /\ s.sliceStart <= u - TileOf(u).width + 1 /\ s.sliceStart \in 0..N - 1
  BY DEF Available, Header
<1> QED
  BY <1>1, <1>2

LEMMA BeginsType ==
  ASSUME GoodSym, NEW T \in Histories, NEW s, Header(s), NEW u \in 0..N - 1, s.start <= u
  PROVE  /\ Begins(T, s, u) \in States
         /\ (\A v \in 0..u - 1 : T[v].running) => Begins(T, s, u).running
<1> DEFINE B == Before(T, s, u)
           v == u - TileOf(u).width + 1
<1>1. N \in Nat /\ s.sliceStart \in Addresses
  BY PictureLemma DEF Header, Addresses
<1>2. B \in States /\ ((\A x \in 0..u - 1 : T[x].running) => B.running)
  BY <1>1, BeforeType
<1>3. Available(s, u) => After(T, v) \in States
  <2>1. Available(s, u) => v \in 0..N - 1
    BY AvailableRange
  <2> QED
    BY <1>1, <2>1, AfterType
<1> HIDE DEF B, v
<1>4. Fresh(s) \in States /\ Fresh(s).running /\ ResetEntropy(B, s) \in States /\ ResetEntropy(B, s).running
  BY <1>1, <1>2, StateLemma
<1>5. Available(s, u) =>
        Load(ResetEntropy(B, s), After(T, v)) \in States /\ Load(ResetEntropy(B, s), After(T, v)).running
  BY <1>1, <1>3, <1>4, StateLemma
<1> QED
  BY <1>2, <1>4, <1>5, Zenon DEF Begins, B, v

(* It depends on the CTUs of the slice only.                               *)
LEMMA Agree ==
  ASSUME GoodSym, NEW S, NEW T, NEW s, Header(s), NEW u \in 0..N - 1, s.start <= u,
         \A v \in s.sliceStart..u - 1 : S[v] = T[v]
  PROVE  Begins(S, s, u) = Begins(T, s, u) /\ Before(S, s, u) = Before(T, s, u)
<1>1. /\ s.start \in 0..N - 1 /\ s.sliceStart \in 0..N - 1 /\ s.sliceStart <= s.start
      /\ (s.dependent <=> s.sliceStart < s.start)
  BY DEF Header
<1>2. Continues(s) => s.dependent
  BY DEF Continues
<1>3. u # s.start \/ Continues(s) => u - 1 \in s.sliceStart..u - 1
  BY <1>1, <1>2
<1>4. \A v \in s.sliceStart..u - 1 : After(S, v) = After(T, v)
  BY Zenon DEF After
<1>5. Before(S, s, u) = Before(T, s, u)
  BY <1>3, <1>4, Zenon DEF Before
<1>6. Available(s, u) => After(S, u - TileOf(u).width + 1) = After(T, u - TileOf(u).width + 1)
  BY <1>4, AvailableRange
<1> QED
  BY <1>5, <1>6, Zenon DEF Begins

LEMMA SameHeader ==
  ASSUME NEW s, NEW r, s.start = r.start, s.sliceStart = r.sliceStart, s.dependent = r.dependent
  PROVE  /\ Fresh(s) = Fresh(r) /\ (Continues(s) <=> Continues(r))
         /\ \A c : ResetEntropy(c, s) = ResetEntropy(c, r)
         /\ \A u : Available(s, u) <=> Available(r, u)
         /\ \A T : \A u : Before(T, s, u) = Before(T, r, u) /\ Begins(T, s, u) = Begins(T, r, u)
<1>1. Fresh(s) = Fresh(r) /\ (Continues(s) <=> Continues(r))
  BY Zenon DEF Fresh, Continues
<1>2. \A c : ResetEntropy(c, s) = ResetEntropy(c, r)
  BY Zenon DEF ResetEntropy
<1>3. \A u : Available(s, u) <=> Available(r, u)
  BY Zenon DEF Available
<1>4. \A T : \A u : Before(T, s, u) = Before(T, r, u)
  BY <1>1, Zenon DEF Before
<1>5. \A T : \A u : Begins(T, s, u) = Begins(T, r, u)
  BY <1>1, <1>2, <1>3, <1>4, Zenon DEF Begins
<1> QED
  BY <1>1, <1>2, <1>3, <1>4, <1>5

(* The encoder and the decoder before a CTU, with the state of the coder,  *)
(* the stored one and the segments as far as they know them.               *)
BegunState(c, stored, segs, s, ts) ==
  IF FirstOfTile(ts) THEN IF ts = s.start THEN c ELSE Fresh(s)
  ELSE IF ~StartsRow(ts) THEN c
  ELSE LET reset == IF ts = s.start THEN c ELSE ResetEntropy(c, s)
       IN IF TopRightAvailable(segs, ts) THEN Load(reset, stored) ELSE reset

LEMMA BegunIsBegin ==
  ASSUME NEW c, NEW s, NEW ts
  PROVE  /\ BeginCtu(c, s, ts) = BegunState(c, sync, segments, s, ts)
         /\ \A segs : DecBeginCtu(c, segs, s, ts) = BegunState(c, decSync, segs, s, ts)
BY Zenon DEF BeginCtu, DecBeginCtu, BegunState

LEMMA EndsStep ==
  ASSUME GoodSym, NEW ts \in 0..N - 1, ts + 1 < N, EndsSubstream(ts)
  PROVE  FirstOfTile(ts + 1) \/ StartsRow(ts + 1)
<1> DEFINE tile == TileOf(ts)
<1>1. /\ X(ts) + 1 = tile.x + tile.width
      /\ Y(ts) + 1 = tile.y + tile.height \/ wavefronts
  BY DEF EndsSubstream
<1>2. /\ tile.x \in Nat /\ tile.y \in Nat /\ X(ts) \in Nat /\ Y(ts) \in Nat
      /\ tile.width \in Nat /\ tile.height \in Nat /\ N \in Nat
  BY CtuLemma, PictureLemma
<1>3. \/ X(ts) + 1 < tile.x + tile.width
      \/ /\ X(ts) + 1 = tile.x + tile.width /\ Y(ts) + 1 < tile.y + tile.height
         /\ TileIdx(ts + 1) = TileIdx(ts) /\ X(ts + 1) = tile.x
      \/ FirstOfTile(ts + 1)
      \/ ts + 1 = N
  BY StepLemma, Zenon
<1>4. TileIdx(ts + 1) = TileIdx(ts) => TileOf(ts + 1) = tile
  BY Zenon DEF TileOf
<1> HIDE DEF tile
<1>5. CASE X(ts + 1) = tile.x /\ TileIdx(ts + 1) = TileIdx(ts) /\ wavefronts
  BY <1>4, <1>5 DEF StartsRow
<1>6. CASE FirstOfTile(ts + 1)
  BY <1>6
<1> QED
  BY <1>1, <1>2, <1>3, <1>5, <1>6

(* What the last second CTU of a row has left is stored.                   *)
IsSync(T, c, n) ==
  \A u \in 0..n - 1 :
    SecondOfRow(u) /\ (\A v \in u + 1..n - 1 : ~SecondOfRow(v)) => c = After(T, u)

(* A segment that goes on at the beginning of a row finds it stored.       *)
Continuable(s) == Continues(s) /\ StartsRow(s.start) => Available(s, s.start)

(* A coder between two CTUs.                                               *)
CoderAt(T, s, ts, c) ==
  c = IF ts = s.start THEN Before(T, s, ts)
      ELSE [After(T, ts - 1) EXCEPT !.running = ~EndsSubstream(ts - 1)]

LEMMA SyncLemma ==
  ASSUME GoodSym, NEW T, NEW c, NEW ts \in 0..N - 1, IsSync(T, c, ts), NEW s,
         StartsRow(ts), Available(s, ts)
  PROVE  c = After(T, ts - TileOf(ts).width + 1)
<1> DEFINE tr == ts - TileOf(ts).width + 1
<1>1. /\ tr \in 0..N - 1 /\ tr < ts /\ SecondOfRow(tr)
      /\ \A u \in tr + 1..ts - 1 : ~SecondOfRow(u)
  BY TopRightIsLast DEF Available
<1> HIDE DEF tr
<1>2. tr \in 0..ts - 1
  BY <1>1
<1>3. c = After(T, tr)
  BY <1>1, <1>2, Zenon DEF IsSync
<1> QED
  BY <1>3 DEF tr

LEMMA BegunLemma ==
  ASSUME GoodSym, NEW T \in Histories, NEW segs, Chain(segs), NEW ts \in 0..N - 1,
         NEW k, Held(segs, k, ts), Header(segs[k]), Continuable(segs[k]),
         \A v \in 0..ts - 1 : T[v].running,
         NEW stored, IsSync(T, stored, ts), NEW c, CoderAt(T, segs[k], ts, c)
  PROVE  BegunState(c, stored, segs, segs[k], ts) = Begins(T, segs[k], ts)
<1> DEFINE s == segs[k]
           tr == ts - TileOf(ts).width + 1
           A == After(T, ts - 1)
           B == Before(T, s, ts)
<1>1. s.start <= ts /\ s.start \in 0..N - 1 /\ s.sliceStart \in 0..N - 1 /\ N \in Nat
      /\ s.sliceStart \in Addresses
  BY PictureLemma DEF Held, Header, Addresses
<1>2. /\ B \in States /\ B.running
      /\ ts # s.start \/ Continues(s) => ts - 1 \in 0..N - 1
  BY <1>1, BeforeType
<1>3. ts # s.start => A \in States /\ A.running
  <2>1. ts # s.start => ts - 1 \in 0..ts - 1
    BY <1>1
  <2> QED
    BY <1>1, <1>2, <2>1, AfterType
<1>4. ts = s.start => c = B
  BY Zenon DEF CoderAt
<1>5. ts # s.start => B = A
  BY Zenon DEF Before
<1>6. Available(s, ts) => After(T, tr) \in States
  <2>1. Available(s, ts) => tr \in 0..N - 1
    BY AvailableRange
  <2> QED
    BY <1>1, <2>1, AfterType
<1>7. Available(s, ts) /\ StartsRow(ts) => stored = After(T, tr)
  BY SyncLemma
<1>8. StartsRow(ts) => (TopRightAvailable(segs, ts) <=> Available(s, ts))
  BY TopRightLemma
<1>9. ts # s.start /\ ~EndsSubstream(ts - 1) => c = A
  <2> SUFFICES ASSUME ts # s.start, ~EndsSubstream(ts - 1) PROVE c = A
    OBVIOUS
  <2> DEFINE b == ~EndsSubstream(ts - 1)
  <2>1. c = [A EXCEPT !.running = b]
    BY Zenon DEF CoderAt
  <2>2. b = TRUE
    OBVIOUS
  <2>3. A \in States /\ A.running
    BY <1>3
  <2> HIDE DEF b, A
  <2> QED
    BY <2>1, <2>2, <2>3 DEF States
<1>10. ts # s.start => ResetEntropy(c, s) = ResetEntropy(A, s)
  <2> SUFFICES ASSUME ts # s.start PROVE ResetEntropy(c, s) = ResetEntropy(A, s)
    OBVIOUS
  <2> DEFINE b == ~EndsSubstream(ts - 1)
  <2>1. c = [A EXCEPT !.running = b] /\ b \in BOOLEAN
    BY Zenon DEF CoderAt
  <2>2. A \in States
    BY <1>3
  <2> HIDE DEF b, A, s
  <2>3. c \in States /\ c.palette = A.palette
    BY <2>1, <2>2 DEF States
  <2>4. /\ ResetEntropy(c, s) = [contexts |-> <<s.sliceStart>>, palette |-> c.palette, running |-> TRUE]
        /\ ResetEntropy(A, s) = [contexts |-> <<s.sliceStart>>, palette |-> A.palette, running |-> TRUE]
    BY <1>1, <2>2, <2>3, StateLemma
  <2> QED
    BY <2>3, <2>4, Zenon
<1>11. ~Continues(s) /\ ts = s.start => B = Fresh(s) /\ ResetEntropy(B, s) = Fresh(s)
  <2> SUFFICES ASSUME ~Continues(s), ts = s.start PROVE B = Fresh(s) /\ ResetEntropy(B, s) = Fresh(s)
    OBVIOUS
  <2>1. B = Fresh(s)
    BY Zenon DEF Before
  <2>2. B.palette = << >>
    BY <2>1 DEF Fresh
  <2>3. ResetEntropy(B, s) = [contexts |-> <<s.sliceStart>>, palette |-> B.palette, running |-> TRUE]
    <3> HIDE DEF B, s
    <3> QED
      BY <1>1, <1>2, StateLemma
  <2> QED
    BY <2>1, <2>2, <2>3, Zenon DEF Fresh
<1>12. Available(s, ts) => Load(B, After(T, tr)) = Load(ResetEntropy(B, s), After(T, tr))
  <2> SUFFICES ASSUME Available(s, ts)
               PROVE  Load(B, After(T, tr)) = Load(ResetEntropy(B, s), After(T, tr))
    OBVIOUS
  <2> DEFINE D == After(T, tr)
             R == ResetEntropy(B, s)
  <2>1. D \in States
    BY <1>6
  <2> HIDE DEF B, D, s, R
  <2>2. R \in States /\ R.running
    BY <1>1, <1>2, StateLemma DEF R
  <2>3. /\ Load(B, D) = [contexts |-> D.contexts, palette |-> D.palette, running |-> B.running]
        /\ Load(R, D) = [contexts |-> D.contexts, palette |-> D.palette, running |-> R.running]
    BY <1>1, <1>2, <2>1, <2>2, StateLemma
  <2>4. B.running = TRUE /\ R.running = TRUE
    BY <1>2, <2>2 DEF States
  <2> QED
    BY <2>3, <2>4, Zenon DEF D, R
<1>13. CASE FirstOfTile(ts)
  <2>1. Begins(T, s, ts) = Fresh(s)
    BY <1>13, Zenon DEF Begins
  <2>2. ts = s.start => ~Continues(s)
    BY <1>13 DEF Continues
  <2> QED
    BY <1>4, <1>11, <1>13, <2>1, <2>2, Zenon DEF BegunState
<1>14. CASE ~FirstOfTile(ts) /\ ~StartsRow(ts)
  <2>1. Begins(T, s, ts) = B
    BY <1>14, Zenon DEF Begins
  <2>2. ts # s.start => ~EndsSubstream(ts - 1)
    <3> SUFFICES ASSUME ts # s.start, EndsSubstream(ts - 1) PROVE FALSE
      OBVIOUS
    <3>1. ts - 1 \in 0..N - 1 /\ (ts - 1) + 1 = ts /\ ts < N
      BY <1>1, <1>2
    <3>2. (ts - 1) + 1 < N
      BY <3>1, Zenon
    <3>3. FirstOfTile((ts - 1) + 1) \/ StartsRow((ts - 1) + 1)
      BY <3>1, <3>2, EndsStep
    <3> QED
      BY <1>14, <3>1, <3>3, Zenon
  <2>3. c = B
    BY <1>4, <1>5, <1>9, <2>2
  <2> QED
    BY <1>14, <2>1, <2>3, Zenon DEF BegunState
<1>15. CASE ~FirstOfTile(ts) /\ StartsRow(ts)
  <2> DEFINE reset == IF ts = s.start THEN c ELSE ResetEntropy(c, s)
  <2>1. BegunState(c, stored, segs, s, ts) = IF Available(s, ts) THEN Load(reset, stored) ELSE reset
    BY <1>8, <1>15, Zenon DEF BegunState
  <2>2. Begins(T, s, ts) = IF Available(s, ts) THEN Load(ResetEntropy(B, s), After(T, tr))
                           ELSE ResetEntropy(B, s)
    BY <1>15, Zenon DEF Begins
  <2>3. ts # s.start => reset = ResetEntropy(B, s)
    BY <1>5, <1>10
  <2>4. ts = s.start /\ ~Continues(s) => reset = ResetEntropy(B, s)
    BY <1>4, <1>11
  <2>5. ts = s.start /\ Continues(s) => Available(s, ts) /\ reset = B
    BY <1>4, <1>15 DEF Continuable
  <2> DEFINE R == ResetEntropy(B, s)
             D == After(T, tr)
  <2>6. Available(s, ts) => Load(B, D) = Load(R, D) /\ stored = D
    BY <1>7, <1>12, <1>15
  <2>7. BegunState(c, stored, segs, s, ts) = Begins(T, s, ts)
    <3> HIDE DEF reset, B, s, tr, R, D
    <3>1. reset = R \/ (Available(s, ts) /\ reset = B)
      BY <2>3, <2>4, <2>5 DEF R
    <3>2. Begins(T, s, ts) = IF Available(s, ts) THEN Load(R, D) ELSE R
      BY <2>2 DEF R, D
    <3>3. CASE Available(s, ts)
      <4>1. BegunState(c, stored, segs, s, ts) = Load(reset, stored)
        BY <2>1, <3>3, Zenon
      <4>2. Begins(T, s, ts) = Load(R, D)
        BY <3>2, <3>3, Zenon
      <4>3. Load(reset, stored) = Load(R, D)
        BY <2>6, <3>1, <3>3, Zenon
      <4> QED
        BY <4>1, <4>2, <4>3, Zenon
    <3>4. CASE ~Available(s, ts)
      BY <2>1, <3>1, <3>2, <3>4, Zenon
    <3> QED
      BY <3>3, <3>4, Zenon
  <2> QED
    BY <2>7
<1> QED
  BY <1>13, <1>14, <1>15

LEMMA TrialLemma ==
  ASSUME GoodSym, Chain(segments), NEW T, NEW ts \in 0..N - 1,
         NEW k, Held(segments, k, ts), IsSync(T, sync, ts)
  PROVE  BeginTrial(Before(T, segments[k], ts), segments[k], ts) = Begins(T, segments[k], ts)
<1> DEFINE s == segments[k]
           B == Before(T, s, ts)
<1>1. StartsRow(ts) => (TopRightAvailable(segments, ts) <=> Available(s, ts))
  BY TopRightLemma
<1>2. StartsRow(ts) /\ Available(s, ts) => sync = After(T, ts - TileOf(ts).width + 1)
  BY SyncLemma
<1> HIDE DEF s, B
<1>3. BeginTrial(B, s, ts) = Begins(T, s, ts)
  BY <1>1, <1>2, Zenon DEF BeginTrial, Begins, B
<1> QED
  BY <1>3 DEF s, B

LEMMA TrialType ==
  ASSUME NEW c \in States, sync \in States, NEW s, s.sliceStart \in Addresses, NEW ts
  PROVE  BeginTrial(c, s, ts) \in States
<1>1. Fresh(s) \in States /\ ResetEntropy(c, s) \in States
  BY StateLemma
<1>2. Load(ResetEntropy(c, s), sync) \in States
  BY <1>1, StateLemma
<1> QED
  BY <1>1, <1>2, Zenon DEF BeginTrial

(* The segments that are cut form a chain.                                 *)
LEMMA CoverChain ==
  ASSUME NEW segs, Cover(segs), Opened(segs[Len(segs)])
  PROVE  Chain(segs) /\ \A i \in 1..Len(segs) : Header(segs[i])
<1> DEFINE n == Len(segs)
           Origin(i) == \E j \in 1..i : segs[j].start = segs[i].sliceStart
           Ordered(i, j) == /\ segs[i].start < segs[j].start
                            /\ \/ segs[j].sliceStart = segs[i].sliceStart
                               \/ segs[i].start < segs[j].sliceStart
           ChainTo(m) == /\ \A i \in 1..m : Origin(i)
                         /\ \A i, j \in 1..m : i < j => Ordered(i, j)
           P == {d \in 0..n - 1 : ChainTo(d + 1)}
<1>1. /\ n \in Nat /\ n > 0 /\ DOMAIN segs = 1..n /\ segs[1].start = 0 /\ ~segs[1].dependent
      /\ \A i \in 1..n - 1 : Complete(segs[i]) /\ Linked(segs[i], segs[i + 1])
      /\ Opened(segs[n])
  BY DEF Cover
<1> HIDE DEF n
<1>2. \A i \in 1..n : Opened(segs[i])
  <2> SUFFICES ASSUME NEW i \in 1..n PROVE Opened(segs[i])
    OBVIOUS
  <2>1. i \in 1..n - 1 \/ i = n
    BY <1>1
  <2> QED
    BY <1>1, <2>1 DEF Complete
<1>3. \A i \in 1..n : Header(segs[i])
  BY <1>2, OpenedHeader
<1>4. \A i \in 1..n : /\ segs[i].start \in Nat /\ segs[i].sliceStart \in Nat
                      /\ segs[i].dependent \in BOOLEAN /\ segs[i].sliceStart <= segs[i].start
                      /\ (segs[i].dependent <=> segs[i].sliceStart < segs[i].start)
  BY <1>3 DEF Header
<1>5. 0 \in P
  <2>1. segs[1].sliceStart = 0 /\ 1 \in 1..n
    BY <1>1, <1>4
  <2>2. ChainTo(0 + 1)
    BY <1>1, <2>1
  <2> QED
    BY <1>1, <2>2
<1>6. ASSUME NEW d \in 0..(n - 1) - 1, d \in P PROVE d + 1 \in P
  <2> DEFINE m == d + 1
             s == segs[m]
             x == segs[m + 1]
  <2>1. m \in 1..n - 1 /\ m \in 1..n /\ m + 1 \in 1..n /\ ChainTo(m) /\ m \in 0..n - 1
    BY <1>1, <1>6
  <2>2. Linked(s, x) /\ Complete(s)
    BY <1>1, <2>1
  <2>3. /\ s.start \in Nat /\ s.sliceStart \in Nat /\ s.sliceStart <= s.start
        /\ x.start \in Nat /\ x.sliceStart \in Nat /\ x.sliceStart <= x.start
    BY <1>4, <2>1
  <2>4. s.start < x.start
    BY <2>2 DEF Linked, Complete
  <2>5. x.sliceStart = s.sliceStart \/ x.sliceStart = x.start
    BY <2>2 DEF Linked
  <2> HIDE DEF m
  <2>6. \A i \in 1..m : /\ i \in 1..n
                        /\ i = m \/ (i < m /\ segs[i].start < s.start)
    <3> SUFFICES ASSUME NEW i \in 1..m PROVE i \in 1..n /\ (i = m \/ (i < m /\ segs[i].start < s.start))
      OBVIOUS
    <3>1. i \in 1..n /\ (i = m \/ i < m) /\ m \in 1..m
      BY <1>1, <2>1
    <3>2. i < m => Ordered(i, m)
      <4> HIDE DEF Ordered, Origin
      <4> QED
        BY <2>1, <3>1
    <3> QED
      BY <3>1, <3>2
  <2>7. ASSUME NEW i \in 1..m PROVE Ordered(i, m + 1)
    <3>1. segs[i].start <= s.start /\ segs[i].start \in Nat /\ segs[i].sliceStart \in Nat
      BY <1>4, <2>3, <2>6
    <3>2. segs[i].start < x.start
      BY <2>3, <2>4, <3>1
    <3>3. s.sliceStart = segs[i].sliceStart \/ segs[i].start < s.sliceStart
      BY <2>1, <2>6
    <3> HIDE DEF x, s
    <3>4. x.sliceStart = segs[i].sliceStart \/ segs[i].start < x.sliceStart
      BY <2>5, <3>2, <3>3
    <3> QED
      BY <3>2, <3>4 DEF x
  <2>8. Origin(m + 1)
    <3>1. CASE x.sliceStart = s.sliceStart
      <4>1. Origin(m)
        BY <2>1
      <4>2. PICK j \in 1..m : segs[j].start = s.sliceStart
        BY <4>1
      <4>3. j \in 1..m + 1
        BY <2>1
      <4> QED
        BY <3>1, <4>2, <4>3
    <3>2. CASE x.sliceStart = x.start
      BY <2>1, <3>2
    <3> QED
      BY <2>5, <3>1, <3>2
  <2>9. ChainTo(m + 1)
    <3>1. \A i \in 1..m + 1 : i \in 1..m \/ i = m + 1
      BY <2>1
    <3>2. \A i, j \in 1..m + 1 : i < j => i \in 1..m
      BY <2>1
    <3>3. ~(m + 1 < m + 1)
      BY <2>1
    <3> HIDE DEF Origin, Ordered
    <3>4. \A i \in 1..m + 1 : Origin(i)
      BY <2>1, <2>8, <3>1
    <3>5. ASSUME NEW i \in 1..m + 1, NEW j \in 1..m + 1, i < j PROVE Ordered(i, j)
      BY <2>1, <2>7, <3>1, <3>2, <3>5
    <3> QED
      BY <3>4, <3>5
  <2> HIDE DEF ChainTo
  <2> QED
    BY <2>1, <2>9 DEF m
<1>7. n - 1 \in P
  <2> DEFINE k == n - 1
  <2> HIDE DEF P
  <2>1. k \in Nat
    BY <1>1
  <2>2. \A d \in 0..k - 1 : d \in P => d + 1 \in P
    BY <1>6
  <2> HIDE DEF k
  <2>3. \A d \in 0..k : d \in P
    BY <1>5, <2>1, <2>2, Induction, Zenon
  <2>4. k \in 0..k
    BY <2>1
  <2> QED
    BY <2>3, <2>4, Zenon DEF k
<1>8. ChainTo(n)
  <2>1. (n - 1) + 1 = n
    BY <1>1
  <2>2. ChainTo((n - 1) + 1)
    <3> HIDE DEF ChainTo
    <3> QED
      BY <1>7
  <2> HIDE DEF ChainTo
  <2> QED
    BY <2>1, <2>2, Zenon
<1> HIDE DEF P
<1>9. Chain(segs)
  BY <1>1, <1>4, <1>8, Zenon DEF Chain, n
<1> QED
  BY <1>3, <1>9 DEF n

LEMMA SlicesInvChain ==
  ASSUME SlicesInv
  PROVE  /\ Chain(segments) /\ \A i \in 1..Len(segments) : Header(segments[i])
         /\ Len(segments) \in Nat /\ Len(segments) > 0 /\ segments \in Seq(Segments)
<1>1. Cover(segments)
  BY DEF SlicesInv
<1>2. Opened(segments[Len(segments)])
  <2>1. CASE phase = "compressSlice"
    BY <2>1 DEF SlicesInv, Compressed
  <2>2. CASE phase = "compressCtu"
    BY <2>2 DEF SlicesInv, Compressed, IsBounded
  <2>3. CASE ~Cutting
    BY <2>3 DEF SlicesInv, Compressed, Complete
  <2> QED
    BY <2>1, <2>2, <2>3 DEF Cutting
<1> QED
  BY <1>1, <1>2, CoverChain DEF Cover

LEMMA SegmentLemma ==
  ASSUME SlicesInv, ~Cutting, NEW i \in 1..Len(segments)
  PROVE  LET s == segments[i] IN
         /\ Complete(s) /\ Header(s) /\ Continuable(s)
         /\ s.start \in 0..N - 1 /\ s.end \in 1..N /\ s.start < s.end
         /\ s.sliceStart \in 0..N - 1 /\ s.dependent \in BOOLEAN
         /\ IF i < Len(segments) THEN segments[i + 1].start = s.end ELSE s.end = N
         /\ \A u \in s.start..s.end - 1 : u \in 0..N - 1 /\ Held(segments, i, u)
<1> DEFINE n == Len(segments)
           s == segments[i]
<1>1. /\ GoodSym /\ Cover(segments) /\ Complete(segments[n]) /\ segments[n].end = N
  BY DEF SlicesInv, Compressed
<1>2. n \in Nat /\ \A j \in 1..n - 1 : Complete(segments[j]) /\ Linked(segments[j], segments[j + 1])
  BY <1>1 DEF Cover
<1> HIDE DEF n
<1>3. i \in 1..n /\ (i \in 1..n - 1 \/ (i = n /\ ~(i < n))) /\ (i < n => i \in 1..n - 1)
  BY <1>2 DEF n
<1>4. Complete(s) /\ (IF i < n THEN segments[i + 1].start = s.end ELSE s.end = N)
  BY <1>1, <1>2, <1>3 DEF Linked
<1>5. Opened(s) /\ s.start < s.end /\ s.end <= s.sliceEnd
  BY <1>4 DEF Complete
<1>6. Header(s)
  BY <1>5, OpenedHeader
<1>7. N \in Nat
  BY <1>1, PictureLemma
<1>8. s.start \in 0..N - 1 /\ s.end \in 0..N /\ s.sliceStart \in 0..N - 1 /\ s.dependent \in BOOLEAN
  <2>1. s \in Segments
    BY <1>5 DEF Opened
  <2> QED
    BY <1>6, <2>1 DEF Segments, Addresses, Header
<1>9. Continuable(s)
  <2> HIDE DEF s
  <2> QED
    BY <1>1, <1>4, ContinuesAvailable DEF Continuable
<1> HIDE DEF s
<1>10. s.end \in 1..N
  BY <1>5, <1>7, <1>8
<1>11. ASSUME NEW u \in s.start..s.end - 1 PROVE u \in 0..N - 1 /\ Held(segments, i, u)
  <2>1. u \in 0..N - 1 /\ s.start <= u /\ u < s.end
    BY <1>7, <1>8
  <2>2. i < n => u < segments[i + 1].start
    BY <1>4, <2>1
  <2> QED
    BY <1>3, <2>1, <2>2 DEF Held, s, n
<1> QED
  BY <1>4, <1>5, <1>6, <1>8, <1>9, <1>10, <1>11 DEF s, n

(* Where encodeSlice() is.                                                 *)
EncoderPlace ==
  /\ Cutting => index = 1
  /\ phase \in {"encodeSlice", "encodeCtu"} => index \in 1..Len(segments)
  /\ phase = "encodeCtu" => ctu \in Nat /\ Encoded.start <= ctu /\ ctu < Encoded.end

LEMMA EncoderPlaceInit == Init => EncoderPlace
BY DEF Init, EncoderInit, EncoderPlace, Cutting

LEMMA EncoderPlaceStep ==
  ASSUME SlicesInv, EncoderPlace, [Next]_vars
  PROVE  EncoderPlace'
<1>1. /\ Cutting => index = 1
      /\ phase \in {"encodeSlice", "encodeCtu"} => index \in 1..Len(segments)
      /\ phase = "encodeCtu" => ctu \in Nat /\ Encoded.start <= ctu /\ ctu < Encoded.end
  BY DEF EncoderPlace
<1>2. Len(segments) \in Nat /\ Len(segments) > 0
  BY SlicesInvChain
<1>3. CASE CompressSlice /\ UNCHANGED decoderVars
  BY <1>1, <1>3 DEF CompressSlice, Cutting, EncoderPlace
<1>4. CASE CompressCtu /\ UNCHANGED decoderVars
  <2>1. phase = "compressCtu" /\ index' = index /\ phase' \in {"compressCtu", "compressSlice", "encodeSlice"}
    BY <1>4 DEF CompressCtu, FinishCompress
  <2>2. index = 1
    BY <1>1, <2>1 DEF Cutting
  <2>3. phase' = "encodeSlice" => Len(segments') \in Nat /\ Len(segments') > 0
    <3>1. SlicesInv'
      BY SlicesStep
    <3>2. (Len(segments) \in Nat /\ Len(segments) > 0)'
      BY <3>1, SlicesInvChain, PTL
    <3> QED
      BY <3>2
  <2> QED
    BY <2>1, <2>2, <2>3 DEF EncoderPlace, Cutting
<1>5. CASE EncodeSlice /\ UNCHANGED decoderVars
  <2>1. /\ phase = "encodeSlice" /\ phase' = "encodeCtu" /\ ctu' = Encoded.start
        /\ index' = index /\ segments' = segments
    BY <1>5 DEF EncodeSlice
  <2>2. Encoded.start \in 0..N - 1 /\ Encoded.start < Encoded.end /\ N \in Nat
    <3>1. ~Cutting
      BY <2>1 DEF Cutting
    <3>2. index \in 1..Len(segments)
      BY <1>1, <2>1
    <3>3. N \in Nat
      BY PictureLemma DEF SlicesInv
    <3> QED
      BY <3>1, <3>2, <3>3, SegmentLemma DEF Encoded
  <2>3. Encoded' = Encoded
    BY <2>1 DEF Encoded
  <2> QED
    BY <1>1, <2>1, <2>2, <2>3 DEF EncoderPlace, Cutting
<1>6. CASE EncodeCtu /\ UNCHANGED decoderVars
  <2> DEFINE last == ctu + 1 = Encoded.end
  <2>1. /\ phase = "encodeCtu" /\ segments' = segments
        /\ last => /\ phase' = IF index < Len(segments) THEN "encodeSlice" ELSE "decodeSlice"
                   /\ index' = IF index < Len(segments) THEN index + 1 ELSE 1
        /\ ~last => phase' = phase /\ index' = index /\ ctu' = ctu + 1
    BY <1>6, Zenon DEF EncodeCtu
  <2>2. /\ index \in 1..Len(segments) /\ ctu \in Nat /\ Encoded.start <= ctu /\ ctu < Encoded.end
        /\ Encoded.start \in Nat /\ Encoded.end \in Nat
    <3>1. ~Cutting /\ index \in 1..Len(segments)
      BY <1>1, <2>1 DEF Cutting
    <3>2. Encoded.start \in 0..N - 1 /\ Encoded.end \in 1..N
      BY <3>1, SegmentLemma DEF Encoded
    <3> QED
      BY <1>1, <2>1, <3>1, <3>2
  <2>3. CASE last
    <3>1. phase' # "encodeCtu" /\ phase' \notin {"compressSlice", "compressCtu"}
      BY <2>1, <2>3
    <3>2. phase' = "encodeSlice" => index' \in 1..Len(segments)
      BY <1>2, <2>1, <2>2, <2>3
    <3> QED
      BY <2>1, <3>1, <3>2 DEF EncoderPlace, Cutting
  <2>4. CASE ~last
    <3>1. /\ phase' = "encodeCtu" /\ index' \in 1..Len(segments') /\ Encoded' = Encoded
          /\ ctu' \in Nat /\ Encoded.start <= ctu' /\ ctu' < Encoded.end
      BY <2>1, <2>2, <2>4 DEF Encoded
    <3> QED
      BY <3>1 DEF EncoderPlace, Cutting
  <2> QED
    BY <2>3, <2>4
<1>7. CASE DecodeSlice
  BY <1>7 DEF DecodeSlice, EncoderPlace, Cutting
<1>8. CASE DecodeCtu
  <2>1. phase' \in {"decodeSlice", "decodeCtu", "done", "lost"}
    BY <1>8 DEF DecodeCtu, Decode, FinishDecode, LosePlace
  <2> QED
    BY <2>1 DEF EncoderPlace, Cutting
<1>9. CASE UNCHANGED vars
  <2>1. phase' = phase /\ index' = index /\ segments' = segments /\ ctu' = ctu
    BY <1>9 DEF vars, encoderVars
  <2> QED
    BY <1>1, <2>1 DEF EncoderPlace, Cutting, Encoded
<1> QED
  BY <1>3, <1>4, <1>5, <1>6, <1>7, <1>8, <1>9 DEF Next, EncoderNext

(* One turn of compressSlice()'s loop, with the segment as it is cut.      *)
Compresses(c) ==
  LET begin == BeginTrial(coder, Compressed, ctu)
      after == CodeCtu(begin, ctu)
  IN /\ phase = "compressCtu" /\ UNCHANGED fixedVars /\ index' = index
     /\ trial' = [trial EXCEPT ![ctu] = begin]
     /\ c.end = ctu => /\ coder' = [after EXCEPT !.palette = begin.palette] /\ sync' = sync
                       /\ layout.segmentMode = "bytes" \/ c.end = c.sliceEnd
     /\ c.end # ctu => coder' = after /\ sync' = IF SecondOfRow(ctu) THEN after ELSE sync
     /\ ctu + 1 < c.end => /\ ctu' = ctu + 1 /\ phase' = phase /\ segments' = segments
                           /\ segmentEnd' = segmentEnd
     /\ ~(ctu + 1 < c.end) => FinishCompress(c, coder') /\ (c.end = ctu \/ c.end = ctu + 1) /\ Complete(c)
     /\ c.end \in Nat /\ ctu <= c.end
     /\ c.start = Compressed.start /\ c.sliceStart = Compressed.sliceStart
     /\ c.dependent = Compressed.dependent

LEMMA CompressLemma ==
  ASSUME SlicesInv, CompressCtu
  PROVE  \E c : Compresses(c)
<1> DEFINE s == Compressed
           begin == BeginTrial(coder, s, ctu)
           after == CodeCtu(begin, ctu)
<1>1. GoodSym /\ phase = "compressCtu" /\ IsBounded(s) /\ ctu \in Nat /\ s.start <= ctu /\ ctu < s.end
  BY DEF SlicesInv, CompressCtu
<1>2. PICK overSlice \in {FALSE} \cup (IF layout.sliceMode = "bytes" THEN {TRUE} ELSE {}),
           overSegment \in {FALSE} \cup (IF layout.segmentMode = "bytes" THEN {TRUE} ELSE {}) :
        LET c == Cut(s, overSlice, overSegment) IN
        /\ trial' = [trial EXCEPT ![ctu] = begin]
        /\ IF c.end <= ctu
             THEN coder' = [after EXCEPT !.palette = begin.palette] /\ sync' = sync
             ELSE coder' = after /\ sync' = IF SecondOfRow(ctu) THEN after ELSE sync
        /\ IF ctu + 1 < c.end
             THEN /\ ctu' = ctu + 1
                  /\ UNCHANGED <<phase, segments, segmentEnd>>
             ELSE FinishCompress(c, coder')
  BY Zenon DEF CompressCtu
<1>3. UNCHANGED fixedVars /\ index' = index
  BY DEF CompressCtu
<1>4. /\ overSlice \in BOOLEAN /\ (overSlice => layout.sliceMode = "bytes")
      /\ overSegment \in BOOLEAN /\ (overSegment => layout.segmentMode = "bytes")
  OBVIOUS
<1> DEFINE c == Cut(s, overSlice, overSegment)
<1>5. /\ c.start = s.start /\ c.sliceStart = s.sliceStart /\ c.dependent = s.dependent
      /\ c.end \in Nat /\ c.end <= s.end
      /\ ctu + 1 < c.end => c = s
      /\ ~(ctu + 1 < c.end) => Complete(c) /\ (c.end = ctu \/ c.end = ctu + 1)
  <2> HIDE DEF s
  <2> QED
    BY <1>1, <1>4, CutLemma
<1>6. c.end = ctu => layout.segmentMode = "bytes" \/ c.end = c.sliceEnd
  <2>1. CASE overSlice
    <3> DEFINE v == IF ctu = s.start THEN ctu + 1 ELSE ctu
    <3>1. c = [s EXCEPT !.end = v, !.sliceEnd = v]
      BY <2>1, Zenon DEF Cut
    <3>2. s \in Segments
      BY <1>1 DEF IsBounded, Opened
    <3> HIDE DEF v, s, c
    <3>3. c.end = v /\ c.sliceEnd = v
      BY <3>1, <3>2 DEF Segments
    <3> QED
      BY <3>3
  <2>2. CASE overSegment
    BY <1>4, <2>2
  <2>3. CASE ~overSlice /\ ~overSegment
    <3>1. c = s
      BY <2>3, Zenon DEF Cut
    <3>2. s.end # ctu
      <4> HIDE DEF s, c
      <4> QED
        BY <1>1, <1>5, <3>1
    <3> QED
      BY <3>1, <3>2, Zenon
  <2> QED
    BY <2>1, <2>2, <2>3
<1> HIDE DEF c, s, begin, after
<1>7. /\ c.end <= ctu <=> c.end = ctu
      /\ ctu <= c.end
  BY <1>1, <1>5
<1>8. /\ trial' = [trial EXCEPT ![ctu] = begin]
      /\ IF c.end <= ctu
           THEN coder' = [after EXCEPT !.palette = begin.palette] /\ sync' = sync
           ELSE coder' = after /\ sync' = IF SecondOfRow(ctu) THEN after ELSE sync
      /\ IF ctu + 1 < c.end
           THEN /\ ctu' = ctu + 1
                /\ UNCHANGED <<phase, segments, segmentEnd>>
           ELSE FinishCompress(c, coder')
  BY <1>2, Zenon DEF c
<1>9. ctu + 1 < c.end => phase' = phase /\ segments' = segments /\ segmentEnd' = segmentEnd
  BY <1>8
<1>10. Compresses(c)
  BY <1>1, <1>3, <1>5, <1>6, <1>7, <1>8, <1>9, Zenon DEF Compresses, s, begin, after
<1> QED
  BY <1>10

LEMMA BegunType ==
  ASSUME NEW c \in States, NEW stored \in States, NEW s, s.sliceStart \in Addresses, NEW segs, NEW ts
  PROVE  BegunState(c, stored, segs, s, ts) \in States
<1>1. Fresh(s) \in States /\ ResetEntropy(c, s) \in States
  BY StateLemma
<1>2. Load(ResetEntropy(c, s), stored) \in States /\ Load(c, stored) \in States
  BY <1>1, StateLemma
<1> QED
  BY <1>1, <1>2, Zenon DEF BegunState

(* The encoder's coders have their type.                                   *)
StatesInv ==
  /\ coder \in States /\ sync \in States /\ segmentEnd \in States /\ trial \in Histories

LEMMA SegmentType ==
  ASSUME segmentEnd \in States, NEW s, s.sliceStart \in Addresses
  PROVE  BeginSegment(s) \in States
<1>1. Fresh(s) \in States
  BY StateLemma
<1>2. Load(Fresh(s), segmentEnd) \in States
  BY <1>1, StateLemma
<1> QED
  BY <1>1, <1>2, Zenon DEF BeginSegment

LEMMA StatesInit == Init => StatesInv
<1> SUFFICES ASSUME Init PROVE StatesInv
  OBVIOUS
<1>1. NoState \in States
  BY DEF NoState, States
<1> HIDE DEF NoState
<1> QED
  BY <1>1 DEF Init, EncoderInit, StatesInv, Histories

LEMMA FixedTypes ==
  ASSUME UNCHANGED fixedVars
  PROVE  Addresses' = Addresses /\ States' = States /\ Histories' = Histories /\ Segments' = Segments
<1>1. N' = N
  BY FixedPlaces
<1> QED
  BY <1>1 DEF Addresses, States, Histories, Segments

LEMMA FixedInStep ==
  ASSUME GoodSym, [Next]_vars
  PROVE  UNCHANGED fixedVars
BY DEF Next, EncoderNext, CompressSlice, CompressCtu, EncodeSlice, EncodeCtu, DecodeSlice, DecodeCtu,
       vars, encoderVars, fixedVars

LEMMA StatesStep ==
  ASSUME SlicesInv, EncoderPlace, StatesInv, [Next]_vars
  PROVE  StatesInv'
<1>1. GoodSym /\ N \in Nat
  BY PictureLemma DEF SlicesInv
<1>2. UNCHANGED fixedVars
  BY <1>1, FixedInStep
<1>3. /\ coder \in States /\ sync \in States /\ segmentEnd \in States /\ trial \in Histories
  BY DEF StatesInv
<1>4. ASSUME coder' \in States, sync' \in States, segmentEnd' \in States, trial' \in Histories
      PROVE  StatesInv'
  BY <1>2, <1>4, FixedTypes DEF StatesInv
<1>5. /\ Compressed.sliceStart \in Addresses /\ Compressed.start \in Addresses
      /\ index \in 1..Len(segments) => Encoded.sliceStart \in Addresses
  <2>1. \A i \in 1..Len(segments) : segments[i].sliceStart \in Addresses /\ segments[i].start \in Addresses
    BY <1>1, SlicesInvChain DEF Header, Addresses
  <2>2. Len(segments) \in 1..Len(segments)
    BY SlicesInvChain
  <2> QED
    BY <2>1, <2>2 DEF Compressed, Encoded
<1>6. CASE CompressSlice /\ UNCHANGED decoderVars
  <2>1. coder' = BeginSegment(Compressed) /\ sync' = sync /\ segmentEnd' = segmentEnd /\ trial' = trial
    BY <1>6 DEF CompressSlice
  <2>2. BeginSegment(Compressed) \in States
    BY <1>3, <1>5, SegmentType
  <2> QED
    BY <1>3, <1>4, <2>1, <2>2
<1>7. CASE CompressCtu /\ UNCHANGED decoderVars
  <2> DEFINE begin == BeginTrial(coder, Compressed, ctu)
             after == CodeCtu(begin, ctu)
  <2>1. PICK c : Compresses(c)
    BY <1>7, CompressLemma
  <2>2. ctu \in 0..N - 1 /\ ctu \in Addresses
    <3>1. IsBounded(Compressed) /\ ctu \in Nat /\ ctu < Compressed.end
      BY <2>1 DEF SlicesInv, Compresses
    <3>2. Compressed.end \in Nat /\ Compressed.end <= N
      BY <1>1, <3>1, BoundedLemma
    <3> QED
      BY <1>1, <3>1, <3>2 DEF Addresses
  <2>3. begin \in States
    BY <1>3, <1>5, TrialType
  <2>4. after \in States
    <3> HIDE DEF begin
    <3> QED
      BY <1>5, <2>2, <2>3, StateLemma
  <2>5. trial' \in Histories
    <3>1. trial' = [trial EXCEPT ![ctu] = begin]
      BY <2>1 DEF Compresses
    <3> HIDE DEF begin
    <3> QED
      BY <1>3, <2>2, <2>3, <3>1 DEF Histories
  <2>6. coder' \in States /\ sync' \in States
    <3>1. CASE c.end = ctu
      <4>1. coder' = [after EXCEPT !.palette = begin.palette] /\ sync' = sync
        BY <2>1, <3>1 DEF Compresses
      <4> HIDE DEF begin, after
      <4>2. coder' \in States
        BY <2>3, <2>4, <4>1 DEF States
      <4> QED
        BY <1>3, <4>1, <4>2
    <3>2. CASE c.end # ctu
      <4>1. coder' = after /\ (sync' = after \/ sync' = sync)
        BY <2>1, <3>2, Zenon DEF Compresses
      <4> QED
        BY <1>3, <2>4, <4>1
    <3> QED
      BY <3>1, <3>2
  <2>7. segmentEnd' \in States
    <3>1. CASE ctu + 1 < c.end
      BY <1>3, <2>1, <3>1, Zenon DEF Compresses
    <3>2. CASE ~(ctu + 1 < c.end)
      <4>1. FinishCompress(c, coder')
        BY <2>1, <3>2, Zenon DEF Compresses
      <4>2. segmentEnd' = coder' \/ segmentEnd' = segmentEnd
        BY <4>1, Zenon DEF FinishCompress
      <4> QED
        BY <1>3, <2>6, <4>2
    <3> QED
      BY <3>1, <3>2
  <2> QED
    BY <1>4, <2>5, <2>6, <2>7
<1>8. CASE EncodeSlice /\ UNCHANGED decoderVars
  <2>1. /\ coder' = BeginSegment(Encoded) /\ sync' = sync /\ segmentEnd' = segmentEnd /\ trial' = trial
        /\ phase = "encodeSlice"
    BY <1>8 DEF EncodeSlice
  <2>2. BeginSegment(Encoded) \in States
    BY <1>3, <1>5, <2>1, SegmentType DEF EncoderPlace
  <2> QED
    BY <1>3, <1>4, <2>1, <2>2
<1>9. CASE EncodeCtu /\ UNCHANGED decoderVars
  <2> DEFINE begin == BeginCtu(coder, Encoded, ctu)
             after == CodeCtu(begin, ctu)
  <2>1. \E b \in BOOLEAN : coder' = [after EXCEPT !.running = b]
    <3> DEFINE b == ~(ctu + 1 = Encoded.end \/ EndsSubstream(ctu))
    <3>1. b \in BOOLEAN
      OBVIOUS
    <3>2. coder' = [after EXCEPT !.running = b]
      BY <1>9, Zenon DEF EncodeCtu
    <3> QED
      BY <3>1, <3>2, Zenon
  <2>2. /\ sync' = after \/ sync' = sync
        /\ segmentEnd' = after \/ segmentEnd' = segmentEnd
        /\ trial' = trial /\ phase = "encodeCtu"
    BY <1>9, Zenon DEF EncodeCtu
  <2>3. begin \in States
    <3>1. Encoded.sliceStart \in Addresses
      BY <1>5, <2>2 DEF EncoderPlace
    <3>2. BegunState(coder, sync, segments, Encoded, ctu) \in States
      BY <1>3, <3>1, BegunType
    <3> QED
      BY <3>2, BegunIsBegin
  <2>4. after \in States
    <3>1. index \in 1..Len(segments) /\ ctu \in Nat /\ ctu < Encoded.end /\ ~Cutting
      BY <2>2 DEF EncoderPlace, Cutting
    <3>2. Encoded.end \in 1..N
      BY <3>1, SegmentLemma DEF Encoded
    <3>3. ctu \in Addresses
      BY <1>1, <3>1, <3>2 DEF Addresses
    <3> HIDE DEF begin
    <3> QED
      BY <1>5, <2>3, <3>3, StateLemma
  <2> HIDE DEF after
  <2>5. coder' \in States
    <3>1. PICK b \in BOOLEAN : coder' = [after EXCEPT !.running = b]
      BY <2>1
    <3> QED
      BY <2>4, <3>1 DEF States
  <2> QED
    BY <1>3, <1>4, <2>2, <2>4, <2>5
<1>10. CASE DecodeSlice
  BY <1>3, <1>4, <1>10 DEF DecodeSlice
<1>11. CASE DecodeCtu
  BY <1>3, <1>4, <1>11 DEF DecodeCtu
<1>12. CASE UNCHANGED vars
  BY <1>3, <1>4, <1>12 DEF vars, encoderVars
<1> QED
  BY <1>6, <1>7, <1>8, <1>9, <1>10, <1>11, <1>12 DEF Next, EncoderNext

-----------------------------------------------------------------------------
(* The trial pass.                                                         *)

(* A segment whose state the trial pass knows: not one that a limit on its *)
(* predecessor's bytes has begun.                                          *)
Clean(s) == layout.segmentMode # "bytes" \/ ~s.dependent

(* T holds, of the CTUs before n, the states they are coded in, of all     *)
(* segments or of those.                                                   *)
Law(T, segs, n, all) ==
  \A k \in 1..Len(segs) : \A u \in 0..n - 1 :
    Held(segs, k, u) /\ (all \/ Clean(segs[k])) => T[u] = Begins(T, segs[k], u)

SameStarts(segs, others) ==
  /\ Len(segs) <= Len(others)
  /\ \A i \in 1..Len(segs) : /\ segs[i].start = others[i].start
                             /\ segs[i].sliceStart = others[i].sliceStart
                             /\ segs[i].dependent = others[i].dependent

LEMMA LawChange ==
  ASSUME NEW T, NEW segs, NEW others, NEW n \in Nat, NEW all, Law(T, segs, n, all),
         Len(segs) \in Nat, Len(others) \in Nat, SameStarts(segs, others),
         \A i \in Len(segs) + 1..Len(others) : others[i].start \in Nat /\ n <= others[i].start
  PROVE  Law(T, others, n, all)
<1> DEFINE m == Len(segs)
<1>1. /\ m \in Nat /\ m <= Len(others) /\ Len(others) \in Nat
      /\ \A i \in 1..m : /\ segs[i].start = others[i].start
                         /\ segs[i].sliceStart = others[i].sliceStart
                         /\ segs[i].dependent = others[i].dependent
      /\ \A i \in m + 1..Len(others) : others[i].start \in Nat /\ n <= others[i].start
  BY DEF SameStarts
<1> HIDE DEF m
<1>2. ASSUME NEW k \in 1..Len(others), NEW u \in 0..n - 1, Held(others, k, u), all \/ Clean(others[k])
      PROVE  T[u] = Begins(T, others[k], u)
  <2>1. others[k].start <= u /\ (k < Len(others) => u < others[k + 1].start)
    BY <1>2 DEF Held
  <2>2. k \in 1..m
    <3>1. k \in m + 1..Len(others) => FALSE
      BY <1>1, <2>1
    <3> QED
      BY <1>1, <3>1
  <2>3. Held(segs, k, u)
    <3>1. segs[k].start <= u
      BY <1>1, <2>1, <2>2
    <3>2. k < m => k < Len(others) /\ k + 1 \in 1..m
      BY <1>1, <2>2
    <3>3. k < m => u < segs[k + 1].start
      BY <1>1, <2>1, <3>2
    <3> QED
      BY <2>2, <3>1, <3>3 DEF Held, m
  <2>4. /\ segs[k].start = others[k].start /\ segs[k].sliceStart = others[k].sliceStart
        /\ segs[k].dependent = others[k].dependent
    BY <1>1, <2>2
  <2>5. Begins(T, segs[k], u) = Begins(T, others[k], u)
    <3>1. \A S : \A v : Before(S, segs[k], v) = Before(S, others[k], v)
                        /\ Begins(S, segs[k], v) = Begins(S, others[k], v)
      BY <2>4, SameHeader
    <3> QED
      BY <3>1, Zenon
  <2>6. all \/ Clean(segs[k])
    BY <1>2, <2>4 DEF Clean
  <2>7. T[u] = Begins(T, segs[k], u)
    BY <2>2, <2>3, <2>6, Zenon DEF Law, m
  <2> QED
    BY <2>5, <2>7, Zenon
<1> QED
  BY <1>2 DEF Law

LEMMA LawExtend ==
  ASSUME GoodSym, NEW T \in Histories, NEW segs, Chain(segs), \A i \in 1..Len(segs) : Header(segs[i]),
         NEW n \in 0..N - 1, NEW c \in States, NEW all, Law(T, segs, n, all)
  PROVE  LET S == [T EXCEPT ![n] = c] IN
         /\ S \in Histories /\ S[n] = c /\ (\A v \in 0..n - 1 : S[v] = T[v])
         /\ Law(S, segs, n, all)
         /\ \A stored : IsSync(T, stored, n) => IsSync(S, stored, n)
         /\ \A k : Held(segs, k, n) =>
              /\ Begins(S, segs[k], n) = Begins(T, segs[k], n)
              /\ Before(S, segs[k], n) = Before(T, segs[k], n)
              /\ (all \/ Clean(segs[k]) => c = Begins(T, segs[k], n)) => Law(S, segs, n + 1, all)
<1> DEFINE S == [T EXCEPT ![n] = c]
<1>1. N \in Nat
  BY PictureLemma
<1>2. S \in Histories /\ S[n] = c /\ \A v \in 0..n - 1 : S[v] = T[v]
  BY <1>1 DEF Histories
<1> HIDE DEF S
<1>3. ASSUME NEW k \in 1..Len(segs), NEW u \in 0..n, segs[k].start <= u
      PROVE  Begins(S, segs[k], u) = Begins(T, segs[k], u) /\ Before(S, segs[k], u) = Before(T, segs[k], u)
  <2>1. Header(segs[k]) /\ u \in 0..N - 1
    BY <1>1
  <2>2. \A v \in segs[k].sliceStart..u - 1 : v \in 0..n - 1
    BY <2>1 DEF Header
  <2>3. \A v \in segs[k].sliceStart..u - 1 : S[v] = T[v]
    BY <1>2, <2>2
  <2> QED
    BY <1>3, <2>1, <2>3, Agree
<1>4. Law(S, segs, n, all)
  <2> SUFFICES ASSUME NEW k \in 1..Len(segs), NEW u \in 0..n - 1, Held(segs, k, u), all \/ Clean(segs[k])
               PROVE  S[u] = Begins(S, segs[k], u)
    BY Zenon DEF Law
  <2>1. T[u] = Begins(T, segs[k], u)
    BY Zenon DEF Law
  <2>2. u \in 0..n /\ segs[k].start <= u
    BY DEF Held
  <2>3. Begins(S, segs[k], u) = Begins(T, segs[k], u)
    BY <1>3, <2>2
  <2> QED
    BY <1>2, <2>1, <2>3, Zenon
<1>5. \A stored : IsSync(T, stored, n) => IsSync(S, stored, n)
  <2>1. \A u \in 0..n - 1 : After(S, u) = After(T, u)
    BY <1>2, Zenon DEF After
  <2> QED
    BY <2>1, Zenon DEF IsSync
<1>6. ASSUME NEW k, Held(segs, k, n)
      PROVE  /\ Begins(S, segs[k], n) = Begins(T, segs[k], n)
             /\ Before(S, segs[k], n) = Before(T, segs[k], n)
             /\ (all \/ Clean(segs[k]) => c = Begins(T, segs[k], n)) => Law(S, segs, n + 1, all)
  <2>1. k \in 1..Len(segs) /\ segs[k].start <= n /\ n \in 0..n /\ n \in Nat
    BY <1>6 DEF Held
  <2>2. Begins(S, segs[k], n) = Begins(T, segs[k], n) /\ Before(S, segs[k], n) = Before(T, segs[k], n)
    BY <1>3, <2>1
  <2>3. ASSUME all \/ Clean(segs[k]) => c = Begins(T, segs[k], n),
               NEW j \in 1..Len(segs), NEW u \in 0..(n + 1) - 1, Held(segs, j, u), all \/ Clean(segs[j])
        PROVE  S[u] = Begins(S, segs[j], u)
    <3>1. CASE u \in 0..n - 1
      BY <1>4, <2>3, <3>1, Zenon DEF Law
    <3>2. CASE u = n
      <4>1. k \in Nat /\ j \in Nat /\ j <= k /\ k <= j
        <5>1. segs[k].start <= n /\ segs[j].start <= n
          BY <2>1, <2>3, <3>2 DEF Held
        <5>2. j <= k
          BY <1>6, <2>1, <2>3, <5>1, HeldLemma
        <5>3. k <= j
          BY <2>1, <2>3, <3>2, <5>1, HeldLemma
        <5>4. k \in Nat /\ j \in Nat
          BY <2>1, <2>3
        <5> QED
          BY <5>2, <5>3, <5>4
      <4>2. j = k
        BY <4>1
      <4> QED
        BY <1>2, <2>2, <2>3, <3>2, <4>2
    <3>3. u \in 0..n - 1 \/ u = n
      BY <2>1
    <3> QED
      BY <3>1, <3>2, <3>3
  <2> QED
    BY <2>2, <2>3 DEF Law
<1> QED
  BY <1>2, <1>4, <1>5, <1>6, Zenon DEF S

LEMMA SyncExtend ==
  ASSUME NEW T, NEW n \in Nat, NEW c, IsSync(T, c, n)
  PROVE  IsSync(T, IF SecondOfRow(n) THEN After(T, n) ELSE c, n + 1)
<1> DEFINE d == IF SecondOfRow(n) THEN After(T, n) ELSE c
<1> SUFFICES ASSUME NEW u \in 0..(n + 1) - 1, SecondOfRow(u), \A v \in u + 1..(n + 1) - 1 : ~SecondOfRow(v)
             PROVE  d = After(T, u)
  BY Zenon DEF IsSync
<1>1. CASE u = n
  BY <1>1
<1>2. CASE u # n
  <2>1. u \in 0..n - 1 /\ n \in u + 1..(n + 1) - 1
    BY <1>2
  <2>2. ~SecondOfRow(n)
    BY <2>1
  <2>3. \A v \in u + 1..n - 1 : v \in u + 1..(n + 1) - 1
    OBVIOUS
  <2>4. c = After(T, u)
    BY <2>1, <2>3, Zenon DEF IsSync
  <2> QED
    BY <2>2, <2>4
<1> QED
  BY <1>1, <1>2

LEMMA FixedLaws ==
  ASSUME UNCHANGED fixedVars, NEW T, NEW s, NEW n, NEW c, NEW all
  PROVE  /\ Law(T, s, n, all)' <=> Law(T, s, n, all)
         /\ IsSync(T, c, n)' <=> IsSync(T, c, n)
         /\ After(T, n)' = After(T, n) /\ Before(T, s, n)' = Before(T, s, n)
         /\ Begins(T, s, n)' = Begins(T, s, n)
         /\ (Continues(s)' <=> Continues(s)) /\ (Clean(s)' <=> Clean(s))
         /\ (CoderAt(T, s, n, c)' <=> CoderAt(T, s, n, c))
<1>1. layout' = layout /\ picSym' = picSym /\ wavefronts' = wavefronts
  BY FixedPlaces
<1>2. \A u : \A v : CodeCtu(u, v)' = CodeCtu(u, v)
  BY <1>1, Zenon DEF CodeCtu
<1>3. \A S : \A u : After(S, u)' = After(S, u)
  BY <1>2, Zenon DEF After
<1>4. \A u : /\ (FirstOfTile(u)' <=> FirstOfTile(u)) /\ (StartsRow(u)' <=> StartsRow(u))
             /\ (SecondOfRow(u)' <=> SecondOfRow(u)) /\ (EndsSubstream(u)' <=> EndsSubstream(u))
             /\ TileOf(u)' = TileOf(u) /\ Y(u)' = Y(u)
  BY FixedPlaces
<1>5. \A r : (Continues(r)' <=> Continues(r)) /\ (Clean(r)' <=> Clean(r))
  BY <1>1, <1>4, Zenon DEF Continues, Clean, dependentSliceSegmentsEnabled
<1>6. \A r : \A u : Available(r, u)' <=> Available(r, u)
  BY <1>4, Zenon DEF Available
<1>7. \A S : \A r : \A u : Before(S, r, u)' = Before(S, r, u)
  BY <1>3, <1>5, Zenon DEF Before
<1>8. \A S : \A r : \A u : Begins(S, r, u)' = Begins(S, r, u)
  <2> SUFFICES ASSUME NEW S, NEW r, NEW u PROVE Begins(S, r, u)' = Begins(S, r, u)
    OBVIOUS
  <2>1. (FirstOfTile(u)' <=> FirstOfTile(u)) /\ (StartsRow(u)' <=> StartsRow(u))
    BY <1>4
  <2>2. TileOf(u)' = TileOf(u) /\ (Available(r, u)' <=> Available(r, u))
    BY <1>4, <1>6
  <2>3. Before(S, r, u)' = Before(S, r, u)
    BY <1>7
  <2>4. After(S, u - TileOf(u).width + 1)' = After(S, u - TileOf(u).width + 1)
    BY <1>3, <2>2, Zenon
  <2> QED
    BY <2>1, <2>2, <2>3, <2>4, Zenon DEF Begins
<1>9. Law(T, s, n, all)' <=> Law(T, s, n, all)
  BY <1>5, <1>8, Zenon DEF Law, Held
<1>10. IsSync(T, c, n)' <=> IsSync(T, c, n)
  BY <1>3, <1>4, Zenon DEF IsSync
<1>11. CoderAt(T, s, n, c)' <=> CoderAt(T, s, n, c)
  BY <1>3, <1>4, <1>7, Zenon DEF CoderAt
<1> QED
  BY <1>3, <1>5, <1>7, <1>8, <1>9, <1>10, <1>11, Zenon

(* A completed segment and the one that is allocated behind it.            *)
LEMMA FinishLemma ==
  ASSUME SlicesInv, NEW c, Compresses(c), ~(ctu + 1 < c.end)
  PROVE  /\ SameStarts(segments, segments') /\ Len(segments) \in Nat /\ Len(segments') \in Nat
         /\ \A i \in Len(segments) + 1..Len(segments') : segments'[i].start = c.end
         /\ segmentEnd' = IF dependentSliceSegmentsEnabled THEN coder' ELSE segmentEnd
         /\ phase' = "compressSlice" => /\ Compressed'.start = c.end
                                        /\ Compressed'.dependent <=> c.end < c.sliceEnd
         /\ phase' # "compressSlice" => phase' = "encodeSlice" /\ c.end = N /\ c.end = ctu + 1
<1> DEFINE m == Len(segments)
           t == [segments EXCEPT ![m] = c]
           x == NextSegment(c)
<1>1. /\ FinishCompress(c, coder') /\ Complete(c) /\ phase = "compressCtu"
      /\ c.start = Compressed.start /\ c.sliceStart = Compressed.sliceStart
      /\ c.dependent = Compressed.dependent /\ (c.end = ctu \/ c.end = ctu + 1) /\ c.end \in Nat
  BY Zenon DEF Compresses
<1>2. /\ segmentEnd' = IF dependentSliceSegmentsEnabled THEN coder' ELSE segmentEnd
      /\ segments' = IF c.end < N THEN Append(t, x) ELSE t
      /\ phase' = IF c.end < N THEN "compressSlice" ELSE "encodeSlice"
  BY <1>1, Zenon DEF FinishCompress
<1>3. GoodSym /\ Cover(segments) /\ IsBounded(Compressed) /\ ctu \in Nat /\ ctu < Compressed.end
  BY <1>1, Zenon DEF SlicesInv
<1>4. N \in Nat /\ ctu < N
  <2>1. /\ Compressed.end \in Nat /\ Compressed.sliceEnd \in Nat
        /\ Compressed.end <= Compressed.sliceEnd /\ Compressed.sliceEnd <= N
    BY <1>3, BoundedLemma, Zenon
  <2>2. N \in Nat
    BY <1>3, PictureLemma
  <2> QED
    BY <1>3, <2>1, <2>2
<1>5. c \in Segments
  BY <1>1, Zenon DEF Complete, Opened
<1>6. Cover(t) /\ Len(t) = m /\ t[m] = c /\ m \in Nat /\ m > 0 /\ segments \in Seq(Segments)
  <2>1. Cover(t) /\ Len(t) = m /\ t[Len(t)] = c
    <3>1. /\ c.start = segments[Len(segments)].start
          /\ c.sliceStart = segments[Len(segments)].sliceStart
          /\ c.dependent = segments[Len(segments)].dependent
      BY <1>1, Zenon DEF Compressed
    <3> QED
      BY <1>3, <1>5, <3>1, CoverReplace, Zenon
  <2>2. segments \in Seq(Segments) /\ m > 0
    BY <1>3, Zenon DEF Cover
  <2>3. m \in Nat
    BY <2>2
  <2> HIDE DEF t
  <2> QED
    BY <2>1, <2>2, <2>3
<1>7. \A i \in 1..m : /\ segments[i].start = t[i].start /\ segments[i].sliceStart = t[i].sliceStart
                      /\ segments[i].dependent = t[i].dependent
  <2>a. segments[m] = Compressed /\ (\A i \in 1..m : i # m => t[i] = segments[i]) /\ t[m] = c
    <3>1. DOMAIN segments = 1..m
      BY <1>6
    <3> HIDE DEF m
    <3>2. \A i \in 1..m : i # m => t[i] = segments[i]
      BY <3>1
    <3> QED
      BY <1>6, <3>2 DEF Compressed, m
  <2> HIDE DEF m, t
  <2> TAKE i \in 1..m
  <2>1. CASE i = m
    <3>1. segments[i] = Compressed /\ t[i] = c
      BY <2>1, <2>a, Zenon
    <3> QED
      BY <1>1, <3>1, Zenon
  <2>2. CASE i # m
    <3>1. t[i] = segments[i]
      BY <2>2, <2>a, Zenon
    <3> QED
      BY <3>1
  <2> QED
    BY <2>1, <2>2
<1> HIDE DEF m, t, x
<1>8. CASE c.end < N
  <2>1. x \in Segments /\ x.start = c.end /\ (x.dependent <=> c.end < c.sliceEnd)
    BY <1>1, <1>3, <1>8, NextSegmentLemma, Zenon DEF Linked, x
  <2>2. t \in Seq(Segments)
    BY <1>6, Zenon DEF Cover
  <2>3. segments' = Append(t, x) /\ Len(segments') = m + 1 /\ segments'[m + 1] = x
        /\ \A i \in 1..m : segments'[i] = t[i]
    BY <1>2, <1>6, <1>8, <2>1, <2>2
  <2>4. Compressed' = x
    BY <2>3 DEF Compressed
  <2>5. SameStarts(segments, segments')
    <3>1. Len(segments) <= Len(segments')
      BY <1>6, <2>3 DEF m
    <3> QED
      BY <1>7, <2>3, <3>1 DEF SameStarts, m
  <2>6. \A i \in m + 1..Len(segments') : segments'[i].start = c.end
    <3>1. \A i \in m + 1..m + 1 : i = m + 1
      BY <1>6
    <3> QED
      BY <2>1, <2>3, <3>1
  <2> QED
    BY <1>2, <1>6, <1>8, <2>1, <2>3, <2>4, <2>5, <2>6 DEF m
<1>9. CASE ~(c.end < N)
  <2>1. segments' = t /\ Len(segments') = m /\ phase' = "encodeSlice"
    BY <1>2, <1>6, <1>9
  <2>2. SameStarts(segments, segments')
    BY <1>6, <1>7, <2>1 DEF SameStarts, m
  <2>3. c.end = N /\ c.end = ctu + 1
    BY <1>1, <1>3, <1>4, <1>9
  <2>4. \A i \in m + 1..Len(segments') : segments'[i].start = c.end
    <3>1. m + 1..m = {}
      BY <1>6
    <3> QED
      BY <2>1, <3>1
  <2> QED
    BY <1>2, <1>6, <2>1, <2>2, <2>3, <2>4 DEF m
<1> QED
  BY <1>8, <1>9

(* The trial pass before a segment and before a CTU.                       *)
Waits(T, segs, stored, ended) ==
  LET s == segs[Len(segs)]
  IN /\ Law(T, segs, s.start, FALSE) /\ IsSync(T, stored, s.start)
     /\ Continues(s) /\ Clean(s) => ended = After(T, s.start - 1)

Tries(T, segs, stored, c, n) ==
  LET s == segs[Len(segs)]
  IN /\ Law(T, segs, n, FALSE) /\ IsSync(T, stored, n)
     /\ n # s.start \/ Clean(s) => c = Before(T, s, n)

TrialInv ==
  /\ phase = "compressSlice" => Waits(trial, segments, sync, segmentEnd)
  /\ phase = "compressCtu" => Tries(trial, segments, sync, coder, ctu)
  /\ ~Cutting => Law(trial, segments, N, FALSE)

LEMMA FixedTrial ==
  ASSUME UNCHANGED fixedVars, NEW T, NEW segs, NEW stored, NEW ended, NEW c, NEW n
  PROVE  /\ Waits(T, segs, stored, ended) => Waits(T, segs, stored, ended)'
         /\ Tries(T, segs, stored, c, n) => Tries(T, segs, stored, c, n)'
         /\ Law(T, segs, N, FALSE) => Law(T, segs, N, FALSE)'
<1> DEFINE s == segs[Len(segs)]
<1>1. N' = N
  BY FixedPlaces
<1>2. Law(T, segs, N, FALSE) => Law(T, segs, N, FALSE)'
  BY <1>1, FixedLaws
<1>3. /\ Law(T, segs, s.start, FALSE)' <=> Law(T, segs, s.start, FALSE)
      /\ IsSync(T, stored, s.start)' <=> IsSync(T, stored, s.start)
      /\ (Continues(s)' <=> Continues(s)) /\ (Clean(s)' <=> Clean(s))
      /\ After(T, s.start - 1)' = After(T, s.start - 1)
  BY FixedLaws
<1>4. /\ Law(T, segs, n, FALSE)' <=> Law(T, segs, n, FALSE)
      /\ IsSync(T, stored, n)' <=> IsSync(T, stored, n)
      /\ Before(T, s, n)' = Before(T, s, n)
  BY FixedLaws
<1> QED
  BY <1>2, <1>3, <1>4, Zenon DEF Waits, Tries

LEMMA TrialInit == Init => TrialInv
<1> SUFFICES ASSUME Init PROVE TrialInv
  OBVIOUS
<1>1. phase = "compressSlice" /\ Len(segments) = 1 /\ segments[1].start = 0 /\ segments[1].dependent = FALSE
  BY DEF Init, EncoderInit
<1>2. \A u \in 0..0 - 1 : FALSE
  OBVIOUS
<1>3. Law(trial, segments, 0, FALSE) /\ IsSync(trial, sync, 0)
  BY <1>2, Zenon DEF Law, IsSync
<1>4. ~Continues(segments[1])
  BY <1>1 DEF Continues
<1> QED
  BY <1>1, <1>3, <1>4 DEF TrialInv, Cutting, Waits

LEMMA TrialStep ==
  ASSUME SlicesInv, StatesInv, TrialInv, [Next]_vars
  PROVE  TrialInv'
<1>1. GoodSym /\ N \in Nat
  BY PictureLemma DEF SlicesInv
<1>2. UNCHANGED fixedVars
  BY <1>1, FixedInStep
<1>3. /\ Chain(segments) /\ \A i \in 1..Len(segments) : Header(segments[i])
      /\ Len(segments) \in Nat /\ Len(segments) > 0 /\ segments \in Seq(Segments)
  BY SlicesInvChain
<1>4. ASSUME phase' = "compressSlice" => Waits(trial', segments', sync', segmentEnd'),
             phase' = "compressCtu" => Tries(trial', segments', sync', coder', ctu'),
             phase' \notin {"compressSlice", "compressCtu"} => Law(trial', segments', N, FALSE)
      PROVE  TrialInv'
  <2>1. /\ Waits(trial', segments', sync', segmentEnd') => Waits(trial, segments, sync, segmentEnd)'
        /\ Tries(trial', segments', sync', coder', ctu') => Tries(trial, segments, sync, coder, ctu)'
        /\ Law(trial', segments', N, FALSE) => Law(trial, segments, N, FALSE)'
    BY <1>2, FixedTrial
  <2> QED
    BY <1>4, <2>1 DEF TrialInv, Cutting
<1>5. ASSUME ~Cutting, phase' \notin {"compressSlice", "compressCtu"}, segments' = segments, trial' = trial
      PROVE  TrialInv'
  <2>1. Law(trial', segments', N, FALSE)
    BY <1>5, Zenon DEF TrialInv
  <2> QED
    BY <1>4, <1>5, <2>1
<1> DEFINE m == Len(segments)
           s == Compressed
<1>6. CASE CompressSlice /\ UNCHANGED decoderVars
  <2> DEFINE b == Bounded(s)
  <2>1. /\ phase = "compressSlice" /\ phase' = "compressCtu" /\ ctu' = s.start
        /\ segments' = [segments EXCEPT ![m] = b] /\ coder' = BeginSegment(s)
        /\ sync' = sync /\ segmentEnd' = segmentEnd /\ trial' = trial
    BY <1>6 DEF CompressSlice, Compressed
  <2>2. b.start = s.start /\ b.sliceStart = s.sliceStart /\ b.dependent = s.dependent
    BY <1>1, <2>1, BoundedIsBounded, Zenon DEF SlicesInv
  <2>3. /\ Law(trial, segments, s.start, FALSE) /\ IsSync(trial, sync, s.start)
        /\ Continues(s) /\ Clean(s) => segmentEnd = After(trial, s.start - 1)
    BY <2>1, Zenon DEF TrialInv, Waits, Compressed
  <2> HIDE DEF b
  <2>4. Len(segments') = m /\ segments'[m] = b /\ \A i \in 1..m : i # m => segments'[i] = segments[i]
    BY <1>3, <2>1
  <2>5. s = segments[m] /\ s.start \in Nat
    BY <1>3 DEF Chain, Compressed
  <2> HIDE DEF m, s
  <2>6. \A i \in 1..m : /\ segments[i].start = segments'[i].start
                        /\ segments[i].sliceStart = segments'[i].sliceStart
                        /\ segments[i].dependent = segments'[i].dependent
    <3> TAKE i \in 1..m
    <3>1. CASE i = m
      BY <2>2, <2>4, <2>5, <3>1
    <3>2. CASE i # m
      BY <2>4, <3>2
    <3> QED
      BY <3>1, <3>2
  <2>7. SameStarts(segments, segments') /\ m \in Nat
    BY <1>3, <2>4, <2>6 DEF SameStarts, m
  <2>8. Law(trial, segments', s.start, FALSE)
    <3>1. \A i \in Len(segments) + 1..Len(segments') : segments'[i].start \in Nat /\ s.start <= segments'[i].start
      <4>1. Len(segments) + 1..Len(segments') = {}
        BY <2>4, <2>7 DEF m
      <4> QED
        BY <4>1
    <3>2. Len(segments) \in Nat /\ Len(segments') \in Nat
      BY <2>4, <2>7 DEF m
    <3> QED
      BY <2>3, <2>5, <2>7, <3>1, <3>2, LawChange, Zenon
  <2>9. Clean(b) => coder' = Before(trial, b, b.start)
    <3>1. Clean(b) <=> Clean(s)
      BY <2>2 DEF Clean
    <3>2. /\ Continues(s) <=> Continues(b)
          /\ \A T : \A u : Before(T, s, u) = Before(T, b, u) /\ Begins(T, s, u) = Begins(T, b, u)
      BY <2>2, SameHeader
    <3>3. Before(trial, b, b.start) = Before(trial, s, s.start)
      BY <2>2, <3>2, Zenon
    <3>4. ASSUME Clean(s)
          PROVE  BeginSegment(s) = Before(trial, s, s.start)
      BY <2>3, <3>4, Zenon DEF BeginSegment, Before
    <3> QED
      BY <2>1, <3>1, <3>3, <3>4, Zenon
  <2>10. Tries(trial', segments', sync', coder', ctu')
    BY <2>1, <2>2, <2>3, <2>4, <2>8, <2>9, Zenon DEF Tries
  <2> QED
    BY <1>4, <2>1, <2>10
<1>7. CASE CompressCtu /\ UNCHANGED decoderVars
  <2> DEFINE begin == BeginTrial(coder, s, ctu)
             after == CodeCtu(begin, ctu)
  <2>1. PICK c : Compresses(c)
    BY <1>7, CompressLemma
  <2>2. /\ phase = "compressCtu" /\ trial' = [trial EXCEPT ![ctu] = begin]
        /\ c.end = ctu => sync' = sync /\ (layout.segmentMode = "bytes" \/ c.end = c.sliceEnd)
        /\ c.end # ctu => coder' = after /\ sync' = IF SecondOfRow(ctu) THEN after ELSE sync
        /\ ctu + 1 < c.end => /\ ctu' = ctu + 1 /\ phase' = phase /\ segments' = segments
                              /\ segmentEnd' = segmentEnd
        /\ ~(ctu + 1 < c.end) => c.end = ctu \/ c.end = ctu + 1
        /\ c.end \in Nat /\ ctu <= c.end
    BY <2>1, Zenon DEF Compresses
  <2>3. /\ Law(trial, segments, ctu, FALSE) /\ IsSync(trial, sync, ctu)
        /\ ctu # s.start \/ Clean(s) => coder = Before(trial, s, ctu)
    BY <2>2, Zenon DEF TrialInv, Tries, Compressed
  <2>4. ctu \in 0..N - 1 /\ ctu \in Nat /\ s.start \in Nat /\ s.start <= ctu
    <3>1. IsBounded(s) /\ ctu \in Nat /\ s.start <= ctu /\ ctu < s.end
      BY <2>2 DEF SlicesInv
    <3>2. s.end \in Nat /\ s.sliceEnd \in Nat /\ s.end <= s.sliceEnd /\ s.sliceEnd <= N /\ s.start \in Nat
      BY <1>1, <3>1, BoundedLemma, Zenon
    <3> QED
      BY <1>1, <3>1, <3>2
  <2>5. Held(segments, m, ctu) /\ s = segments[m]
    BY <1>3, <2>4 DEF Held, Compressed
  <2>6. begin \in States
    <3>1. s.sliceStart \in Addresses
      BY <1>1, <1>3 DEF Header, Addresses, Compressed
    <3> QED
      BY <3>1, TrialType DEF StatesInv
  <2>7. Clean(s) => begin = Begins(trial, s, ctu)
    <3>1. BeginTrial(Before(trial, s, ctu), s, ctu) = Begins(trial, s, ctu)
      BY <1>1, <1>3, <2>3, <2>4, <2>5, TrialLemma
    <3> QED
      BY <2>3, <3>1
  <2> HIDE DEF begin, m, s
  <2>8. /\ trial' \in Histories /\ trial'[ctu] = begin
        /\ Law(trial', segments, ctu, FALSE) /\ IsSync(trial', sync, ctu)
        /\ Law(trial', segments, ctu + 1, FALSE)
    <3>1. /\ trial' = [trial EXCEPT ![ctu] = begin] /\ trial \in Histories
          /\ Law(trial, segments, ctu, FALSE) /\ (FALSE \/ Clean(segments[m]) => begin = Begins(trial, segments[m], ctu))
      BY <2>2, <2>3, <2>5, <2>7 DEF StatesInv
    <3> DEFINE S == [trial EXCEPT ![ctu] = begin]
    <3>a. /\ S \in Histories /\ S[ctu] = begin /\ (\A v \in 0..ctu - 1 : S[v] = trial[v])
          /\ Law(S, segments, ctu, FALSE)
          /\ \A stored : IsSync(trial, stored, ctu) => IsSync(S, stored, ctu)
          /\ \A k : Held(segments, k, ctu) =>
               /\ Begins(S, segments[k], ctu) = Begins(trial, segments[k], ctu)
               /\ Before(S, segments[k], ctu) = Before(trial, segments[k], ctu)
               /\ (FALSE \/ Clean(segments[k]) => begin = Begins(trial, segments[k], ctu)) => Law(S, segments, ctu + 1, FALSE)
      <4>1. GoodSym /\ trial \in Histories /\ Chain(segments) /\ (\A i \in 1..Len(segments) : Header(segments[i]))
            /\ ctu \in 0..N - 1 /\ begin \in States /\ Law(trial, segments, ctu, FALSE)
        BY <1>1, <1>3, <2>4, <2>6, <3>1
      <4> QED
        BY <4>1, LawExtend, Zenon
    <3>2. /\ S \in Histories /\ S[ctu] = begin /\ Law(S, segments, ctu, FALSE)
          /\ \A stored : IsSync(trial, stored, ctu) => IsSync(S, stored, ctu)
          /\ \A k : Held(segments, k, ctu) =>
               ((FALSE \/ Clean(segments[k]) => begin = Begins(trial, segments[k], ctu)) =>
                    Law(S, segments, ctu + 1, FALSE))
      BY <3>a, Zenon
    <3> HIDE DEF S
    <3>3. IsSync(S, sync, ctu) /\ Law(S, segments, ctu + 1, FALSE)
      BY <2>3, <2>5, <3>1, <3>2, Zenon
    <3>4. trial' = S
      BY <3>1 DEF S
    <3> QED
      BY <3>2, <3>3, <3>4, Zenon
  <2>9. After(trial', ctu) = after
    BY <2>8 DEF After
  <2> HIDE DEF after
  <2>10. IsSync(trial', IF SecondOfRow(ctu) THEN after ELSE sync, ctu + 1)
    BY <2>4, <2>8, <2>9, SyncExtend
  <2>11. CASE ctu + 1 < c.end
    <3>1. /\ coder' = after /\ sync' = IF SecondOfRow(ctu) THEN after ELSE sync
          /\ ctu' = ctu + 1 /\ phase' = "compressCtu" /\ segments' = segments
      <4>1. c.end # ctu
        BY <2>2, <2>4, <2>11
      <4> QED
        BY <2>2, <2>11, <4>1, Zenon
    <3>2. Before(trial', s, ctu + 1) = after
      <4>1. ctu + 1 # s.start /\ (ctu + 1) - 1 = ctu
        BY <2>4
      <4> QED
        BY <2>9, <4>1, Zenon DEF Before
    <3>3. Tries(trial', segments', sync', coder', ctu')
      BY <2>5, <2>8, <2>10, <3>1, <3>2, Zenon DEF Tries, m
    <3> QED
      BY <1>4, <3>1, <3>3
  <2>12. CASE ~(ctu + 1 < c.end)
    <3>1. /\ SameStarts(segments, segments') /\ Len(segments) \in Nat /\ Len(segments') \in Nat
          /\ \A i \in Len(segments) + 1..Len(segments') : segments'[i].start = c.end
          /\ segmentEnd' = IF dependentSliceSegmentsEnabled THEN coder' ELSE segmentEnd
          /\ phase' = "compressSlice" => /\ Compressed'.start = c.end
                                         /\ Compressed'.dependent <=> c.end < c.sliceEnd
          /\ phase' # "compressSlice" => phase' = "encodeSlice" /\ c.end = N /\ c.end = ctu + 1
      BY <2>1, <2>12, FinishLemma, Zenon
    <3>2. ASSUME Law(trial', segments, c.end, FALSE)
          PROVE  Law(trial', segments', c.end, FALSE)
      <4>1. \A i \in Len(segments) + 1..Len(segments') :
              segments'[i].start \in Nat /\ c.end <= segments'[i].start
        BY <2>2, <3>1
      <4> QED
        BY <2>2, <3>1, <3>2, <4>1, LawChange, Zenon
    <3>3. CASE c.end = ctu
      <4>1. phase' = "compressSlice"
        BY <2>4, <3>1, <3>3
      <4>2. Law(trial', segments', c.end, FALSE) /\ IsSync(trial', sync', c.end)
        BY <2>2, <2>8, <3>2, <3>3, Zenon
      <4>3. ~(Continues(Compressed') /\ Clean(Compressed'))
        <5>1. layout.segmentMode = "bytes" \/ ~(c.end < c.sliceEnd)
          BY <2>2, <3>3
        <5>2. Compressed'.dependent <=> c.end < c.sliceEnd
          BY <3>1, <4>1
        <5> QED
          BY <5>1, <5>2 DEF Continues, Clean
      <4>4. Waits(trial', segments', sync', segmentEnd')
        <5>1. Compressed' = segments'[Len(segments')] /\ Compressed'.start = c.end
          BY <3>1, <4>1 DEF Compressed
        <5> QED
          BY <4>2, <4>3, <5>1, Zenon DEF Waits
      <4> QED
        BY <1>4, <4>1, <4>4
    <3>4. CASE c.end = ctu + 1
      <4>0. coder' = after /\ sync' = IF SecondOfRow(ctu) THEN after ELSE sync
        <5>1. c.end # ctu
          BY <2>4, <3>4
        <5> QED
          BY <2>2, <5>1, Zenon
      <4>1. Law(trial', segments', c.end, FALSE) /\ IsSync(trial', sync', c.end)
        BY <2>8, <2>10, <3>2, <3>4, <4>0, Zenon
      <4>2. CASE phase' = "compressSlice"
        <5>1. Compressed' = segments'[Len(segments')] /\ Compressed'.start = c.end
          BY <3>1, <4>2 DEF Compressed
        <5>2. Continues(Compressed') => segmentEnd' = After(trial', c.end - 1)
          <6>1. c.end - 1 = ctu
            BY <2>4, <3>4
          <6>2. Continues(Compressed') => segmentEnd' = after
            BY <3>1, <4>0 DEF Continues
          <6> QED
            BY <2>9, <6>1, <6>2, Zenon
        <5>3. Waits(trial', segments', sync', segmentEnd')
          BY <4>1, <5>1, <5>2, Zenon DEF Waits
        <5> QED
          BY <1>4, <4>2, <5>3
      <4>3. CASE phase' # "compressSlice"
        <5>1. phase' = "encodeSlice" /\ Law(trial', segments', N, FALSE)
          BY <3>1, <4>1, <4>3
        <5> QED
          BY <1>4, <5>1
      <4> QED
        BY <4>2, <4>3
    <3> QED
      BY <2>2, <2>12, <3>3, <3>4
  <2> QED
    BY <2>11, <2>12
<1>8. CASE EncodeSlice /\ UNCHANGED decoderVars
  BY <1>5, <1>8 DEF EncodeSlice, Cutting
<1>9. CASE EncodeCtu /\ UNCHANGED decoderVars
  <2>1. /\ phase = "encodeCtu" /\ segments' = segments /\ trial' = trial
        /\ phase' \in {"encodeSlice", "encodeCtu", "decodeSlice"}
    BY <1>9, Zenon DEF EncodeCtu
  <2> QED
    BY <1>5, <2>1 DEF Cutting
<1>10. CASE DecodeSlice
  BY <1>5, <1>10 DEF DecodeSlice, Cutting
<1>11. CASE DecodeCtu
  <2>1. phase' \in {"decodeSlice", "decodeCtu", "done", "lost"}
    BY <1>11 DEF DecodeCtu, Decode, FinishDecode, LosePlace
  <2> QED
    BY <1>5, <1>11, <2>1 DEF DecodeCtu, Cutting
<1>12. CASE UNCHANGED vars
  <2>1. /\ phase' = phase /\ segments' = segments /\ trial' = trial /\ sync' = sync /\ coder' = coder
        /\ segmentEnd' = segmentEnd /\ ctu' = ctu
    BY <1>12 DEF vars, encoderVars
  <2> QED
    BY <1>4, <2>1 DEF TrialInv, Cutting
<1> QED
  BY <1>6, <1>7, <1>8, <1>9, <1>10, <1>11, <1>12 DEF Next, EncoderNext

-----------------------------------------------------------------------------
(* The final pass.                                                         *)

(* E holds the states the CTUs are coded in.                               *)
IsCoded(E, segs) ==
  E \in Histories /\ Law(E, segs, N, TRUE) /\ \A v \in 0..N - 1 : E[v].running

LEMMA CodedExists ==
  ASSUME SlicesInv, StatesInv
  PROVE  \E E : IsCoded(E, segments)
<1>1. GoodSym /\ N \in Nat
  BY PictureLemma DEF SlicesInv
<1>2. /\ Chain(segments) /\ \A i \in 1..Len(segments) : Header(segments[i])
  BY SlicesInvChain
<1> DEFINE Good(E, n) == Law(E, segments, n, TRUE) /\ \A v \in 0..n - 1 : E[v].running
           P == {n \in 0..N : \E E \in Histories : Good(E, n)}
<1>3. 0 \in P
  <2>1. \A u \in 0..0 - 1 : FALSE
    OBVIOUS
  <2>2. Good(trial, 0)
    BY <2>1, Zenon DEF Law
  <2> HIDE DEF Good
  <2> QED
    BY <1>1, <2>2 DEF StatesInv
<1>4. \A n \in 0..N - 1 : n \in P => n + 1 \in P
  <2> SUFFICES ASSUME NEW n \in 0..N - 1, n \in P PROVE n + 1 \in P
    OBVIOUS
  <2>1. PICK E \in Histories : Good(E, n)
    OBVIOUS
  <2>2. n \in Nat /\ n + 1 \in 0..N
    BY <1>1
  <2>3. PICK k \in 1..Len(segments) : Held(segments, k, n)
    BY <1>2, <2>2, HolderExists
  <2> DEFINE c == Begins(E, segments[k], n)
             S == [E EXCEPT ![n] = c]
  <2>4. c \in States /\ c.running
    <3>1. Header(segments[k]) /\ segments[k].start <= n
      BY <1>2, <2>3 DEF Held
    <3>2. \A v \in 0..n - 1 : E[v].running
      BY <2>1
    <3> QED
      BY <1>1, <3>1, <3>2, BeginsType
  <2>5. c = Begins(E, segments[k], n)
    OBVIOUS
  <2>6. Law(E, segments, n, TRUE) /\ \A v \in 0..n - 1 : E[v].running
    BY <2>1
  <2> HIDE DEF c
  <2>7. /\ S \in Histories /\ S[n] = c /\ (\A v \in 0..n - 1 : S[v] = E[v])
        /\ Law(S, segments, n, TRUE)
        /\ \A stored : IsSync(E, stored, n) => IsSync(S, stored, n)
        /\ \A j : Held(segments, j, n) =>
             /\ Begins(S, segments[j], n) = Begins(E, segments[j], n)
             /\ Before(S, segments[j], n) = Before(E, segments[j], n)
             /\ (TRUE \/ Clean(segments[j]) => c = Begins(E, segments[j], n)) => Law(S, segments, n + 1, TRUE)
    BY <1>1, <1>2, <2>4, <2>6, LawExtend, Zenon
  <2> HIDE DEF S
  <2>8. Law(S, segments, n + 1, TRUE)
    BY <2>3, <2>5, <2>7, Zenon
  <2>9. \A v \in 0..(n + 1) - 1 : S[v].running
    <3> SUFFICES ASSUME NEW v \in 0..(n + 1) - 1 PROVE S[v].running
      OBVIOUS
    <3>1. v \in 0..n - 1 \/ v = n
      BY <2>2
    <3>2. CASE v \in 0..n - 1
      BY <2>6, <2>7, <3>2
    <3>3. CASE v = n
      BY <2>4, <2>7, <3>3
    <3> QED
      BY <3>1, <3>2, <3>3
  <2>10. Good(S, n + 1)
    BY <2>8, <2>9
  <2> HIDE DEF Good
  <2> QED
    BY <2>2, <2>7, <2>10
<1>5. N \in P
  <2> HIDE DEF P
  <2>1. \A n \in 0..N : n \in P
    BY <1>1, <1>3, <1>4, Induction, Zenon
  <2> QED
    BY <1>1, <2>1
<1> QED
  BY <1>5, Zenon DEF IsCoded

(* The trial pass agrees on a slice whose segments it knows the states of. *)
LEMMA TrialAgrees ==
  ASSUME SlicesInv, NEW T, Law(T, segments, N, FALSE), NEW E, IsCoded(E, segments),
         NEW k \in 1..Len(segments), NEW u \in 0..N - 1, Held(segments, k, u),
         \A i \in 1..k : segments[i].sliceStart = segments[k].sliceStart => Clean(segments[i])
  PROVE  T[u] = E[u]
<1>1. GoodSym /\ N \in Nat
  BY PictureLemma DEF SlicesInv
<1>2. /\ Chain(segments) /\ \A i \in 1..Len(segments) : Header(segments[i])
  BY SlicesInvChain
<1> DEFINE a == segments[k].sliceStart
           W == {v \in a..u : T[v] # E[v]}
<1>3. a \in Nat /\ a <= segments[k].start /\ segments[k].start <= u /\ segments[k].start \in Nat /\ u \in Nat
  BY <1>1, <1>2 DEF Header, Held
<1>4. SUFFICES ASSUME W # {} PROVE FALSE
  <2>1. u \in a..u
    BY <1>3
  <2> QED
    BY <2>1
<1>5. W \in SUBSET Nat
  BY <1>3
<1>6. PICK v \in W : \A w \in W : v <= w
  <2> HIDE DEF W
  <2> QED
    BY <1>4, <1>5, LeastNumber
<1>7. v \in a..u /\ T[v] # E[v] /\ v \in 0..N - 1 /\ v \in Nat /\ v <= u
  BY <1>1, <1>3, <1>6
<1>8. \A w \in a..v - 1 : T[w] = E[w]
  <2> SUFFICES ASSUME NEW w \in a..v - 1, T[w] # E[w] PROVE FALSE
    OBVIOUS
  <2>1. w \in W /\ w < v
    BY <1>3, <1>7
  <2> QED
    BY <1>3, <1>6, <1>7, <2>1
<1>9. PICK j \in 1..Len(segments) : Held(segments, j, v)
  BY <1>2, <1>7, HolderExists
<1>10. segments[j].sliceStart = a
  <2>1. SliceOf(segments, v) = segments[j].sliceStart /\ SliceOf(segments, u) = segments[k].sliceStart
    BY <1>2, <1>3, <1>7, <1>9, HeldLemma
  <2>2. SliceOf(segments, v) = SliceOf(segments, u) <=> a <= v
    BY <1>2, <1>3, <1>7, SliceOfLemma
  <2>3. a <= v
    BY <1>3, <1>7
  <2> QED
    BY <2>1, <2>2, <2>3
<1>11. j \in 1..k
  <2>1. segments[j].start <= v /\ segments[j].start \in Nat
    BY <1>1, <1>2, <1>9 DEF Held, Header
  <2>2. segments[j].start <= u
    BY <1>7, <2>1
  <2>3. j <= k
    BY <1>2, <1>3, <1>9, <2>2, HeldLemma
  <2> QED
    BY <1>9, <2>3
<1>12. Clean(segments[j])
  BY <1>10, <1>11
<1>13. T[v] = Begins(T, segments[j], v) /\ E[v] = Begins(E, segments[j], v)
  BY <1>7, <1>9, <1>12, Zenon DEF Law, IsCoded
<1>14. Begins(T, segments[j], v) = Begins(E, segments[j], v)
  <2>1. Header(segments[j]) /\ segments[j].start <= v
    BY <1>2, <1>9 DEF Held
  <2>2. \A w \in segments[j].sliceStart..v - 1 : T[w] = E[w]
    BY <1>8, <1>10
  <2> QED
    BY <1>1, <1>7, <2>1, <2>2, Agree
<1> QED
  BY <1>7, <1>13, <1>14

(* The final pass before a segment and before a CTU.                       *)
EncoderAt(E) ==
  /\ phase = "encodeSlice" =>
       /\ IsSync(E, sync, Encoded.start)
       /\ Continues(Encoded) => segmentEnd = After(E, Encoded.start - 1)
  /\ phase = "encodeCtu" => IsSync(E, sync, ctu) /\ CoderAt(E, Encoded, ctu, coder)

LEMMA EncodesAt ==
  ASSUME SlicesInv, EncoderPlace, phase = "encodeCtu"
  PROVE  /\ ~Cutting /\ index \in 1..Len(segments) /\ Held(segments, index, ctu) /\ ctu \in 0..N - 1
         /\ ctu \in Nat /\ Encoded.start \in Nat /\ Encoded.end \in Nat /\ Encoded.start <= ctu
         /\ ctu < Encoded.end /\ Encoded.end <= N /\ Header(Encoded) /\ Continuable(Encoded)
         /\ IF index < Len(segments) THEN segments[index + 1].start = Encoded.end ELSE Encoded.end = N
<1>1. ~Cutting /\ index \in 1..Len(segments) /\ ctu \in Nat /\ Encoded.start <= ctu /\ ctu < Encoded.end
  BY DEF EncoderPlace, Cutting
<1>2. /\ Header(Encoded) /\ Continuable(Encoded) /\ Encoded.start \in 0..N - 1 /\ Encoded.end \in 1..N
      /\ IF index < Len(segments) THEN segments[index + 1].start = Encoded.end ELSE Encoded.end = N
      /\ \A u \in Encoded.start..Encoded.end - 1 : u \in 0..N - 1 /\ Held(segments, index, u)
  BY <1>1, SegmentLemma DEF Encoded
<1>3. N \in Nat
  BY PictureLemma DEF SlicesInv
<1>4. ctu \in Encoded.start..Encoded.end - 1
  BY <1>1, <1>2
<1> QED
  BY <1>1, <1>2, <1>3, <1>4

LEMMA EncodesIn ==
  ASSUME SlicesInv, EncoderPlace, NEW E, IsCoded(E, segments), EncoderAt(E), phase = "encodeCtu"
  PROVE  BeginCtu(coder, Encoded, ctu) = E[ctu]
<1>1. GoodSym /\ Chain(segments)
  BY SlicesInvChain DEF SlicesInv
<1>2. /\ index \in 1..Len(segments) /\ Held(segments, index, ctu) /\ ctu \in 0..N - 1
      /\ Header(segments[index]) /\ Continuable(segments[index])
  BY EncodesAt DEF Encoded
<1>3. E \in Histories /\ \A v \in 0..ctu - 1 : E[v].running
  <2>1. N \in Nat
    BY <1>1, PictureLemma
  <2>2. \A v \in 0..ctu - 1 : v \in 0..N - 1
    BY <1>2, <2>1
  <2> QED
    BY <2>2, Zenon DEF IsCoded
<1>4. IsSync(E, sync, ctu) /\ CoderAt(E, segments[index], ctu, coder)
  BY Zenon DEF EncoderAt, Encoded
<1>5. BegunState(coder, sync, segments, segments[index], ctu) = Begins(E, segments[index], ctu)
  BY <1>1, <1>2, <1>3, <1>4, BegunLemma
<1>6. E[ctu] = Begins(E, segments[index], ctu)
  BY <1>2, Zenon DEF IsCoded, Law
<1> QED
  BY <1>5, <1>6, BegunIsBegin DEF Encoded

LEMMA FixedEncoder ==
  ASSUME UNCHANGED fixedVars, NEW E, NEW stored, NEW ended, NEW c, NEW s, NEW n, NEW segs
  PROVE  /\ IsSync(E, stored, n) => IsSync(E, stored, n)'
         /\ (Continues(s) => ended = After(E, s.start - 1)) => (Continues(s) => ended = After(E, s.start - 1))'
         /\ CoderAt(E, s, n, c) => CoderAt(E, s, n, c)'
         /\ IsCoded(E, segs) => IsCoded(E, segs)'
<1>1. /\ IsSync(E, stored, n) => IsSync(E, stored, n)'
      /\ CoderAt(E, s, n, c) => CoderAt(E, s, n, c)'
      /\ Continues(s)' <=> Continues(s)
      /\ After(E, s.start - 1)' = After(E, s.start - 1)
  BY FixedLaws
<1>2. N' = N /\ Histories' = Histories
  BY FixedPlaces, FixedTypes
<1>3. Law(E, segs, N, TRUE) => Law(E, segs, N, TRUE)'
  BY FixedTrial, <1>2, FixedLaws
<1> QED
  BY <1>1, <1>2, <1>3, Zenon DEF IsCoded

LEMMA EncoderStep ==
  ASSUME SlicesInv, EncoderPlace, StatesInv, NEW E, IsCoded(E, segments), EncoderAt(E), ~Cutting, [Next]_vars
  PROVE  EncoderAt(E)' /\ IsCoded(E, segments)' /\ ~Cutting'
<1>1. GoodSym /\ N \in Nat
  BY PictureLemma DEF SlicesInv
<1>2. UNCHANGED fixedVars
  BY <1>1, FixedInStep
<1>3. ASSUME phase' = "encodeSlice" => IsSync(E, sync', Encoded'.start)
                                       /\ (Continues(Encoded') => segmentEnd' = After(E, Encoded'.start - 1)),
             phase' = "encodeCtu" => IsSync(E, sync', ctu') /\ CoderAt(E, Encoded', ctu', coder'),
             segments' = segments, phase' \notin {"compressSlice", "compressCtu"}
      PROVE  EncoderAt(E)' /\ IsCoded(E, segments)' /\ ~Cutting'
  <2>1. /\ IsSync(E, sync', Encoded'.start) => IsSync(E, sync, Encoded.start)'
        /\ (Continues(Encoded') => segmentEnd' = After(E, Encoded'.start - 1)) =>
             (Continues(Encoded) => segmentEnd = After(E, Encoded.start - 1))'
        /\ IsSync(E, sync', ctu') => IsSync(E, sync, ctu)'
        /\ CoderAt(E, Encoded', ctu', coder') => CoderAt(E, Encoded, ctu, coder)'
        /\ IsCoded(E, segments') => IsCoded(E, segments)'
    BY <1>2, FixedEncoder
  <2> QED
    BY <1>3, <2>1 DEF EncoderAt, Cutting
<1>4. CASE EncodeSlice /\ UNCHANGED decoderVars
  <2>1. /\ phase = "encodeSlice" /\ phase' = "encodeCtu" /\ ctu' = Encoded.start
        /\ coder' = BeginSegment(Encoded) /\ sync' = sync /\ segments' = segments /\ index' = index
    BY <1>4 DEF EncodeSlice
  <2>2. Encoded' = Encoded
    BY <2>1 DEF Encoded
  <2>3. IsSync(E, sync', ctu') /\ (Continues(Encoded) => segmentEnd = After(E, Encoded.start - 1))
    BY <2>1, Zenon DEF EncoderAt
  <2>4. CoderAt(E, Encoded', ctu', coder')
    BY <2>1, <2>2, <2>3, Zenon DEF CoderAt, Before, BeginSegment
  <2> QED
    BY <1>3, <2>1, <2>3, <2>4
<1>5. CASE EncodeCtu /\ UNCHANGED decoderVars
  <2> DEFINE begin == BeginCtu(coder, Encoded, ctu)
             after == CodeCtu(begin, ctu)
             last  == ctu + 1 = Encoded.end
             r     == ~(last \/ EndsSubstream(ctu))
  <2>1. /\ phase = "encodeCtu" /\ segments' = segments
        /\ coder' = [after EXCEPT !.running = r]
        /\ sync' = IF SecondOfRow(ctu) THEN after ELSE sync
        /\ last => /\ segmentEnd' = IF dependentSliceSegmentsEnabled THEN after ELSE segmentEnd
                   /\ phase' = IF index < Len(segments) THEN "encodeSlice" ELSE "decodeSlice"
                   /\ index' = IF index < Len(segments) THEN index + 1 ELSE 1
        /\ ~last => ctu' = ctu + 1 /\ phase' = phase /\ index' = index
    BY <1>5, Zenon DEF EncodeCtu
  <2>2. after = After(E, ctu)
    BY <2>1, EncodesIn DEF After
  <2> HIDE DEF after
  <2>3. IsSync(E, sync', ctu + 1)
    <3>1. IsSync(E, sync, ctu) /\ ctu \in Nat
      BY <2>1, EncodesAt DEF EncoderAt
    <3>2. IsSync(E, IF SecondOfRow(ctu) THEN After(E, ctu) ELSE sync, ctu + 1)
      BY <3>1, SyncExtend
    <3> QED
      BY <2>1, <2>2, <3>2, Zenon
  <2>4. /\ ctu \in Nat /\ Encoded.start \in Nat /\ Encoded.start <= ctu
        /\ IF index < Len(segments) THEN segments[index + 1].start = Encoded.end ELSE Encoded.end = N
    BY <2>1, EncodesAt
  <2>5. CASE last
    <3>1. CASE index < Len(segments)
      <4>1. phase' = "encodeSlice" /\ Encoded' = segments[index + 1] /\ Encoded'.start = ctu + 1
        BY <2>1, <2>4, <2>5, <3>1 DEF Encoded
      <4>2. Continues(Encoded') => segmentEnd' = After(E, Encoded'.start - 1)
        <5>1. (ctu + 1) - 1 = ctu
          BY <2>4
        <5>2. Continues(Encoded') => segmentEnd' = after
          BY <2>1, <2>5 DEF Continues
        <5> QED
          BY <2>2, <4>1, <5>1, <5>2, Zenon
      <4> QED
        BY <1>3, <2>1, <2>3, <4>1, <4>2
    <3>2. CASE ~(index < Len(segments))
      <4>1. phase' = "decodeSlice"
        BY <2>1, <2>5, <3>2
      <4> QED
        BY <1>3, <2>1, <4>1
    <3> QED
      BY <3>1, <3>2
  <2>6. CASE ~last
    <3>1. phase' = "encodeCtu" /\ ctu' = ctu + 1 /\ Encoded' = Encoded
      BY <2>1, <2>6 DEF Encoded
    <3>2. r = ~EndsSubstream(ctu)
      BY <2>6
    <3>3. CoderAt(E, Encoded, ctu + 1, coder')
      <4>1. ctu + 1 # Encoded.start /\ (ctu + 1) - 1 = ctu
        BY <2>4
      <4> HIDE DEF r
      <4> QED
        BY <2>1, <2>2, <3>2, <4>1, Zenon DEF CoderAt
    <3> QED
      BY <1>3, <2>1, <2>3, <3>1, <3>3
  <2> QED
    BY <2>5, <2>6
<1>6. CASE DecodeSlice
  BY <1>3, <1>6 DEF DecodeSlice
<1>7. CASE DecodeCtu
  <2>1. phase' \in {"decodeSlice", "decodeCtu", "done", "lost"}
    BY <1>7 DEF DecodeCtu, Decode, FinishDecode, LosePlace
  <2> QED
    BY <1>3, <1>7, <2>1 DEF DecodeCtu
<1>8. CASE UNCHANGED vars
  <2>1. /\ phase' = phase /\ segments' = segments /\ sync' = sync /\ coder' = coder
        /\ segmentEnd' = segmentEnd /\ ctu' = ctu /\ Encoded' = Encoded
    BY <1>8 DEF vars, encoderVars, Encoded
  <2>2. /\ phase' = "encodeSlice" => IsSync(E, sync', Encoded'.start)
                                     /\ (Continues(Encoded') => segmentEnd' = After(E, Encoded'.start - 1))
        /\ phase' = "encodeCtu" => IsSync(E, sync', ctu') /\ CoderAt(E, Encoded', ctu', coder')
    BY <2>1, Zenon DEF EncoderAt
  <2>3. segments' = segments /\ phase' \notin {"compressSlice", "compressCtu"}
    BY <2>1 DEF Cutting
  <2> QED
    BY <1>3, <2>2, <2>3
<1>9. ~CompressSlice /\ ~CompressCtu
  BY DEF CompressSlice, CompressCtu, Cutting
<1> QED
  BY <1>4, <1>5, <1>6, <1>7, <1>8, <1>9 DEF Next, EncoderNext

(* In the final pass, the states CTUs are coded in exist and the coder is  *)
(* in the one that comes next.                                             *)
CodingInv == ~Cutting => \E E : IsCoded(E, segments) /\ EncoderAt(E)

LEMMA CodingInit == Init => CodingInv
BY DEF Init, EncoderInit, CodingInv, Cutting

LEMMA CodingBegins == SlicesInv /\ StatesInv /\ phase = "encodeSlice" /\ index = 1 => CodingInv
<1> SUFFICES ASSUME SlicesInv, StatesInv, phase = "encodeSlice", index = 1
             PROVE  \E E : IsCoded(E, segments) /\ EncoderAt(E)
  BY DEF CodingInv
<1>1. PICK E : IsCoded(E, segments)
  BY CodedExists
<1>2. Encoded.start = 0 /\ ~Continues(Encoded)
  BY DEF SlicesInv, Cover, Encoded, Continues
<1>3. \A u \in 0..0 - 1 : FALSE
  OBVIOUS
<1>4. EncoderAt(E)
  BY <1>2, <1>3, Zenon DEF EncoderAt, IsSync
<1> QED
  BY <1>1, <1>4

LEMMA CuttingEnds ==
  ASSUME SlicesInv, EncoderPlace, Cutting, [Next]_vars
  PROVE  Cutting' \/ (phase' = "encodeSlice" /\ index' = 1)
<1>1. index = 1
  BY DEF EncoderPlace
<1>2. CASE CompressSlice
  BY <1>2 DEF CompressSlice, Cutting
<1>3. CASE CompressCtu
  <2>1. PICK c : Compresses(c)
    BY <1>3, CompressLemma
  <2>2. index' = index /\ (ctu + 1 < c.end => phase' = phase) /\ (~(ctu + 1 < c.end) => FinishCompress(c, coder'))
    BY <2>1, Zenon DEF Compresses
  <2>3. FinishCompress(c, coder') => phase' = "compressSlice" \/ phase' = "encodeSlice"
    BY Zenon DEF FinishCompress
  <2> QED
    BY <1>1, <2>2, <2>3 DEF Cutting
<1>4. CASE UNCHANGED vars
  BY <1>4 DEF vars, encoderVars, Cutting
<1>5. ~EncodeSlice /\ ~EncodeCtu /\ ~DecodeSlice /\ ~DecodeCtu
  BY DEF EncodeSlice, EncodeCtu, DecodeSlice, DecodeCtu, Cutting
<1> QED
  BY <1>2, <1>3, <1>4, <1>5 DEF Next, EncoderNext

LEMMA CodingStep ==
  ASSUME SlicesInv, EncoderPlace, StatesInv, CodingInv, ~Cutting, [Next]_vars
  PROVE  CodingInv'
<1>1. PICK E : IsCoded(E, segments) /\ EncoderAt(E)
  BY DEF CodingInv
<1>2. EncoderAt(E)' /\ IsCoded(E, segments)'
  BY <1>1, EncoderStep
<1> QED
  BY <1>2 DEF CodingInv

TrialStates ==
  SlicesInv /\ EncoderPlace /\ StatesInv /\ TrialInv /\ CodingInv

LEMMA TrialStatesImply == TrialStates => TrialInStep
<1> SUFFICES ASSUME TrialStates, phase = "encodeCtu",
                    layout.segmentMode = "bytes" =>
                      \A i \in 1..index : ~(segments[i].dependent /\ segments[i].sliceStart = Encoded.sliceStart)
             PROVE  trial[ctu] = BeginCtu(coder, Encoded, ctu)
  BY DEF TrialInStep
<1>1. SlicesInv /\ EncoderPlace /\ StatesInv /\ TrialInv /\ CodingInv
  BY DEF TrialStates
<1>2. ~Cutting /\ index \in 1..Len(segments) /\ Held(segments, index, ctu) /\ ctu \in 0..N - 1
  BY <1>1, EncodesAt
<1>3. PICK E : IsCoded(E, segments) /\ EncoderAt(E)
  BY <1>1, <1>2 DEF CodingInv
<1>4. BeginCtu(coder, Encoded, ctu) = E[ctu]
  BY <1>1, <1>3, EncodesIn
<1>5. Law(trial, segments, N, FALSE)
  BY <1>1, <1>2, Zenon DEF TrialInv
<1>6. \A i \in 1..index : segments[i].sliceStart = segments[index].sliceStart => Clean(segments[i])
  BY DEF Clean, Encoded
<1>7. trial[ctu] = E[ctu]
  BY <1>1, <1>2, <1>3, <1>5, <1>6, TrialAgrees
<1> QED
  BY <1>4, <1>7

(* Whatever the picture and the options, the final pass codes each CTU in  *)
(* the state in which compressSlice() has tried it, except in the slices   *)
(* that a limit on the bytes of segments divides.                          *)
THEOREM TrialIsInStep == Spec => []TrialInStep
<1>1. Init => TrialStates
  BY SlicesInit, EncoderPlaceInit, StatesInit, TrialInit, CodingInit DEF TrialStates
<1>2. TrialStates /\ [Next]_vars => TrialStates'
  <2>1. SlicesInv /\ EncoderPlace /\ StatesInv /\ TrialInv /\ [Next]_vars =>
          SlicesInv' /\ EncoderPlace' /\ StatesInv' /\ TrialInv'
    BY SlicesStep, EncoderPlaceStep, StatesStep, TrialStep
  <2>2. (SlicesInv /\ StatesInv /\ phase = "encodeSlice" /\ index = 1 => CodingInv)'
    BY CodingBegins, PTL
  <2>3. SlicesInv /\ EncoderPlace /\ StatesInv /\ Cutting /\ [Next]_vars =>
          Cutting' \/ (phase' = "encodeSlice" /\ index' = 1)
    BY CuttingEnds
  <2>4. SlicesInv /\ EncoderPlace /\ StatesInv /\ CodingInv /\ ~Cutting /\ [Next]_vars => CodingInv'
    BY CodingStep
  <2>5. Cutting' => CodingInv'
    BY DEF CodingInv
  <2> QED
    BY <2>1, <2>2, <2>3, <2>4, <2>5 DEF TrialStates
<1> QED
  BY <1>1, <1>2, TrialStatesImply, PTL DEF Spec

-----------------------------------------------------------------------------
(* The substreams.                                                         *)
LEMMA FirstSubstream ==
  ASSUME NEW y \in Nat, NEW h \in Nat \ {0}, NEW n \in Nat \ {0}, NEW c \in 0..n - 1
  PROVE  /\ y * n + h * c \in Nat
         /\ y * n + h * (c + 1) = y * n + h * c + h
         /\ c + 1 = n => (y + h) * n + h * 0 = y * n + h * c + h
         /\ \A total \in Nat : y + h <= total => y * n + h * c + h <= total * n
<1>1. y * n \in Nat /\ h * c \in Nat /\ h * (c + 1) = h * c + h
  OBVIOUS
<1>2. c + 1 = n => (y + h) * n = y * n + h * c + h
  <2>1. (y + h) * n = y * n + h * n
    OBVIOUS
  <2> QED
    BY <1>1, <2>1
<1>3. ASSUME NEW total \in Nat, y + h <= total
      PROVE  y * n + h * c + h <= total * n
  <2>1. h * (c + 1) <= h * n
    <3>1. (c + 1) * h <= n * h
      BY TimesOrder
    <3> QED
      BY <3>1
  <2>2. (y + h) * n <= total * n
    BY <1>3, TimesOrder
  <2>3. (y + h) * n = y * n + h * n
    OBVIOUS
  <2>4. h * n \in Nat /\ total * n \in Nat /\ (y + h) * n \in Nat
    BY <1>3
  <2> QED
    BY <1>1, <2>1, <2>2, <2>3, <2>4
<1> QED
  BY <1>1, <1>2, <1>3

(* Where the substreams of a tile begin.                                   *)
StartingSubstream(t) ==
  picSym.tiles[t].y * NumTileColumns(picture)
    + picSym.tiles[t].height * (t % NumTileColumns(picture))

LEMMA StartingSubstreamLemma ==
  ASSUME GoodSym, NEW t \in 0..NumTiles(picture) - 1
  PROVE  /\ StartingSubstream(t) \in Nat
         /\ t + 1 < NumTiles(picture) =>
              StartingSubstream(t + 1) = StartingSubstream(t) + picSym.tiles[t].height
         /\ StartingSubstream(t) + picSym.tiles[t].height <= picture.height * NumTileColumns(picture)
<1> DEFINE p == picture
           n == NumTileColumns(p)
           tile == Tile(p, t)
           next == Tile(p, t + 1)
           c == t % n
<1>1. /\ IsPicture(p) /\ n \in Nat \ {0} /\ NumTiles(p) \in Nat \ {0} /\ p.height \in Nat \ {0}
  BY PictureLemma, TilesLemma
<1>2. picSym.tiles[t] = tile /\ (t + 1 < NumTiles(p) => picSym.tiles[t + 1] = next)
  <2>1. \A u \in 0..NumTiles(p) - 1 : picSym.tiles[u] = Tile(p, u)
    BY <1>1, PicSymLemma DEF GoodSym, picture
  <2>2. t + 1 < NumTiles(p) => t + 1 \in 0..NumTiles(p) - 1
    BY <1>1
  <2> QED
    BY <2>1, <2>2
<1>3. /\ tile.y \in Nat /\ tile.height \in Nat \ {0} /\ tile.y + tile.height <= p.height
      /\ TileColumn(p, t) = c + 1
  <2>1. /\ tile.y \in Nat /\ tile.height \in Nat \ {0} /\ tile.y + tile.height <= p.height
    BY <1>1, TileLemma
  <2> QED
    BY <2>1 DEF TileColumn
<1>4. c \in 0..n - 1
  <2>1. t \in Nat
    BY <1>1
  <2> HIDE DEF n
  <2> QED
    BY <1>1, <2>1, Division, Zenon
<1>5. t + 1 < NumTiles(p) =>
        \/ next.y = tile.y /\ next.height = tile.height /\ (t + 1) % n = c + 1
        \/ next.y = tile.y + tile.height /\ c + 1 = n /\ (t + 1) % n = 0 /\ next.height \in Nat
  <2> SUFFICES ASSUME t + 1 < NumTiles(p)
               PROVE  \/ next.y = tile.y /\ next.height = tile.height /\ (t + 1) % n = c + 1
                      \/ next.y = tile.y + tile.height /\ c + 1 = n /\ (t + 1) % n = 0 /\ next.height \in Nat
    OBVIOUS
  <2>1. t + 1 \in 0..NumTiles(p) - 1
    BY <1>1
  <2>2. TileColumn(p, t + 1) = ((t + 1) % n) + 1 /\ (t + 1) % n \in 0..n - 1 /\ next.height \in Nat
    <3>1. (t + 1) % n \in 0..n - 1
      <4>1. t + 1 \in Nat
        BY <2>1
      <4> HIDE DEF n
      <4> QED
        BY <1>1, <4>1, Division, Zenon
    <3>2. next.height \in Nat \ {0}
      BY <1>1, <2>1, TileLemma
    <3> QED
      BY <3>1, <3>2 DEF TileColumn
  <2>3. \/ /\ next.y = tile.y /\ next.height = tile.height
           /\ TileColumn(p, t + 1) = TileColumn(p, t) + 1
        \/ /\ next.y = tile.y + tile.height
           /\ TileColumn(p, t) = n /\ TileColumn(p, t + 1) = 1
    BY <1>1, TileNext
  <2> QED
    BY <1>3, <1>4, <2>2, <2>3
<1> DEFINE y == tile.y
           h == tile.height
<1>6. StartingSubstream(t) = y * n + h * c
  BY <1>2 DEF StartingSubstream
<1>7. t + 1 < NumTiles(p) => StartingSubstream(t + 1) = next.y * n + next.height * ((t + 1) % n)
  BY <1>2 DEF StartingSubstream
<1>a. y \in Nat /\ h \in Nat \ {0} /\ y + h <= p.height
  BY <1>3
<1> HIDE DEF y, h, c, n
<1>8. /\ y * n + h * c \in Nat
      /\ y * n + h * (c + 1) = y * n + h * c + h
      /\ c + 1 = n => (y + h) * n + h * 0 = y * n + h * c + h
      /\ \A total \in Nat : y + h <= total => y * n + h * c + h <= total * n
  BY <1>1, <1>4, <1>a, FirstSubstream, Zenon
<1>9. ASSUME t + 1 < NumTiles(p)
      PROVE  next.y * n + next.height * ((t + 1) % n) = y * n + h * c + h
  <2>1. CASE next.y = tile.y /\ next.height = tile.height /\ (t + 1) % n = c + 1
    <3>1. next.y = y /\ next.height = h
      BY <2>1 DEF y, h
    <3> QED
      BY <1>8, <2>1, <3>1, Zenon
  <2>2. CASE next.y = tile.y + tile.height /\ c + 1 = n /\ (t + 1) % n = 0 /\ next.height \in Nat
    <3>1. next.y = y + h
      BY <2>2 DEF y, h
    <3>2. (y + h) * n + h * 0 = (y + h) * n + next.height * 0
      BY <1>1, <1>a, <2>2
    <3> QED
      BY <1>8, <2>2, <3>1, <3>2, Zenon
  <2> QED
    BY <1>5, <1>9, <2>1, <2>2
<1>10. y * n + h * c + h <= p.height * n
  BY <1>1, <1>8, <1>a
<1> QED
  <2>1. picSym.tiles[t].height = h
    BY <1>2 DEF h
  <2>2. /\ StartingSubstream(t) \in Nat
        /\ t + 1 < NumTiles(p) => StartingSubstream(t + 1) = StartingSubstream(t) + h
        /\ StartingSubstream(t) + h <= p.height * n
    BY <1>6, <1>7, <1>8, <1>9, <1>10, Zenon
  <2> QED
    BY <2>1, <2>2, Zenon DEF n

LEMMA SubstreamLemma ==
  ASSUME GoodSym, NEW ts \in 0..N - 1
  PROVE  Substream(ts) = IF wavefronts THEN StartingSubstream(TileIdx(ts)) + (Y(ts) - TileOf(ts).y)
                         ELSE TileIdx(ts)
<1> DEFINE p == picture
           t == TileIdx(ts)
           tile == TileOf(ts)
<1>1. /\ t = TileIdxMap(p, Rs(ts)) /\ t \in 0..NumTiles(p) - 1 /\ tile = Tile(p, t)
      /\ Y(ts) = Rs(ts) \div p.width
      /\ tile.y \in Nat /\ tile.height \in Nat \ {0} /\ Y(ts) \in Nat /\ Y(ts) < p.height
      /\ tile.y <= Y(ts) /\ tile = picSym.tiles[t]
  <2>1. Y(ts) = Rs(ts) \div p.width /\ tile = picSym.tiles[t]
    BY DEF Y, TileOf
  <2> QED
    BY <2>1, CtuLemma
<1>2. StartingSubstream(t) = tile.y * NumTileColumns(p) + tile.height * (t % NumTileColumns(p))
  BY <1>1, Zenon DEF StartingSubstream
<1>3. Substream(ts) =
        IF ~(wavefronts /\ p.height > 1) /\ NumTiles(p) = 1 THEN 0
        ELSE IF wavefronts
          THEN tile.y * NumTileColumns(p) + tile.height * (t % NumTileColumns(p)) + Y(ts) - tile.y
          ELSE t
  BY <1>1, Zenon DEF Substream, SubstreamForCtuAddr
<1>4. StartingSubstream(t) \in Nat
  BY <1>1, StartingSubstreamLemma
<1>5. p.height \in Nat \ {0} /\ NumTileColumns(p) \in Nat \ {0} /\ NumTiles(p) \in Nat \ {0}
  BY PictureLemma, TilesLemma
<1>6. ASSUME ~(p.height > 1), NumTiles(p) = 1
      PROVE  StartingSubstream(t) = 0 /\ Y(ts) - tile.y = 0 /\ t = 0
  <2>1. t = 0 /\ Y(ts) = 0 /\ tile.y = 0
    BY <1>1, <1>5, <1>6
  <2>2. t % NumTileColumns(p) = 0
    <3>1. 0 % NumTileColumns(p) = 0
      BY <1>5
    <3> QED
      BY <2>1, <3>1, Zenon
  <2>3. 0 * NumTileColumns(p) = 0 /\ tile.height * 0 = 0
    BY <1>1, <1>5
  <2>4. StartingSubstream(t) = 0 + 0
    BY <1>2, <2>1, <2>2, <2>3, Zenon
  <2> QED
    BY <2>1, <2>4
<1> DEFINE b == StartingSubstream(t)
           e == tile.y * NumTileColumns(p) + tile.height * (t % NumTileColumns(p))
           y == tile.y
           w == NumTiles(p) = 1
<1>7. /\ b = e /\ b \in Nat /\ y \in Nat /\ Y(ts) \in Nat
      /\ Substream(ts) = IF ~(wavefronts /\ p.height > 1) /\ w THEN 0
                         ELSE IF wavefronts THEN e + Y(ts) - y ELSE t
      /\ ~(p.height > 1) /\ w => b = 0 /\ Y(ts) - y = 0 /\ t = 0
      /\ w => t = 0
  <2>1. w => t = 0
    BY <1>1
  <2> QED
    BY <1>1, <1>2, <1>3, <1>4, <1>6, <2>1
<1> HIDE DEF b, e, y, w, t
<1>8. Substream(ts) = IF wavefronts THEN b + (Y(ts) - y) ELSE t
  BY <1>7
<1> QED
  BY <1>8 DEF b, y, t

LEMMA SubstreamStep ==
  ASSUME GoodSym, NEW ts \in 0..N - 1, ts + 1 < N
  PROVE  Substream(ts + 1) = Substream(ts) + (IF EndsSubstream(ts) THEN 1 ELSE 0)
<1> DEFINE tile == TileOf(ts)
           next == TileOf(ts + 1)
           b == StartingSubstream(TileIdx(ts))
           d == StartingSubstream(TileIdx(ts + 1))
<1>1. N \in Nat /\ ts + 1 \in 0..N - 1
  BY PictureLemma
<1>2. /\ Substream(ts) = IF wavefronts THEN b + (Y(ts) - tile.y) ELSE TileIdx(ts)
      /\ Substream(ts + 1) = IF wavefronts THEN d + (Y(ts + 1) - next.y) ELSE TileIdx(ts + 1)
  BY <1>1, SubstreamLemma
<1>3. /\ TileIdx(ts) \in 0..NumTiles(picture) - 1 /\ TileIdx(ts + 1) \in 0..NumTiles(picture) - 1
      /\ tile.y \in Nat /\ tile.height \in Nat \ {0} /\ Y(ts) \in Nat /\ X(ts) \in Nat
      /\ tile.x \in Nat /\ tile.width \in Nat \ {0}
      /\ next.y \in Nat /\ Y(ts + 1) \in Nat
      /\ tile = picSym.tiles[TileIdx(ts)] /\ next = picSym.tiles[TileIdx(ts + 1)]
  <2>1. tile = picSym.tiles[TileIdx(ts)] /\ next = picSym.tiles[TileIdx(ts + 1)]
    BY DEF TileOf
  <2>2. /\ TileIdx(ts) \in 0..NumTiles(picture) - 1
        /\ tile.y \in Nat /\ tile.height \in Nat \ {0} /\ Y(ts) \in Nat /\ X(ts) \in Nat
        /\ tile.x \in Nat /\ tile.width \in Nat \ {0}
    BY CtuLemma
  <2>3. /\ TileIdx(ts + 1) \in 0..NumTiles(picture) - 1
        /\ next.y \in Nat /\ Y(ts + 1) \in Nat
    BY <1>1, CtuLemma
  <2> QED
    BY <2>1, <2>2, <2>3
<1>4. /\ b \in Nat
      /\ TileIdx(ts) + 1 < NumTiles(picture) =>
           StartingSubstream(TileIdx(ts) + 1) = b + tile.height
  BY <1>3, StartingSubstreamLemma
<1>5. EndsSubstream(ts) <=> X(ts) + 1 = tile.x + tile.width /\ (Y(ts) + 1 = tile.y + tile.height \/ wavefronts)
  BY DEF EndsSubstream
<1>6. \/ /\ X(ts) + 1 < tile.x + tile.width /\ TileIdx(ts + 1) = TileIdx(ts) /\ Y(ts + 1) = Y(ts)
      \/ /\ X(ts) + 1 = tile.x + tile.width /\ Y(ts) + 1 < tile.y + tile.height
         /\ TileIdx(ts + 1) = TileIdx(ts) /\ Y(ts + 1) = Y(ts) + 1
      \/ /\ X(ts) + 1 = tile.x + tile.width /\ Y(ts) + 1 = tile.y + tile.height
         /\ TileIdx(ts + 1) = TileIdx(ts) + 1 /\ Y(ts + 1) = next.y
  <2>1. \/ /\ X(ts) + 1 < tile.x + tile.width /\ TileIdx(ts + 1) = TileIdx(ts) /\ Y(ts + 1) = Y(ts)
        \/ /\ X(ts) + 1 = tile.x + tile.width /\ Y(ts) + 1 < tile.y + tile.height
           /\ TileIdx(ts + 1) = TileIdx(ts) /\ Y(ts + 1) = Y(ts) + 1
        \/ /\ X(ts) + 1 = tile.x + tile.width /\ Y(ts) + 1 = tile.y + tile.height
           /\ TileIdx(ts + 1) = TileIdx(ts) + 1 /\ FirstOfTile(ts + 1)
        \/ ts + 1 = N
    BY StepLemma, Zenon
  <2>2. ts + 1 # N
    BY <1>1
  <2> QED
    BY <2>1, <2>2, Zenon DEF FirstOfTile
<1> HIDE DEF tile, next
<1>7. CASE /\ X(ts) + 1 < tile.x + tile.width /\ TileIdx(ts + 1) = TileIdx(ts) /\ Y(ts + 1) = Y(ts)
  <2>1. next = tile /\ ~EndsSubstream(ts)
    BY <1>3, <1>5, <1>7
  <2>2. d = b
    BY <1>7, Zenon
  <2> HIDE DEF b, d
  <2> QED
    BY <1>2, <1>3, <1>4, <1>7, <2>1, <2>2
<1>8. CASE /\ X(ts) + 1 = tile.x + tile.width /\ Y(ts) + 1 < tile.y + tile.height
           /\ TileIdx(ts + 1) = TileIdx(ts) /\ Y(ts + 1) = Y(ts) + 1
  <2>1. next = tile /\ (EndsSubstream(ts) <=> wavefronts)
    BY <1>3, <1>5, <1>8
  <2>2. d = b
    BY <1>8, Zenon
  <2> HIDE DEF b, d
  <2> QED
    BY <1>2, <1>3, <1>4, <1>8, <2>1, <2>2
<1>9. CASE /\ X(ts) + 1 = tile.x + tile.width /\ Y(ts) + 1 = tile.y + tile.height
           /\ TileIdx(ts + 1) = TileIdx(ts) + 1 /\ Y(ts + 1) = next.y
  <2>1. EndsSubstream(ts) /\ TileIdx(ts) + 1 < NumTiles(picture)
    <3>1. NumTiles(picture) \in Nat
      BY PictureLemma
    <3> QED
      BY <1>3, <1>5, <1>9, <3>1
  <2>2. d = b + tile.height
    BY <1>4, <1>9, <2>1, Zenon
  <2> HIDE DEF b, d
  <2> QED
    BY <1>2, <1>3, <1>4, <1>9, <2>1, <2>2
<1> QED
  BY <1>6, <1>7, <1>8, <1>9

LEMMA SubstreamRange ==
  ASSUME GoodSym, NEW ts \in 0..N - 1
  PROVE  Substream(ts) \in Nat /\ Substream(ts) \in 0..NumSubstreams - 1 /\ NumSubstreams \in Nat
<1> DEFINE tile == TileOf(ts)
           b == StartingSubstream(TileIdx(ts))
           n == NumTileColumns(picture)
           h == picture.height * n
           r == Len(picture.rowEnds) * n
<1>1. Substream(ts) = IF wavefronts THEN b + (Y(ts) - tile.y) ELSE TileIdx(ts)
  BY SubstreamLemma
<1>2. /\ TileIdx(ts) \in 0..NumTiles(picture) - 1 /\ tile = picSym.tiles[TileIdx(ts)]
      /\ tile.y \in Nat /\ tile.height \in Nat \ {0} /\ Y(ts) \in Nat
      /\ tile.y <= Y(ts) /\ Y(ts) < tile.y + tile.height
  <2>1. tile = picSym.tiles[TileIdx(ts)]
    BY DEF TileOf
  <2> QED
    BY <2>1, CtuLemma
<1>3. b \in Nat /\ b + tile.height <= h
  BY <1>2, StartingSubstreamLemma
<1>4. /\ NumTiles(picture) = r /\ NumTiles(picture) \in Nat \ {0} /\ h \in Nat
  <2>1. /\ n \in Nat \ {0} /\ Len(picture.rowEnds) \in Nat \ {0} /\ picture.height \in Nat \ {0}
        /\ NumTiles(picture) = r /\ NumTiles(picture) \in Nat \ {0}
    BY PictureLemma, TilesLemma
  <2> QED
    BY <2>1
<1>5. NumSubstreams = IF wavefronts THEN h ELSE r
  BY Zenon DEF NumSubstreams
<1> HIDE DEF h, r, b, tile
<1> QED
  BY <1>1, <1>2, <1>3, <1>4, <1>5

LEMMA SubstreamOrder ==
  ASSUME GoodSym, NEW u \in 0..N - 1, NEW v \in 0..N - 1, u <= v
  PROVE  Substream(u) <= Substream(v)
<1>1. N \in Nat
  BY PictureLemma
<1> DEFINE P == {i \in Nat : u + i < N => Substream(u) <= Substream(u + i)}
<1>2. 0 \in P
  BY SubstreamRange
<1>3. \A i \in 0..(v - u) - 1 : i \in P => i + 1 \in P
  <2> SUFFICES ASSUME NEW i \in 0..(v - u) - 1, i \in P
               PROVE  i + 1 \in P
    OBVIOUS
  <2>1. u + i \in 0..N - 1 /\ (u + i) + 1 < N /\ i \in Nat /\ u + (i + 1) = (u + i) + 1 /\ u + i < N
    BY <1>1
  <2>2. Substream((u + i) + 1) = Substream(u + i) + (IF EndsSubstream(u + i) THEN 1 ELSE 0)
    BY <2>1, SubstreamStep
  <2>3. Substream(u + i) \in Nat /\ Substream(u) \in Nat
    BY <2>1, SubstreamRange
  <2>4. Substream(u) <= Substream(u + i)
    BY <2>1
  <2>5. Substream(u) <= Substream((u + i) + 1)
    BY <2>2, <2>3, <2>4
  <2>6. Substream(u) <= Substream(u + (i + 1)) /\ i + 1 \in Nat
    BY <2>1, <2>5
  <2> QED
    BY <2>6
<1>4. v - u \in Nat
  OBVIOUS
<1> HIDE DEF P
<1>5. \A i \in 0..v - u : i \in P
  BY <1>2, <1>3, <1>4, Induction, Zenon
<1>6. v - u \in P /\ u + (v - u) = v /\ u + (v - u) < N
  BY <1>1, <1>4, <1>5
<1> QED
  BY <1>6 DEF P

LEMMA SubstreamEnds ==
  ASSUME GoodSym, NEW u \in 0..N - 1, NEW v \in 0..N - 1, u < v
  PROVE  /\ EndsSubstream(u) => Substream(u) < Substream(v)
         /\ Substream(u) = Substream(v) => ~EndsSubstream(u)
<1>1. N \in Nat
  BY PictureLemma
<1>2. u + 1 \in 0..N - 1 /\ u + 1 < N /\ u + 1 <= v
  BY <1>1
<1>3. Substream(u + 1) = Substream(u) + (IF EndsSubstream(u) THEN 1 ELSE 0)
  BY <1>2, SubstreamStep
<1>4. Substream(u + 1) <= Substream(v)
  BY <1>2, SubstreamOrder
<1>5. Substream(u) \in Nat /\ Substream(v) \in Nat
  BY SubstreamRange
<1> QED
  BY <1>3, <1>4, <1>5

(* The CTUs from a to b are those of a substream between from and to.      *)
IsRun(from, to, substream, a, b) ==
  /\ a \in Nat /\ b \in Nat /\ a <= b
  /\ \A u \in Nat : a <= u /\ u < b <=> from <= u /\ u < to /\ Substream(u) = substream

LEMMA RunExists ==
  ASSUME GoodSym, NEW from \in 0..N - 1, NEW to \in from + 1..N
  PROVE  \E b \in from + 1..to : IsRun(from, to, Substream(from), from, b)
<1>1. N \in Nat /\ from \in Nat /\ to \in Nat
  BY PictureLemma
<1> DEFINE W == {v \in from + 1..to : v = to \/ Substream(v) # Substream(from)}
<1>2. W # {} /\ W \in SUBSET Nat
  <2>1. to \in W
    OBVIOUS
  <2> QED
    BY <2>1, <1>1
<1>3. PICK b \in W : \A v \in W : b <= v
  <2> HIDE DEF W
  <2> QED
    BY <1>2, LeastNumber
<1>4. b \in from + 1..to /\ (b = to \/ Substream(b) # Substream(from)) /\ b \in Nat
  BY <1>1, <1>3
<1>5. ASSUME NEW u \in Nat, from <= u, u < b
      PROVE  from <= u /\ u < to /\ Substream(u) = Substream(from)
  <2>1. CASE u = from
    BY <1>1, <1>4, <1>5, <2>1
  <2>2. CASE u # from
    <3>1. u \in from + 1..to /\ u < to
      BY <1>1, <1>4, <1>5, <2>2
    <3>2. ~(b <= u)
      BY <1>4, <1>5
    <3>3. u \notin W
      BY <1>3, <3>2
    <3> QED
      BY <1>5, <3>1, <3>3
  <2> QED
    BY <2>1, <2>2
<1>6. ASSUME NEW u \in Nat, from <= u, u < to, Substream(u) = Substream(from)
      PROVE  from <= u /\ u < b
  <2> SUFFICES ASSUME ~(u < b)
               PROVE  FALSE
    BY <1>6
  <2>1. b <= u /\ b \in 0..N - 1 /\ u \in 0..N - 1 /\ b # to /\ from < b
    BY <1>1, <1>4, <1>6
  <2>2. Substream(b) <= Substream(u) /\ Substream(from) <= Substream(b)
    BY <1>1, <2>1, SubstreamOrder
  <2>3. Substream(b) \in Nat /\ Substream(from) \in Nat
    BY <2>1, SubstreamRange
  <2> QED
    BY <1>4, <1>6, <2>1, <2>2, <2>3
<1>7. IsRun(from, to, Substream(from), from, b)
  BY <1>1, <1>4, <1>5, <1>6 DEF IsRun
<1> QED
  BY <1>4, <1>7

(* When the encoder has coded one CTU more. *)
LEMMA RunGrows ==
  ASSUME GoodSym, NEW from \in Nat, NEW c \in 0..N - 1, from <= c, NEW substream, NEW a, NEW b,
         IsRun(from, c + 1, substream, a, b)
  PROVE  /\ substream # Substream(c) => IsRun(from, c, substream, a, b)
         /\ substream = Substream(c) =>
              /\ a \in Nat /\ b = c + 1 /\ a <= c /\ IsRun(from, c, substream, a, c)
              /\ \A u \in a..c - 1 : u \in 0..N - 1 /\ ~EndsSubstream(u)
<1>1. N \in Nat /\ c \in Nat /\ a \in Nat /\ b \in Nat /\ a <= b
  BY PictureLemma DEF IsRun
<1>2. \A u \in Nat : a <= u /\ u < b <=> from <= u /\ u < c + 1 /\ Substream(u) = substream
  BY DEF IsRun
<1>3. \A u \in Nat : u < c + 1 <=> u < c \/ u = c
  BY <1>1
<1>4. ASSUME substream # Substream(c)
      PROVE  IsRun(from, c, substream, a, b)
  <2>1. \A u \in Nat : a <= u /\ u < b <=> from <= u /\ u < c /\ Substream(u) = substream
    <3> TAKE u \in Nat
    <3>1. a <= u /\ u < b <=> from <= u /\ u < c + 1 /\ Substream(u) = substream
      BY <1>2
    <3>2. u < c + 1 <=> u < c \/ u = c
      BY <1>3
    <3>3. u = c => Substream(u) # substream
      BY <1>4
    <3> QED
      BY <3>1, <3>2, <3>3, Zenon
  <2> QED
    BY <1>1, <2>1 DEF IsRun
<1>5. ASSUME substream = Substream(c)
      PROVE  /\ b = c + 1 /\ a <= c /\ IsRun(from, c, substream, a, c)
             /\ \A u \in a..c - 1 : u \in 0..N - 1 /\ ~EndsSubstream(u)
  <2>1. a <= c /\ c < b
    BY <1>1, <1>2, <1>5
  <2>2. ~(c + 1 < b)
    <3>1. c + 1 \in Nat /\ ~(c + 1 < c + 1)
      BY <1>1
    <3>2. ~(a <= c + 1 /\ c + 1 < b)
      BY <1>2, <3>1
    <3> QED
      BY <1>1, <2>1, <3>2
  <2>3. b = c + 1
    BY <1>1, <2>1, <2>2
  <2>4. \A u \in Nat : a <= u /\ u < c <=> from <= u /\ u < c /\ Substream(u) = substream
    <3> TAKE u \in Nat
    <3>1. a <= u /\ u < c + 1 <=> from <= u /\ u < c + 1 /\ Substream(u) = substream
      BY <1>2, <2>3
    <3>2. u < c => u < c + 1
      BY <1>1
    <3> QED
      BY <3>1, <3>2, Zenon
  <2>5. ASSUME NEW u \in a..c - 1
        PROVE  u \in 0..N - 1 /\ ~EndsSubstream(u)
    <3>1. u \in Nat /\ a <= u /\ u < c /\ u \in 0..N - 1
      BY <1>1
    <3>2. Substream(u) = Substream(c)
      BY <1>5, <2>4, <3>1
    <3> QED
      BY <3>1, <3>2, SubstreamEnds
  <2>6. IsRun(from, c, substream, a, c)
    BY <1>1, <2>1, <2>4 DEF IsRun
  <2> QED
    BY <2>1, <2>3, <2>5, <2>6
<1> QED
  BY <1>1, <1>4, <1>5

(* When the decoder has decoded one CTU more. *)
LEMMA RunShrinks ==
  ASSUME GoodSym, NEW c \in 0..N - 1, NEW to \in c + 1..N, NEW substream, NEW a, NEW b,
         IsRun(c + 1, to, substream, a, b)
  PROVE  /\ substream # Substream(c) => IsRun(c, to, substream, a, b)
         /\ substream = Substream(c) =>
              IF c + 1 < to /\ ~EndsSubstream(c) THEN a = c + 1 /\ IsRun(c, to, substream, c, b)
              ELSE a = b /\ IsRun(c, to, substream, c, c + 1)
<1>1. N \in Nat /\ c \in Nat /\ to \in Nat /\ a \in Nat /\ b \in Nat /\ a <= b
  BY PictureLemma DEF IsRun
<1>2. \A u \in Nat : a <= u /\ u < b <=> c + 1 <= u /\ u < to /\ Substream(u) = substream
  BY DEF IsRun
<1>3. \A u \in Nat : c <= u <=> c + 1 <= u \/ u = c
  BY <1>1
<1>4. ASSUME substream # Substream(c)
      PROVE  IsRun(c, to, substream, a, b)
  <2>1. \A u \in Nat : a <= u /\ u < b <=> c <= u /\ u < to /\ Substream(u) = substream
    <3> TAKE u \in Nat
    <3>1. a <= u /\ u < b <=> c + 1 <= u /\ u < to /\ Substream(u) = substream
      BY <1>2
    <3>2. c <= u <=> c + 1 <= u \/ u = c
      BY <1>3
    <3>3. u = c => Substream(u) # substream
      BY <1>4
    <3> QED
      BY <3>1, <3>2, <3>3, Zenon
  <2> QED
    BY <1>1, <2>1 DEF IsRun
<1>5. ASSUME substream = Substream(c), c + 1 < to, ~EndsSubstream(c)
      PROVE  a = c + 1 /\ IsRun(c, to, substream, c, b)
  <2>1. c + 1 < N /\ c + 1 \in Nat
    BY <1>1, <1>5
  <2>2. Substream(c + 1) = substream
    <3>1. Substream(c + 1) = Substream(c) + 0
      BY <1>5, <2>1, SubstreamStep
    <3>2. Substream(c) \in Nat
      BY SubstreamRange
    <3> QED
      BY <1>5, <3>1, <3>2
  <2>3. a <= c + 1 /\ c + 1 < b
    BY <1>1, <1>2, <1>5, <2>1, <2>2
  <2>4. c + 1 <= a
    <3>1. a < b
      BY <1>1, <2>1, <2>3
    <3> QED
      BY <1>1, <1>2, <3>1
  <2>5. a = c + 1
    BY <1>1, <2>3, <2>4
  <2>6. \A u \in Nat : c <= u /\ u < b <=> c <= u /\ u < to /\ Substream(u) = substream
    <3> TAKE u \in Nat
    <3>1. c + 1 <= u /\ u < b <=> c + 1 <= u /\ u < to /\ Substream(u) = substream
      BY <1>2, <2>5
    <3>2. c <= u <=> c + 1 <= u \/ u = c
      BY <1>3
    <3>3. u = c => u < b /\ u < to /\ Substream(u) = substream
      BY <1>1, <1>5, <2>3
    <3> QED
      BY <3>1, <3>2, <3>3, Zenon
  <2>7. c <= b
    BY <1>1, <2>3
  <2> QED
    BY <1>1, <2>5, <2>6, <2>7 DEF IsRun
<1>6. ASSUME substream = Substream(c), ~(c + 1 < to /\ ~EndsSubstream(c))
      PROVE  a = b /\ IsRun(c, to, substream, c, c + 1)
  <2>1. \A u \in Nat : ~(c + 1 <= u /\ u < to /\ Substream(u) = substream)
    <3> SUFFICES ASSUME NEW u \in Nat, c + 1 <= u, u < to, Substream(u) = substream
                 PROVE  FALSE
      OBVIOUS
    <3>1. EndsSubstream(c) /\ u \in 0..N - 1 /\ c < u
      BY <1>1, <1>6
    <3>2. Substream(c) < Substream(u) /\ Substream(c) \in Nat
      BY <3>1, SubstreamEnds, SubstreamRange
    <3> QED
      BY <1>6, <3>2
  <2>2. ~(a < b)
    <3>1. a <= a
      BY <1>1
    <3> QED
      BY <1>1, <1>2, <2>1, <3>1
  <2>3. \A u \in Nat : c <= u /\ u < c + 1 <=> c <= u /\ u < to /\ Substream(u) = substream
    <3> TAKE u \in Nat
    <3>1. ~(c + 1 <= u /\ u < to /\ Substream(u) = substream)
      BY <2>1
    <3>2. (c <= u <=> c + 1 <= u \/ u = c) /\ (c <= u /\ u < c + 1 <=> u = c)
      BY <1>1
    <3>3. u = c => u < to /\ Substream(u) = substream
      BY <1>1, <1>6
    <3> QED
      BY <3>1, <3>2, <3>3, Zenon
  <2> QED
    BY <1>1, <2>2, <2>3 DEF IsRun
<1> QED
  BY <1>4, <1>5, <1>6

(* What a CTU adds to its substream: its data, whether it is the last one  *)
(* of the segment, and a terminating bit where a substream ends that is    *)
(* not the last.                                                           *)
Part(c, u, isLast) ==
  <<CtuData(c, u), Flag(IF isLast THEN 1 ELSE 0)>>
    \o (IF ~isLast /\ EndsSubstream(u) THEN <<Flag(1)>> ELSE << >>)

Closing(a, b, end) == IF a < b /\ b # end /\ EndsSubstream(b - 1) THEN 1 ELSE 0

(* A substream that holds the CTUs from a to b, coded in the states E, of  *)
(* a segment that goes up to end.                                          *)
Carries(q, E, a, b, end) ==
  /\ q \in Seq(Elements)
  /\ Len(q) = 2 * (b - a) + Closing(a, b, end)
  /\ \A u \in a..b - 1 : /\ q[2 * (u - a) + 1] = CtuData(E[u], u)
                         /\ q[2 * (u - a) + 2] = Flag(IF u + 1 = end THEN 1 ELSE 0)
  /\ Closing(a, b, end) = 1 => q[Len(q)] = Flag(1)

LEMMA ElementsLemma ==
  ASSUME NEW c \in States, NEW u \in Addresses
  PROVE  /\ CtuData(c, u) \in Elements /\ Flag(0) \in Elements /\ Flag(1) \in Elements
         /\ Flag(0) # Flag(1)
BY DEF Elements, CtuData, Flag

LEMMA PartLemma ==
  ASSUME NEW c \in States, NEW u \in Addresses, NEW isLast \in BOOLEAN
  PROVE  LET w == Part(c, u, isLast) IN
         /\ w \in Seq(Elements)
         /\ Len(w) = 2 + (IF ~isLast /\ EndsSubstream(u) THEN 1 ELSE 0)
         /\ w[1] = CtuData(c, u) /\ w[2] = Flag(IF isLast THEN 1 ELSE 0)
         /\ ~isLast /\ EndsSubstream(u) => w[3] = Flag(1)
<1> DEFINE x == CtuData(c, u)
           y == Flag(IF isLast THEN 1 ELSE 0)
           z == Flag(1)
           w == Part(c, u, isLast)
<1>1. x \in Elements /\ y \in Elements /\ z \in Elements
  BY ElementsLemma
<1>2. w = <<x, y>> \o (IF ~isLast /\ EndsSubstream(u) THEN <<z>> ELSE << >>)
  BY DEF Part
<1> HIDE DEF x, y, z, w
<1>3. CASE ~isLast /\ EndsSubstream(u)
  <2>1. w = <<x, y>> \o <<z>>
    BY <1>2, <1>3
  <2>2. <<x, y>> \in Seq(Elements) /\ <<z>> \in Seq(Elements) /\ Len(<<x, y>>) = 2 /\ Len(<<z>>) = 1
    BY <1>1
  <2>3. w \in Seq(Elements) /\ Len(w) = 3 /\ w[1] = x /\ w[2] = y /\ w[3] = z
    BY <2>1, <2>2, ConcatProperties
  <2> QED
    BY <1>3, <2>3 DEF w, x, y, z
<1>4. CASE ~(~isLast /\ EndsSubstream(u))
  <2>1. w = <<x, y>> \o << >>
    BY <1>2, <1>4
  <2>2. w = <<x, y>>
    BY <2>1
  <2> QED
    BY <1>1, <1>4, <2>2 DEF w, x, y, z
<1> QED
  BY <1>3, <1>4

LEMMA CarriesNothing ==
  ASSUME NEW E, NEW a \in Nat, NEW end, NEW q, Carries(q, E, a, a, end)
  PROVE  q = << >>
<1>1. q \in Seq(Elements) /\ Len(q) = 0
  BY DEF Carries, Closing
<1> QED
  BY <1>1

LEMMA NothingCarried ==
  ASSUME NEW E, NEW a \in Nat, NEW end
  PROVE  Carries(<< >>, E, a, a, end)
BY DEF Carries, Closing

(* The encoder writes a CTU. *)
LEMMA CarriesMore ==
  ASSUME NEW E, NEW a \in Nat, NEW b \in Nat, a <= b, NEW end \in Nat, b # end, NEW q, Carries(q, E, a, b, end),
         \A u \in a..b - 1 : ~EndsSubstream(u), E[b] \in States, b \in Addresses
  PROVE  Carries(q \o Part(E[b], b, b + 1 = end), E, a, b + 1, end)
<1> DEFINE isLast == b + 1 = end
           w == Part(E[b], b, isLast)
           r == q \o w
<1>1. /\ w \in Seq(Elements) /\ Len(w) = 2 + (IF ~isLast /\ EndsSubstream(b) THEN 1 ELSE 0)
      /\ w[1] = CtuData(E[b], b) /\ w[2] = Flag(IF isLast THEN 1 ELSE 0)
      /\ ~isLast /\ EndsSubstream(b) => w[3] = Flag(1)
  <2>1. isLast \in BOOLEAN
    OBVIOUS
  <2> HIDE DEF isLast
  <2> QED
    BY <2>1, PartLemma
<1>2. /\ q \in Seq(Elements) /\ Len(q) = 2 * (b - a)
      /\ \A u \in a..b - 1 : /\ q[2 * (u - a) + 1] = CtuData(E[u], u)
                             /\ q[2 * (u - a) + 2] = Flag(IF u + 1 = end THEN 1 ELSE 0)
  <2>1. Closing(a, b, end) = 0
    <3>1. a < b => b - 1 \in a..b - 1
      OBVIOUS
    <3> QED
      BY <3>1 DEF Closing
  <2> QED
    BY <2>1 DEF Carries
<1>3. Closing(a, b + 1, end) = IF ~isLast /\ EndsSubstream(b) THEN 1 ELSE 0
  BY DEF Closing
<1> HIDE DEF w
<1> DEFINE n == Len(q)
           m == Len(w)
<1>4. n \in Nat /\ m \in Nat /\ m >= 2
  BY <1>1, <1>2
<1>5. /\ r \in Seq(Elements) /\ Len(r) = n + m
      /\ \A i \in 1..n : r[i] = q[i]
      /\ \A i \in 1..m : r[n + i] = w[i]
  <2>0. /\ r \in Seq(Elements) /\ Len(r) = n + m
        /\ \A i \in 1..n + m : r[i] = IF i <= n THEN q[i] ELSE w[i - n]
    BY <1>1, <1>2, ConcatProperties, Zenon
  <2> HIDE DEF r, n, m
  <2>1. r \in Seq(Elements) /\ Len(r) = n + m
    BY <2>0
  <2>2. \A i \in 1..n : r[i] = q[i]
    BY <1>4, <2>0
  <2>3. \A i \in 1..m : r[n + i] = w[i]
    <3> TAKE i \in 1..m
    <3>1. n + i \in 1..n + m /\ ~(n + i <= n) /\ (n + i) - n = i
      BY <1>4
    <3> QED
      BY <2>0, <3>1
  <2> QED
    BY <2>1, <2>2, <2>3
<1> HIDE DEF r
<1>6. Len(r) = 2 * ((b + 1) - a) + Closing(a, b + 1, end)
  <2>1. m = 2 + Closing(a, b + 1, end) /\ n = 2 * (b - a)
    BY <1>1, <1>2, <1>3 DEF m, n
  <2>2. Closing(a, b + 1, end) \in {0, 1}
    BY DEF Closing
  <2> QED
    BY <1>5, <2>1, <2>2
<1>7. ASSUME NEW u \in a..(b + 1) - 1
      PROVE  /\ r[2 * (u - a) + 1] = CtuData(E[u], u)
             /\ r[2 * (u - a) + 2] = Flag(IF u + 1 = end THEN 1 ELSE 0)
  <2>1. CASE u \in a..b - 1
    <3>1. 2 * (u - a) + 1 \in 1..n /\ 2 * (u - a) + 2 \in 1..n
      BY <1>2, <2>1
    <3> QED
      BY <1>2, <1>5, <2>1, <3>1
  <2>2. CASE u = b
    <3>1. 2 * (u - a) + 1 = n + 1 /\ 2 * (u - a) + 2 = n + 2
      BY <1>2, <2>2
    <3>2. 1 \in 1..m /\ 2 \in 1..m
      BY <1>4
    <3>3. r[n + 1] = w[1] /\ r[n + 2] = w[2]
      BY <1>5, <3>2
    <3> QED
      BY <1>1, <2>2, <3>1, <3>3
  <2> QED
    BY <2>1, <2>2
<1>8. Closing(a, b + 1, end) = 1 => r[Len(r)] = Flag(1)
  <2> SUFFICES ASSUME Closing(a, b + 1, end) = 1
               PROVE  r[Len(r)] = Flag(1)
    OBVIOUS
  <2>1. ~isLast /\ EndsSubstream(b)
    BY <1>3
  <2>2. m = 3 /\ w[3] = Flag(1)
    BY <1>1, <2>1
  <2>3. 3 \in 1..m /\ Len(r) = n + 3
    BY <1>5, <2>2
  <2>4. r[n + 3] = w[3]
    BY <1>5, <2>3
  <2> QED
    BY <2>2, <2>3, <2>4
<1>9. Carries(r, E, a, b + 1, end)
  BY <1>5, <1>6, <1>7, <1>8 DEF Carries
<1> QED
  BY <1>9 DEF r, w

(* The decoder reads one. *)
Loses(q, E, a, b, end) ==
  LET w == Part(E[a], a, a + 1 = end) IN
  /\ Starts(w, q) /\ Carries(SubSeq(q, Len(w) + 1, Len(q)), E, a + 1, b, end)
  /\ q[2] = Flag(IF a + 1 = end THEN 1 ELSE 0)

LEMMA CarriesLess ==
  ASSUME NEW E, NEW a \in Nat, NEW b \in Nat, a < b, NEW end \in Nat, b <= end, NEW q, Carries(q, E, a, b, end),
         a + 1 < b => ~EndsSubstream(a), E[a] \in States, a \in Addresses
  PROVE  Loses(q, E, a, b, end)
<1> DEFINE isLast == a + 1 = end
           w == Part(E[a], a, isLast)
           m == Len(w)
           n == Len(q)
           r == SubSeq(q, m + 1, n)
<1>1. /\ w \in Seq(Elements) /\ Len(w) = 2 + (IF ~isLast /\ EndsSubstream(a) THEN 1 ELSE 0)
      /\ w[1] = CtuData(E[a], a) /\ w[2] = Flag(IF isLast THEN 1 ELSE 0)
      /\ ~isLast /\ EndsSubstream(a) => w[3] = Flag(1)
  <2>1. isLast \in BOOLEAN
    OBVIOUS
  <2> HIDE DEF isLast
  <2> QED
    BY <2>1, PartLemma
<1> HIDE DEF w
<1>2. /\ q \in Seq(Elements) /\ n = 2 * (b - a) + Closing(a, b, end)
      /\ \A u \in a..b - 1 : /\ q[2 * (u - a) + 1] = CtuData(E[u], u)
                             /\ q[2 * (u - a) + 2] = Flag(IF u + 1 = end THEN 1 ELSE 0)
      /\ Closing(a, b, end) = 1 => q[n] = Flag(1)
  BY DEF Carries
<1>3. q[1] = CtuData(E[a], a) /\ q[2] = Flag(IF isLast THEN 1 ELSE 0)
  <2>1. a \in a..b - 1 /\ 2 * (a - a) + 1 = 1 /\ 2 * (a - a) + 2 = 2
    OBVIOUS
  <2> QED
    BY <1>2, <2>1
<1>4. Closing(a, b, end) \in {0, 1} /\ n \in Nat /\ m \in Nat
  BY <1>1, <1>2 DEF Closing
<1>5. /\ m <= n
      /\ n - m = 2 * (b - (a + 1)) + Closing(a + 1, b, end)
      /\ a + 1 < b => m = 2 /\ Closing(a + 1, b, end) = Closing(a, b, end)
      /\ ~(a + 1 < b) => b = a + 1 /\ m = n /\ Closing(a + 1, b, end) = 0
                         /\ (m = 3 => Closing(a, b, end) = 1)
  <2>1. CASE a + 1 < b
    <3>1. m = 2
      BY <1>1, <2>1
    <3>2. Closing(a + 1, b, end) = Closing(a, b, end)
      BY <2>1 DEF Closing
    <3> QED
      BY <1>2, <1>4, <2>1, <3>1, <3>2
  <2>2. CASE ~(a + 1 < b)
    <3>1. b = a + 1
      BY <2>2
    <3>2. Closing(a + 1, b, end) = 0
      BY <3>1 DEF Closing
    <3>3. Closing(a, b, end) = IF ~isLast /\ EndsSubstream(a) THEN 1 ELSE 0
      <4>1. b - 1 = a /\ a < b
        BY <3>1
      <4> QED
        BY <3>1, <4>1, Zenon DEF Closing
    <3>4. m = 2 + Closing(a, b, end)
      BY <1>1, <3>3
    <3> QED
      BY <1>2, <1>4, <2>2, <3>1, <3>2, <3>4
  <2> QED
    BY <2>1, <2>2
<1>6. \A i \in 1..m : w[i] = q[i]
  <2> TAKE i \in 1..m
  <2>1. m = 2 \/ m = 3
    BY <1>1
  <2>2. CASE i = 1 \/ i = 2
    BY <1>1, <1>3, <2>2
  <2>3. CASE i = 3
    <3>1. m = 3 /\ ~(a + 1 < b)
      <4>1. i <= m
        OBVIOUS
      <4> HIDE DEF m
      <4>2. m = 3
        BY <2>1, <2>3, <4>1
      <4> QED
        BY <1>5, <4>2
    <3>2. n = 3 /\ q[n] = Flag(1)
      BY <1>2, <1>5, <3>1
    <3>3. w[3] = Flag(1)
      BY <1>1, <3>1
    <3> QED
      BY <2>3, <3>2, <3>3
  <2> QED
    BY <2>1, <2>2, <2>3
<1>7. Starts(w, q)
  <2>1. SubSeq(q, 1, m) \in Seq(Elements) /\ Len(SubSeq(q, 1, m)) = m
        /\ \A i \in 1..m : SubSeq(q, 1, m)[i] = q[i]
    <3> HIDE DEF m
    <3>1. 1 \in Int /\ m \in Int /\ m \in Nat /\ \A i \in 1..m : q[i] \in Elements
      <4>1. n \in Nat /\ m \in Nat /\ m <= n
        BY <1>4, <1>5
      <4> QED
        BY <1>2, <4>1
    <3>2. /\ SubSeq(q, 1, m) \in Seq(Elements)
          /\ Len(SubSeq(q, 1, m)) = IF 1 <= m THEN m - 1 + 1 ELSE 0
          /\ \A i \in 1..m - 1 + 1 : SubSeq(q, 1, m)[i] = q[1 + i - 1]
      BY <3>1, SubSeqProperties
    <3>3. \A i \in 1..m : i \in 1..m - 1 + 1 /\ 1 + i - 1 = i
      BY <3>1
    <3> QED
      BY <3>1, <3>2, <3>3
  <2>2. SubSeq(q, 1, m) = w
    BY <1>1, <1>6, <2>1, SeqEqual
  <2> QED
    BY <1>5, <2>2 DEF Starts
<1>8. r \in Seq(Elements) /\ Len(r) = n - m /\ \A i \in 1..n - m : r[i] = q[m + i]
  <2>1. n \in Nat /\ m \in Nat /\ m <= n
    BY <1>4, <1>5
  <2>2. \A i \in m + 1..n : q[i] \in Elements
    BY <1>2, <2>1
  <2> HIDE DEF m, n
  <2>3. m + 1 \in Int /\ n \in Int
    BY <2>1
  <2>4. /\ r \in Seq(Elements) /\ Len(r) = IF m + 1 <= n THEN n - (m + 1) + 1 ELSE 0
        /\ \A i \in 1..n - (m + 1) + 1 : r[i] = q[(m + 1) + i - 1]
    BY <2>2, <2>3, SubSeqProperties
  <2> HIDE DEF r
  <2>5. \A i \in 1..n - m : i \in 1..n - (m + 1) + 1 /\ (m + 1) + i - 1 = m + i
    BY <2>1
  <2> QED
    BY <2>1, <2>4, <2>5
<1> HIDE DEF r, m, n
<1>9. Carries(r, E, a + 1, b, end)
  <2>1. ASSUME NEW u \in a + 1..b - 1
        PROVE  /\ r[2 * (u - (a + 1)) + 1] = CtuData(E[u], u)
               /\ r[2 * (u - (a + 1)) + 2] = Flag(IF u + 1 = end THEN 1 ELSE 0)
    <3>1. a + 1 < b /\ u \in a..b - 1
      BY <2>1
    <3>2. m = 2 /\ n = 2 * (b - a) + Closing(a, b, end)
      BY <1>2, <1>5, <3>1
    <3>3. /\ 2 * (u - (a + 1)) + 1 \in 1..n - m /\ 2 * (u - (a + 1)) + 2 \in 1..n - m
          /\ m + (2 * (u - (a + 1)) + 1) = 2 * (u - a) + 1
          /\ m + (2 * (u - (a + 1)) + 2) = 2 * (u - a) + 2
      BY <1>4, <2>1, <3>2
    <3>4. r[2 * (u - (a + 1)) + 1] = q[2 * (u - a) + 1] /\ r[2 * (u - (a + 1)) + 2] = q[2 * (u - a) + 2]
      <4> DEFINE i == 2 * (u - (a + 1)) + 1
                 j == 2 * (u - (a + 1)) + 2
                 x == 2 * (u - a) + 1
                 y == 2 * (u - a) + 2
      <4>1. i \in 1..n - m /\ j \in 1..n - m /\ m + i = x /\ m + j = y
        BY <3>3
      <4> HIDE DEF i, j, x, y
      <4>2. r[i] = q[m + i] /\ r[j] = q[m + j]
        BY <1>8, <4>1
      <4>3. r[i] = q[x] /\ r[j] = q[y]
        BY <4>1, <4>2
      <4> QED
        BY <4>3 DEF i, j, x, y
    <3> QED
      BY <1>2, <3>1, <3>4
  <2>2. Closing(a + 1, b, end) = 1 => r[Len(r)] = Flag(1)
    <3> SUFFICES ASSUME Closing(a + 1, b, end) = 1
                 PROVE  r[Len(r)] = Flag(1)
      OBVIOUS
    <3>1. a + 1 < b /\ m = 2 /\ Closing(a, b, end) = 1
      BY <1>5
    <3>2. n - m \in 1..n - m /\ m + (n - m) = n
      BY <1>4, <1>5, <3>1
    <3> QED
      BY <1>2, <1>8, <3>1, <3>2
  <2>3. Len(r) = 2 * (b - (a + 1)) + Closing(a + 1, b, end)
    BY <1>5, <1>8
  <2> QED
    BY <1>8, <2>1, <2>2, <2>3 DEF Carries
<1> QED
  BY <1>3, <1>7, <1>9, Zenon DEF r, m, n, w, isLast, Loses

(* The substreams joined, and taken apart. *)
IsJoined(f, g, first, n) ==
  f = [i \in 0..n |-> IF i = 0 THEN << >> ELSE f[i - 1] \o g[first + i - 1]]

AreStreams(g, first, n) == \A i \in 1..n : g[first + i - 1] \in Seq(Elements)

Joins(f, g, first, n) ==
  /\ f[0] = << >>
  /\ \A i \in 0..n : f[i] \in Seq(Elements)
  /\ \A i \in 1..n : f[i] = f[i - 1] \o g[first + i - 1]

LEMMA JoinedLemma ==
  ASSUME NEW n \in Nat, NEW first \in Nat, NEW g, AreStreams(g, first, n)
  PROVE  \E f : Joined(g, first, n) = f[n] /\ Joins(f, g, first, n)
<1> USE DEF AreStreams, Joins
<1> DEFINE S == Seq(Elements)
           step == [i \in 1..n |-> [q \in S |-> q \o g[first + i - 1]]]
           J == CHOOSE f : IsJoined(f, g, first, n)
<1>1. step \in [1..n -> [S -> S]]
  <2>1. \A i \in 1..n : \A q \in S : q \o g[first + i - 1] \in S
    <3> TAKE i \in 1..n
    <3> TAKE q \in S
    <3> QED
      BY ConcatProperties
  <2> HIDE DEF S
  <2> QED
    BY <2>1
<1>2. << >> \in S
  OBVIOUS
<1>3. PICK h : IsRecursive(h, n, S, << >>, step)
  <2> HIDE DEF S, step
  <2> QED
    BY <1>1, <1>2, Recursion, Zenon
<1>4. h \in [0..n -> S] /\ h[0] = << >> /\ \A i \in 1..n : h[i] = step[i][h[i - 1]]
  <2> HIDE DEF S, step
  <2> QED
    BY <1>3, Zenon DEF IsRecursive
<1>5. IsJoined(h, g, first, n)
  <2>1. \A i \in 0..n : h[i] = IF i = 0 THEN << >> ELSE h[i - 1] \o g[first + i - 1]
    <3> TAKE i \in 0..n
    <3>1. CASE i = 0
      BY <1>4, <3>1
    <3>2. CASE i # 0
      <4>1. i \in 1..n /\ i - 1 \in 0..n
        BY <3>2
      <4>2. h[i - 1] \in S /\ h[i] = step[i][h[i - 1]]
        BY <1>4, <4>1
      <4> HIDE DEF S
      <4> QED
        BY <3>2, <4>1, <4>2
    <3> QED
      BY <3>1, <3>2
  <2>2. h = [i \in 0..n |-> h[i]]
    BY <1>4
  <2>3. [i \in 0..n |-> h[i]] = [i \in 0..n |-> IF i = 0 THEN << >> ELSE h[i - 1] \o g[first + i - 1]]
    BY <2>1, Zenon
  <2> QED
    BY <2>2, <2>3, Zenon DEF IsJoined
<1>6. IsJoined(J, g, first, n)
  BY <1>5, Zenon
<1>7. Joined(g, first, n) = J[n]
  BY Zenon DEF Joined, IsJoined
<1> HIDE DEF J
<1>8. \A i \in 0..n : J[i] = IF i = 0 THEN << >> ELSE J[i - 1] \o g[first + i - 1]
  <2> SUFFICES ASSUME NEW i \in 0..n
               PROVE  J[i] = IF i = 0 THEN << >> ELSE J[i - 1] \o g[first + i - 1]
    OBVIOUS
  <2> DEFINE F == [k \in 0..n |-> IF k = 0 THEN << >> ELSE J[k - 1] \o g[first + k - 1]]
  <2>1. J = F
    BY <1>6, Zenon DEF IsJoined
  <2>2. F[i] = IF i = 0 THEN << >> ELSE J[i - 1] \o g[first + i - 1]
    BY Zenon
  <2> HIDE DEF F
  <2> QED
    BY <2>1, <2>2, Zenon
<1>9. J[0] = << >>
  <2>1. 0 \in 0..n
    OBVIOUS
  <2> QED
    BY <1>8, <2>1
<1>10. \A i \in 1..n : J[i] = J[i - 1] \o g[first + i - 1]
  <2> TAKE i \in 1..n
  <2>1. i \in 0..n /\ i # 0
    OBVIOUS
  <2> QED
    BY <1>8, <2>1
<1> DEFINE P == {i \in 0..n : J[i] \in S}
<1>11. 0 \in P
  <2>0. 0 \in 0..n
    OBVIOUS
  <2>1. 0 \in 0..n /\ J[0] \in S
    BY <1>2, <1>9, <2>0, Zenon
  <2> QED
    BY <2>1, Zenon
<1>12. \A i \in 0..n - 1 : i \in P => i + 1 \in P
  <2> SUFFICES ASSUME NEW i \in 0..n - 1, i \in P PROVE i + 1 \in P
    OBVIOUS
  <2>1. i + 1 \in 1..n /\ i + 1 \in 0..n /\ (i + 1) - 1 = i
    OBVIOUS
  <2>2. J[i + 1] = J[i] \o g[first + (i + 1) - 1] /\ g[first + (i + 1) - 1] \in S /\ J[i] \in S
    <3>1. J[i + 1] = J[(i + 1) - 1] \o g[first + (i + 1) - 1]
      BY <1>10, <2>1
    <3>2. g[first + (i + 1) - 1] \in S
      BY <2>1
    <3> QED
      BY <2>1, <3>1, <3>2, Zenon
  <2>3. J[i] \o g[first + (i + 1) - 1] \in S
    BY <2>2, ConcatProperties, Zenon
  <2> QED
    BY <2>1, <2>2, <2>3
<1> HIDE DEF P
<1>13. \A i \in 0..n : i \in P
  BY <1>11, <1>12, Induction, Zenon
<1>14. \A i \in 0..n : J[i] \in Seq(Elements)
  BY <1>13 DEF P
<1> QED
  BY <1>7, <1>9, <1>10, <1>14

LEMMA PrefixLemma ==
  ASSUME NEW n \in Nat, NEW f, NEW g, NEW first \in Nat, AreStreams(g, first, n), Joins(f, g, first, n),
         NEW i \in 0..n
  PROVE  Len(f[i]) <= Len(f[n]) /\ \A x \in 1..Len(f[i]) : f[n][x] = f[i][x]
<1> USE DEF AreStreams, Joins
<1> DEFINE P == {d \in 0..n - i : Len(f[i]) <= Len(f[i + d]) /\ \A x \in 1..Len(f[i]) : f[i + d][x] = f[i][x]}
<1>1. 0 \in P
  <2>1. i + 0 = i /\ 0 \in 0..n - i /\ f[i] \in Seq(Elements)
    OBVIOUS
  <2>2. Len(f[i]) <= Len(f[i])
    BY <2>1
  <2> QED
    BY <2>1, <2>2
<1>2. \A d \in 0..(n - i) - 1 : d \in P => d + 1 \in P
  <2> SUFFICES ASSUME NEW d \in 0..(n - i) - 1, d \in P PROVE d + 1 \in P
    OBVIOUS
  <2> DEFINE k == i + d
             s == f[k]
             t == g[first + (k + 1) - 1]
             r == f[k + 1]
  <2>1. k \in 0..n /\ k + 1 \in 1..n /\ i + (d + 1) = k + 1 /\ d + 1 \in 0..n - i /\ (k + 1) - 1 = k
        /\ k + 1 \in 0..n
    OBVIOUS
  <2>2. s \in Seq(Elements) /\ t \in Seq(Elements) /\ f[i] \in Seq(Elements) /\ r \in Seq(Elements)
    BY <2>1
  <2>3. r = s \o t
    <3>1. r = f[(k + 1) - 1] \o t
      BY <2>1
    <3> QED
      BY <2>1, <3>1, Zenon
  <2>4. Len(f[i]) <= Len(s) /\ \A x \in 1..Len(f[i]) : s[x] = f[i][x]
    OBVIOUS
  <2> HIDE DEF s, t, r
  <2>5. Len(r) = Len(s) + Len(t) /\ \A x \in 1..Len(s) + Len(t) : r[x] = IF x <= Len(s) THEN s[x] ELSE t[x - Len(s)]
    <3>1. /\ Len(s \o t) = Len(s) + Len(t)
          /\ \A x \in 1..Len(s) + Len(t) : (s \o t)[x] = IF x <= Len(s) THEN s[x] ELSE t[x - Len(s)]
      BY <2>2, ConcatProperties
    <3> QED
      BY <2>3, <3>1, Zenon
  <2>6. Len(s) \in Nat /\ Len(t) \in Nat /\ Len(f[i]) \in Nat
    BY <2>2
  <2>7. Len(f[i]) <= Len(r)
    BY <2>4, <2>5, <2>6
  <2>8. \A x \in 1..Len(f[i]) : r[x] = f[i][x]
    <3> TAKE x \in 1..Len(f[i])
    <3>1. x \in 1..Len(s) + Len(t) /\ x <= Len(s)
      BY <2>4, <2>6
    <3> QED
      BY <2>4, <2>5, <3>1
  <2> HIDE DEF k
  <2>9. Len(f[i]) <= Len(f[i + (d + 1)]) /\ \A x \in 1..Len(f[i]) : f[i + (d + 1)][x] = f[i][x]
    BY <2>1, <2>7, <2>8, Zenon DEF r
  <2> QED
    BY <2>1, <2>9
<1>3. n - i \in Nat /\ i + (n - i) = n /\ n - i \in 0..n - i
  OBVIOUS
<1> HIDE DEF P
<1>4. n - i \in P
  BY <1>1, <1>2, <1>3, Induction, Zenon
<1>5. Len(f[i]) <= Len(f[i + (n - i)]) /\ \A x \in 1..Len(f[i]) : f[i + (n - i)][x] = f[i][x]
  BY <1>4 DEF P
<1> QED
  BY <1>3, <1>5, Zenon

WrittenAs(nal, g, first, n) ==
  /\ nal.data = Joined(g, first, n) /\ Len(nal.sizes) = n - 1
  /\ \A i \in 1..n - 1 : nal.sizes[i] = Len(g[first + i - 1])

ExtractedAs(nal, g, first, n) ==
  nal.data \in Seq(Elements) /\ Extracted(nal) = [i \in 1..n |-> g[first + i - 1]]

LEMMA ExtractedLemma ==
  ASSUME NEW n \in Nat, n >= 1, NEW first \in Nat, NEW g, AreStreams(g, first, n),
         NEW nal, WrittenAs(nal, g, first, n)
  PROVE  ExtractedAs(nal, g, first, n)
<1>a. PICK f : Joined(g, first, n) = f[n] /\ Joins(f, g, first, n)
  BY JoinedLemma
<1> USE DEF AreStreams, WrittenAs
<1>1. /\ Joined(g, first, n) = f[n] /\ f[0] = << >>
      /\ \A i \in 0..n : f[i] \in Seq(Elements)
      /\ \A i \in 1..n : f[i] = f[i - 1] \o g[first + i - 1]
  BY <1>a, Zenon DEF Joins
<1>2. \A i \in 1..n : Len(f[i]) = Len(f[i - 1]) + Len(g[first + i - 1])
                      /\ Len(f[i - 1]) \in Nat /\ Len(f[i]) \in Nat
                      /\ Len(g[first + i - 1]) \in Nat
                      /\ \A x \in 1..Len(g[first + i - 1]) : f[i][Len(f[i - 1]) + x] = g[first + i - 1][x]
  <2> TAKE i \in 1..n
  <2> DEFINE s == f[i - 1]
             t == g[first + i - 1]
  <2>1. i \in 0..n /\ i - 1 \in 0..n
    OBVIOUS
  <2>2. s \in Seq(Elements) /\ t \in Seq(Elements) /\ f[i] = s \o t
    BY <1>1, <2>1
  <2> HIDE DEF s, t
  <2>3. Len(s \o t) = Len(s) + Len(t)
        /\ \A x \in 1..Len(s) + Len(t) : (s \o t)[x] = IF x <= Len(s) THEN s[x] ELSE t[x - Len(s)]
    BY <2>2, ConcatProperties
  <2>4. Len(s) \in Nat /\ Len(t) \in Nat
    BY <2>2
  <2>5. \A x \in 1..Len(t) : (s \o t)[Len(s) + x] = t[x]
    <3> TAKE x \in 1..Len(t)
    <3>1. Len(s) + x \in 1..Len(s) + Len(t) /\ ~(Len(s) + x <= Len(s)) /\ (Len(s) + x) - Len(s) = x
      BY <2>4
    <3>2. (s \o t)[Len(s) + x] = t[(Len(s) + x) - Len(s)]
      BY <2>3, <3>1, Zenon
    <3> QED
      BY <3>1, <3>2, Zenon
  <2>6. Len(f[i]) \in Nat
    BY <2>2, <2>3, <2>4
  <2> QED
    BY <2>2, <2>3, <2>4, <2>5, <2>6, Zenon DEF s, t
<1> DEFINE m == Len(nal.sizes)
           IsFrom(h) == h = [i \in 1..m + 1 |-> IF i = 1 THEN 0 ELSE h[i - 1] + nal.sizes[i - 1]]
           from == CHOOSE h : IsFrom(h)
           d == nal.data
<1>3. m = n - 1 /\ m + 1 = n /\ d = f[n]
  BY <1>1
<1>4. Extracted(nal) = [i \in 1..m + 1 |->
                          SubSeq(d, from[i] + 1, IF i <= m THEN from[i + 1] ELSE Len(d))]
  BY Zenon DEF Extracted
<1>5. Len(f[0]) = 0
  BY <1>1
<1>6. \E h : IsFrom(h)
  <2> DEFINE h == [i \in 1..n |-> Len(f[i - 1])]
  <2>1. \A i \in 1..n : h[i] = IF i = 1 THEN 0 ELSE h[i - 1] + nal.sizes[i - 1]
    <3> TAKE i \in 1..n
    <3>1. CASE i = 1
      BY <1>5, <3>1
    <3>2. CASE i # 1
      <4>1. i - 1 \in 1..n /\ i - 1 \in 1..n - 1
        BY <3>2
      <4>2. Len(f[i - 1]) = Len(f[(i - 1) - 1]) + Len(g[first + (i - 1) - 1])
        BY <1>2, <4>1
      <4>3. nal.sizes[i - 1] = Len(g[first + (i - 1) - 1])
        BY <4>1
      <4>4. h[i] = Len(f[i - 1]) /\ h[i - 1] = Len(f[(i - 1) - 1])
        BY <4>1
      <4> QED
        BY <3>2, <4>2, <4>3, <4>4, Zenon
    <3> QED
      BY <3>1, <3>2
  <2>2. h = [i \in 1..n |-> h[i]]
    OBVIOUS
  <2>3. [i \in 1..n |-> h[i]] = [i \in 1..n |-> IF i = 1 THEN 0 ELSE h[i - 1] + nal.sizes[i - 1]]
    <3> HIDE DEF h
    <3> QED
      BY <2>1, Zenon
  <2>4. IsFrom(h)
    <3> HIDE DEF h, m
    <3> QED
      BY <1>3, <2>2, <2>3, Zenon
  <2> HIDE DEF IsFrom, h
  <2> QED
    BY <2>4
<1>7. IsFrom(from)
  <2> HIDE DEF IsFrom
  <2> QED
    BY <1>6, Zenon
<1> HIDE DEF from, m, d
<1>8. \A i \in 1..n : from[i] = IF i = 1 THEN 0 ELSE from[i - 1] + nal.sizes[i - 1]
  <2> TAKE i \in 1..n
  <2> DEFINE F == [k \in 1..n |-> IF k = 1 THEN 0 ELSE from[k - 1] + nal.sizes[k - 1]]
  <2>1. from = F
    BY <1>3, <1>7, Zenon
  <2>2. F[i] = IF i = 1 THEN 0 ELSE from[i - 1] + nal.sizes[i - 1]
    BY Zenon
  <2> HIDE DEF F
  <2> QED
    BY <2>1, <2>2, Zenon
<1> HIDE DEF IsFrom
<1> DEFINE P == {i \in 0..n - 1 : from[i + 1] = Len(f[i])}
<1>9. 0 \in P
  <2>1. 0 \in 0..n - 1 /\ 1 \in 1..n /\ 0 + 1 = 1
    OBVIOUS
  <2>2. from[1] = 0
    BY <1>8, <2>1
  <2> QED
    BY <1>5, <2>1, <2>2
<1>10. \A i \in 0..(n - 1) - 1 : i \in P => i + 1 \in P
  <2> SUFFICES ASSUME NEW i \in 0..(n - 1) - 1, i \in P PROVE i + 1 \in P
    OBVIOUS
  <2>1. /\ i + 1 \in 0..n - 1 /\ (i + 1) + 1 \in 1..n /\ (i + 1) + 1 # 1 /\ ((i + 1) + 1) - 1 = i + 1
        /\ i + 1 \in 1..n - 1 /\ i + 1 \in 1..n /\ (i + 1) - 1 = i
    OBVIOUS
  <2>2. from[(i + 1) + 1] = from[((i + 1) + 1) - 1] + nal.sizes[((i + 1) + 1) - 1]
    BY <1>8, <2>1, Zenon
  <2>3. nal.sizes[i + 1] = Len(g[first + (i + 1) - 1]) /\ from[i + 1] = Len(f[i])
    BY <2>1
  <2>4. Len(f[i + 1]) = Len(f[(i + 1) - 1]) + Len(g[first + (i + 1) - 1])
    BY <1>2, <2>1, Zenon
  <2>5. from[(i + 1) + 1] = Len(f[i + 1])
    BY <2>1, <2>2, <2>3, <2>4, Zenon
  <2> QED
    BY <2>1, <2>5
<1>11. \A i \in 0..n - 1 : from[i + 1] = Len(f[i])
  <2> HIDE DEF P
  <2>1. \A i \in 0..n - 1 : i \in P
    <3>1. n - 1 \in Nat
      OBVIOUS
    <3> QED
      BY <1>9, <1>10, <3>1, Induction, Zenon
  <2> QED
    BY <2>1 DEF P
<1>12. d \in Seq(Elements)
  <2>1. n \in 0..n
    OBVIOUS
  <2> QED
    BY <1>1, <1>3, <2>1
<1>13. \A i \in 1..n : SubSeq(d, from[i] + 1, IF i <= m THEN from[i + 1] ELSE Len(d)) = g[first + i - 1]
  <2> TAKE i \in 1..n
  <2> DEFINE a == Len(f[i - 1])
             b == Len(f[i])
             t == g[first + i - 1]
  <2>1. i - 1 \in 0..n - 1 /\ (i - 1) + 1 = i /\ i \in 0..n
    OBVIOUS
  <2>2. from[i] = a
    BY <1>11, <2>1, Zenon
  <2>3. (IF i <= m THEN from[i + 1] ELSE Len(d)) = b
    <3>1. CASE i <= m
      <4>1. i \in 0..n - 1
        BY <1>3, <3>1
      <4> QED
        BY <1>11, <3>1, <4>1, Zenon
    <3>2. CASE ~(i <= m)
      <4>1. i = n
        BY <1>3, <3>2
      <4> QED
        BY <1>3, <3>2, <4>1, Zenon
    <3> QED
      BY <3>1, <3>2
  <2>4. b <= Len(d) /\ \A x \in 1..b : d[x] = f[i][x]
    <3> HIDE DEF AreStreams
    <3>2. Len(f[i]) <= Len(f[n]) /\ \A x \in 1..Len(f[i]) : f[n][x] = f[i][x]
      BY <1>a, <2>1, PrefixLemma
    <3> QED
      BY <1>3, <3>2, Zenon
  <2>5. /\ b = a + Len(t) /\ a \in Nat /\ b \in Nat /\ Len(t) \in Nat
        /\ \A x \in 1..Len(t) : f[i][a + x] = t[x]
    BY <1>2, Zenon
  <2>6. t \in Seq(Elements)
    OBVIOUS
  <2> HIDE DEF a, b, t
  <2>7. \A x \in a + 1..b : d[x] \in Elements
    <3> TAKE x \in a + 1..b
    <3>1. x \in 1..Len(d)
      <4>1. Len(d) \in Nat
        BY <1>12
      <4> QED
        BY <2>4, <2>5, <4>1
    <3> QED
      BY <1>12, <3>1
  <2> DEFINE s == SubSeq(d, a + 1, b)
  <2>8. /\ s \in Seq(Elements) /\ Len(s) = IF a + 1 <= b THEN b - (a + 1) + 1 ELSE 0
        /\ \A x \in 1..b - (a + 1) + 1 : s[x] = d[(a + 1) + x - 1]
    <3>1. a + 1 \in Int /\ b \in Int
      BY <2>5
    <3> QED
      BY <2>7, <3>1, SubSeqProperties
  <2> HIDE DEF s
  <2>9. Len(s) = Len(t)
    BY <2>5, <2>8
  <2>10. \A x \in 1..Len(s) : s[x] = t[x]
    <3> TAKE x \in 1..Len(s)
    <3>1. /\ x \in 1..Len(t) /\ x \in 1..b - (a + 1) + 1 /\ (a + 1) + x - 1 = a + x /\ a + x \in 1..b
      BY <2>5, <2>9
    <3>2. s[x] = d[a + x] /\ d[a + x] = f[i][a + x] /\ f[i][a + x] = t[x]
      <4>1. s[x] = d[(a + 1) + x - 1]
        BY <2>8, <3>1, Zenon
      <4> QED
        BY <2>4, <2>5, <3>1, <4>1, Zenon
    <3> QED
      BY <3>2
  <2>11. s = t
    BY <2>6, <2>8, <2>9, <2>10, SeqEqual
  <2> QED
    BY <2>2, <2>3, <2>11, Zenon DEF s, t
<1>14. Extracted(nal) = [i \in 1..n |-> g[first + i - 1]]
  BY <1>3, <1>4, <1>13, Zenon
<1> QED
  BY <1>12, <1>14, Zenon DEF d, ExtractedAs

-----------------------------------------------------------------------------
(* What the final pass writes.                                             *)

(* The substreams q hold the CTUs of the segment s that lie before n.      *)
Contents(E, s, n, q) ==
  /\ q \in [0..NumSubstreams - 1 -> Seq(Elements)]
  /\ \A x \in 0..NumSubstreams - 1 : \A a : \A b :
       IsRun(s.start, n, x, a, b) => Carries(q[x], E, a, b, s.end)

(* z holds the sizes of the substreams that have ended.                    *)
Sized(s, n, q, z) ==
  /\ z \in Seq(Nat) /\ Len(z) = Substream(n) - Substream(s.start)
  /\ \A i \in 1..Len(z) : z[i] = Len(q[Substream(s.start) + i - 1])

NalUnits == [address : Addresses, dependent : BOOLEAN, sizes : Seq(Nat), data : Seq(Elements)]

(* The substreams of the segment s, from 1 on, hold its CTUs from n on.    *)
RunIn(q, E, n, end, x) ==
  q \in Seq(Elements) /\ \A a : \A b : IsRun(n, end, x, a, b) => Carries(q, E, a, b, end)

Remains(E, s, n, q) ==
  /\ DOMAIN q = 1..Substream(s.end - 1) - Substream(s.start) + 1
  /\ \A i \in DOMAIN q : RunIn(q[i], E, n, s.end, Substream(s.start) + i - 1)

(* A NAL unit carries a segment. *)
IsNal(E, s, nal) ==
  /\ nal \in NalUnits /\ nal.address = Rs(s.start) /\ nal.dependent = s.dependent
  /\ Remains(E, s, s.start, Extracted(nal))

(* The limits of a segment. *)
Spans(s) == s.start \in 0..N - 1 /\ s.end \in 1..N /\ s.start < s.end

LEMMA EmptyRun ==
  ASSUME NEW n \in Nat, NEW x, NEW a, NEW b, IsRun(n, n, x, a, b)
  PROVE  a = b /\ a \in Nat
<1>1. a \in Nat /\ b \in Nat /\ a <= b
  BY DEF IsRun
<1>2. a <= a /\ a < b <=> n <= a /\ a < n /\ Substream(a) = x
  BY <1>1 DEF IsRun
<1>3. ~(n <= a /\ a < n)
  BY <1>1
<1>4. ~(a <= a /\ a < b)
  BY <1>2, <1>3
<1> QED
  BY <1>1, <1>4

LEMMA WrittenNothing ==
  ASSUME GoodSym, NEW E, NEW s, Spans(s)
  PROVE  /\ Contents(E, s, s.start, [x \in 0..NumSubstreams - 1 |-> << >>])
         /\ \A q : Sized(s, s.start, q, << >>)
<1>1. s.start \in 0..N - 1 /\ s.start \in Nat
  BY DEF Spans
<1> DEFINE q == [x \in 0..NumSubstreams - 1 |-> << >>]
<1>2. q \in [0..NumSubstreams - 1 -> Seq(Elements)]
  OBVIOUS
<1>3. ASSUME NEW x \in 0..NumSubstreams - 1, NEW a, NEW b, IsRun(s.start, s.start, x, a, b)
      PROVE  Carries(q[x], E, a, b, s.end)
  <2>1. a = b /\ a \in Nat
    BY <1>1, <1>3, EmptyRun
  <2>2. q[x] = << >>
    OBVIOUS
  <2> HIDE DEF q
  <2>3. Carries(<< >>, E, a, a, s.end)
    BY <2>1, NothingCarried
  <2> QED
    BY <2>1, <2>2, <2>3, Zenon
<1>4. \A r : Sized(s, s.start, r, << >>)
  <2>1. Substream(s.start) \in Nat
    BY <1>1, SubstreamRange
  <2> QED
    BY <2>1 DEF Sized
<1> HIDE DEF q
<1>5. Contents(E, s, s.start, q)
  BY <1>2, <1>3, Zenon DEF Contents
<1> QED
  BY <1>4, <1>5, Zenon DEF q

(* One more CTU is written. *)
WritesMore(E, s, n, q, z) ==
  LET w == q[Substream(n)] \o Part(E[n], n, n + 1 = s.end)
      r == [q EXCEPT ![Substream(n)] = w]
  IN /\ Contents(E, s, n + 1, r)
     /\ n + 1 < s.end => Sized(s, n + 1, r, IF EndsSubstream(n) THEN Append(z, Len(w)) ELSE z)
     /\ \A i \in 1..Len(z) : z[i] = Len(r[Substream(s.start) + i - 1])

LEMMA WrittenMore ==
  ASSUME GoodSym, NEW E \in Histories, NEW s, Spans(s), NEW n \in 0..N - 1, s.start <= n, n < s.end,
         NEW q, NEW z, Contents(E, s, n, q), Sized(s, n, q, z)
  PROVE  WritesMore(E, s, n, q, z)
<1> DEFINE x == Substream(n)
           w == q[x] \o Part(E[n], n, n + 1 = s.end)
           r == [q EXCEPT ![x] = w]
           first == Substream(s.start)
           top == NumSubstreams - 1
<1>1. /\ N \in Nat /\ s.start \in 0..N - 1 /\ s.start \in Nat /\ s.end \in Nat /\ s.end <= N /\ n \in Nat
      /\ n \in Addresses
  <2>1. N \in Nat
    BY PictureLemma
  <2> QED
    BY <2>1 DEF Spans, Addresses
<1>2. x \in 0..top /\ first \in 0..top /\ first <= x /\ x \in Nat /\ first \in Nat /\ top \in Int
  BY <1>1, SubstreamRange, SubstreamOrder
<1>3. q \in [0..top -> Seq(Elements)]
  BY Zenon DEF Contents
<1>4. w \in Seq(Elements)
  <2>1. E[n] \in States
    BY DEF Histories
  <2>2. Part(E[n], n, n + 1 = s.end) \in Seq(Elements)
    <3> DEFINE l == n + 1 = s.end
    <3>1. l \in BOOLEAN
      OBVIOUS
    <3> HIDE DEF l
    <3>2. Part(E[n], n, l) \in Seq(Elements)
      BY <1>1, <2>1, <3>1, PartLemma
    <3> QED
      BY <3>2 DEF l
  <2>3. q[x] \in Seq(Elements)
    BY <1>2, <1>3
  <2> QED
    BY <2>2, <2>3, ConcatProperties
<1> HIDE DEF top
<1>5. /\ r \in [0..top -> Seq(Elements)] /\ r[x] = w
      /\ \A y \in 0..top : y # x => r[y] = q[y]
  <2> HIDE DEF w, x
  <2> QED
    BY <1>2, <1>3, <1>4
<1> HIDE DEF r
<1>6. ASSUME NEW y \in 0..top, NEW a, NEW b, IsRun(s.start, n + 1, y, a, b)
      PROVE  Carries(r[y], E, a, b, s.end)
  <2>1. CASE y # x
    <3>1. IsRun(s.start, n, y, a, b)
      BY <1>1, <1>6, <2>1, RunGrows
    <3>2. Carries(q[y], E, a, b, s.end)
      BY <1>6, <3>1, Zenon DEF Contents, top
    <3> QED
      BY <1>5, <2>1, <3>2
  <2>2. CASE y = x
    <3>1. /\ a \in Nat /\ b = n + 1 /\ a <= n /\ IsRun(s.start, n, x, a, n)
          /\ \A u \in a..n - 1 : ~EndsSubstream(u)
      BY <1>1, <1>6, <2>2, RunGrows
    <3>2. Carries(q[x], E, a, n, s.end)
      BY <1>2, <3>1, Zenon DEF Contents, top
    <3>3. E[n] \in States /\ n # s.end
      BY <1>1 DEF Histories
    <3>4. Carries(w, E, a, n + 1, s.end)
      BY <1>1, <3>1, <3>2, <3>3, CarriesMore
    <3> QED
      BY <1>5, <2>2, <3>1, <3>4
  <2> QED
    BY <2>1, <2>2
<1>7. Contents(E, s, n + 1, r)
  BY <1>5, <1>6, Zenon DEF Contents, top
<1>8. z \in Seq(Nat) /\ Len(z) = x - first /\ \A i \in 1..Len(z) : z[i] = Len(q[first + i - 1])
  BY Zenon DEF Sized
<1>9. \A i \in 1..Len(z) : z[i] = Len(r[first + i - 1])
  <2> TAKE i \in 1..Len(z)
  <2>1. first + i - 1 \in 0..top /\ first + i - 1 # x
    <3> HIDE DEF x, first
    <3> QED
      BY <1>2, <1>8
  <2>2. r[first + i - 1] = q[first + i - 1]
    BY <1>5, <2>1
  <2> QED
    BY <1>8, <2>2
<1>10. ASSUME n + 1 < s.end
       PROVE  Sized(s, n + 1, r, IF EndsSubstream(n) THEN Append(z, Len(w)) ELSE z)
  <2>1. Substream(n + 1) = x + (IF EndsSubstream(n) THEN 1 ELSE 0)
    <3>1. n + 1 < N
      BY <1>1, <1>10
    <3> QED
      BY <3>1, SubstreamStep
  <2>2. CASE EndsSubstream(n)
    <3> HIDE DEF w
    <3>1. Len(w) \in Nat
      BY <1>4
    <3> DEFINE v == Append(z, Len(w))
               m == Len(z)
    <3>2. v \in Seq(Nat) /\ Len(v) = m + 1 /\ v[m + 1] = Len(w) /\ m \in Nat
          /\ \A i \in 1..m : v[i] = z[i]
      BY <1>8, <3>1, AppendProperties
    <3> HIDE DEF v
    <3>3. \A i \in 1..Len(v) : v[i] = Len(r[first + i - 1])
      <4> TAKE i \in 1..Len(v)
      <4>1. CASE i \in 1..m
        BY <1>9, <3>2, <4>1
      <4>2. CASE i = m + 1
        <5>1. first + i - 1 = x
          <6> HIDE DEF x, first
          <6> QED
            BY <1>2, <1>8, <4>2 DEF m
        <5> QED
          BY <1>5, <3>2, <4>2, <5>1
      <4> QED
        BY <3>2, <4>1, <4>2
    <3>4. Len(v) = Substream(n + 1) - first
      <4>1. Substream(n + 1) = x + 1
        BY <2>1, <2>2
      <4> HIDE DEF x, first
      <4> QED
        BY <1>2, <1>8, <3>2, <4>1 DEF m
    <3>5. Sized(s, n + 1, r, v)
      BY <3>2, <3>3, <3>4, Zenon DEF Sized
    <3> QED
      BY <2>2, <3>5 DEF v
  <2>3. CASE ~EndsSubstream(n)
    <3>1. Substream(n + 1) = x
      <4>1. Substream(n + 1) = x + 0
        BY <2>1, <2>3
      <4> QED
        BY <1>2, <4>1
    <3>2. Sized(s, n + 1, r, z)
      BY <1>8, <1>9, <3>1, Zenon DEF Sized
    <3> QED
      BY <2>3, <3>2
  <2> QED
    BY <2>2, <2>3
<1> QED
  BY <1>7, <1>9, <1>10, Zenon DEF r, WritesMore

LEMMA RsLemma ==
  ASSUME GoodSym, NEW ts \in 0..N - 1
  PROVE  Rs(ts) \in 0..N - 1 /\ Rs(ts) \in Addresses /\ RsToTs(Rs(ts)) = ts
<1>1. IsPicture(picture) /\ N = NumCtus(picture) /\ picSym = PicSymOf(picture) /\ N \in Nat
  BY PictureLemma DEF GoodSym, picture
<1>2. Rs(ts) \in 0..N - 1 /\ Ordinal(picture, Rs(ts)) = ts
  BY CtuLemma
<1>3. picSym.rsToTs[Rs(ts)] = Ordinal(picture, Rs(ts))
  BY <1>1, <1>2, PicSymLemma
<1> QED
  BY <1>1, <1>2, <1>3 DEF RsToTs, Addresses

LEMMA PairLemma ==
  ASSUME NEW S, NEW a \in S, NEW b \in S
  PROVE  /\ <<a>> \in Seq(S) /\ <<a, b>> \in Seq(S)
         /\ <<a>> \o <<b>> = <<a, b>>
<1> DEFINE s == <<a>>
           t == <<b>>
           w == <<a, b>>
<1>1. /\ s \in Seq(S) /\ t \in Seq(S) /\ w \in Seq(S)
      /\ Len(s) = 1 /\ Len(t) = 1 /\ Len(w) = 2 /\ s[1] = a /\ t[1] = b /\ w[1] = a /\ w[2] = b
  OBVIOUS
<1> HIDE DEF s, t, w
<1>2. /\ s \o t \in Seq(S) /\ Len(s \o t) = Len(s) + Len(t)
      /\ \A i \in 1..Len(s) + Len(t) : (s \o t)[i] = IF i <= Len(s) THEN s[i] ELSE t[i - Len(s)]
  BY <1>1, ConcatProperties
<1>3. \A i \in 1..Len(s \o t) : (s \o t)[i] = w[i]
  BY <1>1, <1>2
<1>4. s \o t = w
  BY <1>1, <1>2, <1>3, SeqEqual
<1> QED
  BY <1>1, <1>4 DEF s, t, w

(* What encodeSlice() writes for a CTU is its part. *)
LEMMA WrittenLemma ==
  ASSUME NEW c \in States, NEW u \in Addresses, NEW old \in Seq(Elements), NEW isLast \in BOOLEAN
  PROVE  old \o <<CtuData(c, u)>> \o (IF isLast THEN << >> ELSE <<Flag(0)>>)
           \o (IF isLast \/ EndsSubstream(u) THEN <<Flag(1)>> ELSE << >>)
         = old \o Part(c, u, isLast)
<1> DEFINE x == CtuData(c, u)
           f == Flag(0)
           g == Flag(1)
<1>1. x \in Elements /\ f \in Elements /\ g \in Elements
  BY ElementsLemma
<1>2. Part(c, u, isLast) = <<x, IF isLast THEN g ELSE f>>
                             \o (IF ~isLast /\ EndsSubstream(u) THEN <<g>> ELSE << >>)
  BY DEF Part
<1> HIDE DEF x, f, g
<1>3. /\ <<x>> \in Seq(Elements) /\ <<f>> \in Seq(Elements) /\ <<g>> \in Seq(Elements)
      /\ << >> \in Seq(Elements) /\ <<x, g>> \in Seq(Elements) /\ <<x, f>> \in Seq(Elements)
      /\ <<x>> \o <<g>> = <<x, g>> /\ <<x>> \o <<f>> = <<x, f>>
  BY <1>1, PairLemma
<1>4. old \o <<x>> \in Seq(Elements)
  BY <1>3, ConcatProperties
<1>5. ASSUME NEW e \in {f, g} PROVE (old \o <<x>>) \o <<e>> = old \o <<x, e>>
  <2>1. <<e>> \in Seq(Elements) /\ <<x>> \o <<e>> = <<x, e>>
    BY <1>3
  <2>2. (old \o <<x>>) \o <<e>> = old \o (<<x>> \o <<e>>)
    BY <1>3, <2>1, ConcatAssociative
  <2> QED
    BY <2>1, <2>2
<1>6. CASE isLast
  <2>1. (old \o <<x>>) \o << >> = old \o <<x>>
    BY <1>3, <1>4, ConcatEmptySeq
  <2>2. <<x, g>> \o << >> = <<x, g>>
    BY <1>3, ConcatEmptySeq
  <2>3. Part(c, u, isLast) = <<x, g>>
    BY <1>2, <1>6, <2>2
  <2>4. (old \o <<x>>) \o <<g>> = old \o <<x, g>>
    BY <1>5
  <2> QED
    BY <1>6, <2>1, <2>3, <2>4 DEF x, f, g
<1>7. CASE ~isLast /\ EndsSubstream(u)
  <2>1. (old \o <<x>>) \o <<f>> = old \o <<x, f>>
    BY <1>5
  <2>2. (old \o <<x, f>>) \o <<g>> = old \o (<<x, f>> \o <<g>>)
    BY <1>3, ConcatAssociative
  <2>3. Part(c, u, isLast) = <<x, f>> \o <<g>>
    BY <1>2, <1>7
  <2> QED
    BY <1>7, <2>1, <2>2, <2>3 DEF x, f, g
<1>8. CASE ~isLast /\ ~EndsSubstream(u)
  <2>1. (old \o <<x>>) \o <<f>> = old \o <<x, f>>
    BY <1>5
  <2>2. old \o <<x, f>> \in Seq(Elements)
    BY <1>3, ConcatProperties
  <2>3. (old \o <<x, f>>) \o << >> = old \o <<x, f>>
    BY <2>2, ConcatEmptySeq
  <2>4. <<x, f>> \o << >> = <<x, f>>
    BY <1>3, ConcatEmptySeq
  <2>5. Part(c, u, isLast) = <<x, f>>
    BY <1>2, <1>8, <2>4
  <2> QED
    BY <1>8, <2>1, <2>3, <2>5 DEF x, f, g
<1> QED
  BY <1>6, <1>7, <1>8

(* The NAL unit of a segment that has been written. *)
LEMMA NalLemma ==
  ASSUME GoodSym, NEW E, NEW s, Spans(s), s.dependent \in BOOLEAN,
         NEW r, Contents(E, s, s.end, r),
         NEW z \in Seq(Nat), Len(z) = Substream(s.end - 1) - Substream(s.start),
         \A i \in 1..Len(z) : z[i] = Len(r[Substream(s.start) + i - 1]),
         NEW nal, nal = [address |-> Rs(s.start), dependent |-> s.dependent, sizes |-> z,
                         data |-> Joined(r, Substream(s.start), Len(z) + 1)]
  PROVE  IsNal(E, s, nal)
<1> DEFINE first == Substream(s.start)
           n == Substream(s.end - 1) - first + 1
           top == NumSubstreams - 1
           q == Extracted(nal)
<1>1. /\ N \in Nat /\ s.start \in 0..N - 1 /\ s.end - 1 \in 0..N - 1 /\ s.start <= s.end - 1
  <2>1. N \in Nat
    BY PictureLemma
  <2> QED
    BY <2>1 DEF Spans
<1>2. /\ first \in Nat /\ Substream(s.end - 1) \in Nat /\ first <= Substream(s.end - 1)
      /\ Substream(s.end - 1) \in 0..top /\ top \in Int
  <2>1. /\ first \in Nat /\ Substream(s.end - 1) \in Nat
        /\ Substream(s.end - 1) \in 0..NumSubstreams - 1 /\ NumSubstreams \in Nat
    BY <1>1, SubstreamRange
  <2>2. first <= Substream(s.end - 1)
    BY <1>1, SubstreamOrder
  <2> QED
    BY <2>1, <2>2
<1>3. r \in [0..top -> Seq(Elements)]
  BY Zenon DEF Contents
<1>4. n \in Nat /\ n >= 1 /\ Len(z) = n - 1 /\ Len(z) + 1 = n
      /\ \A i \in 1..n : first + i - 1 \in 0..top
  <2> HIDE DEF first, top
  <2> QED
    BY <1>2 DEF first
<1> HIDE DEF top, n
<1>5. \A i \in 1..n : r[first + i - 1] \in Seq(Elements)
  BY <1>3, <1>4
<1>6. /\ nal.address = Rs(s.start) /\ nal.dependent = s.dependent /\ nal.sizes = z
      /\ nal.data = Joined(r, first, n)
  BY <1>4
<1>7. nal.data \in Seq(Elements) /\ q = [i \in 1..n |-> r[first + i - 1]]
  <2>1. Len(nal.sizes) = n - 1 /\ \A i \in 1..n - 1 : nal.sizes[i] = Len(r[first + i - 1])
    BY <1>4, <1>6
  <2> HIDE DEF first
  <2>2. AreStreams(r, first, n) /\ WrittenAs(nal, r, first, n)
    BY <1>5, <1>6, <2>1, Zenon DEF AreStreams, WrittenAs
  <2>3. ExtractedAs(nal, r, first, n)
    BY <1>2, <1>4, <2>2, ExtractedLemma
  <2> QED
    BY <2>3, Zenon DEF ExtractedAs
<1>8. nal \in NalUnits
  <2>1. Rs(s.start) \in Addresses
    BY <1>1, RsLemma
  <2> QED
    BY <1>6, <1>7, <2>1 DEF NalUnits
<1> HIDE DEF q
<1>9. ASSUME NEW i \in 1..n, NEW a, NEW b, IsRun(s.start, s.end, first + i - 1, a, b)
      PROVE  Carries(q[i], E, a, b, s.end)
  <2>1. first + i - 1 \in 0..top /\ q[i] = r[first + i - 1]
    BY <1>4, <1>7
  <2>2. Carries(r[first + i - 1], E, a, b, s.end)
    BY <1>9, <2>1, Zenon DEF Contents, top
  <2> QED
    BY <2>1, <2>2
<1>10. DOMAIN q = 1..n /\ \A i \in 1..n : q[i] \in Seq(Elements)
  BY <1>5, <1>7
<1> HIDE DEF first
<1>11. Remains(E, s, s.start, q)
  BY <1>9, <1>10, Zenon DEF Remains, RunIn, n, first
<1> QED
  BY <1>6, <1>8, <1>11, Zenon DEF IsNal, q

LEMMA FixedData ==
  ASSUME UNCHANGED fixedVars, NEW E, NEW s, NEW n, NEW m, NEW x, NEW a, NEW b, NEW q, NEW z, NEW nal
  PROVE  /\ IsRun(n, m, x, a, b)' <=> IsRun(n, m, x, a, b)
         /\ Carries(q, E, a, b, n)' <=> Carries(q, E, a, b, n)
         /\ Contents(E, s, n, q)' <=> Contents(E, s, n, q)
         /\ Sized(s, n, q, z)' <=> Sized(s, n, q, z)
         /\ Remains(E, s, n, q)' <=> Remains(E, s, n, q)
         /\ IsNal(E, s, nal)' <=> IsNal(E, s, nal)
         /\ NumSubstreams' = NumSubstreams /\ NalUnits' = NalUnits /\ Elements' = Elements
<1>1. layout' = layout /\ picSym' = picSym /\ wavefronts' = wavefronts /\ picture' = picture
  BY FixedPlaces
<1>2. NumSubstreams' = NumSubstreams
  BY <1>1, Zenon DEF NumSubstreams
<1>3. Addresses' = Addresses /\ States' = States
  BY FixedTypes
<1>4. Elements' = Elements
  BY <1>3, Zenon DEF Elements
<1>5. NalUnits' = NalUnits
  BY <1>3, <1>4, Zenon DEF NalUnits
<1>6. \A u : Substream(u)' = Substream(u) /\ (EndsSubstream(u)' <=> EndsSubstream(u)) /\ Rs(u)' = Rs(u)
  BY FixedPlaces
<1>7. \A i : \A j : \A y : \A c : \A d : IsRun(i, j, y, c, d)' <=> IsRun(i, j, y, c, d)
  <2>1. \A u : Substream(u)' = Substream(u)
    BY <1>6, Zenon
  <2> TAKE i
  <2> TAKE j
  <2> TAKE y
  <2> TAKE c
  <2> TAKE d
  <2> QED
    BY <2>1 DEF IsRun
<1>8. \A c : \A d : \A e : Closing(c, d, e)' = Closing(c, d, e)
  <2> TAKE c
  <2> TAKE d
  <2> TAKE e
  <2>1. EndsSubstream(d - 1)' <=> EndsSubstream(d - 1)
    BY <1>6, Zenon
  <2> QED
    BY <2>1, Zenon DEF Closing
<1>9. \A p : \A c : \A d : \A e : Carries(p, E, c, d, e)' <=> Carries(p, E, c, d, e)
  <2> TAKE p
  <2> TAKE c
  <2> TAKE d
  <2> TAKE e
  <2>1. Closing(c, d, e)' = Closing(c, d, e)
    BY <1>8, Zenon
  <2> QED
    BY <1>4, <2>1 DEF Carries
<1>10. Contents(E, s, n, q)' <=> Contents(E, s, n, q)
  BY <1>2, <1>4, <1>7, <1>9, Zenon DEF Contents
<1>11. Sized(s, n, q, z)' <=> Sized(s, n, q, z)
  BY <1>6, Zenon DEF Sized
<1>12. \A r : \A i : \A p : Remains(E, r, i, p)' <=> Remains(E, r, i, p)
  <2> TAKE r
  <2> TAKE i
  <2> TAKE p
  <2>1. Substream(r.start)' = Substream(r.start) /\ Substream(r.end - 1)' = Substream(r.end - 1)
    BY <1>6, Zenon
  <2>2. \A j : \A y : RunIn(p[j], E, i, r.end, y)' <=> RunIn(p[j], E, i, r.end, y)
    BY <1>4, <1>7, <1>9, Zenon DEF RunIn
  <2> QED
    BY <2>1, <2>2 DEF Remains
<1>13. IsNal(E, s, nal)' <=> IsNal(E, s, nal)
  BY <1>5, <1>6, <1>12, Zenon DEF IsNal
<1> QED
  BY <1>2, <1>4, <1>5, <1>7, <1>9, <1>10, <1>11, <1>12, <1>13, Zenon

(* What the encoder has written: the NAL units of the segments that are    *)
(* complete, and the substreams of the one it works on.                    *)
Written == IF phase \in {"encodeSlice", "encodeCtu"} THEN index - 1 ELSE Len(segments)

HasWritten(E, n) ==
  /\ nals \in Seq(NalUnits) /\ Len(nals) = n
  /\ \A i \in 1..n : IsNal(E, segments[i], nals[i])

WritesAt(E) ==
  /\ HasWritten(E, Written)
  /\ phase = "encodeCtu" => /\ Contents(E, Encoded, ctu, substreams)
                            /\ Sized(Encoded, ctu, substreams, sizes)

LEMMA FixedWrites ==
  ASSUME UNCHANGED fixedVars, NEW E, NEW n, NEW m, NEW s, NEW q, NEW z
  PROVE  /\ HasWritten(E, n) /\ UNCHANGED <<segments, nals>> => HasWritten(E, n)'
         /\ Contents(E, s, m, q) => Contents(E, s, m, q)'
         /\ Sized(s, m, q, z) => Sized(s, m, q, z)'
<1>1. NalUnits' = NalUnits /\ \A r : \A nal : IsNal(E, r, nal)' <=> IsNal(E, r, nal)
  BY FixedData
<1>2. (Contents(E, s, m, q)' <=> Contents(E, s, m, q)) /\ (Sized(s, m, q, z)' <=> Sized(s, m, q, z))
  BY FixedData
<1>3. ASSUME HasWritten(E, n), UNCHANGED <<segments, nals>> PROVE HasWritten(E, n)'
  <2>1. nals' \in Seq(NalUnits') /\ Len(nals') = n
    BY <1>1, <1>3 DEF HasWritten
  <2>2. \A i \in 1..n : IsNal(E, segments[i], nals[i])'
    <3> TAKE i \in 1..n
    <3>1. IsNal(E, segments[i], nals[i])
      BY <1>3, Zenon DEF HasWritten
    <3>2. IsNal(E, segments'[i], nals'[i])
      BY <1>3, <3>1
    <3>3. IsNal(E, segments'[i], nals'[i]) => IsNal(E, segments[i], nals[i])'
      BY FixedData
    <3> QED
      BY <3>2, <3>3
  <2> QED
    BY <2>1, <2>2 DEF HasWritten
<1> QED
  BY <1>2, <1>3

LEMMA SpansLemma ==
  ASSUME SlicesInv, ~Cutting, NEW i \in 1..Len(segments)
  PROVE  /\ Spans(segments[i]) /\ segments[i].dependent \in BOOLEAN
         /\ N \in Nat /\ segments[i].start \in Nat /\ segments[i].end \in Nat
<1>1. N \in Nat
  BY PictureLemma DEF SlicesInv
<1>2. /\ segments[i].start \in 0..N - 1 /\ segments[i].end \in 1..N /\ segments[i].start < segments[i].end
      /\ segments[i].dependent \in BOOLEAN
  BY SegmentLemma
<1> QED
  BY <1>1, <1>2 DEF Spans

(* One turn of encodeSlice()'s loop. *)
LEMMA EncodesCtu ==
  ASSUME SlicesInv, EncoderPlace, StatesInv, NEW E, IsCoded(E, segments), EncoderAt(E), WritesAt(E),
         EncodeCtu
  PROVE  /\ Contents(E, Encoded, ctu + 1, substreams')
         /\ ctu + 1 < Encoded.end =>
              /\ Sized(Encoded, ctu + 1, substreams', sizes') /\ nals' = nals
         /\ ctu + 1 = Encoded.end =>
              sizes' = sizes /\ \E nal : IsNal(E, Encoded, nal) /\ nals' = Append(nals, nal)
<1> DEFINE last == ctu + 1 = Encoded.end
           x == Substream(ctu)
           begin == BeginCtu(coder, Encoded, ctu)
           written == substreams[x] \o <<CtuData(begin, ctu)>>
                      \o (IF last THEN << >> ELSE <<Flag(0)>>)
                      \o (IF last \/ EndsSubstream(ctu) THEN <<Flag(1)>> ELSE << >>)
           w == substreams[x] \o Part(E[ctu], ctu, last)
           r == [substreams EXCEPT ![x] = w]
<1>1. GoodSym /\ phase = "encodeCtu" /\ E \in Histories
  BY DEF SlicesInv, EncodeCtu, IsCoded
<1>2. /\ index \in 1..Len(segments) /\ ~Cutting /\ ctu \in Nat /\ Encoded.start \in Nat /\ Encoded.end \in Nat
      /\ Encoded.start <= ctu /\ ctu < Encoded.end /\ ctu \in 0..N - 1
  BY <1>1, EncodesAt
<1>3. Spans(Encoded) /\ Encoded.dependent \in BOOLEAN /\ N \in Nat
  BY <1>2, SpansLemma DEF Encoded
<1>4. Contents(E, Encoded, ctu, substreams) /\ Sized(Encoded, ctu, substreams, sizes)
  BY <1>1 DEF WritesAt
<1>5. /\ substreams' = [substreams EXCEPT ![x] = written]
      /\ last => nals' = Append(nals, NalOf(Encoded, substreams')) /\ sizes' = sizes
      /\ ~last => /\ sizes' = IF last \/ EndsSubstream(ctu) THEN Append(sizes, Len(written)) ELSE sizes
                  /\ nals' = nals
  BY Zenon DEF EncodeCtu
<1>6. written = w
  <2>1. begin = E[ctu]
    BY <1>1, EncodesIn
  <2>2. E[ctu] \in States /\ ctu \in Addresses
    BY <1>1, <1>2, <1>3 DEF Histories, Addresses
  <2>3. substreams[x] \in Seq(Elements)
    <3>1. x \in 0..NumSubstreams - 1
      BY <1>1, <1>2, SubstreamRange
    <3>2. substreams \in [0..NumSubstreams - 1 -> Seq(Elements)]
      BY <1>4, Zenon DEF Contents
    <3> QED
      BY <3>1, <3>2
  <2>4. last \in BOOLEAN
    OBVIOUS
  <2> DEFINE old == substreams[x]
  <2> HIDE DEF last, old, begin
  <2>5. old \o <<CtuData(E[ctu], ctu)>> \o (IF last THEN << >> ELSE <<Flag(0)>>)
          \o (IF last \/ EndsSubstream(ctu) THEN <<Flag(1)>> ELSE << >>)
        = old \o Part(E[ctu], ctu, last)
    BY <2>2, <2>3, <2>4, WrittenLemma DEF old
  <2> QED
    BY <2>1, <2>5 DEF old
<1>7. /\ Contents(E, Encoded, ctu + 1, r)
      /\ ctu + 1 < Encoded.end =>
           Sized(Encoded, ctu + 1, r, IF EndsSubstream(ctu) THEN Append(sizes, Len(w)) ELSE sizes)
      /\ \A i \in 1..Len(sizes) : sizes[i] = Len(r[Substream(Encoded.start) + i - 1])
  <2> DEFINE s == Encoded
             q == substreams
             z == sizes
  <2>1. GoodSym /\ E \in Histories /\ Spans(s) /\ ctu \in 0..N - 1 /\ s.start <= ctu /\ ctu < s.end
        /\ Contents(E, s, ctu, q) /\ Sized(s, ctu, q, z)
    BY <1>1, <1>2, <1>3, <1>4
  <2> HIDE DEF s, q, z
  <2>2. WritesMore(E, s, ctu, q, z)
    BY <2>1, WrittenMore
  <2> QED
    BY <2>2, Zenon DEF WritesMore, s, q, z
<1>8. substreams' = r
  BY <1>5, <1>6
<1> HIDE DEF r, written, w, begin
<1>9. ASSUME ctu + 1 < Encoded.end
      PROVE  Sized(Encoded, ctu + 1, substreams', sizes') /\ nals' = nals
  <2>1. ~last
    BY <1>2, <1>9
  <2>2. sizes' = IF EndsSubstream(ctu) THEN Append(sizes, Len(w)) ELSE sizes
    BY <1>5, <1>6, <2>1
  <2> QED
    BY <1>5, <1>7, <1>8, <1>9, <2>1, <2>2
<1>10. ASSUME last
       PROVE  sizes' = sizes /\ \E nal : IsNal(E, Encoded, nal) /\ nals' = Append(nals, nal)
  <2> DEFINE nal == NalOf(Encoded, r)
             s == Encoded
             z == sizes
  <2>1. nals' = Append(nals, nal)
    BY <1>5, <1>8, <1>10
  <2>2. nal = [address |-> Rs(s.start), dependent |-> s.dependent, sizes |-> z,
               data |-> Joined(r, Substream(s.start), Len(z) + 1)]
    BY DEF NalOf
  <2>3. Contents(E, s, s.end, r)
    BY <1>7, <1>10
  <2>4. z \in Seq(Nat) /\ Len(z) = Substream(s.end - 1) - Substream(s.start)
    <3>1. s.end - 1 = ctu
      BY <1>2, <1>10
    <3>2. z \in Seq(Nat) /\ Len(z) = Substream(ctu) - Substream(s.start)
      BY <1>4, Zenon DEF Sized
    <3> QED
      BY <3>1, <3>2
  <2>5. \A i \in 1..Len(z) : z[i] = Len(r[Substream(s.start) + i - 1])
    BY <1>7
  <2> HIDE DEF nal, z, s
  <2>6. IsNal(E, s, nal)
    BY <1>1, <1>3, <2>2, <2>3, <2>4, <2>5, NalLemma DEF s
  <2> QED
    BY <1>5, <1>10, <2>1, <2>6 DEF s
<1>11. Contents(E, Encoded, ctu + 1, substreams')
  BY <1>7, <1>8
<1> QED
  BY <1>9, <1>10, <1>11

LEMMA WritesStep ==
  ASSUME SlicesInv, EncoderPlace, StatesInv, NEW E, IsCoded(E, segments), EncoderAt(E), WritesAt(E),
         ~Cutting, [Next]_vars
  PROVE  WritesAt(E)'
<1>1. GoodSym /\ N \in Nat
  BY PictureLemma DEF SlicesInv
<1>2. UNCHANGED fixedVars
  BY <1>1, FixedInStep
<1>3. /\ Len(segments) \in Nat /\ Len(segments) > 0
      /\ phase \in {"encodeSlice", "encodeCtu"} => index \in 1..Len(segments)
  BY SlicesInvChain DEF EncoderPlace
<1>4. HasWritten(E, Written)
  BY DEF WritesAt
<1>5. ASSUME HasWritten(E, Written), segments' = segments, nals' = nals, Written' = Written,
             phase' = "encodeCtu" => Contents(E, Encoded', ctu', substreams')
                                     /\ Sized(Encoded', ctu', substreams', sizes')
      PROVE  WritesAt(E)'
  <2> DEFINE n == Written
  <2>1. HasWritten(E, n)' /\ n' = n
    <3>1. HasWritten(E, Written) /\ UNCHANGED <<segments, nals>>
      BY <1>5
    <3>2. \A k : HasWritten(E, k) /\ UNCHANGED <<segments, nals>> => HasWritten(E, k)'
      BY <1>2, FixedWrites
    <3>3. PICK k : k = Written
      OBVIOUS
    <3>4. HasWritten(E, k)' /\ Written' = k
      BY <1>5, <3>1, <3>2, <3>3
    <3> QED
      BY <1>5, <3>3, <3>4
  <2>2. /\ Contents(E, Encoded', ctu', substreams') => Contents(E, Encoded, ctu, substreams)'
        /\ Sized(Encoded', ctu', substreams', sizes') => Sized(Encoded, ctu, substreams, sizes)'
    BY <1>2, FixedWrites
  <2> QED
    BY <1>5, <2>1, <2>2 DEF WritesAt
<1>6. CASE EncodeSlice /\ UNCHANGED decoderVars
  <2>1. /\ phase = "encodeSlice" /\ phase' = "encodeCtu" /\ ctu' = Encoded.start
        /\ segments' = segments /\ index' = index /\ nals' = nals
        /\ substreams' = [x \in 0..NumSubstreams - 1 |-> << >>] /\ sizes' = << >>
    BY <1>6 DEF EncodeSlice
  <2>2. Written' = Written /\ Encoded' = Encoded
    BY <2>1 DEF Written, Encoded
  <2>3. Spans(Encoded)
    BY <1>3, <2>1, SpansLemma DEF Encoded
  <2>4. Contents(E, Encoded, ctu', substreams') /\ Sized(Encoded, ctu', substreams', sizes')
    BY <1>1, <2>1, <2>3, WrittenNothing
  <2> QED
    BY <1>4, <1>5, <2>1, <2>2, <2>4
<1>7. CASE EncodeCtu /\ UNCHANGED decoderVars
  <2> DEFINE last == ctu + 1 = Encoded.end
  <2>1. /\ phase = "encodeCtu" /\ segments' = segments
        /\ last => /\ phase' = IF index < Len(segments) THEN "encodeSlice" ELSE "decodeSlice"
                   /\ index' = IF index < Len(segments) THEN index + 1 ELSE 1
        /\ ~last => ctu' = ctu + 1 /\ phase' = phase /\ index' = index
    BY <1>7, Zenon DEF EncodeCtu
  <2>2. ctu \in Nat /\ Encoded.end \in Nat /\ ctu < Encoded.end
    BY <2>1, EncodesAt
  <2>3. /\ Contents(E, Encoded, ctu + 1, substreams')
        /\ ctu + 1 < Encoded.end => Sized(Encoded, ctu + 1, substreams', sizes') /\ nals' = nals
        /\ last => \E nal : IsNal(E, Encoded, nal) /\ nals' = Append(nals, nal)
    BY <1>7, EncodesCtu
  <2>4. Written = index - 1 /\ index \in 1..Len(segments)
    BY <1>3, <2>1 DEF Written
  <2>5. CASE last
    <3>1. PICK nal : IsNal(E, Encoded, nal) /\ nals' = Append(nals, nal)
      BY <2>3, <2>5
    <3>2. phase' # "encodeCtu" /\ Written' = index
      BY <1>3, <2>1, <2>4, <2>5 DEF Written
    <3>3. /\ nals \in Seq(NalUnits) /\ Len(nals) = index - 1 /\ nal \in NalUnits
          /\ \A i \in 1..index - 1 : IsNal(E, segments[i], nals[i])
      <4>1. nal \in NalUnits
        BY <3>1 DEF IsNal
      <4> QED
        BY <1>4, <2>4, <4>1 DEF HasWritten
    <3>4. /\ nals' \in Seq(NalUnits) /\ Len(nals') = index /\ nals'[index] = nal
          /\ \A i \in 1..index - 1 : nals'[i] = nals[i]
      BY <2>4, <3>1, <3>3, AppendProperties
    <3>5. \A i \in 1..index : IsNal(E, segments[i], nals'[i])
      <4> TAKE i \in 1..index
      <4>1. CASE i = index
        BY <3>1, <3>4, <4>1 DEF Encoded
      <4>2. CASE i # index
        <5>1. i \in 1..index - 1
          BY <2>4, <4>2
        <5> QED
          BY <3>3, <3>4, <5>1
      <4> QED
        BY <4>1, <4>2
    <3>6. HasWritten(E, Written)'
      <4>1. \A i \in 1..index : IsNal(E, segments[i], nals[i])'
        <5> TAKE i \in 1..index
        <5>1. IsNal(E, segments'[i], nals'[i])
          BY <2>1, <3>5
        <5>2. IsNal(E, segments'[i], nals'[i]) => IsNal(E, segments[i], nals[i])'
          BY <1>2, FixedData
        <5> QED
          BY <5>1, <5>2
      <4>2. NalUnits' = NalUnits
        BY <1>2, FixedData
      <4> QED
        BY <3>2, <3>4, <4>1, <4>2 DEF HasWritten
    <3> QED
      BY <3>2, <3>6 DEF WritesAt
  <2>6. CASE ~last
    <3>1. ctu + 1 < Encoded.end /\ ctu' = ctu + 1 /\ phase' = phase /\ index' = index
      BY <2>1, <2>2, <2>6
    <3>2. Written' = Written /\ Encoded' = Encoded
      BY <2>1, <3>1 DEF Written, Encoded
    <3> QED
      BY <1>4, <1>5, <2>1, <2>3, <3>1, <3>2
  <2> QED
    BY <2>5, <2>6
<1>8. CASE DecodeSlice
  <2>1. phase = "decodeSlice" /\ phase' = "decodeCtu" /\ segments' = segments /\ nals' = nals
    BY <1>8 DEF DecodeSlice
  <2> QED
    BY <1>4, <1>5, <2>1 DEF Written
<1>9. CASE DecodeCtu
  <2>1. /\ phase = "decodeCtu" /\ phase' \in {"decodeSlice", "decodeCtu", "done", "lost"}
        /\ segments' = segments /\ nals' = nals
    BY <1>9 DEF DecodeCtu, Decode, FinishDecode, LosePlace
  <2> QED
    BY <1>4, <1>5, <2>1 DEF Written
<1>10. CASE UNCHANGED vars
  <2>1. /\ phase' = phase /\ segments' = segments /\ index' = index /\ nals' = nals /\ ctu' = ctu
        /\ substreams' = substreams /\ sizes' = sizes
    BY <1>10 DEF vars, encoderVars
  <2>2. Written' = Written /\ Encoded' = Encoded
    BY <2>1 DEF Written, Encoded
  <2> QED
    BY <1>4, <1>5, <2>1, <2>2 DEF WritesAt
<1>11. ~CompressSlice /\ ~CompressCtu
  BY DEF CompressSlice, CompressCtu, Cutting
<1> QED
  BY <1>6, <1>7, <1>8, <1>9, <1>10, <1>11 DEF Next, EncoderNext

-----------------------------------------------------------------------------
(* The decoder.                                                            *)

(* A CTU is taken from the front of its substream. *)
TakesOne(E, s, c, q) ==
  LET k == Substream(c) - Substream(s.start) + 1
      w == Part(E[c], c, c + 1 = s.end)
  IN /\ k \in DOMAIN q /\ Starts(w, q[k]) /\ q[k][2] = Flag(IF c + 1 = s.end THEN 1 ELSE 0)
     /\ Remains(E, s, c + 1, [q EXCEPT ![k] = SubSeq(@, Len(w) + 1, Len(@))])

LEMMA RemainsLess ==
  ASSUME GoodSym, NEW E \in Histories, NEW s, Spans(s), NEW c \in 0..N - 1, s.start <= c, c < s.end,
         NEW q, Remains(E, s, c, q)
  PROVE  TakesOne(E, s, c, q)
<1> DEFINE first == Substream(s.start)
           x == Substream(c)
           k == x - first + 1
           w == Part(E[c], c, c + 1 = s.end)
           p == q[k]
           rest == SubSeq(p, Len(w) + 1, Len(p))
           r == [q EXCEPT ![k] = rest]
           n == Substream(s.end - 1) - first + 1
<1>1. /\ N \in Nat /\ s.start \in 0..N - 1 /\ s.end - 1 \in 0..N - 1 /\ s.start \in Nat /\ s.end \in Nat
      /\ s.end <= N /\ c \in Nat /\ c \in Addresses /\ c <= s.end - 1 /\ s.end \in c + 1..N
  <2>1. N \in Nat
    BY PictureLemma
  <2> QED
    BY <2>1 DEF Spans, Addresses
<1>2. /\ first \in Nat /\ x \in Nat /\ Substream(s.end - 1) \in Nat /\ first <= x /\ x <= Substream(s.end - 1)
  BY <1>1, SubstreamRange, SubstreamOrder
<1>3. /\ DOMAIN q = 1..n
      /\ \A i \in 1..n : RunIn(q[i], E, c, s.end, first + i - 1)
  BY Zenon DEF Remains
<1>4. k \in 1..n /\ first + k - 1 = x /\ n \in Nat /\ \A i \in 1..n : i # k => first + i - 1 # x
  <2> DEFINE y == Substream(s.end - 1)
  <2> HIDE DEF first, x, y
  <2> QED
    BY <1>2 DEF y
<1>5. E[c] \in States
  BY DEF Histories
<1> HIDE DEF n
<1>6. PICK b \in c + 1..s.end : IsRun(c, s.end, x, c, b)
  BY <1>1, RunExists
<1>7. RunIn(p, E, c, s.end, x)
  BY <1>3, <1>4
<1> HIDE DEF k, p
<1>8. ASSUME NEW d \in c + 1..s.end, IsRun(c, s.end, x, c, d)
      PROVE  /\ Starts(w, p) /\ Carries(rest, E, c + 1, d, s.end)
             /\ p[2] = Flag(IF c + 1 = s.end THEN 1 ELSE 0)
  <2>1. Carries(p, E, c, d, s.end)
    BY <1>7, <1>8, Zenon DEF RunIn
  <2>2. c + 1 < d => ~EndsSubstream(c)
    <3> SUFFICES ASSUME c + 1 < d PROVE ~EndsSubstream(c)
      OBVIOUS
    <3>1. Substream(c + 1) = x
      <4>1. c + 1 \in Nat /\ c <= c + 1 /\ c + 1 < d
        BY <1>1
      <4>2. c <= c + 1 /\ c + 1 < d <=> c <= c + 1 /\ c + 1 < s.end /\ Substream(c + 1) = x
        BY <1>8, <4>1, Zenon DEF IsRun
      <4> QED
        BY <4>1, <4>2
    <3>2. c + 1 \in 0..N - 1 /\ c < c + 1
      BY <1>1
    <3> QED
      BY <3>1, <3>2, SubstreamEnds
  <2>3. d \in Nat /\ c < d /\ d <= s.end
    BY <1>1
  <2> HIDE DEF w, rest
  <2>4. Loses(p, E, c, d, s.end)
    <3>1. c \in Nat /\ c \in Addresses /\ s.end \in Nat
      BY <1>1
    <3> QED
      BY <1>5, <2>1, <2>2, <2>3, <3>1, CarriesLess
  <2> QED
    BY <2>4, Zenon DEF Loses, w, rest
<1>9. Starts(w, p) /\ p[2] = Flag(IF c + 1 = s.end THEN 1 ELSE 0) /\ rest \in Seq(Elements)
  <2>1. Starts(w, p) /\ p[2] = Flag(IF c + 1 = s.end THEN 1 ELSE 0) /\ Carries(rest, E, c + 1, b, s.end)
    BY <1>6, <1>8
  <2> QED
    BY <2>1, Zenon DEF Carries
<1> HIDE DEF w, rest
<1>10. /\ DOMAIN r = 1..n /\ r[k] = rest /\ \A i \in 1..n : i # k => r[i] = q[i]
  BY <1>3, <1>4
<1> HIDE DEF r
<1>11. ASSUME NEW i \in 1..n PROVE RunIn(r[i], E, c + 1, s.end, first + i - 1)
  <2>1. CASE i # k
    <3>1. first + i - 1 # x /\ r[i] = q[i]
      BY <1>4, <1>10, <2>1
    <3>2. RunIn(q[i], E, c, s.end, first + i - 1)
      BY <1>3
    <3>3. ASSUME NEW a, NEW d, IsRun(c + 1, s.end, first + i - 1, a, d)
          PROVE  Carries(q[i], E, a, d, s.end)
      <4>1. IsRun(c, s.end, first + i - 1, a, d)
        BY <1>1, <3>1, <3>3, RunShrinks
      <4> QED
        BY <3>2, <4>1, Zenon DEF RunIn
    <3> QED
      BY <3>1, <3>2, <3>3, Zenon DEF RunIn
  <2>2. CASE i = k
    <3>1. first + i - 1 = x /\ r[i] = rest
      BY <1>4, <1>10, <2>2
    <3>2. ASSUME NEW a, NEW d, IsRun(c + 1, s.end, x, a, d)
          PROVE  Carries(rest, E, a, d, s.end)
      <4>1. IF c + 1 < s.end /\ ~EndsSubstream(c) THEN a = c + 1 /\ IsRun(c, s.end, x, c, d)
            ELSE a = d /\ IsRun(c, s.end, x, c, c + 1)
        BY <1>1, <3>2, RunShrinks
      <4>2. a \in Nat /\ d \in Nat /\ a <= d
        BY <3>2 DEF IsRun
      <4>3. CASE c + 1 < s.end /\ ~EndsSubstream(c)
        <5>1. a = c + 1 /\ IsRun(c, s.end, x, c, d)
          BY <4>1, <4>3
        <5>2. d \in c + 1..s.end
          <6>1. CASE d <= s.end
            BY <1>1, <4>2, <5>1, <6>1
          <6>2. CASE ~(d <= s.end)
            <7>1. s.end \in Nat /\ c <= s.end /\ s.end < d /\ ~(s.end < s.end)
              BY <1>1, <4>2, <6>2
            <7>2. c <= s.end /\ s.end < d <=> c <= s.end /\ s.end < s.end /\ Substream(s.end) = x
              BY <5>1, <7>1, Zenon DEF IsRun
            <7> QED
              BY <7>1, <7>2
          <6> QED
            BY <6>1, <6>2
        <5> QED
          BY <1>8, <5>1, <5>2
      <4>4. CASE ~(c + 1 < s.end /\ ~EndsSubstream(c))
        <5>1. a = d /\ IsRun(c, s.end, x, c, c + 1)
          BY <4>1, <4>4
        <5>2. c + 1 \in c + 1..s.end /\ c + 1 \in Nat
          BY <1>1
        <5>3. Carries(rest, E, c + 1, c + 1, s.end)
          BY <1>8, <5>1, <5>2
        <5>4. rest = << >>
          BY <5>2, <5>3, CarriesNothing
        <5> QED
          BY <4>2, <5>1, <5>4, NothingCarried
      <4> QED
        BY <4>3, <4>4
    <3> QED
      BY <1>9, <3>1, <3>2, Zenon DEF RunIn
  <2> QED
    BY <2>1, <2>2
<1>12. Remains(E, s, c + 1, r)
  BY <1>10, <1>11, Zenon DEF Remains, n, first
<1>13. k \in DOMAIN q
  BY <1>3, <1>4
<1> QED
  BY <1>9, <1>12, <1>13, Zenon DEF TakesOne, r, rest, w, p, k, x, first

LEMMA NothingRemains ==
  ASSUME NEW E, NEW s, s.end \in Nat, NEW q, Remains(E, s, s.end, q)
  PROVE  \A i \in DOMAIN q : q[i] = << >>
<1> TAKE i \in DOMAIN q
<1>1. RunIn(q[i], E, s.end, s.end, Substream(s.start) + i - 1)
  BY Zenon DEF Remains
<1>2. IsRun(s.end, s.end, Substream(s.start) + i - 1, 0, 0)
  BY DEF IsRun
<1>3. Carries(q[i], E, 0, 0, s.end) /\ 0 \in Nat
  BY <1>1, <1>2, Zenon DEF RunIn
<1> QED
  BY <1>3, CarriesNothing

(* A segment as the decoder reads it from the header, and the segments it  *)
(* knows.                                                                  *)
SameSegment(d, s) == d.start = s.start /\ d.sliceStart = s.sliceStart /\ d.dependent = s.dependent

Knows(d, segs, n) ==
  /\ d \in Seq(Segments)
  /\ \A i \in 1..n : SameSegment(d[i], segs[i]) /\ d[i].end = segs[i].end

(* The decoder before a segment, before a CTU and at the end.              *)
DecoderAt(E) ==
  /\ phase # "lost"
  /\ phase \in {"decodeSlice", "decodeCtu"} => index \in 1..Len(segments)
  /\ phase = "decodeSlice" =>
       /\ Knows(decSegments, segments, index - 1) /\ Len(decSegments) = index - 1
       /\ IsSync(E, decSync, Encoded.start)
       /\ Continues(Encoded) => decSegmentEnd = After(E, Encoded.start - 1)
  /\ phase = "decodeCtu" =>
       /\ Knows(decSegments, segments, index - 1) /\ Len(decSegments) = index
       /\ SameSegment(Decoded, Encoded)
       /\ ctu \in Nat /\ Encoded.start <= ctu /\ ctu < Encoded.end
       /\ IsSync(E, decSync, ctu) /\ CoderAt(E, Encoded, ctu, decoder)
       /\ Remains(E, Encoded, ctu, streams)
  /\ phase = "done" =>
       /\ Knows(decSegments, segments, Len(segments)) /\ Len(decSegments) = Len(segments)
       /\ \A i \in DOMAIN streams : streams[i] = << >>

LEMMA KnownChain ==
  ASSUME NEW segs, Chain(segs), NEW d \in Seq(Segments), NEW k \in 1..Len(segs), Len(d) = k,
         \A i \in 1..k : SameSegment(d[i], segs[i])
  PROVE  /\ Chain(d)
         /\ \A ts : Held(segs, k, ts) => Held(d, k, ts)
<1>1. /\ Len(segs) \in Nat /\ segs[1].start = 0 /\ k \in Nat /\ k > 0 /\ \A i \in 1..k : i \in 1..Len(segs)
  BY DEF Chain
<1>2. \A i \in 1..k : /\ d[i].start = segs[i].start /\ d[i].sliceStart = segs[i].sliceStart
                      /\ d[i].dependent = segs[i].dependent
  BY Zenon DEF SameSegment
<1>3. Len(d) \in Nat /\ Len(d) > 0 /\ DOMAIN d = 1..Len(d) /\ d[1].start = 0
  BY <1>1, <1>2
<1>4. \A i \in 1..k : /\ d[i].start \in Nat /\ d[i].sliceStart \in Nat
                      /\ d[i].dependent \in BOOLEAN
                      /\ d[i].sliceStart <= d[i].start
                      /\ d[i].dependent <=> d[i].sliceStart < d[i].start
                      /\ \E j \in 1..i : d[j].start = d[i].sliceStart
  <2> TAKE i \in 1..k
  <2>1. /\ segs[i].start \in Nat /\ segs[i].sliceStart \in Nat
        /\ segs[i].dependent \in BOOLEAN
        /\ segs[i].sliceStart <= segs[i].start
        /\ segs[i].dependent <=> segs[i].sliceStart < segs[i].start
        /\ \E j \in 1..i : segs[j].start = segs[i].sliceStart
    BY <1>1, Zenon DEF Chain
  <2>2. PICK j \in 1..i : segs[j].start = segs[i].sliceStart
    BY <2>1
  <2>3. j \in 1..k
    BY <1>1
  <2>4. d[j].start = d[i].sliceStart
    BY <1>2, <2>2, <2>3
  <2> QED
    BY <1>2, <2>1, <2>4
<1>5. \A i, j \in 1..k :
        i < j => /\ d[i].start < d[j].start
                 /\ \/ d[j].sliceStart = d[i].sliceStart
                    \/ d[i].start < d[j].sliceStart
  <2> TAKE i, j \in 1..k
  <2>1. i < j => /\ segs[i].start < segs[j].start
                 /\ \/ segs[j].sliceStart = segs[i].sliceStart
                    \/ segs[i].start < segs[j].sliceStart
    BY <1>1, Zenon DEF Chain
  <2> QED
    BY <1>2, <2>1
<1>6. Chain(d)
  BY <1>3, <1>4, <1>5, Zenon DEF Chain
<1>7. ASSUME NEW ts, Held(segs, k, ts) PROVE Held(d, k, ts)
  <2>1. k \in 1..k /\ ~(k < k)
    BY <1>1
  <2>2. d[k].start <= ts
    BY <1>2, <1>7, <2>1 DEF Held
  <2> QED
    BY <2>1, <2>2 DEF Held
<1> QED
  BY <1>6, <1>7

LEMMA FindsLemma ==
  ASSUME NEW c \in States, NEW u \in Addresses, NEW isLast \in BOOLEAN, NEW q \in Seq(Elements),
         Starts(Part(c, u, isLast), q)
  PROVE  q[2] = Flag(IF isLast THEN 1 ELSE 0)
<1> DEFINE w == Part(c, u, isLast)
<1>1. w \in Seq(Elements) /\ Len(w) >= 2 /\ w[2] = Flag(IF isLast THEN 1 ELSE 0) /\ Len(w) \in Nat
  <2>1. w \in Seq(Elements) /\ Len(w) = 2 + (IF ~isLast /\ EndsSubstream(u) THEN 1 ELSE 0)
        /\ w[2] = Flag(IF isLast THEN 1 ELSE 0)
    BY PartLemma
  <2> QED
    BY <2>1
<1>2. Len(w) <= Len(q) /\ SubSeq(q, 1, Len(w)) = w
  BY Zenon DEF Starts
<1> HIDE DEF w
<1>3. SubSeq(q, 1, Len(w))[2] = q[2]
  BY <1>1, <1>2
<1> QED
  BY <1>1, <1>2, <1>3

(* The decoder finds the CTU and its flag where it looks for them.         *)
LEMMA DecodesCtu ==
  ASSUME SlicesInv, ~Cutting, NEW E, IsCoded(E, segments), DecoderAt(E), DecodeCtu
  PROVE  /\ Decode(ctu + 1 = Encoded.end) /\ Begun = E[ctu]
         /\ Remains(E, Encoded, ctu + 1, streams')
<1> DEFINE s == Encoded
           last == ctu + 1 = s.end
<1>1. /\ GoodSym /\ Chain(segments) /\ phase = "decodeCtu"
  BY SlicesInvChain DEF SlicesInv, DecodeCtu
<1>2. /\ index \in 1..Len(segments) /\ Knows(decSegments, segments, index - 1) /\ Len(decSegments) = index
      /\ SameSegment(Decoded, s) /\ ctu \in Nat /\ s.start <= ctu /\ ctu < s.end
      /\ IsSync(E, decSync, ctu) /\ CoderAt(E, s, ctu, decoder)
      /\ Remains(E, s, ctu, streams)
  BY <1>1 DEF DecoderAt
<1>3. /\ Spans(s) /\ Header(s) /\ Continuable(s) /\ N \in Nat /\ s.start \in Nat /\ s.end \in Nat /\ s.end <= N
      /\ ctu \in 0..N - 1 /\ Held(segments, index, ctu) /\ ctu \in Addresses
  <2>1. /\ Header(s) /\ Continuable(s) /\ s.end \in 1..N /\ s.start \in 0..N - 1
        /\ \A u \in s.start..s.end - 1 : u \in 0..N - 1 /\ Held(segments, index, u)
    BY <1>2, SegmentLemma DEF Encoded
  <2>2. Spans(s) /\ N \in Nat /\ s.start \in Nat /\ s.end \in Nat
    BY <1>2, SpansLemma DEF Encoded
  <2>3. ctu \in s.start..s.end - 1
    BY <1>2, <2>2
  <2> QED
    BY <2>1, <2>2, <2>3 DEF Addresses
<1>4. Decoded = decSegments[index] /\ s = segments[index] /\ decSegments \in Seq(Segments)
      /\ \A i \in 1..index : SameSegment(decSegments[i], segments[i])
  <2>1. Decoded = decSegments[index] /\ s = segments[index]
    BY <1>2 DEF Decoded, Encoded
  <2>2. decSegments \in Seq(Segments) /\ \A i \in 1..index - 1 : SameSegment(decSegments[i], segments[i])
    BY <1>2, Zenon DEF Knows
  <2>3. index \in Nat /\ \A i \in 1..index : i = index \/ i \in 1..index - 1
    BY <1>1, <1>2 DEF Chain
  <2> QED
    BY <1>2, <2>1, <2>2, <2>3
<1>5. Chain(decSegments) /\ Held(decSegments, index, ctu)
  BY <1>1, <1>2, <1>3, <1>4, KnownChain
<1>6. E \in Histories /\ (\A v \in 0..ctu - 1 : E[v].running) /\ E[ctu] \in States
      /\ E[ctu] = Begins(E, s, ctu)
  <2>1. E \in Histories /\ Law(E, segments, N, TRUE) /\ \A v \in 0..N - 1 : E[v].running
    BY DEF IsCoded
  <2>2. \A v \in 0..ctu - 1 : v \in 0..N - 1
    BY <1>3
  <2>3. E[ctu] = Begins(E, segments[index], ctu)
    BY <1>2, <1>3, <2>1, Zenon DEF Law
  <2> QED
    BY <1>3, <1>4, <2>1, <2>2, <2>3 DEF Histories
<1> HIDE DEF s
<1>7. Begun = E[ctu]
  <2> DEFINE d == decSegments[index]
  <2>1. d.start = s.start /\ d.sliceStart = s.sliceStart /\ d.dependent = s.dependent
    BY <1>2, <1>4 DEF SameSegment
  <2> HIDE DEF d
  <2>2. /\ (Continues(d) <=> Continues(s)) /\ (Available(d, d.start) <=> Available(s, d.start))
        /\ Before(E, d, ctu) = Before(E, s, ctu) /\ Begins(E, d, ctu) = Begins(E, s, ctu)
    BY <2>1, SameHeader
  <2>3. Header(d)
    BY <1>3, <2>1 DEF Header
  <2>4. Continuable(d)
    BY <1>3, <2>1, <2>2, Zenon DEF Continuable
  <2>5. CoderAt(E, d, ctu, decoder)
    BY <1>2, <2>1, <2>2, Zenon DEF CoderAt
  <2>6. BegunState(decoder, decSync, decSegments, d, ctu) = Begins(E, d, ctu)
    BY <1>1, <1>2, <1>3, <1>5, <1>6, <2>3, <2>4, <2>5, BegunLemma DEF d
  <2>7. DecBeginCtu(decoder, decSegments, d, ctu) = BegunState(decoder, decSync, decSegments, d, ctu)
    BY BegunIsBegin
  <2>8. Begun = DecBeginCtu(decoder, decSegments, d, ctu)
    BY <1>4, Zenon DEF Begun, d
  <2> QED
    BY <1>6, <2>2, <2>6, <2>7, <2>8
<1>8. TakesOne(E, s, ctu, streams)
  BY <1>1, <1>2, <1>3, <1>6, RemainsLess
<1> DEFINE q == streams[Stream]
<1>9. Stream = Substream(ctu) - Substream(s.start) + 1
  BY <1>2, Zenon DEF Stream, SameSegment
<1>10. \A isLast : Expected(Begun, isLast) = Part(E[ctu], ctu, isLast)
  BY <1>7, Zenon DEF Expected, Part
<1>11. /\ Stream \in DOMAIN streams /\ Starts(Part(E[ctu], ctu, last), q)
       /\ q[2] = Flag(IF last THEN 1 ELSE 0)
       /\ Remains(E, s, ctu + 1, [streams EXCEPT ![Stream] =
                                    SubSeq(@, Len(Part(E[ctu], ctu, last)) + 1, Len(@))])
  BY <1>8, <1>9, Zenon DEF TakesOne
<1>12. last \in BOOLEAN
  OBVIOUS
<1>13. ~last => ctu + 1 < N
  BY <1>2, <1>3
<1>14. q \in Seq(Elements)
  <2>1. RunIn(q, E, ctu, s.end, Substream(s.start) + Stream - 1)
    BY <1>2, <1>11, Zenon DEF Remains
  <2> QED
    BY <2>1, Zenon DEF RunIn
<1> HIDE DEF last
<1>15. Finds(last)
  BY <1>10, <1>11, <1>12, <1>13, Zenon DEF Finds
<1>16. \A isLast \in BOOLEAN : Finds(isLast) => isLast = last
  <2> TAKE isLast \in BOOLEAN
  <2> HAVE Finds(isLast)
  <2>1. Starts(Part(E[ctu], ctu, isLast), q)
    BY <1>10, Zenon DEF Finds
  <2>2. q[2] = Flag(IF isLast THEN 1 ELSE 0)
    BY <1>3, <1>6, <1>14, <2>1, FindsLemma
  <2>3. Flag(0) # Flag(1)
    BY <1>3, <1>6, ElementsLemma
  <2> QED
    BY <1>11, <1>12, <2>2, <2>3
<1>17. \/ \E isLast \in BOOLEAN : Finds(isLast) /\ Decode(isLast)
       \/ \A isLast \in BOOLEAN : ~Finds(isLast)
  BY DEF DecodeCtu
<1>18. Decode(last)
  <2>1. PICK isLast \in BOOLEAN : Finds(isLast) /\ Decode(isLast)
    BY <1>12, <1>15, <1>17
  <2>2. isLast = last
    BY <1>16, <2>1
  <2> QED
    BY <2>1, <2>2
<1>19. streams' = [streams EXCEPT ![Stream] = SubSeq(@, Len(Part(E[ctu], ctu, last)) + 1, Len(@))]
  <2>1. streams' = [streams EXCEPT ![Stream] = SubSeq(@, Len(Expected(Begun, last)) + 1, Len(@))]
    BY <1>18, Zenon DEF Decode
  <2> QED
    BY <1>10, <2>1, Zenon
<1>20. Remains(E, s, ctu + 1, streams')
  BY <1>11, <1>19, Zenon
<1> QED
  BY <1>7, <1>18, <1>20, Zenon DEF last, s

(* Before the decoder begins, it knows nothing.                            *)
Idle ==
  /\ Cutting => nals = << >>
  /\ Cutting \/ phase \in {"encodeSlice", "encodeCtu"} => decSegments = << >>

LEMMA IdleInit == Init => Idle
BY DEF Init, EncoderInit, Idle

LEMMA IdleStep ==
  ASSUME SlicesInv, EncoderPlace, Idle, [Next]_vars
  PROVE  Idle'
<1>1. CASE CompressSlice /\ UNCHANGED decoderVars
  BY <1>1 DEF CompressSlice, Cutting, Idle, decoderVars
<1>2. CASE CompressCtu /\ UNCHANGED decoderVars
  BY <1>2 DEF CompressCtu, FinishCompress, Cutting, Idle, decoderVars
<1>3. CASE EncodeSlice /\ UNCHANGED decoderVars
  BY <1>3 DEF EncodeSlice, Cutting, Idle, decoderVars
<1>4. CASE EncodeCtu /\ UNCHANGED decoderVars
  <2>1. phase = "encodeCtu" /\ phase' \in {"encodeCtu", "encodeSlice", "decodeSlice"}
    BY <1>4, Zenon DEF EncodeCtu
  <2> QED
    BY <1>4, <2>1 DEF Cutting, Idle, decoderVars
<1>5. CASE DecodeSlice
  BY <1>5 DEF DecodeSlice, Cutting, Idle
<1>6. CASE DecodeCtu
  <2>1. phase' \in {"decodeSlice", "decodeCtu", "done", "lost"}
    BY <1>6 DEF DecodeCtu, Decode, FinishDecode, LosePlace
  <2> QED
    BY <2>1 DEF Cutting, Idle
<1>7. CASE UNCHANGED vars
  BY <1>7 DEF Cutting, Idle, vars, encoderVars, decoderVars
<1> QED
  BY <1>1, <1>2, <1>3, <1>4, <1>5, <1>6, <1>7 DEF Next, EncoderNext

LEMMA FixedDecoder ==
  ASSUME UNCHANGED fixedVars, NEW E, NEW d, NEW segs, NEW n, NEW m, NEW s, NEW q, NEW c, NEW r, NEW stored, NEW ended
  PROVE  /\ Knows(d, segs, n) => Knows(d, segs, n)'
         /\ IsSync(E, stored, n) => IsSync(E, stored, n)'
         /\ (Continues(s) => ended = After(E, s.start - 1)) => (Continues(s) => ended = After(E, s.start - 1))'
         /\ CoderAt(E, s, n, c) => CoderAt(E, s, n, c)'
         /\ Remains(E, s, n, q) => Remains(E, s, n, q)'
<1>1. Segments' = Segments
  BY FixedTypes
<1>2. Remains(E, s, n, q)' <=> Remains(E, s, n, q)
  BY FixedData
<1>3. Knows(d, segs, n) => Knows(d, segs, n)'
  BY <1>1, Zenon DEF Knows, SameSegment
<1> QED
  BY <1>2, <1>3, FixedEncoder

(* Reading the header of a NAL unit. *)
LEMMA HeaderLemma ==
  ASSUME SlicesInv, ~Cutting, NEW E, NEW i \in 1..Len(segments), IsNal(E, segments[i], nals[i]),
         Knows(decSegments, segments, i - 1), Len(decSegments) = i - 1
  PROVE  LET d == ReadHeader(nals[i]) IN d \in Segments /\ SameSegment(d, segments[i])
<1> DEFINE s == segments[i]
           nal == nals[i]
           d == ReadHeader(nal)
<1>1. GoodSym /\ Cover(segments) /\ N \in Nat
  BY PictureLemma DEF SlicesInv
<1>2. Header(s) /\ s.start \in 0..N - 1 /\ s.dependent \in BOOLEAN
  BY SegmentLemma
<1>3. RsToTs(Rs(s.start)) = s.start
  BY <1>1, <1>2, RsLemma
<1>4. nal.address = Rs(s.start) /\ nal.dependent = s.dependent
  BY Zenon DEF IsNal
<1> DEFINE first == IF nal.dependent THEN decSegments[Len(decSegments)].sliceStart ELSE s.start
<1>5. d = [sliceStart |-> first, sliceEnd |-> N, start |-> s.start, end |-> N, dependent |-> s.dependent]
  BY <1>3, <1>4, Zenon DEF ReadHeader
<1>6. first = s.sliceStart
  <2>1. CASE s.dependent
    <3>1. i # 1 /\ Len(segments) \in Nat
      BY <1>1, <2>1 DEF Cover
    <3>2. i - 1 \in 1..i - 1 /\ i - 1 \in 1..Len(segments) - 1 /\ (i - 1) + 1 = i
      BY <3>1
    <3>3. Linked(segments[i - 1], s)
      BY <1>1, <3>2 DEF Cover
    <3>4. s.sliceStart = segments[i - 1].sliceStart
      BY <2>1, <3>3 DEF Linked
    <3>5. decSegments[i - 1].sliceStart = segments[i - 1].sliceStart
      BY <3>2, Zenon DEF Knows, SameSegment
    <3> QED
      BY <1>4, <2>1, <3>4, <3>5
  <2>2. CASE ~s.dependent
    <3>1. s.sliceStart = s.start
      BY <1>1, <1>2, <2>2 DEF Header
    <3> QED
      BY <1>4, <2>2, <3>1
  <2> QED
    BY <2>1, <2>2
<1>7. s.sliceStart \in Addresses /\ s.start \in Addresses /\ N \in Addresses
  BY <1>1, <1>2 DEF Addresses, Header
<1> HIDE DEF d, first, s
<1>8. d \in Segments /\ d.start = s.start /\ d.sliceStart = s.sliceStart /\ d.dependent = s.dependent
  BY <1>2, <1>5, <1>6, <1>7 DEF Segments
<1> QED
  BY <1>8, Zenon DEF SameSegment, d, s

(* The end of a segment becomes known. *)
LEMMA EndLemma ==
  ASSUME NEW d \in Segments, NEW e \in Addresses
  PROVE  LET r == [d EXCEPT !.end = e, !.sliceEnd = IF d.dependent THEN @ ELSE e] IN
         r \in Segments /\ r.end = e /\ SameSegment(r, d)
<1> DEFINE f == IF d.dependent THEN d.sliceEnd ELSE e
           r == [d EXCEPT !.end = e, !.sliceEnd = IF d.dependent THEN @ ELSE e]
           t == [d EXCEPT !.end = e, !.sliceEnd = f]
<1>1. /\ d = [sliceStart |-> d.sliceStart, sliceEnd |-> d.sliceEnd, start |-> d.start, end |-> d.end,
              dependent |-> d.dependent]
      /\ d.sliceStart \in Addresses /\ d.sliceEnd \in Addresses /\ d.start \in Addresses
      /\ d.dependent \in BOOLEAN
  BY DEF Segments
<1>2. f \in Addresses
  BY <1>1
<1>3. r = t
  BY <1>1
<1> HIDE DEF f, r
<1>4. t \in Segments /\ t.end = e /\ t.start = d.start /\ t.sliceStart = d.sliceStart /\ t.dependent = d.dependent
  BY <1>2 DEF Segments
<1> HIDE DEF t
<1> QED
  BY <1>3, <1>4, Zenon DEF SameSegment, r

LEMMA DecoderStep ==
  ASSUME SlicesInv, EncoderPlace, StatesInv, Idle, NEW E, IsCoded(E, segments), WritesAt(E), DecoderAt(E),
         ~Cutting, [Next]_vars
  PROVE  DecoderAt(E)'
<1>1. /\ GoodSym /\ N \in Nat /\ Len(segments) \in Nat /\ Len(segments) > 0
      /\ segments[1].start = 0 /\ ~segments[1].dependent
  BY PictureLemma, SlicesInvChain DEF SlicesInv, Cover
<1>2. UNCHANGED fixedVars
  BY <1>1, FixedInStep
<1>3. ASSUME segments' = segments, phase' # "lost",
             phase' \in {"decodeSlice", "decodeCtu"} => index' \in 1..Len(segments),
             phase' = "decodeSlice" =>
               /\ Knows(decSegments', segments', index' - 1) /\ Len(decSegments') = index' - 1
               /\ IsSync(E, decSync', Encoded'.start)
               /\ Continues(Encoded') => decSegmentEnd' = After(E, Encoded'.start - 1),
             phase' = "decodeCtu" =>
               /\ Knows(decSegments', segments', index' - 1) /\ Len(decSegments') = index'
               /\ SameSegment(Decoded', Encoded')
               /\ ctu' \in Nat /\ Encoded'.start <= ctu' /\ ctu' < Encoded'.end
               /\ IsSync(E, decSync', ctu') /\ CoderAt(E, Encoded', ctu', decoder')
               /\ Remains(E, Encoded', ctu', streams'),
             phase' = "done" =>
               /\ Knows(decSegments', segments', Len(segments')) /\ Len(decSegments') = Len(segments')
               /\ \A i \in DOMAIN streams' : streams'[i] = << >>
      PROVE  DecoderAt(E)'
  <2>1. /\ Knows(decSegments', segments', index' - 1) => Knows(decSegments, segments, index - 1)'
        /\ IsSync(E, decSync', Encoded'.start) => IsSync(E, decSync, Encoded.start)'
        /\ (Continues(Encoded') => decSegmentEnd' = After(E, Encoded'.start - 1)) =>
             (Continues(Encoded) => decSegmentEnd = After(E, Encoded.start - 1))'
    BY <1>2, FixedDecoder
  <2>2. /\ IsSync(E, decSync', ctu') => IsSync(E, decSync, ctu)'
        /\ CoderAt(E, Encoded', ctu', decoder') => CoderAt(E, Encoded, ctu, decoder)'
        /\ Remains(E, Encoded', ctu', streams') => Remains(E, Encoded, ctu, streams)'
        /\ Knows(decSegments', segments', Len(segments')) => Knows(decSegments, segments, Len(segments))'
    BY <1>2, FixedDecoder
  <2>3. SameSegment(Decoded', Encoded') => SameSegment(Decoded, Encoded)'
    BY DEF SameSegment
  <2>4. phase' = "decodeSlice" =>
          /\ Knows(decSegments, segments, index - 1)' /\ Len(decSegments') = index' - 1
          /\ IsSync(E, decSync, Encoded.start)'
          /\ (Continues(Encoded) => decSegmentEnd = After(E, Encoded.start - 1))'
    BY <1>3, <2>1, Zenon
  <2>5. phase' = "decodeCtu" =>
          /\ Knows(decSegments, segments, index - 1)' /\ Len(decSegments') = index'
          /\ SameSegment(Decoded, Encoded)'
          /\ ctu' \in Nat /\ Encoded'.start <= ctu' /\ ctu' < Encoded'.end
          /\ IsSync(E, decSync, ctu)' /\ CoderAt(E, Encoded, ctu, decoder)'
          /\ Remains(E, Encoded, ctu, streams)'
    BY <1>3, <2>1, <2>2, <2>3, Zenon
  <2>6. phase' = "done" =>
          /\ Knows(decSegments, segments, Len(segments))' /\ Len(decSegments') = Len(segments')
          /\ \A i \in DOMAIN streams' : streams'[i] = << >>
    BY <1>3, <2>2, Zenon
  <2>7. phase' \in {"decodeSlice", "decodeCtu"} => index' \in 1..Len(segments')
    BY <1>3
  <2> QED
    BY <1>3, <2>4, <2>5, <2>6, <2>7, Zenon DEF DecoderAt
<1>4. CASE EncodeSlice /\ UNCHANGED decoderVars
  BY <1>3, <1>4 DEF EncodeSlice
<1>5. CASE EncodeCtu /\ UNCHANGED decoderVars
  <2> DEFINE last == ctu + 1 = Encoded.end
  <2>1. /\ phase = "encodeCtu" /\ segments' = segments
        /\ last => /\ phase' = IF index < Len(segments) THEN "encodeSlice" ELSE "decodeSlice"
                   /\ index' = IF index < Len(segments) THEN index + 1 ELSE 1
        /\ ~last => phase' = phase
    BY <1>5, Zenon DEF EncodeCtu
  <2>2. phase' \in {"encodeCtu", "encodeSlice"} \/ (phase' = "decodeSlice" /\ index' = 1)
    BY <2>1
  <2>3. CASE phase' \in {"encodeCtu", "encodeSlice"}
    BY <1>3, <2>1, <2>3
  <2>4. CASE phase' = "decodeSlice" /\ index' = 1
    <3>1. decSegments' = << >>
      BY <1>5, <2>1 DEF Idle, decoderVars
    <3>2. Encoded'.start = 0 /\ ~Continues(Encoded')
      BY <1>1, <2>1, <2>4 DEF Encoded, Continues
    <3>3. Knows(decSegments', segments', index' - 1) /\ Len(decSegments') = index' - 1
      BY <2>4, <3>1 DEF Knows
    <3>4. \A u \in 0..0 - 1 : FALSE
      OBVIOUS
    <3>5. IsSync(E, decSync', Encoded'.start)
      BY <3>2, <3>4, Zenon DEF IsSync
    <3>6. index' \in 1..Len(segments)
      BY <1>1, <2>4
    <3> QED
      BY <1>3, <2>1, <2>4, <3>2, <3>3, <3>5, <3>6
  <2> QED
    BY <2>2, <2>3, <2>4
<1>6. CASE DecodeSlice
  <2> DEFINE d == ReadHeader(nals[index])
  <2>1. /\ phase = "decodeSlice" /\ phase' = "decodeCtu" /\ segments' = segments /\ index' = index
        /\ decSync' = decSync
        /\ streams' = Extracted(nals[index]) /\ decSegments' = Append(decSegments, d)
        /\ decoder' = DecBeginSegment(d) /\ ctu' = d.start
    BY <1>6 DEF DecodeSlice
  <2>2. /\ index \in 1..Len(segments)
        /\ Knows(decSegments, segments, index - 1) /\ Len(decSegments) = index - 1
        /\ IsSync(E, decSync, Encoded.start)
        /\ Continues(Encoded) => decSegmentEnd = After(E, Encoded.start - 1)
    BY <2>1, Zenon DEF DecoderAt
  <2>3. IsNal(E, segments[index], nals[index])
    <3>1. Written = Len(segments)
      BY <2>1 DEF Written
    <3> QED
      BY <2>2, <3>1 DEF WritesAt, HasWritten
  <2>4. d \in Segments /\ SameSegment(d, Encoded)
    BY <2>2, <2>3, HeaderLemma DEF Encoded
  <2>5. /\ Encoded' = Encoded /\ d.start = Encoded.start /\ d.sliceStart = Encoded.sliceStart
        /\ d.dependent = Encoded.dependent
    BY <2>1, <2>4 DEF Encoded, SameSegment
  <2>6. Remains(E, Encoded, ctu', streams')
    BY <2>1, <2>3, <2>5 DEF IsNal, Encoded
  <2> HIDE DEF d
  <2>7. CoderAt(E, Encoded, ctu', decoder')
    <3>1. Fresh(d) = Fresh(Encoded) /\ (Continues(d) <=> Continues(Encoded))
      BY <2>5, SameHeader
    <3>2. DecBeginSegment(d) = IF Continues(d) THEN Load(Fresh(d), decSegmentEnd) ELSE Fresh(d)
      BY Zenon DEF DecBeginSegment, Continues
    <3> QED
      BY <2>1, <2>2, <2>5, <3>1, <3>2, Zenon DEF CoderAt, Before
  <2>8. /\ decSegments' \in Seq(Segments) /\ Len(decSegments') = index /\ decSegments'[index] = d
        /\ \A i \in 1..index - 1 : decSegments'[i] = decSegments[i]
    <3>1. decSegments \in Seq(Segments)
      BY <2>2, Zenon DEF Knows
    <3> QED
      BY <1>1, <2>1, <2>2, <2>4, <3>1, AppendProperties
  <2>9. Decoded' = d
    BY <2>8 DEF Decoded
  <2>10. Knows(decSegments', segments', index' - 1)
    <3>1. \A i \in 1..index - 1 : SameSegment(decSegments'[i], segments[i]) /\ decSegments'[i].end = segments[i].end
      BY <2>2, <2>8, Zenon DEF Knows
    <3> QED
      BY <2>1, <2>8, <3>1, Zenon DEF Knows
  <2>11. ctu' \in Nat /\ Encoded.start <= ctu' /\ ctu' < Encoded.end
    <3>1. Encoded.start \in Nat /\ Encoded.start < Encoded.end
      BY <2>2, SpansLemma DEF Spans, Encoded
    <3> QED
      BY <2>1, <2>5, <3>1
  <2>12. IsSync(E, decSync', ctu')
    BY <2>1, <2>2, <2>5
  <2>13. SameSegment(Decoded', Encoded')
    BY <2>4, <2>5, <2>9
  <2> QED
    BY <1>3, <2>1, <2>2, <2>5, <2>6, <2>7, <2>8, <2>10, <2>11, <2>12, <2>13
<1>7. CASE DecodeCtu
  <2> DEFINE s == Encoded
             last == ctu + 1 = s.end
             after == CodeCtu(Begun, ctu)
             r == ~last /\ ~EndsSubstream(ctu)
             new == [Decoded EXCEPT !.end = ctu + 1, !.sliceEnd = IF Decoded.dependent THEN @ ELSE ctu + 1]
  <2>1. /\ Decode(last) /\ Begun = E[ctu] /\ Remains(E, s, ctu + 1, streams')
        /\ phase = "decodeCtu" /\ segments' = segments /\ nals' = nals
    BY <1>7, DecodesCtu DEF DecodeCtu
  <2>2. /\ index \in 1..Len(segments) /\ Knows(decSegments, segments, index - 1) /\ Len(decSegments) = index
        /\ SameSegment(Decoded, s) /\ ctu \in Nat /\ s.start <= ctu /\ ctu < s.end
        /\ IsSync(E, decSync, ctu)
    BY <2>1, Zenon DEF DecoderAt
  <2>3. /\ s.start \in Nat /\ s.end \in Nat /\ ctu + 1 \in Addresses
        /\ IF index < Len(segments) THEN segments[index + 1].start = s.end ELSE s.end = N
    <3>1. Spans(s) /\ s.start \in Nat /\ s.end \in Nat
      BY <2>2, SpansLemma DEF Encoded
    <3>2. IF index < Len(segments) THEN segments[index + 1].start = s.end ELSE s.end = N
      BY <2>2, SegmentLemma DEF Encoded
    <3>3. ctu + 1 \in Addresses
      BY <1>1, <2>2, <3>1 DEF Spans, Addresses
    <3> QED
      BY <3>1, <3>2, <3>3
  <2>4. /\ decoder' = [after EXCEPT !.running = r]
        /\ decSync' = IF SecondOfRow(ctu) THEN after ELSE decSync
        /\ last => FinishDecode(after)
        /\ ~last => ctu' = ctu + 1 /\ phase' = phase /\ index' = index /\ decSegments' = decSegments
    BY <2>1, Zenon DEF Decode
  <2>5. after = After(E, ctu)
    BY <2>1 DEF After
  <2> HIDE DEF after
  <2>6. IsSync(E, decSync', ctu + 1)
    <3>1. IsSync(E, IF SecondOfRow(ctu) THEN After(E, ctu) ELSE decSync, ctu + 1)
      BY <2>2, SyncExtend
    <3> QED
      BY <2>4, <2>5, <3>1, Zenon
  <2>7. CASE ~last
    <3>1. Encoded' = s /\ Decoded' = Decoded
      BY <2>1, <2>4, <2>7 DEF Encoded, Decoded
    <3>2. CoderAt(E, s, ctu + 1, decoder')
      <4>1. ctu + 1 # s.start /\ (ctu + 1) - 1 = ctu
        BY <2>2, <2>3
      <4>2. r = ~EndsSubstream(ctu)
        BY <2>7
      <4> HIDE DEF r, s
      <4> QED
        BY <2>4, <2>5, <4>1, <4>2, Zenon DEF CoderAt
    <3>3. ctu + 1 \in Nat /\ s.start <= ctu + 1 /\ ctu + 1 < s.end
      BY <2>2, <2>3, <2>7
    <3>4. /\ phase' = "decodeCtu" /\ index' = index /\ ctu' = ctu + 1 /\ decSegments' = decSegments
      BY <2>1, <2>4, <2>7
    <3> QED
      BY <1>3, <2>1, <2>2, <2>6, <3>1, <3>2, <3>3, <3>4
  <2>8. CASE last
    <3>1. /\ decSegments' = [decSegments EXCEPT ![index] = new]
          /\ decSegmentEnd' = IF dependentSliceSegmentsEnabled THEN after ELSE decSegmentEnd
          /\ phase' = IF index < Len(nals) THEN "decodeSlice" ELSE "done"
          /\ index' = IF index < Len(nals) THEN index + 1 ELSE index
      <4>1. FinishDecode(after)
        BY <2>4, <2>8
      <4>2. decSegments' = [decSegments EXCEPT ![Len(decSegments)] = new]
        BY <4>1, Zenon DEF FinishDecode
      <4>3. /\ decSegmentEnd' = IF dependentSliceSegmentsEnabled THEN after ELSE decSegmentEnd
            /\ phase' = IF index < Len(nals) THEN "decodeSlice" ELSE "done"
            /\ index' = IF index < Len(nals) THEN index + 1 ELSE index
        BY <4>1, Zenon DEF FinishDecode
      <4> HIDE DEF new
      <4> QED
        BY <2>2, <4>2, <4>3, Zenon
    <3>2. Len(nals) = Len(segments)
      BY <2>1 DEF WritesAt, HasWritten, Written
    <3>3. decSegments \in Seq(Segments) /\ Decoded \in Segments
      <4>1. decSegments \in Seq(Segments) /\ Decoded = decSegments[index] /\ index \in 1..Len(decSegments)
        BY <2>2 DEF Knows, Decoded
      <4> QED
        BY <4>1
    <3>4. new \in Segments /\ new.end = ctu + 1 /\ SameSegment(new, Decoded)
      BY <2>3, <3>3, EndLemma
    <3> HIDE DEF new
    <3>5. /\ decSegments' \in Seq(Segments) /\ Len(decSegments') = index /\ decSegments'[index] = new
          /\ \A i \in 1..index - 1 : decSegments'[i] = decSegments[i]
      <4>1. index \in 1..Len(decSegments) /\ \A i \in 1..index - 1 : i # index /\ i \in 1..Len(decSegments)
        BY <1>1, <2>2
      <4> QED
        BY <2>2, <3>1, <3>3, <3>4, <4>1, ExceptSeq
    <3>6. Knows(decSegments', segments', index)
      <4>1. \A i \in 1..index - 1 : SameSegment(decSegments'[i], segments[i])
                                    /\ decSegments'[i].end = segments[i].end
        BY <2>2, <3>5, Zenon DEF Knows
      <4>2. SameSegment(new, segments[index]) /\ new.end = segments[index].end
        <5>1. SameSegment(new, s) /\ new.end = s.end
          BY <2>2, <2>8, <3>4 DEF SameSegment
        <5> QED
          BY <5>1 DEF Encoded
      <4>3. \A i \in 1..index : i = index \/ i \in 1..index - 1
        BY <1>1, <2>2
      <4>4. \A i \in 1..index : SameSegment(decSegments'[i], segments'[i])
                                /\ decSegments'[i].end = segments'[i].end
        BY <2>1, <3>5, <4>1, <4>2, <4>3
      <4> QED
        BY <3>5, <4>4, Zenon DEF Knows
    <3>7. CASE index < Len(segments)
      <4>1. phase' = "decodeSlice" /\ index' = index + 1 /\ index' \in 1..Len(segments) /\ index' - 1 = index
        BY <1>1, <2>2, <3>1, <3>2, <3>7
      <4>2. Encoded' = segments[index + 1] /\ Encoded'.start = ctu + 1
        BY <2>1, <2>3, <2>8, <3>7, <4>1 DEF Encoded
      <4>3. Continues(Encoded') => decSegmentEnd' = After(E, Encoded'.start - 1)
        <5>1. (ctu + 1) - 1 = ctu
          BY <2>2
        <5>2. Continues(Encoded') => decSegmentEnd' = after
          BY <3>1 DEF Continues
        <5> QED
          BY <2>5, <4>2, <5>1, <5>2, Zenon
      <4> QED
        BY <1>3, <2>1, <2>6, <3>5, <3>6, <4>1, <4>2, <4>3
    <3>8. CASE ~(index < Len(segments))
      <4>1. phase' = "done" /\ index = Len(segments')
        BY <1>1, <2>1, <2>2, <3>1, <3>2, <3>8
      <4>2. \A i \in DOMAIN streams' : streams'[i] = << >>
        <5>1. Remains(E, s, s.end, streams')
          BY <2>1, <2>8
        <5> QED
          BY <2>3, <5>1, NothingRemains
      <4> QED
        BY <1>3, <2>1, <3>5, <3>6, <4>1, <4>2
    <3> QED
      BY <3>7, <3>8
  <2> QED
    BY <2>7, <2>8
<1>8. CASE UNCHANGED vars
  <2>1. /\ phase' = phase /\ segments' = segments /\ index' = index /\ ctu' = ctu
        /\ streams' = streams /\ decoder' = decoder /\ decSync' = decSync
        /\ decSegmentEnd' = decSegmentEnd /\ decSegments' = decSegments
    BY <1>8 DEF vars, encoderVars, decoderVars
  <2>2. Encoded' = Encoded /\ Decoded' = Decoded
    BY <2>1 DEF Encoded, Decoded
  <2> QED
    BY <1>3, <2>1, <2>2 DEF DecoderAt
<1>9. ~CompressSlice /\ ~CompressCtu
  BY DEF CompressSlice, CompressCtu, Cutting
<1> QED
  BY <1>4, <1>5, <1>6, <1>7, <1>8, <1>9 DEF Next, EncoderNext

-----------------------------------------------------------------------------
(* The final pass and the decoder together.                                *)
DataInv ==
  ~Cutting => \E E : IsCoded(E, segments) /\ EncoderAt(E) /\ WritesAt(E) /\ DecoderAt(E)

DataStates == SlicesInv /\ EncoderPlace /\ StatesInv /\ Idle /\ DataInv

LEMMA DataBegins ==
  ASSUME SlicesInv, StatesInv, phase = "encodeSlice", index = 1, nals = << >>
  PROVE  DataInv
<1>1. PICK E : IsCoded(E, segments)
  BY CodedExists
<1>2. Encoded.start = 0 /\ ~Continues(Encoded)
  BY DEF SlicesInv, Cover, Encoded, Continues
<1>3. \A u \in 0..0 - 1 : FALSE
  OBVIOUS
<1>4. EncoderAt(E)
  BY <1>2, <1>3, Zenon DEF EncoderAt, IsSync
<1>5. WritesAt(E)
  <2>1. Written = 0
    BY DEF Written
  <2> QED
    BY <2>1 DEF WritesAt, HasWritten
<1>6. DecoderAt(E)
  BY DEF DecoderAt
<1> QED
  BY <1>1, <1>4, <1>5, <1>6 DEF DataInv

LEMMA DataInit == Init => DataStates
<1>1. Init => DataInv
  BY DEF Init, EncoderInit, DataInv, Cutting
<1> QED
  BY <1>1, SlicesInit, EncoderPlaceInit, StatesInit, IdleInit DEF DataStates

LEMMA DataStep == DataStates /\ [Next]_vars => DataStates'
<1> SUFFICES ASSUME DataStates, [Next]_vars PROVE DataStates'
  OBVIOUS
<1>1. SlicesInv /\ EncoderPlace /\ StatesInv /\ Idle /\ DataInv
  BY DEF DataStates
<1>2. SlicesInv' /\ EncoderPlace' /\ StatesInv' /\ Idle'
  BY <1>1, SlicesStep, EncoderPlaceStep, StatesStep, IdleStep
<1>3. ASSUME Cutting PROVE DataInv'
  <2>1. Cutting' \/ (phase' = "encodeSlice" /\ index' = 1)
    BY <1>1, <1>3, CuttingEnds
  <2>2. CASE Cutting'
    BY <2>2 DEF DataInv
  <2>3. CASE phase' = "encodeSlice" /\ index' = 1
    <3>1. nals' = << >>
      <4>1. nals = << >>
        BY <1>1, <1>3 DEF Idle
      <4>2. ~EncodeSlice /\ ~EncodeCtu /\ ~DecodeSlice /\ ~DecodeCtu
        BY <1>3 DEF EncodeSlice, EncodeCtu, DecodeSlice, DecodeCtu, Cutting
      <4>3. nals' = nals
        BY <4>2 DEF Next, EncoderNext, CompressSlice, CompressCtu, vars, encoderVars
      <4> QED
        BY <4>1, <4>3
    <3>2. (SlicesInv /\ StatesInv /\ phase = "encodeSlice" /\ index = 1 /\ nals = << >> => DataInv)'
      BY DataBegins, PTL
    <3> QED
      BY <1>2, <2>3, <3>1, <3>2
  <2> QED
    BY <2>1, <2>2, <2>3
<1>4. ASSUME ~Cutting PROVE DataInv'
  <2>1. PICK E : IsCoded(E, segments) /\ EncoderAt(E) /\ WritesAt(E) /\ DecoderAt(E)
    BY <1>1, <1>4 DEF DataInv
  <2>2. EncoderAt(E)' /\ IsCoded(E, segments)'
    BY <1>1, <1>4, <2>1, EncoderStep
  <2>3. WritesAt(E)'
    BY <1>1, <1>4, <2>1, WritesStep
  <2>4. DecoderAt(E)'
    BY <1>1, <1>4, <2>1, DecoderStep
  <2> QED
    BY <2>2, <2>3, <2>4 DEF DataInv
<1> QED
  BY <1>2, <1>3, <1>4 DEF DataStates

LEMMA DataStatesImply == DataStates => DecoderInStep
<1> SUFFICES ASSUME DataStates PROVE DecoderInStep
  OBVIOUS
<1>1. SlicesInv /\ DataInv
  BY DEF DataStates
<1>2. CASE Cutting
  BY <1>2 DEF DecoderInStep, Cutting
<1>3. CASE ~Cutting
  <2>1. PICK E : DecoderAt(E)
    BY <1>1, <1>3 DEF DataInv
  <2>2. phase # "lost"
    BY <2>1 DEF DecoderAt
  <2>3. ASSUME phase = "done"
        PROVE  /\ \A s \in DOMAIN streams : streams[s] = << >>
               /\ Len(decSegments) = Len(segments)
               /\ \A i \in DOMAIN segments :
                    [decSegments[i] EXCEPT !.sliceEnd = 0] = [segments[i] EXCEPT !.sliceEnd = 0]
    <3>1. /\ Knows(decSegments, segments, Len(segments)) /\ Len(decSegments) = Len(segments)
          /\ \A s \in DOMAIN streams : streams[s] = << >>
      BY <2>1, <2>3, Zenon DEF DecoderAt
    <3>2. segments \in Seq(Segments) /\ decSegments \in Seq(Segments)
      BY <1>1, <3>1, SlicesInvChain DEF Knows
    <3>3. ASSUME NEW i \in DOMAIN segments
          PROVE  [decSegments[i] EXCEPT !.sliceEnd = 0] = [segments[i] EXCEPT !.sliceEnd = 0]
      <4> DEFINE d == decSegments[i]
                 s == segments[i]
      <4>1. i \in 1..Len(segments) /\ d \in Segments /\ s \in Segments
        BY <3>1, <3>2
      <4>2. d.start = s.start /\ d.sliceStart = s.sliceStart /\ d.dependent = s.dependent /\ d.end = s.end
        BY <3>1, <4>1, Zenon DEF Knows, SameSegment
      <4> HIDE DEF d, s
      <4>3. [d EXCEPT !.sliceEnd = 0] = [s EXCEPT !.sliceEnd = 0]
        BY <4>1, <4>2 DEF Segments
      <4> QED
        BY <4>3 DEF d, s
    <3> QED
      BY <3>1, <3>3
  <2> QED
    BY <2>2, <2>3 DEF DecoderInStep
<1> QED
  BY <1>2, <1>3

(* Whatever the picture, the tiles and the slice options, the decoder      *)
(* finds every CTU in the substream where it looks for it, decodes it with *)
(* the state it was coded with, and in the end has read everything and     *)
(* knows every segment.                                                    *)
THEOREM DecoderIsInStep == Spec => []DecoderInStep
<1> QED
  BY DataInit, DataStep, DataStatesImply, PTL DEF Spec

-----------------------------------------------------------------------------
(* The types of the rest of the state.                                     *)
AllTyped(q) == \A i \in DOMAIN q : q[i] \in Seq(Elements)

TypeInv ==
  /\ ctu \in Nat /\ index \in Nat
  /\ decoder \in States /\ decSync \in States /\ decSegmentEnd \in States
  /\ decSegments \in Seq(Segments) /\ sizes \in Seq(Nat) /\ nals \in Seq(NalUnits)
  /\ AllTyped(substreams) /\ AllTyped(streams)

LEMMA TypeInit == Init => TypeInv
<1>1. NoState \in States
  BY DEF NoState, States
<1> HIDE DEF NoState
<1> QED
  BY <1>1 DEF Init, EncoderInit, TypeInv, AllTyped

LEMMA DecoderTypes ==
  ASSUME N \in Nat, decSegmentEnd \in States, NEW d, d.sliceStart \in Addresses
  PROVE  DecBeginSegment(d) \in States
<1>1. Fresh(d) \in States
  BY StateLemma
<1>2. Load(Fresh(d), decSegmentEnd) \in States
  BY <1>1, StateLemma
<1> QED
  BY <1>1, <1>2, Zenon DEF DecBeginSegment

LEMMA RunningType ==
  ASSUME NEW c \in States, NEW r \in BOOLEAN
  PROVE  [c EXCEPT !.running = r] \in States
BY DEF States

LEMMA TypeStep ==
  ASSUME DataStates, DataStates', TypeInv, [Next]_vars
  PROVE  TypeInv'
<1>1. SlicesInv /\ EncoderPlace /\ StatesInv /\ DataInv /\ GoodSym /\ N \in Nat
  BY PictureLemma DEF DataStates, SlicesInv
<1>2. UNCHANGED fixedVars
  BY <1>1, FixedInStep
<1>3. /\ ctu \in Nat /\ index \in Nat
      /\ decoder \in States /\ decSync \in States /\ decSegmentEnd \in States
      /\ decSegments \in Seq(Segments) /\ sizes \in Seq(Nat) /\ nals \in Seq(NalUnits)
      /\ AllTyped(substreams) /\ AllTyped(streams)
  BY DEF TypeInv
<1>4. ASSUME ctu' \in Nat, index' \in Nat,
             decoder' \in States, decSync' \in States, decSegmentEnd' \in States,
             decSegments' \in Seq(Segments), sizes' \in Seq(Nat), nals' \in Seq(NalUnits),
             AllTyped(substreams'), AllTyped(streams')
      PROVE  TypeInv'
  <2>1. States' = States /\ Segments' = Segments /\ NalUnits' = NalUnits /\ Elements' = Elements
    BY <1>2, FixedTypes, FixedData
  <2>2. /\ AllTyped(substreams') => AllTyped(substreams)'
        /\ AllTyped(streams') => AllTyped(streams)'
    BY <2>1 DEF AllTyped
  <2> QED
    BY <1>4, <2>1, <2>2, Zenon DEF TypeInv
<1>5. \A i \in 1..Len(segments) : segments[i].start \in Nat
  BY <1>1, SlicesInvChain DEF Chain
<1>6. /\ Compressed.start \in Nat
      /\ phase \in {"encodeSlice", "encodeCtu"} => Encoded.start \in Nat /\ index \in 1..Len(segments)
  BY <1>1, <1>5, SlicesInvChain DEF Compressed, Encoded, EncoderPlace
<1>7. CASE CompressSlice /\ UNCHANGED decoderVars
  BY <1>3, <1>4, <1>6, <1>7 DEF CompressSlice, decoderVars
<1>8. CASE CompressCtu /\ UNCHANGED decoderVars
  <2>1. PICK c : Compresses(c)
    BY <1>1, <1>8, CompressLemma
  <2>2. ctu' \in Nat
    <3>1. (ctu + 1 < c.end => ctu' = ctu + 1) /\ (~(ctu + 1 < c.end) => FinishCompress(c, coder'))
      BY <2>1, Zenon DEF Compresses
    <3> QED
      BY <1>3, <3>1 DEF FinishCompress
  <2>3. index' = index /\ substreams' = substreams /\ sizes' = sizes /\ nals' = nals
    BY <1>8 DEF CompressCtu
  <2> QED
    BY <1>3, <1>4, <1>8, <2>2, <2>3 DEF decoderVars
<1>9. CASE EncodeSlice /\ UNCHANGED decoderVars
  <2>1. /\ phase = "encodeSlice" /\ ctu' = Encoded.start /\ sizes' = << >>
        /\ index' = index /\ nals' = nals
        /\ substreams' = [x \in 0..NumSubstreams - 1 |-> << >>]
    BY <1>9 DEF EncodeSlice
  <2>2. AllTyped(substreams')
    BY <2>1 DEF AllTyped
  <2> QED
    BY <1>3, <1>4, <1>6, <1>9, <2>1, <2>2 DEF decoderVars
<1>10. CASE EncodeCtu /\ UNCHANGED decoderVars
  <2> DEFINE last == ctu + 1 = Encoded.end
  <2>1. /\ phase = "encodeCtu"
        /\ last => ctu' = ctu /\ index' \in {index + 1, 1}
        /\ ~last => ctu' = ctu + 1 /\ index' = index
    BY <1>10, Zenon DEF EncodeCtu
  <2>2. PICK E : IsCoded(E, segments) /\ EncoderAt(E) /\ WritesAt(E)
    BY <1>1, <2>1 DEF DataInv, Cutting
  <2>3. /\ Contents(E, Encoded, ctu + 1, substreams')
        /\ ctu + 1 < Encoded.end => Sized(Encoded, ctu + 1, substreams', sizes') /\ nals' = nals
        /\ last => sizes' = sizes /\ \E nal : IsNal(E, Encoded, nal) /\ nals' = Append(nals, nal)
    BY <1>1, <1>10, <2>2, EncodesCtu
  <2>4. AllTyped(substreams')
    <3>1. substreams' \in [0..NumSubstreams - 1 -> Seq(Elements)]
      BY <2>3, Zenon DEF Contents
    <3> QED
      BY <3>1 DEF AllTyped
  <2>5. ctu + 1 < Encoded.end \/ last
    <3>1. Encoded.end \in Nat /\ ctu < Encoded.end
      BY <1>1, <2>1, EncodesAt
    <3> QED
      BY <1>3, <3>1
  <2>6. sizes' \in Seq(Nat) /\ nals' \in Seq(NalUnits)
    <3>1. CASE last
      <4>1. sizes' = sizes
        BY <2>3, <3>1
      <4>2. PICK nal : IsNal(E, Encoded, nal) /\ nals' = Append(nals, nal)
        BY <2>3, <3>1
      <4>3. nal \in NalUnits
        BY <4>2 DEF IsNal
      <4> QED
        BY <1>3, <4>1, <4>2, <4>3, AppendProperties
    <3>2. CASE ctu + 1 < Encoded.end
      BY <1>3, <2>3, <3>2 DEF Sized
    <3> QED
      BY <2>5, <3>1, <3>2
  <2>7. ctu' \in Nat /\ index' \in Nat
    BY <1>3, <2>1
  <2> QED
    BY <1>3, <1>4, <1>10, <2>4, <2>6, <2>7 DEF decoderVars
<1>11. CASE DecodeSlice
  <2> DEFINE d == ReadHeader(nals[index])
  <2>1. /\ phase = "decodeSlice" /\ index' = index
        /\ decSync' = decSync /\ decSegmentEnd' = decSegmentEnd
        /\ substreams' = substreams /\ sizes' = sizes /\ nals' = nals
        /\ streams' = Extracted(nals[index]) /\ decSegments' = Append(decSegments, d)
        /\ decoder' = DecBeginSegment(d) /\ ctu' = d.start
    BY <1>11 DEF DecodeSlice
  <2>2. ~Cutting
    BY <2>1 DEF Cutting
  <2>3. PICK E : WritesAt(E) /\ DecoderAt(E)
    BY <1>1, <2>2 DEF DataInv
  <2>4. index \in 1..Len(segments) /\ Knows(decSegments, segments, index - 1) /\ Len(decSegments) = index - 1
    BY <2>1, <2>3, Zenon DEF DecoderAt
  <2>5. IsNal(E, segments[index], nals[index])
    <3>1. Written = Len(segments)
      BY <2>1 DEF Written
    <3> QED
      BY <2>3, <2>4, <3>1 DEF WritesAt, HasWritten
  <2>6. d \in Segments /\ SameSegment(d, segments[index])
    BY <1>1, <2>2, <2>4, <2>5, HeaderLemma
  <2>7. AllTyped(streams')
    <3>1. Remains(E, segments[index], segments[index].start, streams')
      BY <2>1, <2>5 DEF IsNal
    <3> QED
      BY <3>1, Zenon DEF Remains, RunIn, AllTyped
  <2> HIDE DEF d
  <2>8. decoder' \in States
    <3>1. d.sliceStart \in Addresses
      BY <2>6 DEF Segments
    <3> QED
      BY <1>1, <1>3, <2>1, <3>1, DecoderTypes
  <2>9. decSegments' \in Seq(Segments)
    BY <1>3, <2>1, <2>6, AppendProperties
  <2>10. ctu' \in Nat
    BY <1>5, <2>1, <2>4, <2>6 DEF SameSegment
  <2> QED
    BY <1>3, <1>4, <2>1, <2>7, <2>8, <2>9, <2>10
<1>12. CASE DecodeCtu
  <2> DEFINE last == ctu + 1 = Encoded.end
             after == CodeCtu(Begun, ctu)
             r == ~last /\ ~EndsSubstream(ctu)
  <2>1. phase = "decodeCtu" /\ substreams' = substreams /\ sizes' = sizes /\ nals' = nals
    BY <1>12 DEF DecodeCtu
  <2>2. ~Cutting
    BY <2>1 DEF Cutting
  <2>3. PICK E : IsCoded(E, segments) /\ DecoderAt(E) /\ WritesAt(E) /\ EncoderAt(E)
    BY <1>1, <2>2 DEF DataInv
  <2>4. Decode(last) /\ Begun = E[ctu] /\ Remains(E, Encoded, ctu + 1, streams')
    BY <1>1, <1>12, <2>2, <2>3, DecodesCtu
  <2>5. after \in States
    <3>1. index \in 1..Len(segments) /\ Encoded.start <= ctu /\ ctu < Encoded.end
      BY <2>1, <2>3, Zenon DEF DecoderAt
    <3>2. Encoded.end \in 1..N
      BY <1>1, <2>2, <3>1, SegmentLemma DEF Encoded
    <3>3. ctu \in 0..N - 1
      BY <1>1, <1>3, <3>1, <3>2
    <3>4. E \in Histories
      BY <2>3 DEF IsCoded
    <3>5. After(E, ctu) \in States
      BY <1>1, <3>3, <3>4, AfterType
    <3> QED
      BY <2>4, <3>5 DEF After
  <2>6. /\ decoder' = [after EXCEPT !.running = r]
        /\ decSync' = IF SecondOfRow(ctu) THEN after ELSE decSync
        /\ last => FinishDecode(after)
        /\ ~last => ctu' = ctu + 1 /\ phase' = phase /\ index' = index /\ decSegments' = decSegments
                    /\ decSegmentEnd' = decSegmentEnd
    BY <2>4, Zenon DEF Decode
  <2>7. AllTyped(streams')
    BY <2>4, Zenon DEF Remains, RunIn, AllTyped
  <2>8. r \in BOOLEAN
    OBVIOUS
  <2> HIDE DEF after, r
  <2>9. decoder' \in States /\ decSync' \in States
    BY <1>3, <2>5, <2>6, <2>8, RunningType
  <2>10. /\ ctu' \in Nat /\ index' \in Nat /\ decSegmentEnd' \in States
         /\ last => phase' \in {"decodeSlice", "done"}
    BY <1>3, <2>5, <2>6 DEF FinishDecode
  <2>11. decSegments' \in Seq(Segments)
    <3>1. CASE ~last
      BY <1>3, <2>6, <3>1
    <3>2. CASE last
      <4>1. phase' \in {"decodeSlice", "done"}
        BY <2>10, <3>2
      <4>2. DataInv' /\ ~Cutting'
        BY <4>1 DEF DataStates, Cutting
      <4>3. \E F : DecoderAt(F)'
        BY <4>2 DEF DataInv
      <4>4. decSegments' \in Seq(Segments')
        BY <4>1, <4>3 DEF DecoderAt, Knows
      <4> QED
        BY <1>2, <4>4, FixedTypes
    <3> QED
      BY <3>1, <3>2
  <2> QED
    BY <1>3, <1>4, <2>1, <2>7, <2>9, <2>10, <2>11
<1>13. CASE UNCHANGED vars
  BY <1>3, <1>4, <1>13 DEF vars, encoderVars, decoderVars
<1> QED
  BY <1>7, <1>8, <1>9, <1>10, <1>11, <1>12, <1>13 DEF Next, EncoderNext

LEMMA TypeImplies == DataStates /\ TypeInv => TypeOK
<1> SUFFICES ASSUME DataStates, TypeInv PROVE TypeOK
  OBVIOUS
<1>1. SlicesInv /\ StatesInv /\ GoodSym /\ phase \in Phases
  BY DEF DataStates, SlicesInv
<1>2. picSym.tsToRs \in [Addresses -> Addresses]
  <2>1. IsPicture(picture) /\ N = NumCtus(picture) /\ picSym = PicSymOf(picture)
    BY <1>1, PictureLemma DEF GoodSym, picture
  <2> QED
    BY <2>1, PicSymLemma DEF Addresses
<1>3. /\ coder \in States /\ sync \in States /\ segmentEnd \in States /\ trial \in [0..N - 1 -> States]
  BY <1>1 DEF StatesInv, Histories
<1>4. segments \in Seq(Segments) /\ layout \in Layouts
  BY <1>1, SlicesInvChain DEF GoodSym
<1>5. /\ ctu \in Nat /\ index \in Nat
      /\ decoder \in States /\ decSync \in States /\ decSegmentEnd \in States
      /\ decSegments \in Seq(Segments) /\ sizes \in Seq(Nat)
      /\ \A s \in DOMAIN substreams : substreams[s] \in Seq(Elements)
      /\ \A s \in DOMAIN streams : streams[s] \in Seq(Elements)
  BY Zenon DEF TypeInv, AllTyped
<1>6. nals \in Seq([address : Addresses, dependent : BOOLEAN, sizes : Seq(Nat), data : Seq(Elements)])
  BY DEF TypeInv, NalUnits
<1> QED
  BY <1>1, <1>2, <1>3, <1>4, <1>5, <1>6 DEF TypeOK

(* The state has its type, whatever the picture and the options.           *)
THEOREM StateHasType == Spec => []TypeOK
<1>1. DataStates /\ DataStates' /\ TypeInv /\ [Next]_vars => TypeInv'
  BY TypeStep
<1> QED
  BY <1>1, DataInit, DataStep, TypeInit, TypeImplies, PTL DEF Spec
==============================================================================
