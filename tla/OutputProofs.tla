----------------------------- MODULE OutputProofs -----------------------------
(***************************************************************************)
(* Proofs about what the decoder writes when nothing is missing from the   *)
(* bitstream (IntactProofs): the pictures of a sequence are written in the *)
(* order of their POCs and, unless prior pictures are dropped, what is     *)
(* written is what a conforming decoder outputs.                           *)
(***************************************************************************)
EXTENDS IntactProofs, WellFoundedInduction

(* xWriteOutput() takes -MAX_INT for the POC before the first picture.     *)
PocsAreShown == \A poc \in Pocs : poc > -MaxInt

-----------------------------------------------------------------------------
(* The pictures of a sequence c of coded pictures in output order.         *)

(* The pictures the decoder is to decode, and those of them that are to be *)
(* output.                                                                 *)
Decoded(c) == {k \in 1..Len(c) : c[k].tid <= MaxTemporalLayer /\ ~Undecodable(c, k)}
Visible(c) == {k \in Decoded(c) : c[k].pof}

(* Picture j precedes picture k in output order.                           *)
Precedes(c, j, k) ==
  \/ j < k /\ ~SameSequence(c, j, k)
  \/ (SameSequence(c, j, k) \/ SameSequence(c, k, j)) /\ c[j].poc < c[k].poc

(* A sequence of pictures in output order. *)
IsInOrder(c, s) ==
  \A i, j \in 1..Len(s) : i < j => Precedes(c, s[i], s[j])

-----------------------------------------------------------------------------
(* The conforming decoder.                                                 *)

OutIds(out) == {out[i] : i \in 1..Len(out)}
WaitIds(W) == {w.id : w \in W}

(* What waits when the last picture n is stored, besides it: what has not  *)
(* been output, or was output with it and follows it.                      *)
Rest(c, W) ==
  LET n == Len(c)
  IN {j \in Visible(c) \ {n} : /\ SameSequence(c, j, n)
                               /\ j \in WaitIds(W) \/ (n \in Visible(c) /\ Precedes(c, n, j))}

(* The reference pictures besides it. *)
KeptWith(c, refs) == {k \in refs \ {Len(c)} : c[k].tid <= MaxTemporalLayer}

(* What waits belongs to the current sequence.                             *)
WaitingLaw(c, W) ==
  /\ IsFiniteSet(W)
  /\ \A w \in W : /\ w = [id |-> w.id, poc |-> c[w.id].poc]
                  /\ w.id \in Visible(c) /\ SameSequence(c, w.id, Len(c))

(* What has been output is in order, before what waits, and nothing of the *)
(* sequence is missing.                                                    *)
OutputLaw(c, W, out) ==
  /\ out \in Seq(Visible(c)) /\ IsInOrder(c, out)
  /\ \A o \in OutIds(out), w \in W : Precedes(c, o, w.id)
  /\ \A k \in Visible(c) : SameSequence(c, k, Len(c)) \/ NoPriorFlags \subseteq {FALSE}
       => k \in OutIds(out) \cup WaitIds(W)

(* There was room for the last picture. *)
RoomLaw(c, refs, W) ==
  Len(c) \in Decoded(c) =>
    /\ IsFiniteSet(refs) /\ IsFiniteSet(Rest(c, W))
    /\ Cardinality(KeptWith(c, refs)) < MaxDecPicBuf[MaxTemporalLayer]
    /\ Cardinality(Rest(c, W)) <= NumReorderPics[MaxTemporalLayer]
    /\ Rest(c, W) = {} \/ Cardinality(Rest(c, W) \cup KeptWith(c, refs))
                            < MaxDecPicBuf[MaxTemporalLayer]

OutputSourceInv ==
  /\ \A k \in 1..Len(coded) : coded[k].poc > -MaxInt
  /\ WaitingLaw(coded, waiting) /\ OutputLaw(coded, waiting, output)
  /\ RoomLaw(coded, references, waiting)

-----------------------------------------------------------------------------
(* The decoder.                                                            *)

IsWritten(w, k) == \E i \in 1..Len(w) : w[i].ids = {k}

Marked(d) == {s \in Held(d) : d[s].out}
Referenced(d) == {s \in Held(d) : d[s].ref}

(* The open picture, to be marked when it is finished. *)
IsOpen(d, s) == s = curPic /\ s \in Held(d) /\ ~d[s].recon

(* Pictures still to be written: those in the list, and the one that has   *)
(* not reached it.                                                         *)
Pending(k) ==
  \/ \E s \in Held(dpb) : dpb[s].ids = {k} /\ (dpb[s].out \/ (IsOpen(dpb, s) /\ dpb[s].pof))
  \/ Ahead /\ k = Len(coded) /\ k \in Visible(coded)

(* The end of the file: all that is held is written.                       *)
Ending == phase \in {"final", "done"} \/ Ended

(* The list holds pictures that are to be decoded, marks those that are to *)
(* be output, and has the marked ones in the order of their POCs.          *)
MarksInv ==
  /\ \A s \in Held(dpb), k \in 1..Len(coded) : dpb[s].ids = {k} => k \in Decoded(coded)
  /\ \A s \in Marked(dpb) : dpb[s].pof
  /\ \A s, t \in Marked(dpb) : dpb[s].pos <= dpb[t].pos => dpb[s].poc <= dpb[t].poc

(* What is written is in order, before what is to be written; while the    *)
(* file goes on, a conforming decoder has output it.                       *)
OrderInv ==
  /\ \A i \in 1..Len(written), k \in 1..Len(coded) : written[i].ids = {k} => k \in Visible(coded)
  /\ \A i, j \in 1..Len(written), a, b \in 1..Len(coded) :
       i < j /\ written[i].ids = {a} /\ written[j].ids = {b} => Precedes(coded, a, b)
  /\ \A a, k \in 1..Len(coded) : IsWritten(written, a) /\ Pending(k) => Precedes(coded, a, k)
  /\ ~Ending => \A w \in waiting : ~IsWritten(written, w.id)

(* The last POC written in this sequence. *)
DisplayInv ==
  /\ Held(dpb) = {} => iPOCLastDisplay = -MaxInt
  /\ \/ iPOCLastDisplay = -MaxInt
     \/ \E a \in 1..Len(coded) : /\ IsWritten(written, a) /\ SameSequence(coded, a, Reached)
                                 /\ iPOCLastDisplay = coded[a].poc

CounterInv ==
  phase \in {"bump1", "bump2"} =>
    /\ numPicsNotYetDisplayed = Cardinality(Marked(dpb))
    /\ dpbFullness = Cardinality(Marked(dpb) \cup Referenced(dpb))

(* A slice of a picture that is to be decoded is being handled. *)
HandlesSlice ==
  nal.kind = "slice" /\ Len(coded) \in Decoded(coded) /\ ~newPicture
    /\ phase \in {"lists", "returned", "prior", "output2", "bump2"}

(* Nothing is to be bumped, unless a slice has been decoded or a picture   *)
(* has been finished since the last time.                                  *)
RoomInv ==
  /\ ~HandlesSlice /\ ~Ending =>
       Cardinality(Marked(dpb) \cup Referenced(dpb)) <= MaxDecPicBuf[MaxTemporalLayer]
  /\ ~HandlesSlice /\ ~Ending /\ phase # "bump1" =>
       Cardinality(Marked(dpb)) <= NumReorderPics[MaxTemporalLayer]
  /\ ~Ahead /\ Len(coded) \in Decoded(coded) =>
       \A s \in Referenced(dpb), k \in 1..Len(coded) : dpb[s].ids = {k} => k \in references

(* Before the first picture has been finished, and at the end.             *)
EmptyInv ==
  /\ ~listSet => \A s \in Held(dpb) : s = curPic /\ ~dpb[s].out
  /\ ~listSet /\ ((firstSliceInPicture /\ phase # "lists") \/ phase = "final") => Held(dpb) = {}
  /\ phase = "done" => Held(dpb) = {}
  /\ phase \in {"output2", "bump2"} => listSet

(* Where no prior pictures are dropped, nothing that is to be output is    *)
(* lost.                                                                   *)
ShownInv ==
  NoPriorFlags \subseteq {FALSE} =>
    /\ ~isNoOutputPriorPics
    /\ \A k \in Visible(coded) : k <= Reached =>
         \/ IsWritten(written, k)
         \/ \E s \in Held(dpb) : dpb[s].ids = {k} /\ (dpb[s].out \/ IsOpen(dpb, s))

OutputDecoderInv ==
  /\ MarksInv /\ OrderInv /\ DisplayInv /\ CounterInv /\ RoomInv /\ EmptyInv /\ ShownInv

OInv == PocsAreShown /\ IInv /\ OutputSourceInv /\ OutputDecoderInv

-----------------------------------------------------------------------------
(* Numbers and cardinalities.                                              *)

(* A non-empty set of numbers has a least one.                             *)
LEMMA LeastNumber ==
  ASSUME NEW T \in SUBSET Nat, T # {}
  PROVE  \E n \in T : \A m \in T : n <= m
<1> DEFINE Below(n) == 0..n - 1
           R == StrictSubsetOrdering(Nat)
           U == {Below(n) : n \in T}
<1>1. U \subseteq FiniteSubsetsOf(Nat) /\ U # {}
  <2>1. ASSUME NEW n \in Nat PROVE IsFiniteSet(Below(n)) /\ Below(n) \subseteq Nat
    BY FS_Interval
  <2> QED
    BY <2>1 DEF FiniteSubsetsOf
<1>2. PICK x \in U : \A y \in U : ~(<<y, x>> \in R)
  <2>1. IsWellFoundedOn(R, FiniteSubsetsOf(Nat))
    BY FS_StrictSubsetOrderingWellFounded
  <2> HIDE DEF R, U
  <2> QED
    BY <1>1, <2>1, WFMin
<1>3. PICK n \in T : x = Below(n)
  OBVIOUS
<1>4. ASSUME NEW m \in T, m < n PROVE FALSE
  <2>1. Below(m) \subseteq Below(n) /\ n - 1 \in Below(n) /\ n - 1 \notin Below(m)
    BY <1>4
  <2>2. <<Below(m), x>> \in R
    BY <1>3, <2>1 DEF StrictSubsetOrdering
  <2> QED
    BY <1>2, <2>2
<1> QED
  BY <1>4

(* Pictures of the list that differ are no more than their ids.            *)
LEMMA AsManyIds ==
  ASSUME NEW d, ListDiffers(d), NEW S \in SUBSET Held(d), NEW T, IsFiniteSet(T),
         \A s \in S : \E k \in T : d[s].ids = {k}
  PROVE  Cardinality(S) <= Cardinality(T)
<1> DEFINE f == [s \in S |-> CHOOSE k \in T : d[s].ids = {k}]
<1>1. \A s \in S : f[s] \in T /\ d[s].ids = {f[s]}
  OBVIOUS
<1>2. f \in [S -> T]
  BY <1>1
<1> HIDE DEF f
<1>3. \A s, t \in S : f[s] = f[t] => s = t
  BY <1>1 DEF ListDiffers
<1>4. f \in Injection(S, T)
  BY <1>2, <1>3 DEF Injection, IsInjective
<1> QED
  BY <1>4, FS_Injection

-----------------------------------------------------------------------------
(* Sets of waiting pictures in the order of their POCs.                    *)

(* Their POCs differ. *)
PocsOf(W) == \A v, w \in W : v.poc \in Int /\ (v.poc = w.poc => v = w)

(* q lists some of W in the order of their POCs. *)
Lists(q, n, W) == q \in [1..n -> W] /\ \A i, j \in 1..n : i < j => q[i].poc < q[j].poc

(* A finite set of pictures has one with the greatest POC.                 *)
LEMMA GreatestPoc ==
  ASSUME NEW W, IsFiniteSet(W), W # {}, PocsOf(W)
  PROVE  \E w \in W : \A v \in W : v.poc <= w.poc
<1> DEFINE C(w) == {v \in W : v.poc > w.poc}
           T == {Cardinality(C(w)) : w \in W}
<1>1. \A w \in W : IsFiniteSet(C(w)) /\ Cardinality(C(w)) \in Nat
  BY FS_Subset, FS_CardinalityType
<1>2. T \in SUBSET Nat /\ T # {}
  BY <1>1
<1>3. PICK w \in W : \A m \in T : Cardinality(C(w)) <= m
  <2> HIDE DEF C
  <2> QED
    BY <1>2, LeastNumber
<1>4. ASSUME NEW v \in W, v.poc > w.poc PROVE FALSE
  <2>1. C(v) \subseteq C(w) /\ v \in C(w) /\ v \notin C(v)
    BY <1>4 DEF PocsOf
  <2>2. Cardinality(C(v)) <= Cardinality(C(w))
        /\ (Cardinality(C(v)) = Cardinality(C(w)) => C(v) = C(w))
    <3> HIDE DEF C
    <3> QED
      BY <1>1, <2>1, FS_Subset
  <2>3. Cardinality(C(v)) \in T
    OBVIOUS
  <2> HIDE DEF C, T
  <2> QED
    BY <1>1, <1>3, <1>4, <2>1, <2>2, <2>3
<1> QED
  BY <1>4 DEF PocsOf

(* It can be listed.                                                       *)
LEMMA HasOrder ==
  ASSUME NEW W, IsFiniteSet(W), PocsOf(W)
  PROVE  \E q : Lists(q, Cardinality(W), W)
<1> DEFINE Bad == {n \in Nat : \E V \in SUBSET W : Cardinality(V) = n
                                                  /\ ~\E q : Lists(q, n, V)}
<1>1. SUFFICES ASSUME Bad # {} PROVE FALSE
  <2>1. Cardinality(W) \in Nat /\ Cardinality(W) \notin Bad
    BY <1>1, FS_CardinalityType
  <2> QED
    BY <2>1
<1>2. PICK n \in Bad : \A m \in Bad : n <= m
  <2> HIDE DEF Bad
  <2>1. Bad \in SUBSET Nat
    BY DEF Bad
  <2> QED
    BY <1>1, <2>1, LeastNumber
<1>3. PICK V \in SUBSET W : Cardinality(V) = n /\ ~\E q : Lists(q, n, V)
  BY <1>2
<1>4. IsFiniteSet(V) /\ PocsOf(V) /\ n \in Nat
  BY <1>2, <1>3, FS_Subset DEF PocsOf
<1>5. CASE n = 0
  <2>1. Lists([i \in 1..0 |-> 0], 0, V)
    BY DEF Lists
  <2> QED
    BY <1>3, <1>5, <2>1
<1>6. CASE n > 0
  <2>1. V # {}
    BY <1>3, <1>6, FS_EmptySet
  <2>2. PICK w \in V : \A v \in V : v.poc <= w.poc
    BY <1>4, <2>1, GreatestPoc
  <2>3. IsFiniteSet(V \ {w}) /\ Cardinality(V \ {w}) = n - 1
    BY <1>3, <1>4, FS_RemoveElement
  <2>4. n - 1 \notin Bad /\ n - 1 \in Nat
    BY <1>2, <1>4, <1>6
  <2>5. PICK q : Lists(q, n - 1, V \ {w})
    BY <2>3, <2>4
  <2> DEFINE r == [i \in 1..n |-> IF i = n THEN w ELSE q[i]]
  <2>6. \A i \in 1..n - 1 : q[i] \in V /\ q[i] # w
    BY <2>5 DEF Lists
  <2>7. \A i \in 1..n - 1 : q[i].poc < w.poc
    BY <1>4, <2>2, <2>6 DEF PocsOf
  <2>8. r \in [1..n -> V]
    BY <1>4, <2>6
  <2>9. \A i, j \in 1..n : i < j => r[i].poc < r[j].poc
    <3> SUFFICES ASSUME NEW i \in 1..n, NEW j \in 1..n, i < j PROVE r[i].poc < r[j].poc
      OBVIOUS
    <3>1. i \in 1..n - 1 /\ r[i] = q[i]
      BY <1>4
    <3>2. CASE j = n
      BY <2>7, <3>1, <3>2
    <3>3. CASE j # n
      BY <1>4, <2>5, <3>1, <3>3 DEF Lists
    <3> QED
      BY <3>2, <3>3
  <2> HIDE DEF r
  <2>10. Lists(r, n, V)
    BY <2>8, <2>9 DEF Lists
  <2> QED
    BY <1>3, <2>10
<1> QED
  BY <1>4, <1>5, <1>6

(* Such a list of all of them has each of them once.                       *)
LEMMA ListsAll ==
  ASSUME NEW W, IsFiniteSet(W), PocsOf(W), NEW q, Lists(q, Cardinality(W), W)
  PROVE  \A w \in W : \E i \in 1..Cardinality(W) : q[i] = w
<1> DEFINE n == Cardinality(W)
<1>1. n \in Nat /\ IsFiniteSet(1..n) /\ Cardinality(1..n) = n
  BY FS_CardinalityType, FS_Interval
<1> HIDE DEF n
<1>2. q \in [1..n -> W]
  BY DEF Lists, n
<1>3. \A i, j \in 1..n : q[i] = q[j] => i = j
  <2> SUFFICES ASSUME NEW i \in 1..n, NEW j \in 1..n, q[i] = q[j], i < j PROVE FALSE
    BY <1>1
  <2>1. q[i].poc < q[j].poc /\ q[i].poc \in Int
    BY <1>2 DEF Lists, PocsOf, n
  <2> QED
    BY <2>1
<1>4. q \in Injection(1..n, W)
  BY <1>2, <1>3 DEF Injection, IsInjective
<1>5. q \in Surjection(1..n, W)
  BY <1>1, <1>4, FS_Injection DEF n
<1> QED
  BY <1>5 DEF Surjection, n

(* InOutputOrder() yields their ids, each once, in that order.             *)
LEMMA InOutputOrderFacts ==
  ASSUME NEW W, IsFiniteSet(W), PocsOf(W)
  PROVE  LET s == InOutputOrder(W)
         IN /\ s \in Seq(WaitIds(W)) /\ OutIds(s) = WaitIds(W)
            /\ \A i, j \in 1..Len(s) : i < j =>
                 \E v, w \in W : s[i] = v.id /\ s[j] = w.id /\ v.poc < w.poc
<1> DEFINE n == Cardinality(W)
           s == InOutputOrder(W)
           IsOrder(q) == \A i, j \in DOMAIN q : i < j => q[i].poc < q[j].poc
           order == CHOOSE q \in [1..n -> W] : IsOrder(q)
<1>1. n \in Nat
  BY FS_CardinalityType
<1>2. s = [i \in 1..n |-> order[i].id]
  BY DEF InOutputOrder
<1>3. PICK p : Lists(p, n, W)
  BY HasOrder
<1>4. p \in [1..n -> W] /\ IsOrder(p)
  BY <1>3 DEF Lists
<1>5. order \in [1..n -> W] /\ IsOrder(order)
  BY <1>4
<1> HIDE DEF order, s
<1>6. Lists(order, n, W)
  BY <1>5 DEF Lists
<1>7. \A w \in W : \E i \in 1..n : order[i] = w
  BY <1>6, ListsAll
<1> HIDE DEF n, IsOrder
<1>8. /\ s \in Seq(WaitIds(W)) /\ Len(s) = n
      /\ \A i \in 1..n : order[i] \in W /\ s[i] = order[i].id
  <2>1. \A i \in 1..n : order[i] \in W /\ order[i].id \in WaitIds(W)
    BY <1>5 DEF WaitIds
  <2> QED
    BY <1>1, <1>2, <2>1
<1>9. OutIds(s) = WaitIds(W)
  <2>1. \A i \in 1..n : s[i] \in WaitIds(W)
    BY <1>8 DEF WaitIds
  <2>2. \A w \in W : \E i \in 1..n : s[i] = w.id
    BY <1>7, <1>8
  <2> QED
    BY <1>8, <2>1, <2>2 DEF OutIds, WaitIds
<1>10. ASSUME NEW i \in 1..n, NEW j \in 1..n, i < j
       PROVE  \E v, w \in W : s[i] = v.id /\ s[j] = w.id /\ v.poc < w.poc
  <2>1. order[i] \in W /\ order[j] \in W /\ order[i].poc < order[j].poc
    BY <1>6, <1>8, <1>10 DEF Lists
  <2> QED
    BY <1>8, <2>1
<1> QED
  BY <1>8, <1>9, <1>10 DEF s

(* Bumped() takes first ones, as many as it must: after a picture has been *)
(* decoded, and before it is stored.                                       *)
IsPrefix(B, W) == B \subseteq W /\ \A b \in B, w \in W \ B : b.poc < w.poc

LEMMA BumpedIsChosen ==
  ASSUME NEW W, IsFiniteSet(W), NEW P \in SUBSET SUBSET W, W \in P
  PROVE  (CHOOSE B \in P : \A C \in P : Cardinality(B) <= Cardinality(C)) \in P
<1> DEFINE T == {Cardinality(B) : B \in P}
<1>1. \A B \in P : Cardinality(B) \in Nat
  BY FS_Subset, FS_CardinalityType
<1>2. PICK m \in T : \A k \in T : m <= k
  <2>1. T \in SUBSET Nat /\ T # {}
    BY <1>1
  <2> HIDE DEF T
  <2> QED
    BY <2>1, LeastNumber
<1>3. \E B \in P : \A C \in P : Cardinality(B) <= Cardinality(C)
  BY <1>2
<1> QED
  BY <1>3

LEMMA BumpedAfterFacts ==
  ASSUME NEW W, IsFiniteSet(W)
  PROVE  LET B == Bumped(W, FewEnoughWait)
         IN IsPrefix(B, W) /\ (W \ B = {} \/ FewEnoughWait(W \ B))
<1> DEFINE P == {B \in SUBSET W : /\ \A b \in B, w \in W \ B : b.poc < w.poc
                                  /\ W \ B = {} \/ FewEnoughWait(W \ B)}
           X == Bumped(W, FewEnoughWait)
<1>1. X = CHOOSE B \in P : \A C \in P : Cardinality(B) <= Cardinality(C)
  BY DEF Bumped
<1>2. P \in SUBSET SUBSET W /\ W \in P
  OBVIOUS
<1> HIDE DEF X
<1>3. X \in P
  <2> HIDE DEF P
  <2> QED
    BY <1>1, <1>2, BumpedIsChosen
<1> QED
  BY <1>3 DEF X, IsPrefix

LEMMA BumpedBeforeFacts ==
  ASSUME NEW W, IsFiniteSet(W), NEW kept
  PROVE  LET B == BumpedBeforeStore(W, kept)
             R == W \ B
         IN /\ IsPrefix(B, W)
            /\ R = {} \/ /\ FewEnoughWait(R)
                         /\ Cardinality(WaitIds(R) \cup kept) < MaxDecPicBuf[MaxTemporalLayer]
<1> DEFINE IsEnough(S) ==
             /\ FewEnoughWait(S)
             /\ Cardinality({w.id : w \in S} \cup kept) < MaxDecPicBuf[MaxTemporalLayer]
           P == {B \in SUBSET W : /\ \A b \in B, w \in W \ B : b.poc < w.poc
                                  /\ W \ B = {} \/ IsEnough(W \ B)}
           X == BumpedBeforeStore(W, kept)
<1>1. X = CHOOSE B \in P : \A C \in P : Cardinality(B) <= Cardinality(C)
  BY DEF BumpedBeforeStore, Bumped
<1>2. P \in SUBSET SUBSET W /\ W \in P
  OBVIOUS
<1> HIDE DEF X
<1>3. X \in P
  <2> HIDE DEF P
  <2> QED
    BY <1>1, <1>2, BumpedIsChosen
<1> QED
  BY <1>3 DEF X, IsPrefix, WaitIds

-----------------------------------------------------------------------------
(* Output order is a strict order.                                         *)

Same(c, j, k) == SameSequence(c, j, k) \/ SameSequence(c, k, j)

LEMMA SameEquivalence ==
  ASSUME NEW c, NEW j \in Nat, NEW k \in Nat, NEW l \in Nat
  PROVE  /\ Same(c, j, j)
         /\ Same(c, j, k) => Same(c, k, j)
         /\ Same(c, j, k) /\ Same(c, k, l) => Same(c, j, l)
         /\ Same(c, j, l) /\ j <= k /\ k <= l => Same(c, j, k) /\ Same(c, k, l)
<1>1. \A m \in Starts(c) : m \in Nat
  BY DEF Starts
<1>2. \A a, b \in Nat : SameSequence(c, a, b) <=> a <= b /\ \A m \in Starts(c) : ~(a < m /\ m <= b)
  BY <1>1 DEF SameSequence
<1>3. Same(c, j, j)
  BY <1>1, <1>2 DEF Same
<1>4. Same(c, j, k) => Same(c, k, j)
  BY DEF Same
<1>5. \A a, b \in Nat : Same(c, a, b) <=>
        \A m \in Starts(c) : ~(a < m /\ m <= b) /\ ~(b < m /\ m <= a)
  BY <1>1, <1>2 DEF Same
<1>6. ASSUME Same(c, j, k), Same(c, k, l) PROVE Same(c, j, l)
  <2>1. SUFFICES ASSUME NEW m \in Starts(c)
                 PROVE  ~(j < m /\ m <= l) /\ ~(l < m /\ m <= j)
    BY <1>5
  <2>2. /\ ~(j < m /\ m <= k) /\ ~(k < m /\ m <= j)
        /\ ~(k < m /\ m <= l) /\ ~(l < m /\ m <= k)
    BY <1>5, <1>6
  <2> QED
    BY <1>1, <2>2
<1>7. ASSUME Same(c, j, l), j <= k, k <= l PROVE Same(c, j, k) /\ Same(c, k, l)
  BY <1>1, <1>5, <1>7
<1> QED
  BY <1>3, <1>4, <1>6, <1>7

LEMMA PrecedesIs ==
  ASSUME NEW c, NEW j \in Nat, NEW k \in Nat
  PROVE  Precedes(c, j, k) <=> IF Same(c, j, k) THEN c[j].poc < c[k].poc ELSE j < k
<1>1. SameSequence(c, k, j) => k <= j
  BY DEF SameSequence
<1> QED
  BY <1>1 DEF Precedes, Same

LEMMA PrecedesTransitive ==
  ASSUME NEW c, NEW j \in Nat, NEW k \in Nat, NEW l \in Nat,
         c[j].poc \in Int, c[k].poc \in Int, c[l].poc \in Int,
         Precedes(c, j, k), Precedes(c, k, l)
  PROVE  Precedes(c, j, l)
<1>0. /\ \A x, y \in {j, k, l} : Same(c, x, y) => Same(c, y, x)
      /\ \A x, y, z \in {j, k, l} : Same(c, x, y) /\ Same(c, y, z) => Same(c, x, z)
      /\ \A x, y, z \in {j, k, l} :
           Same(c, x, z) /\ x <= y /\ y <= z => Same(c, x, y) /\ Same(c, y, z)
  BY SameEquivalence
<1>1. CASE Same(c, j, k) /\ Same(c, k, l)
  <2>1. Same(c, j, l) /\ c[j].poc < c[k].poc /\ c[k].poc < c[l].poc
    BY <1>0, <1>1, PrecedesIs
  <2> QED
    BY <2>1, PrecedesIs
<1>2. CASE Same(c, j, k) /\ ~Same(c, k, l)
  <2>1. ~Same(c, j, l) /\ k < l
    BY <1>0, <1>2, PrecedesIs
  <2>2. ~(l <= j)
    BY <1>0, <1>2, <2>1
  <2> QED
    BY <2>1, <2>2, PrecedesIs
<1>3. CASE ~Same(c, j, k) /\ Same(c, k, l)
  <2>1. ~Same(c, j, l) /\ j < k
    BY <1>0, <1>3, PrecedesIs
  <2>2. ~(l <= j)
    BY <1>0, <1>3, <2>1
  <2> QED
    BY <2>1, <2>2, PrecedesIs
<1>4. CASE ~Same(c, j, k) /\ ~Same(c, k, l)
  <2>1. j < k /\ k < l
    BY <1>4, PrecedesIs
  <2>2. ~Same(c, j, l)
    BY <1>0, <1>4, <2>1
  <2> QED
    BY <2>1, <2>2, PrecedesIs
<1> QED
  BY <1>1, <1>2, <1>3, <1>4

LEMMA PrecedesIrreflexive ==
  ASSUME NEW c, NEW k \in Nat, c[k].poc \in Int
  PROVE  ~Precedes(c, k, k)
  BY PrecedesIs

(* Two pictures whose order is not that of their numbers are of one        *)
(* sequence.                                                               *)
LEMMA PrecedesTotal ==
  ASSUME NEW c \in Seq(CodedPicture), Lawful(c), NEW j \in 1..Len(c), NEW k \in 1..Len(c), j # k
  PROVE  Precedes(c, j, k) \/ Precedes(c, k, j)
<1>0. \A m \in 1..Len(c) : c[m] \in CodedPicture
  OBVIOUS
<1>1. \A m \in 1..Len(c) : c[m].poc \in Int /\ PocLaw(c, m)
  BY <1>0 DEF Lawful, Law, CodedPicture
<1>2. Len(c) \in Nat /\ j \in Nat /\ k \in Nat
  OBVIOUS
<1>3. CASE ~Same(c, j, k)
  BY <1>2, <1>3, PrecedesIs DEF Same
<1>4. CASE Same(c, j, k)
  <2>1. Same(c, k, j)
    BY <1>4 DEF Same
  <2>2. c[j].poc # c[k].poc
    <3>1. CASE j < k
      <4>1. SameSequence(c, j, k)
        BY <1>2, <1>4, <3>1 DEF Same, SameSequence
      <4> QED
        BY <1>1, <1>2, <3>1, <4>1 DEF PocLaw
    <3>2. CASE k < j
      <4>1. SameSequence(c, k, j)
        BY <1>2, <1>4, <3>2 DEF Same, SameSequence
      <4> QED
        BY <1>1, <1>2, <3>2, <4>1 DEF PocLaw
    <3> QED
      BY <1>2, <3>1, <3>2
  <2> QED
    BY <1>1, <1>2, <1>4, <2>1, <2>2, PrecedesIs
<1> QED
  BY <1>3, <1>4

(* A sequence in output order is determined by its members.                *)
LEMMA OrderIsUnique ==
  ASSUME NEW c \in Seq(CodedPicture), NEW s \in Seq(1..Len(c)), NEW t \in Seq(1..Len(c)),
         IsInOrder(c, s), IsInOrder(c, t), OutIds(s) = OutIds(t)
  PROVE  s = t
<1>0. \A k \in 1..Len(c) : k \in Nat /\ c[k] \in CodedPicture
  OBVIOUS
<1>1. \A k \in 1..Len(c) : k \in Nat /\ c[k].poc \in Int
  BY <1>0 DEF CodedPicture
<1>2. \A i \in 1..Len(s) : s[i] \in 1..Len(c) /\ s[i] \in OutIds(s)
  BY DEF OutIds
<1>3. \A i \in 1..Len(t) : t[i] \in 1..Len(c) /\ t[i] \in OutIds(t)
  BY DEF OutIds
<1>4. \A k \in OutIds(s) : \E i \in 1..Len(s) : s[i] = k
  BY DEF OutIds
<1>5. \A k \in OutIds(t) : \E i \in 1..Len(t) : t[i] = k
  BY DEF OutIds
<1>6. \A i, j \in 1..Len(s) : i < j => Precedes(c, s[i], s[j])
  BY DEF IsInOrder
<1>7. \A i, j \in 1..Len(t) : i < j => Precedes(c, t[i], t[j])
  BY DEF IsInOrder
<1>8. Len(s) \in Nat /\ Len(t) \in Nat
  OBVIOUS
<1>9. \A j, k \in 1..Len(c) : ~(Precedes(c, j, k) /\ Precedes(c, k, j)) /\ ~Precedes(c, k, k)
  BY <1>1, PrecedesTransitive, PrecedesIrreflexive
<1> DEFINE Bad == {i \in Nat : i \in 1..Len(s) /\ i \in 1..Len(t) /\ s[i] # t[i]}
<1>10. Bad = {}
  <2> SUFFICES ASSUME Bad # {} PROVE FALSE
    OBVIOUS
  <2>1. PICK i \in Bad : \A m \in Bad : i <= m
    BY LeastNumber
  <2>2. i \in 1..Len(s) /\ i \in 1..Len(t) /\ s[i] # t[i]
    OBVIOUS
  <2>3. \A m \in 1..i - 1 : s[m] = t[m]
    <3> SUFFICES ASSUME NEW m \in 1..i - 1, s[m] # t[m] PROVE FALSE
      OBVIOUS
    <3>1. m \in Nat /\ m < i /\ m \in 1..Len(s) /\ m \in 1..Len(t)
      <4> HIDE DEF Bad
      <4> QED
        BY <1>8, <2>2
    <3>2. m \in Bad
      BY <3>1
    <3> HIDE DEF Bad
    <3> QED
      BY <2>1, <3>1, <3>2
  <2> HIDE DEF Bad
  <2>4. PICK k \in 1..Len(t) : t[k] = s[i]
    BY <1>2, <1>5, <2>2
  <2>5. PICK l \in 1..Len(s) : s[l] = t[i]
    BY <1>3, <1>4, <2>2
  <2>6. i < k
    <3>1. ~(k < i)
      <4> SUFFICES ASSUME k < i PROVE FALSE
        OBVIOUS
      <4>1. k \in 1..i - 1 /\ k \in 1..Len(s)
        BY <1>8, <2>2
      <4>2. s[k] = s[i]
        BY <2>3, <2>4, <4>1
      <4> QED
        BY <1>2, <1>6, <1>9, <2>2, <4>1, <4>2
    <3> QED
      BY <1>8, <2>2, <2>4, <3>1
  <2>7. i < l
    <3>1. ~(l < i)
      <4> SUFFICES ASSUME l < i PROVE FALSE
        OBVIOUS
      <4>1. l \in 1..i - 1 /\ l \in 1..Len(t)
        BY <1>8, <2>2
      <4>2. t[l] = t[i]
        BY <2>3, <2>5, <4>1
      <4> QED
        BY <1>3, <1>7, <1>9, <2>2, <4>1, <4>2
    <3> QED
      BY <1>8, <2>2, <2>5, <3>1
  <2>8. Precedes(c, t[i], s[i])
    BY <1>7, <2>2, <2>4, <2>6
  <2>9. Precedes(c, s[i], t[i])
    BY <1>6, <2>2, <2>5, <2>7
  <2> QED
    BY <1>2, <1>3, <1>9, <2>2, <2>8, <2>9
<1>11. \A i \in 1..Len(s) : i \in 1..Len(t) => s[i] = t[i]
  <2> SUFFICES ASSUME NEW i \in 1..Len(s), i \in 1..Len(t), s[i] # t[i] PROVE FALSE
    OBVIOUS
  <2>1. i \in Bad
    BY <1>8
  <2> QED
    BY <1>10, <2>1
<1> HIDE DEF Bad
<1>12. Len(s) <= Len(t)
  <2> SUFFICES ASSUME Len(t) < Len(s) PROVE FALSE
    BY <1>8
  <2> DEFINE i == Len(t) + 1
  <2>1. i \in 1..Len(s) /\ \A k \in 1..Len(t) : k < i /\ k \in 1..Len(s)
    BY <1>8
  <2> HIDE DEF i
  <2>2. PICK k \in 1..Len(t) : t[k] = s[i]
    BY <1>2, <1>5, <2>1
  <2>3. s[k] = s[i] /\ k < i /\ k \in 1..Len(s)
    BY <1>11, <2>1, <2>2
  <2> QED
    BY <1>2, <1>6, <1>9, <2>1, <2>3
<1>13. Len(t) <= Len(s)
  <2> SUFFICES ASSUME Len(s) < Len(t) PROVE FALSE
    BY <1>8
  <2> DEFINE i == Len(s) + 1
  <2>1. i \in 1..Len(t) /\ \A k \in 1..Len(s) : k < i /\ k \in 1..Len(t)
    BY <1>8
  <2> HIDE DEF i
  <2>2. PICK k \in 1..Len(s) : s[k] = t[i]
    BY <1>3, <1>4, <2>1
  <2>3. t[k] = t[i] /\ k < i /\ k \in 1..Len(t)
    BY <1>11, <2>1, <2>2
  <2> QED
    BY <1>3, <1>7, <1>9, <2>1, <2>3
<1>14. Len(s) = Len(t)
  BY <1>8, <1>12, <1>13
<1>15. s = [i \in 1..Len(s) |-> s[i]] /\ t = [i \in 1..Len(t) |-> t[i]]
  OBVIOUS
<1>16. \A i \in 1..Len(s) : s[i] = t[i]
  BY <1>11, <1>14
<1> QED
  BY <1>14, <1>15, <1>16

(* Two sequences in output order, the first before the second.             *)
LEMMA OrderOfBoth ==
  ASSUME NEW V, NEW s \in Seq(V), NEW t \in Seq(V), NEW c,
         IsInOrder(c, s), IsInOrder(c, t),
         \A a \in OutIds(s), b \in OutIds(t) : Precedes(c, a, b)
  PROVE  /\ s \o t \in Seq(V) /\ IsInOrder(c, s \o t)
         /\ OutIds(s \o t) = OutIds(s) \cup OutIds(t)
<1> DEFINE u == s \o t
<1>1. /\ u \in Seq(V) /\ Len(u) = Len(s) + Len(t) /\ Len(s) \in Nat /\ Len(t) \in Nat
      /\ \A i \in 1..Len(u) : u[i] = IF i <= Len(s) THEN s[i] ELSE t[i - Len(s)]
  OBVIOUS
<1> HIDE DEF u
<1>2. \A i \in 1..Len(u) : IF i <= Len(s) THEN i \in 1..Len(s) /\ u[i] = s[i]
                           ELSE i - Len(s) \in 1..Len(t) /\ u[i] = t[i - Len(s)]
  BY <1>1
<1>3. (\A i \in 1..Len(s) : s[i] \in OutIds(s)) /\ \A i \in 1..Len(t) : t[i] \in OutIds(t)
  BY DEF OutIds
<1>4. ASSUME NEW i \in 1..Len(u), NEW j \in 1..Len(u), i < j
      PROVE  Precedes(c, u[i], u[j])
  <2>1. CASE j <= Len(s)
    <3>1. i \in 1..Len(s) /\ j \in 1..Len(s) /\ u[i] = s[i] /\ u[j] = s[j]
      BY <1>1, <1>2, <1>4, <2>1
    <3> QED
      BY <1>4, <3>1 DEF IsInOrder
  <2>2. CASE i <= Len(s) /\ ~(j <= Len(s))
    BY <1>2, <1>3, <2>2
  <2>3. CASE ~(i <= Len(s))
    <3>1. /\ i - Len(s) \in 1..Len(t) /\ j - Len(s) \in 1..Len(t) /\ i - Len(s) < j - Len(s)
          /\ u[i] = t[i - Len(s)] /\ u[j] = t[j - Len(s)]
      BY <1>1, <1>2, <1>4, <2>3
    <3> QED
      BY <3>1 DEF IsInOrder
  <2> QED
    BY <1>1, <2>1, <2>2, <2>3
<1>5. OutIds(u) = OutIds(s) \cup OutIds(t)
  <2>1. \A i \in 1..Len(u) : u[i] \in OutIds(s) \cup OutIds(t)
    BY <1>2, <1>3
  <2>2. \A i \in 1..Len(s) : i \in 1..Len(u) /\ u[i] = s[i]
    BY <1>1
  <2>3. ASSUME NEW i \in 1..Len(t) PROVE i + Len(s) \in 1..Len(u) /\ u[i + Len(s)] = t[i]
    <3>1. /\ i + Len(s) \in 1..Len(u) /\ ~(i + Len(s) <= Len(s))
          /\ (i + Len(s)) - Len(s) = i
      BY <1>1
    <3> HIDE DEF u
    <3> QED
      BY <1>1, <3>1
  <2>4. OutIds(u) \subseteq OutIds(s) \cup OutIds(t)
    BY <2>1 DEF OutIds
  <2>5. OutIds(s) \subseteq OutIds(u)
    BY <2>2 DEF OutIds
  <2>6. OutIds(t) \subseteq OutIds(u)
    BY <2>3 DEF OutIds
  <2> QED
    BY <2>4, <2>5, <2>6
<1> QED
  BY <1>1, <1>4, <1>5 DEF IsInOrder, u

-----------------------------------------------------------------------------
(* Sending a picture.                                                      *)

(* Another picture, x, changes nothing about the order of those before it. *)
LEMMA PrefixOrder ==
  ASSUME NEW c \in Seq(CodedPicture), NEW x \in CodedPicture
  PROVE  LET n == Len(c)
             d == Append(c, x)
         IN /\ \A k \in 1..n : /\ k \in Decoded(d) <=> k \in Decoded(c)
                               /\ k \in Visible(d) <=> k \in Visible(c)
            /\ \A j, k \in 1..n : Precedes(d, j, k) <=> Precedes(c, j, k)
            /\ \A j \in 1..n : SameSequence(d, j, n) <=> SameSequence(c, j, n)
            /\ \A j \in 1..n : SameSequence(d, j, n + 1) <=> ~x.starts /\ SameSequence(c, j, n)
            /\ \A j \in 1..n : Precedes(d, j, n + 1) <=>
                                 (SameSequence(d, j, n + 1) => c[j].poc < x.poc)
            /\ \A j \in 1..n : Precedes(d, n + 1, j) <=>
                                 (SameSequence(d, j, n + 1) /\ x.poc < c[j].poc)
<1> DEFINE n == Len(c)
           d == Append(c, x)
<1>1. /\ n \in Nat /\ Len(d) = n + 1 /\ d[n + 1] = x
      /\ \A k \in 1..n : d[k] = c[k]
      /\ Starts(c) \subseteq 1..n /\ Iraps(c) \subseteq 1..n
      /\ Starts(d) = Starts(c) \cup {k \in {n + 1} : x.starts}
  BY PrefixSets
<1>2. \A k \in 0..n : \A j : /\ IsLatest(Iraps(d), j, k) <=> IsLatest(Iraps(c), j, k)
                             /\ SameSequence(d, j, k) <=> SameSequence(c, j, k)
  BY PrefixStructure
<1> HIDE DEF d, n
<1>3. \A k \in 1..n : Undecodable(d, k) <=> Undecodable(c, k)
  <2> SUFFICES ASSUME NEW k \in 1..n PROVE Undecodable(d, k) <=> Undecodable(c, k)
    OBVIOUS
  <2>1. k - 1 \in 0..n
    BY <1>1
  <2>2. \A i : IsLatest(Iraps(d), i, k - 1) <=> IsLatest(Iraps(c), i, k - 1)
    BY <1>2, <2>1
  <2>3. \A i : IsLatest(Iraps(c), i, k - 1) => (i \in Starts(d) <=> i \in Starts(c))
    BY <1>1 DEF IsLatest
  <2> QED
    BY <1>1, <2>2, <2>3 DEF Undecodable
<1>4. \A k \in 1..n : /\ k \in Decoded(d) <=> k \in Decoded(c)
                      /\ k \in Visible(d) <=> k \in Visible(c)
  BY <1>1, <1>3 DEF Decoded, Visible, n
<1>5. \A j, k \in 1..n : Precedes(d, j, k) <=> Precedes(c, j, k)
  <2>1. \A k \in 1..n : k \in 0..n
    BY <1>1
  <2> QED
    BY <1>1, <1>2, <2>1 DEF Precedes
<1>6. \A j \in 1..n : SameSequence(d, j, n) <=> SameSequence(c, j, n)
  BY <1>1, <1>2
<1>7. \A j \in 1..n : SameSequence(d, j, n + 1) <=> ~x.starts /\ SameSequence(c, j, n)
  BY <1>1 DEF SameSequence
<1>8. \A j \in 1..n : ~SameSequence(d, n + 1, j) /\ j < n + 1 /\ ~(n + 1 < j)
  BY <1>1 DEF SameSequence
<1>9. \A j \in 1..n : Precedes(d, j, n + 1) <=> (SameSequence(d, j, n + 1) => c[j].poc < x.poc)
  BY <1>1, <1>8 DEF Precedes
<1>10. \A j \in 1..n : Precedes(d, n + 1, j) <=> (SameSequence(d, j, n + 1) /\ x.poc < c[j].poc)
  BY <1>1, <1>8 DEF Precedes
<1> QED
  BY <1>4, <1>5, <1>6, <1>7, <1>9, <1>10 DEF d, n

(* A sequence in order stays in order. *)
LEMMA PrefixInOrder ==
  ASSUME NEW c \in Seq(CodedPicture), NEW x \in CodedPicture, NEW s \in Seq(Visible(c))
  PROVE  /\ s \in Seq(Visible(Append(c, x)))
         /\ IsInOrder(c, s) => IsInOrder(Append(c, x), s)
<1> DEFINE d == Append(c, x)
<1>1. Visible(c) \subseteq Visible(d)
  <2>1. \A k \in 1..Len(c) : k \in Visible(d) <=> k \in Visible(c)
    BY PrefixOrder
  <2>2. \A k \in Visible(c) : k \in 1..Len(c)
    BY DEF Visible, Decoded
  <2> QED
    BY <2>1, <2>2
<1>2. \A i \in 1..Len(s) : s[i] \in Visible(c) /\ s[i] \in 1..Len(c)
  BY DEF Visible, Decoded
<1>3. \A j, k \in 1..Len(c) : Precedes(d, j, k) <=> Precedes(c, j, k)
  BY PrefixOrder
<1> HIDE DEF d
<1>4. s \in Seq(Visible(d))
  BY <1>1
<1> QED
  BY <1>2, <1>3, <1>4 DEF IsInOrder, d

(* What waits can be told apart by its POCs and by its ids.                *)
LEMMA WaitingPocs ==
  ASSUME NEW c \in Seq(CodedPicture), Lawful(c), NEW W, WaitingLaw(c, W)
  PROVE  /\ PocsOf(W) /\ IsFiniteSet(W)
         /\ \A w \in W : w.id \in 1..Len(c) /\ w.poc = c[w.id].poc /\ w.poc \in Int
         /\ \A v, w \in W : v.id = w.id => v = w
         /\ \A v, w \in W : Precedes(c, v.id, w.id) <=> v.poc < w.poc
<1>0. \A k \in 1..Len(c) : c[k] \in CodedPicture
  OBVIOUS
<1>1. \A k \in 1..Len(c) : c[k].poc \in Int /\ k \in Nat
  BY <1>0 DEF CodedPicture
<1>2. \A w \in W : /\ w = [id |-> w.id, poc |-> c[w.id].poc] /\ w.id \in 1..Len(c)
                   /\ SameSequence(c, w.id, Len(c))
  BY DEF WaitingLaw, Visible, Decoded
<1>3. \A w \in W : w.id \in 1..Len(c) /\ w.poc = c[w.id].poc /\ w.poc \in Int
  <2> SUFFICES ASSUME NEW w \in W
               PROVE  w.id \in 1..Len(c) /\ w.poc = c[w.id].poc /\ w.poc \in Int
    OBVIOUS
  <2>1. w = [id |-> w.id, poc |-> c[w.id].poc]
    BY <1>2
  <2>2. w.poc = c[w.id].poc
    BY <2>1
  <2> QED
    BY <1>1, <1>2, <2>2
<1>4. \A v, w \in W : Same(c, v.id, w.id)
  <2> SUFFICES ASSUME NEW v \in W, NEW w \in W PROVE Same(c, v.id, w.id)
    OBVIOUS
  <2>1. /\ SameSequence(c, v.id, Len(c)) /\ SameSequence(c, w.id, Len(c))
        /\ v.id \in Nat /\ w.id \in Nat
    BY <1>1, <1>2
  <2>2. \A m \in Starts(c) : m \in Nat
    BY DEF Starts
  <2> QED
    BY <2>1, <2>2 DEF SameSequence, Same
<1>5. \A v, w \in W : Precedes(c, v.id, w.id) <=> v.poc < w.poc
  <2> SUFFICES ASSUME NEW v \in W, NEW w \in W
               PROVE  Precedes(c, v.id, w.id) <=> v.poc < w.poc
    OBVIOUS
  <2>1. /\ v.id \in Nat /\ w.id \in Nat /\ Same(c, v.id, w.id)
        /\ v.poc = c[v.id].poc /\ w.poc = c[w.id].poc
    BY <1>1, <1>3, <1>4
  <2> QED
    BY <2>1, PrecedesIs
<1>6. \A v, w \in W : v.id = w.id => v = w
  BY <1>2
<1>7. \A v, w \in W : v.poc = w.poc => v = w
  <2> SUFFICES ASSUME NEW v \in W, NEW w \in W, v.poc = w.poc, v.id # w.id PROVE FALSE
    BY <1>6
  <2>1. v.id \in 1..Len(c) /\ w.id \in 1..Len(c)
    BY <1>3
  <2>2. Precedes(c, v.id, w.id) \/ Precedes(c, w.id, v.id)
    BY <2>1, PrecedesTotal
  <2> QED
    BY <1>3, <1>5, <2>2
<1> QED
  BY <1>3, <1>5, <1>6, <1>7 DEF PocsOf, WaitingLaw

(* Waiting pictures are shown in output order.                             *)
LEMMA ShownInOrder ==
  ASSUME NEW c \in Seq(CodedPicture), Lawful(c), NEW W, WaitingLaw(c, W)
  PROVE  /\ InOutputOrder(W) \in Seq(Visible(c)) /\ IsInOrder(c, InOutputOrder(W))
         /\ OutIds(InOutputOrder(W)) = WaitIds(W)
<1> DEFINE s == InOutputOrder(W)
<1>1. /\ PocsOf(W) /\ IsFiniteSet(W)
      /\ \A v, w \in W : Precedes(c, v.id, w.id) <=> v.poc < w.poc
  BY WaitingPocs
<1>2. /\ s \in Seq(WaitIds(W)) /\ OutIds(s) = WaitIds(W)
      /\ \A i, j \in 1..Len(s) : i < j =>
           \E v, w \in W : s[i] = v.id /\ s[j] = w.id /\ v.poc < w.poc
  BY <1>1, InOutputOrderFacts
<1> HIDE DEF s
<1>3. WaitIds(W) \subseteq Visible(c)
  BY DEF WaitIds, WaitingLaw
<1>4. s \in Seq(Visible(c))
  BY <1>2, <1>3
<1>5. IsInOrder(c, s)
  <2> SUFFICES ASSUME NEW i \in 1..Len(s), NEW j \in 1..Len(s), i < j
               PROVE  Precedes(c, s[i], s[j])
    BY DEF IsInOrder
  <2>1. PICK v \in W, w \in W : s[i] = v.id /\ s[j] = w.id /\ v.poc < w.poc
    BY <1>2
  <2> QED
    BY <1>1, <2>1
<1> QED
  BY <1>2, <1>4, <1>5 DEF s

(* Part of what waits is as many pictures as ids.                          *)
LEMMA WaitingIds ==
  ASSUME NEW R, IsFiniteSet(R)
  PROVE  IsFiniteSet(WaitIds(R)) /\ Cardinality(WaitIds(R)) <= Cardinality(R)
<1> DEFINE f == [w \in R |-> w.id]
<1>1. f \in Surjection(R, WaitIds(R))
  BY DEF Surjection, WaitIds
<1> QED
  BY <1>1, FS_Surjection

(* What a conforming decoder does with a picture x.                        *)
LEMMA NewPictureOutput ==
  ASSUME coded \in Seq(CodedPicture), Lawful(coded), WaitingLaw(coded, waiting),
         OutputLaw(coded, waiting, output),
         NEW x \in CodedPicture, x.noPrior \in NoPriorFlags, x.starts => x.type # "CRA",
         Lawful(Append(coded, x)), Len(coded) + 1 \in Decoded(Append(coded, x)),
         NEW kept, OutputAround(x, Len(coded) + 1, kept)
  PROVE  LET d == Append(coded, x)
         IN /\ WaitingLaw(d, waiting') /\ OutputLaw(d, waiting', output')
            /\ \E R : /\ IsFiniteSet(R) /\ Rest(d, waiting') \subseteq WaitIds(R)
                      /\ R = {} \/ /\ FewEnoughWait(R)
                                   /\ Cardinality(WaitIds(R) \cup kept)
                                        < MaxDecPicBuf[MaxTemporalLayer]
<1> DEFINE n == Len(coded)
           d == Append(coded, x)
           before == IF x.starts THEN waiting ELSE BumpedBeforeStore(waiting, kept)
           drops == x.starts /\ (x.noPrior \/ x.type = "CRA")
           R == waiting \ before
           new == IF x.pof THEN {[id |-> n + 1, poc |-> x.poc]} ELSE {}
           stored == R \cup new
           after == Bumped(stored, FewEnoughWait)
           shown == IF drops THEN << >> ELSE InOutputOrder(before)
<1>1. /\ x.pof /\ ~x.starts => \A q \in OutputPocs \cup {b.poc : b \in before} : q < x.poc
      /\ waiting' = stored \ after
      /\ output' = output \o shown \o InOutputOrder(after)
  BY DEF OutputAround
<1>2. /\ n \in Nat /\ d \in Seq(CodedPicture) /\ Len(d) = n + 1 /\ d[n + 1] = x
      /\ \A k \in 1..n : d[k] = coded[k]
  BY PrefixSets
<1>3. IsFiniteSet(waiting)
  BY DEF WaitingLaw
<1>4. /\ IsPrefix(before, waiting) /\ (x.starts => R = {})
      /\ R = {} \/ /\ FewEnoughWait(R)
                   /\ Cardinality(WaitIds(R) \cup kept) < MaxDecPicBuf[MaxTemporalLayer]
  <2>1. CASE x.starts
    BY <2>1 DEF IsPrefix
  <2>2. CASE ~x.starts
    BY <1>3, <2>2, BumpedBeforeFacts
  <2> QED
    BY <2>1, <2>2
<1> HIDE DEF before
<1>5. before \subseteq waiting /\ R \subseteq waiting /\ waiting = before \cup R
  BY <1>4 DEF IsPrefix
<1> HIDE DEF R
<1>6. IsFiniteSet(R) /\ IsFiniteSet(before)
  BY <1>3, <1>5, FS_Subset
<1>7. /\ \A k \in 1..n : k \in Visible(d) <=> k \in Visible(coded)
      /\ \A j, k \in 1..n : Precedes(d, j, k) <=> Precedes(coded, j, k)
      /\ \A j \in 1..n : SameSequence(d, j, n + 1) <=> ~x.starts /\ SameSequence(coded, j, n)
      /\ \A j \in 1..n : Precedes(d, j, n + 1) <=>
                           (SameSequence(d, j, n + 1) => coded[j].poc < x.poc)
      /\ \A j \in 1..n : Precedes(d, n + 1, j) <=>
                           (SameSequence(d, j, n + 1) /\ x.poc < coded[j].poc)
  BY PrefixOrder
<1>8. n + 1 \in Visible(d) <=> x.pof
  BY <1>2 DEF Visible
<1>9. \A w \in waiting : /\ w = [id |-> w.id, poc |-> coded[w.id].poc] /\ w.id \in 1..n
                         /\ w.id \in Visible(coded) /\ SameSequence(coded, w.id, n)
  BY DEF WaitingLaw, Visible, Decoded
<1>10. /\ PocsOf(waiting)
       /\ \A w \in waiting : w.poc = coded[w.id].poc /\ w.poc \in Int
       /\ \A v, w \in waiting : Precedes(coded, v.id, w.id) <=> v.poc < w.poc
  BY WaitingPocs
<1> HIDE DEF d, n
<1>11. SameSequence(d, n + 1, n + 1)
  BY <1>2 DEF SameSequence, Starts
<1>12. \A w \in R : /\ w = [id |-> w.id, poc |-> d[w.id].poc] /\ w.id \in Visible(d)
                    /\ SameSequence(d, w.id, n + 1)
  BY <1>2, <1>4, <1>5, <1>7, <1>9
<1>13. \A w \in new : /\ w = [id |-> w.id, poc |-> d[w.id].poc] /\ w.id \in Visible(d)
                      /\ SameSequence(d, w.id, n + 1) /\ w.id = n + 1 /\ w.poc = x.poc /\ x.pof
  BY <1>2, <1>8, <1>11
<1>14. IsFiniteSet(new)
  BY FS_EmptySet, FS_Singleton
<1> HIDE DEF new
<1>15. WaitingLaw(d, stored)
  <2>1. IsFiniteSet(stored)
    BY <1>6, <1>14, FS_Union
  <2> QED
    BY <1>2, <1>12, <1>13, <2>1 DEF WaitingLaw
<1>16. /\ IsFiniteSet(stored) /\ PocsOf(stored)
       /\ \A v, w \in stored : Precedes(d, v.id, w.id) <=> v.poc < w.poc
  <2> HIDE DEF stored
  <2>1. Lawful(d)
    BY DEF d
  <2> QED
    BY <1>2, <1>15, <2>1, WaitingPocs
<1>17. IsPrefix(after, stored)
  <2> HIDE DEF stored
  <2> QED
    BY <1>16, BumpedAfterFacts
<1> HIDE DEF after
<1>18. WaitingLaw(d, waiting') /\ WaitingLaw(d, after) /\ waiting' \subseteq stored
  <2>1. after \subseteq stored /\ stored \ after \subseteq stored
    BY <1>17 DEF IsPrefix
  <2> HIDE DEF stored
  <2>2. IsFiniteSet(after) /\ IsFiniteSet(stored \ after)
    BY <1>16, <2>1, FS_Subset
  <2> QED
    BY <1>1, <1>15, <2>1, <2>2 DEF WaitingLaw
<1>19. \A v \in after, w \in waiting' : Precedes(d, v.id, w.id)
  <2> HIDE DEF stored
  <2>1. \A v \in after, w \in stored \ after : v \in stored /\ v.poc < w.poc
    BY <1>17 DEF IsPrefix
  <2> QED
    BY <1>1, <1>16, <2>1
(* The pictures output so far, and those bumped before x is stored. *)
<1>20. /\ output \in Seq(Visible(coded)) /\ IsInOrder(coded, output)
       /\ \A o \in OutIds(output), w \in waiting : Precedes(coded, o, w.id)
       /\ \A k \in Visible(coded) : SameSequence(coded, k, n) \/ NoPriorFlags \subseteq {FALSE}
            => k \in OutIds(output) \cup WaitIds(waiting)
  BY DEF OutputLaw, n
<1>21. \A o \in OutIds(output) : o \in 1..n /\ o \in Visible(coded)
  BY <1>20 DEF OutIds, Visible, Decoded, n
<1>22. WaitingLaw(coded, before)
  BY <1>5, <1>6 DEF WaitingLaw
<1>23. /\ shown \in Seq(Visible(coded)) /\ IsInOrder(coded, shown)
       /\ OutIds(shown) = IF drops THEN {} ELSE WaitIds(before)
  <2>1. CASE drops
    <3>1. shown = << >>
      BY <2>1
    <3> QED
      BY <2>1, <3>1 DEF IsInOrder, OutIds
  <2>2. CASE ~drops
    <3>1. shown = InOutputOrder(before)
      BY <2>2
    <3> QED
      BY <1>22, <2>2, <3>1, ShownInOrder
  <2> QED
    BY <2>1, <2>2
<1> HIDE DEF shown
<1> DEFINE first == output \o shown
<1>24. /\ first \in Seq(Visible(coded)) /\ IsInOrder(coded, first)
       /\ OutIds(first) = OutIds(output) \cup OutIds(shown)
  <2>1. \A a \in OutIds(output), b \in OutIds(shown) : Precedes(coded, a, b)
    BY <1>5, <1>20, <1>23 DEF WaitIds
  <2> QED
    BY <1>20, <1>23, <2>1, OrderOfBoth
<1> HIDE DEF first
<1>25. first \in Seq(Visible(d)) /\ IsInOrder(d, first)
  BY <1>24, PrefixInOrder DEF d
<1>26. x.pof => \A o \in 1..n : SameSequence(d, o, n + 1) /\ o \in OutIds(first)
                                   => coded[o].poc < x.poc
  <2> SUFFICES ASSUME x.pof, NEW o \in 1..n, SameSequence(d, o, n + 1), o \in OutIds(first)
               PROVE  coded[o].poc < x.poc
    OBVIOUS
  <2>1. ~x.starts /\ SameSequence(coded, o, n)
    BY <1>7
  <2>2. CASE o \in OutIds(output)
    <3>1. n > 0
      BY <1>2
    <3>2. o \in SequenceIds
      BY <2>1, <3>1, CurrentStructure DEF n
    <3>3. o \in SequenceIds \cap {output[i] : i \in DOMAIN output}
      BY <1>20, <2>2, <3>2 DEF OutIds
    <3>4. coded[o].poc \in OutputPocs
      BY <3>3 DEF OutputPocs, Poc
    <3> QED
      BY <1>1, <2>1, <3>4
  <2>3. CASE o \in WaitIds(before)
    <3>1. PICK b \in before : o = b.id
      BY <2>3 DEF WaitIds
    <3>2. b.poc = coded[o].poc
      BY <1>5, <1>10, <3>1
    <3> QED
      BY <1>1, <2>1, <3>1, <3>2
  <2> QED
    BY <1>23, <1>24, <2>2, <2>3
<1>27. \A o \in OutIds(first), w \in stored : Precedes(d, o, w.id)
  <2> SUFFICES ASSUME NEW o \in OutIds(first), NEW w \in stored PROVE Precedes(d, o, w.id)
    OBVIOUS
  <2>1. o \in 1..n
    <3>1. \A b \in before : b.id \in 1..n
      BY <1>5, <1>9
    <3> QED
      BY <1>21, <1>23, <1>24, <3>1 DEF WaitIds
  <2>2. CASE w \in R
    <3>1. w \in waiting /\ w.id \in 1..n
      BY <1>5, <1>9, <2>2
    <3>2. CASE o \in OutIds(output)
      BY <1>7, <1>20, <2>1, <3>1, <3>2
    <3>3. CASE o \in WaitIds(before)
      <4>1. PICK b \in before : o = b.id
        BY <3>3 DEF WaitIds
      <4>2. w \in waiting \ before
        BY <2>2 DEF R
      <4>3. b.poc < w.poc
        BY <1>4, <4>1, <4>2 DEF IsPrefix
      <4> QED
        BY <1>5, <1>7, <1>10, <2>1, <3>1, <4>1, <4>3
    <3> QED
      BY <1>23, <1>24, <3>2, <3>3
  <2>3. CASE w \in new
    BY <1>7, <1>13, <1>26, <2>1, <2>3
  <2> QED
    BY <2>2, <2>3
<1>28. /\ InOutputOrder(after) \in Seq(Visible(d)) /\ IsInOrder(d, InOutputOrder(after))
       /\ OutIds(InOutputOrder(after)) = WaitIds(after)
  <2>1. Lawful(d)
    BY DEF d
  <2> QED
    BY <1>2, <1>18, <2>1, ShownInOrder
<1>29. after \subseteq stored
  BY <1>17 DEF IsPrefix
<1>30. /\ output' \in Seq(Visible(d)) /\ IsInOrder(d, output')
       /\ OutIds(output') = OutIds(first) \cup WaitIds(after)
  <2>1. output' = first \o InOutputOrder(after)
    BY <1>1 DEF first
  <2>2. \A a \in OutIds(first), b \in OutIds(InOutputOrder(after)) : Precedes(d, a, b)
    BY <1>27, <1>28, <1>29 DEF WaitIds
  <2> QED
    BY <1>25, <1>28, <2>1, <2>2, OrderOfBoth
<1>31. \A o \in OutIds(output'), w \in waiting' : Precedes(d, o, w.id)
  <2> HIDE DEF stored
  <2> QED
    BY <1>18, <1>19, <1>27, <1>30 DEF WaitIds
<1>32. ASSUME NEW k \in Visible(d), SameSequence(d, k, n + 1) \/ NoPriorFlags \subseteq {FALSE}
       PROVE  k \in OutIds(output') \cup WaitIds(waiting')
  <2>1. WaitIds(stored) \subseteq WaitIds(after) \cup WaitIds(waiting')
    <3> HIDE DEF stored
    <3> QED
      BY <1>1 DEF WaitIds
  <2>2. k \in 1..n \/ k = n + 1
    BY <1>2 DEF Visible, Decoded
  <2>3. CASE k = n + 1
    <3>1. [id |-> n + 1, poc |-> x.poc] \in stored
      BY <1>8, <1>32, <2>3 DEF new
    <3>2. k \in WaitIds(stored)
      <4>1. [id |-> n + 1, poc |-> x.poc].id = n + 1
        OBVIOUS
      <4> HIDE DEF stored
      <4> QED
        BY <2>3, <3>1, <4>1 DEF WaitIds
    <3> QED
      BY <1>30, <2>1, <3>2
  <2>4. CASE k \in 1..n
    <3>1. k \in Visible(coded) /\ (SameSequence(coded, k, n) \/ NoPriorFlags \subseteq {FALSE})
      BY <1>7, <1>32, <2>4
    <3>2. k \in OutIds(output) \cup WaitIds(waiting)
      BY <1>20, <3>1
    <3>3. ~drops
      BY <1>7, <1>32, <2>4
    <3>4. WaitIds(waiting) \subseteq WaitIds(before) \cup WaitIds(stored)
      BY <1>5 DEF WaitIds
    <3> QED
      BY <1>23, <1>24, <1>30, <2>1, <3>2, <3>3, <3>4
  <2> QED
    BY <2>2, <2>3, <2>4
<1>33. OutputLaw(d, waiting', output')
  BY <1>2, <1>30, <1>31, <1>32 DEF OutputLaw
(* There was room for it. *)
<1>34. Rest(d, waiting') \subseteq WaitIds(R)
  <2> SUFFICES ASSUME NEW j \in Rest(d, waiting') PROVE j \in WaitIds(R)
    OBVIOUS
  <2>1. /\ j \in Visible(d) /\ j # n + 1 /\ SameSequence(d, j, n + 1)
        /\ j \in WaitIds(waiting') \/ (n + 1 \in Visible(d) /\ Precedes(d, n + 1, j))
    BY <1>2 DEF Rest
  <2>2. j \in 1..n /\ j \in Visible(coded)
    BY <1>2, <1>7, <2>1 DEF Visible, Decoded
  <2>3. CASE j \in WaitIds(waiting')
    <3>1. PICK w \in stored : j = w.id
      <4> HIDE DEF stored
      <4> QED
        BY <1>18, <2>3 DEF WaitIds
    <3>2. w \in R
      BY <1>13, <2>1, <3>1
    <3> QED
      BY <3>1, <3>2 DEF WaitIds
  <2>4. CASE n + 1 \in Visible(d) /\ Precedes(d, n + 1, j)
    <3>1. x.pof /\ x.poc < coded[j].poc
      BY <1>7, <1>8, <2>2, <2>4
    <3>2. ~x.starts /\ SameSequence(coded, j, n)
      BY <1>7, <2>1, <2>2
    <3>3. j \in OutIds(output) \cup WaitIds(waiting)
      BY <1>20, <2>2, <3>2
    <3>4. coded[j].poc \in Int /\ x.poc \in Int
      <4>1. coded[j] \in CodedPicture
        BY <2>2 DEF n
      <4> QED
        BY <4>1 DEF CodedPicture
    <3>5. j \notin OutIds(first)
      BY <1>26, <2>1, <2>2, <3>1, <3>4
    <3>6. j \in WaitIds(waiting) /\ j \notin WaitIds(before)
      BY <1>23, <1>24, <3>2, <3>3, <3>5
    <3> QED
      BY <1>5, <3>6 DEF WaitIds
  <2> QED
    BY <2>1, <2>3, <2>4
<1> QED
  BY <1>4, <1>6, <1>18, <1>33, <1>34 DEF d

(* A picture that is sent, and what is done about it.                      *)
KeptOf(kept) == {k \in kept : coded[k].tid <= MaxTemporalLayer}

LEMMA SendPictureOutput ==
  ASSUME Intact, PocsAreShown, StreamTypeOK, SendPicture
  PROVE  \E x \in CodedPicture, kept \in SUBSET references :
           /\ coded' = Append(coded, x) /\ x.poc > -MaxInt /\ x.noPrior \in NoPriorFlags
           /\ references' = IF Decodable(x) THEN kept \cup {Len(coded) + 1} ELSE references
           /\ nal'.kind = "slice" /\ nal'.first
           /\ x.tid <= MaxTemporalLayer =>
                Cardinality(KeptOf(kept)) < MaxDecPicBuf[MaxTemporalLayer]
           /\ IF Decodable(x) /\ x.tid <= MaxTemporalLayer
                THEN OutputAround(x, Len(coded) + 1, KeptOf(kept))
                ELSE UNCHANGED <<waiting, output>>
<1>1. PICK type \in IF coded = << >> THEN FirstTypes ELSE Types, poc \in Pocs, tid \in Tids,
           pof \in PicOutputFlags, noPrior \in NoPriorFlags :
        \E kept \in SUBSET MayKeep(type, poc, tid) :
          \E used \in SUBSET (kept \cap MayUse(type, poc, tid)) :
            /\ KeepAndOutput(PictureOf(type, poc, tid, pof, noPrior, kept, used), kept)
            /\ SendFirstSlice(PictureOf(type, poc, tid, pof, noPrior, kept, used), kept)
  BY SMTT(30) DEF SendPicture
<1>2. PICK kept, used :
        /\ kept \subseteq MayKeep(type, poc, tid)
        /\ KeepAndOutput(PictureOf(type, poc, tid, pof, noPrior, kept, used), kept)
        /\ SendFirstSlice(PictureOf(type, poc, tid, pof, noPrior, kept, used), kept)
  BY <1>1
<1> DEFINE x == PictureOf(type, poc, tid, pof, noPrior, kept, used)
<1>3. x.poc = poc /\ x.noPrior = noPrior /\ x.tid = tid
  BY DEF PictureOf
<1>4. x.poc > -MaxInt /\ x.noPrior \in NoPriorFlags /\ x.tid \in Tids
  BY <1>3 DEF PocsAreShown
<1>5. KeepAndOutput(x, kept) /\ SendFirstSlice(x, kept)
  BY <1>2
<1> HIDE DEF x
<1>6. ~Lose
  BY DEF Intact, Lose, StreamTypeOK
<1>7. /\ coded' = Append(coded, x)
      /\ references' = IF Decodable(x) THEN kept \cup {Len(coded) + 1} ELSE references
      /\ nal' = SliceOf(x, Len(coded) + 1, TRUE, FALSE)
  BY <1>5, <1>6 DEF SendFirstSlice, Deliver
<1>8. nal'.kind = "slice" /\ nal'.first
  BY <1>7 DEF SliceOf
<1>9. x \in CodedPicture
  <2>1. coded' \in Seq(CodedPicture) /\ coded \in Seq(CodedPicture)
    BY SendType DEF Send, StreamTypeOK
  <2>2. Len(coded) + 1 \in 1..Len(coded') /\ coded'[Len(coded) + 1] = x
    BY <1>7, <2>1
  <2> QED
    BY <2>1, <2>2
<1>10. x.tid <= MaxTemporalLayer =>
         Cardinality(KeptOf(kept)) < MaxDecPicBuf[MaxTemporalLayer]
  <2>1. MaxTemporalLayer \in Tids /\ x.tid \in Nat /\ MaxTemporalLayer \in Nat
    BY <1>4, MaxTemporalLayerAssumption, MaxDecPicBufAssumption DEF Tids
  <2>2. MaxTemporalLayer >= x.tid <=> x.tid <= MaxTemporalLayer
    BY <2>1
  <2> QED
    BY <1>5, <2>1, <2>2 DEF KeepAndOutput, KeptOf
<1>11. IF Decodable(x) /\ x.tid <= MaxTemporalLayer
         THEN OutputAround(x, Len(coded) + 1, KeptOf(kept))
         ELSE UNCHANGED <<waiting, output>>
  BY <1>5 DEF KeepAndOutput, KeptOf
<1>12. kept \in SUBSET references
  BY <1>2 DEF MayKeep
<1> QED
  BY <1>4, <1>7, <1>8, <1>9, <1>10, <1>11, <1>12

(* What is output stays in order.                                          *)
LEMMA SendKeepsOutput ==
  ASSUME PocsAreShown, IInv, OutputSourceInv, Send, SourceInv'
  PROVE  OutputSourceInv'
<1>1. /\ Intact /\ StreamTypeOK /\ coded \in Seq(CodedPicture) /\ Lawful(coded)
      /\ WaitingLaw(coded, waiting) /\ OutputLaw(coded, waiting, output)
      /\ RoomLaw(coded, references, waiting)
  BY DEF IInv, Inv, TypeOK, StreamTypeOK, SourceInv, OutputSourceInv
<1>2. CASE ~SendPicture
  <2>1. UNCHANGED <<coded, references, waiting, output>>
    BY <1>2 DEF Send, SendSlice, SendExtra, SendEndOfBitstream
  <2> QED
    BY <2>1 DEF OutputSourceInv
<1>3. CASE SendPicture
  <2>1. PICK x \in CodedPicture, kept \in SUBSET references :
           /\ coded' = Append(coded, x) /\ x.poc > -MaxInt /\ x.noPrior \in NoPriorFlags
           /\ references' = IF Decodable(x) THEN kept \cup {Len(coded) + 1} ELSE references
           /\ nal'.kind = "slice" /\ nal'.first
           /\ x.tid <= MaxTemporalLayer =>
                Cardinality(KeptOf(kept)) < MaxDecPicBuf[MaxTemporalLayer]
           /\ IF Decodable(x) /\ x.tid <= MaxTemporalLayer
                THEN OutputAround(x, Len(coded) + 1, KeptOf(kept))
                ELSE UNCHANGED <<waiting, output>>
    BY <1>1, <1>3, SendPictureOutput
  <2> DEFINE n == Len(coded)
             d == Append(coded, x)
  <2>2. /\ n \in Nat /\ d \in Seq(CodedPicture) /\ Len(d) = n + 1 /\ d[n + 1] = x
        /\ \A k \in 1..n : d[k] = coded[k]
    BY <1>1, PrefixSets
  <2>3. Lawful(d) /\ RefsLaw(d, references') /\ coded' = d
    BY <2>1 DEF SourceInv
  <2>4. references \subseteq 1..n
    BY <1>1 DEF StreamTypeOK
  <2> HIDE DEF d
  <2>5. Undecodable(d, n + 1) <=> ~Decodable(x)
    <3>1. n + 1 \in references' <=> Decodable(x)
      <4>1. n + 1 \notin references
        BY <2>2, <2>4
      <4> QED
        BY <2>1, <4>1
    <3>2. IF Undecodable(d, n + 1) THEN n + 1 \notin references' ELSE n + 1 \in references'
      BY <2>2, <2>3 DEF RefsLaw
    <3> QED
      BY <3>1, <3>2
  <2>6. n + 1 \in Decoded(d) <=> Decodable(x) /\ x.tid <= MaxTemporalLayer
    BY <2>2, <2>5 DEF Decoded
  <2>7. \A k \in 1..Len(coded') : coded'[k].poc > -MaxInt
    BY <2>1, <2>2, <2>3 DEF OutputSourceInv
  <2>8. x.starts => x.type # "CRA"
    <3>1. StartLaw(d, n + 1)
      BY <2>2, <2>3 DEF Lawful, Law
    <3> QED
      BY <2>2, <3>1 DEF StartLaw, IdrTypes, BlaTypes
  <2>9. CASE n + 1 \in Decoded(d)
    <3>1. OutputAround(x, n + 1, KeptOf(kept)) /\ Decodable(x) /\ x.tid <= MaxTemporalLayer
      BY <2>1, <2>6, <2>9
    <3>2. /\ WaitingLaw(d, waiting') /\ OutputLaw(d, waiting', output')
          /\ \E R : /\ IsFiniteSet(R) /\ Rest(d, waiting') \subseteq WaitIds(R)
                    /\ R = {} \/ /\ FewEnoughWait(R)
                                 /\ Cardinality(WaitIds(R) \cup KeptOf(kept))
                                      < MaxDecPicBuf[MaxTemporalLayer]
      BY <1>1, <2>1, <2>3, <2>8, <2>9, <3>1, NewPictureOutput DEF d
    <3>3. PICK R : /\ IsFiniteSet(R) /\ Rest(d, waiting') \subseteq WaitIds(R)
                   /\ R = {} \/ /\ FewEnoughWait(R)
                                /\ Cardinality(WaitIds(R) \cup KeptOf(kept))
                                     < MaxDecPicBuf[MaxTemporalLayer]
      BY <3>2
    <3> DEFINE rest == Rest(d, waiting')
               ids == WaitIds(R)
    <3>4. references' = kept \cup {n + 1}
      BY <2>1, <3>1
    <3>5. kept \subseteq 1..n
      BY <2>1, <2>4
    <3>6. KeptWith(d, references') = KeptOf(kept)
      <4>1. references' \ {n + 1} = kept
        BY <3>4, <3>5, <2>2
      <4>2. \A k \in kept : d[k] = coded[k]
        BY <2>2, <3>5
      <4>3. KeptWith(d, references') = {k \in kept : d[k].tid <= MaxTemporalLayer}
        BY <2>2, <4>1 DEF KeptWith
      <4> HIDE DEF n
      <4> QED
        BY <4>2, <4>3, ZenonT(20) DEF KeptOf
    <3>7. IsFiniteSet(references') /\ IsFiniteSet(KeptOf(kept))
      <4> HIDE DEF n
      <4>1. IsFiniteSet(1..n + 1)
        BY <2>2, FS_Interval
      <4>2. references' \subseteq 1..n + 1
        BY <2>2, <3>4, <3>5
      <4>3. KeptOf(kept) \subseteq 1..n + 1
        <5>1. \A k \in KeptOf(kept) : k \in kept
          BY DEF KeptOf
        <5>2. \A k \in kept : k \in 1..n + 1
          BY <2>2, <3>5
        <5> QED
          BY <5>1, <5>2
      <4> QED
        BY <4>1, <4>2, <4>3, FS_Subset
    <3>8. IsFiniteSet(ids) /\ Cardinality(ids) <= Cardinality(R)
      BY <3>3, WaitingIds
    <3>9. IsFiniteSet(rest) /\ Cardinality(rest) <= Cardinality(ids)
      BY <3>3, <3>8, FS_Subset
    <3>10. /\ Cardinality(R) \in Nat /\ Cardinality(rest) \in Nat /\ Cardinality(ids) \in Nat
           /\ NumReorderPics[MaxTemporalLayer] \in Nat
      BY <3>3, <3>8, <3>9, FS_CardinalityType, NumReorderPicsAssumption,
         MaxTemporalLayerAssumption, MaxDecPicBufAssumption
    <3> HIDE DEF rest, ids
    <3>11. R = {} => Cardinality(R) = 0
      BY FS_EmptySet
    <3>12. Cardinality(rest) <= NumReorderPics[MaxTemporalLayer]
      BY <3>3, <3>8, <3>9, <3>10, <3>11 DEF FewEnoughWait
    <3>13. rest = {} \/ Cardinality(rest \cup KeptOf(kept)) < MaxDecPicBuf[MaxTemporalLayer]
      <4> SUFFICES ASSUME rest # {}
                   PROVE  Cardinality(rest \cup KeptOf(kept)) < MaxDecPicBuf[MaxTemporalLayer]
        OBVIOUS
      <4>1. R # {}
        BY <3>3 DEF rest, WaitIds
      <4>2. Cardinality(ids \cup KeptOf(kept)) < MaxDecPicBuf[MaxTemporalLayer]
        BY <3>3, <4>1 DEF ids
      <4>3. IsFiniteSet(ids \cup KeptOf(kept))
        BY <3>7, <3>8, FS_Union
      <4>4. rest \cup KeptOf(kept) \subseteq ids \cup KeptOf(kept)
        BY <3>3 DEF rest, ids
      <4>5. /\ IsFiniteSet(rest \cup KeptOf(kept))
            /\ Cardinality(rest \cup KeptOf(kept)) <= Cardinality(ids \cup KeptOf(kept))
        BY <4>3, <4>4, FS_Subset
      <4>6. /\ Cardinality(rest \cup KeptOf(kept)) \in Nat
            /\ Cardinality(ids \cup KeptOf(kept)) \in Nat
            /\ MaxDecPicBuf[MaxTemporalLayer] \in Nat
        BY <4>3, <4>5, FS_CardinalityType, MaxTemporalLayerAssumption, MaxDecPicBufAssumption
      <4> QED
        BY <4>2, <4>5, <4>6
    <3>14. RoomLaw(d, references', waiting')
      BY <2>1, <3>1, <3>6, <3>7, <3>9, <3>12, <3>13 DEF RoomLaw, rest
    <3> QED
      BY <2>3, <2>7, <3>2, <3>14 DEF OutputSourceInv
  <2>10. CASE n + 1 \notin Decoded(d)
    <3>1. UNCHANGED <<waiting, output>>
      BY <2>1, <2>6, <2>10
    <3>2. ~x.starts
      <4>1. StartLaw(d, n + 1) /\ 0 \in Nat /\ MaxTemporalLayer \in Nat
        BY <2>2, <2>3, MaxTemporalLayerAssumption, MaxDecPicBufAssumption DEF Lawful, Law
      <4>2. x.starts => x.type \in IdrTypes \cup BlaTypes /\ x.tid = 0
        BY <2>2, <4>1 DEF StartLaw, RapTypes
      <4>3. x.type \in IdrTypes \cup BlaTypes => ~Undecodable(d, n + 1)
        BY <2>2 DEF Undecodable, IdrTypes, BlaTypes, RaslTypes
      <4> QED
        BY <2>5, <2>6, <2>10, <4>1, <4>2, <4>3
    <3>3. /\ \A k \in 1..n : k \in Visible(d) <=> k \in Visible(coded)
          /\ \A j, k \in 1..n : Precedes(d, j, k) <=> Precedes(coded, j, k)
          /\ \A j \in 1..n : SameSequence(d, j, n + 1) <=> SameSequence(coded, j, n)
      BY <1>1, <3>2, PrefixOrder DEF d
    <3>4. n + 1 \notin Visible(d) /\ Visible(d) \subseteq 1..n + 1 /\ Visible(coded) \subseteq 1..n
      BY <2>2, <2>10 DEF Visible, Decoded
    <3>5. \A w \in waiting : /\ w = [id |-> w.id, poc |-> coded[w.id].poc] /\ w.id \in 1..n
                             /\ w.id \in Visible(coded) /\ SameSequence(coded, w.id, n)
      BY <1>1, <3>4 DEF WaitingLaw
    <3>6. WaitingLaw(d, waiting)
      BY <1>1, <2>2, <3>3, <3>5 DEF WaitingLaw
    <3>7. OutputLaw(d, waiting, output)
      <4>1. output \in Seq(Visible(coded)) /\ IsInOrder(coded, output)
        BY <1>1 DEF OutputLaw
      <4>2. output \in Seq(Visible(d)) /\ IsInOrder(d, output)
        BY <1>1, <4>1, PrefixInOrder DEF d
      <4>3. \A o \in OutIds(output) : o \in 1..n
        BY <3>4, <4>1 DEF OutIds
      <4>4. \A o \in OutIds(output), w \in waiting : Precedes(d, o, w.id)
        BY <1>1, <3>3, <3>5, <4>3 DEF OutputLaw
      <4>5. \A k \in Visible(d) : k \in 1..n /\ k \in Visible(coded)
        BY <2>2, <3>3, <3>4
      <4> QED
        BY <1>1, <2>2, <3>3, <4>2, <4>4, <4>5 DEF OutputLaw
    <3>8. RoomLaw(d, references', waiting)
      BY <2>2, <2>10 DEF RoomLaw
    <3> QED
      BY <2>3, <2>7, <3>1, <3>6, <3>7, <3>8 DEF OutputSourceInv
  <2> QED
    BY <2>9, <2>10
<1> QED
  BY <1>2, <1>3

LEMMA InitOutputSource == StreamInit => OutputSourceInv
<1> SUFFICES ASSUME StreamInit PROVE OutputSourceInv
  OBVIOUS
<1>1. coded = << >> /\ waiting = {} /\ output = << >> /\ Len(coded) = 0
  BY DEF StreamInit
<1>2. Visible(coded) = {} /\ Decoded(coded) = {}
  BY <1>1 DEF Visible, Decoded
<1>3. WaitingLaw(coded, waiting)
  BY <1>1, FS_EmptySet DEF WaitingLaw
<1>4. output \in Seq(Visible(coded)) /\ Len(output) = 0
  BY <1>1
<1>5. OutputLaw(coded, waiting, output)
  <2>1. 1..Len(output) = {}
    BY <1>4
  <2>2. OutIds(output) = {}
    BY <2>1 DEF OutIds
  <2>3. IsInOrder(coded, output)
    BY <2>1 DEF IsInOrder
  <2> QED
    BY <1>2, <1>4, <2>2, <2>3 DEF OutputLaw
<1> QED
  BY <1>1, <1>2, <1>3, <1>5 DEF OutputSourceInv, RoomLaw

-----------------------------------------------------------------------------
(* The decoder's steps.                                                    *)

(* What the invariants say of the list.                                    *)
LEMMA ListFacts ==
  ASSUME OInv, NEW s \in Held(dpb)
  PROVE  \E k \in 1..Reached :
           /\ dpb[s].ids = {k} /\ Shows(dpb[s], coded, k) /\ SameSequence(coded, k, Reached)
           /\ k \in 1..Len(coded) /\ k \in Decoded(coded)
           /\ dpb[s].pof => k \in Visible(coded)
           /\ dpb[s].poc = coded[k].poc /\ coded[k].poc \in Int /\ coded[k].poc > -MaxInt
<1>1. PICK k \in 1..Reached : Shows(dpb[s], coded, k) /\ SameSequence(coded, k, Reached)
  BY DEF OInv, IInv, DecoderInv, ListInv, ListShows
<1>2. k \in 1..Len(coded) /\ coded[k] \in CodedPicture
  BY Basics DEF OInv
<1>3. /\ dpb[s].ids = {k} /\ dpb[s].poc = coded[k].poc /\ dpb[s].pof = coded[k].pof
  BY <1>1 DEF Shows
<1>4. coded[k].poc \in Int /\ coded[k].poc > -MaxInt
  BY <1>2 DEF CodedPicture, OInv, OutputSourceInv
<1>5. k \in Decoded(coded)
  BY <1>2, <1>3 DEF OInv, OutputDecoderInv, MarksInv
<1>6. dpb[s].pof => k \in Visible(coded)
  BY <1>3, <1>5 DEF Visible
<1> QED
  BY <1>1, <1>2, <1>3, <1>4, <1>5, <1>6

(* The pictures that are written were decoded.                             *)
LEMMA WrittenFacts ==
  ASSUME OInv, NEW i \in 1..Len(written)
  PROVE  \E k \in 1..Reached : written[i].ids = {k} /\ k \in 1..Len(coded) /\ k \in Visible(coded)
<1>1. Len(written) \in Nat /\ DOMAIN written = 1..Len(written)
  BY DEF OInv, IInv, DecoderInv, WrittenInv
<1>2. PICK k \in 1..Reached : written[i].ids = {k}
  BY <1>1 DEF OInv, IInv, DecoderInv, WrittenInv
<1>3. k \in 1..Len(coded)
  BY Basics DEF OInv
<1> QED
  BY <1>2, <1>3 DEF OInv, OutputDecoderInv, OrderInv

(* A step that neither writes anything nor lets more be pending.           *)
LEMMA SameOrderKeeps ==
  ASSUME OrderInv, UNCHANGED <<coded, waiting, written>>, Ending => Ending',
         \A k \in 1..Len(coded) : Pending(k)' => Pending(k)
  PROVE  OrderInv'
<1>1. \A k \in 1..Len(coded) : IsWritten(written, k)' <=> IsWritten(written, k)
  BY DEF IsWritten
<1>2. /\ \A i \in 1..Len(written), k \in 1..Len(coded) :
           written[i].ids = {k} => k \in Visible(coded)
      /\ \A i, j \in 1..Len(written), a, b \in 1..Len(coded) :
           i < j /\ written[i].ids = {a} /\ written[j].ids = {b} => Precedes(coded, a, b)
  BY DEF OrderInv
<1>3. \A a, k \in 1..Len(coded) : IsWritten(written, a) /\ Pending(k)' => Precedes(coded, a, k)
  BY DEF OrderInv
<1>4. ~Ending' => \A w \in waiting : ~IsWritten(written, w.id)
  BY DEF OrderInv
<1> QED
  BY <1>2, <1>3, <1>4 DEF OrderInv

(* A step that leaves the list alone.                                      *)
QuietOutput ==
  /\ UNCHANGED <<coded, references, waiting, dpb, curPic, written, iPOCLastDisplay, listSet>>
  /\ Ahead' => Ahead
  /\ Ending => Ending'
  /\ Ahead /\ ~Ahead' => Len(coded) \notin Starts(coded) /\ Len(coded) \notin Decoded(coded)
  /\ NoPriorFlags \subseteq {FALSE} => (isNoOutputPriorPics' => isNoOutputPriorPics)

LEMMA QuietOutputKeeps ==
  ASSUME OInv, QuietOutput, CounterInv', EmptyInv',
         ~HandlesSlice' /\ ~Ending' =>
           Cardinality(Marked(dpb) \cup Referenced(dpb)) <= MaxDecPicBuf[MaxTemporalLayer],
         ~HandlesSlice' /\ ~Ending' /\ phase' # "bump1" =>
           Cardinality(Marked(dpb)) <= NumReorderPics[MaxTemporalLayer]
  PROVE  OutputDecoderInv'
<1> DEFINE n == Len(coded)
<1>1. /\ UNCHANGED <<coded, references, waiting, dpb, curPic, written, iPOCLastDisplay>>
      /\ Ahead' => Ahead
      /\ Ending => Ending'
      /\ Ahead /\ ~Ahead' => n \notin Starts(coded) /\ n \notin Decoded(coded)
      /\ NoPriorFlags \subseteq {FALSE} => (isNoOutputPriorPics' => isNoOutputPriorPics)
  BY DEF QuietOutput
<1>2. MarksInv /\ OrderInv /\ DisplayInv /\ RoomInv /\ ShownInv
  BY DEF OInv, OutputDecoderInv
<1>3. /\ n \in Nat /\ Reached \in Nat /\ Reached <= n
      /\ Ahead => Reached = n - 1
      /\ ~Ahead => Reached = n
  BY Basics DEF OInv
<1>4. Reached' = Reached \/ (Ahead /\ ~Ahead' /\ Reached' = n)
  BY <1>1, <1>3 DEF Reached
<1>5. MarksInv'
  BY <1>1, <1>2 DEF MarksInv
<1>6. OrderInv'
  <2>1. \A k \in 1..n : Pending(k)' => Pending(k)
    BY <1>1 DEF Pending, IsOpen
  <2> QED
    BY <1>1, <1>2, <2>1, SameOrderKeeps
<1>7. DisplayInv'
  <2>1. \A a \in 1..n : SameSequence(coded, a, Reached) => SameSequence(coded, a, Reached')
    <3>1. CASE Ahead /\ ~Ahead' /\ Reached' = n
      <4>1. n \notin Starts(coded)
        BY <1>1, <3>1
      <4> QED
        BY <3>1, <4>1, SequenceGoesOn DEF OInv
    <3> QED
      BY <1>4, <3>1
  <2>2. Held(dpb) = {} => iPOCLastDisplay = -MaxInt
    BY <1>2 DEF DisplayInv
  <2>3. \/ iPOCLastDisplay = -MaxInt
        \/ \E a \in 1..n : /\ IsWritten(written, a) /\ SameSequence(coded, a, Reached)
                           /\ iPOCLastDisplay = coded[a].poc
    BY <1>2 DEF DisplayInv
  <2>4. \/ iPOCLastDisplay = -MaxInt
        \/ \E a \in 1..n : /\ IsWritten(written, a) /\ SameSequence(coded, a, Reached')
                           /\ iPOCLastDisplay = coded[a].poc
    BY <2>1, <2>3
  <2> QED
    BY <1>1, <2>2, <2>4 DEF DisplayInv, IsWritten
<1>8. RoomInv'
  <2>1. ~Ahead' /\ n \in Decoded(coded) => ~Ahead
    BY <1>1
  <2>2. ~Ahead' /\ n \in Decoded(coded) =>
          \A s \in Referenced(dpb), k \in 1..n : dpb[s].ids = {k} => k \in references
    BY <1>2, <2>1 DEF RoomInv
  <2> QED
    BY <1>1, <2>2 DEF RoomInv
<1>9. ShownInv'
  <2> SUFFICES ASSUME NoPriorFlags \subseteq {FALSE}
               PROVE  /\ ~isNoOutputPriorPics'
                      /\ \A k \in Visible(coded) : k <= Reached' =>
                           \/ IsWritten(written, k)
                           \/ \E s \in Held(dpb) : dpb[s].ids = {k}
                                                   /\ (dpb[s].out \/ IsOpen(dpb, s))
    BY <1>1 DEF ShownInv, IsOpen, IsWritten
  <2>1. ~isNoOutputPriorPics'
    BY <1>1, <1>2 DEF ShownInv
  <2>2. ASSUME NEW k \in Visible(coded), k <= Reached' PROVE k <= Reached
    <3>1. k \in 1..n /\ k \in Decoded(coded)
      BY <2>2 DEF Visible, Decoded
    <3> QED
      BY <1>1, <1>3, <1>4, <2>2, <3>1
  <2> QED
    BY <1>2, <2>1, <2>2 DEF ShownInv
<1> QED
  BY <1>5, <1>6, <1>7, <1>8, <1>9 DEF OutputDecoderInv

USE DEF AfterFinish, headerVars, skipVars, irapVars, firstVars, pictureVars, headerAndSkipVars,
        counterVars, appVars

(* decode() looks at a header, or at a NAL unit that is not a slice.       *)
LEMMA HeaderStepOutput ==
  ASSUME OInv, UNCHANGED <<streamVars, dpb, curPic, firstSliceInPicture, appVars>>,
         phase = "decode", phase' \in {"returned", "conceal"},
         ~HandlesSlice', Ahead' => Ahead,
         Ahead /\ ~Ahead' => Len(coded) \notin Starts(coded) /\ Len(coded) \notin Decoded(coded),
         NoPriorFlags \subseteq {FALSE} => (isNoOutputPriorPics' => isNoOutputPriorPics)
  PROVE  OutputDecoderInv'
<1>1. /\ UNCHANGED <<streamVars, dpb, curPic, firstSliceInPicture, listSet, written>>
      /\ UNCHANGED <<iPOCLastDisplay, numPicsNotYetDisplayed, dpbFullness>>
  OBVIOUS
<1>2. RoomInv /\ EmptyInv
  BY DEF OInv, OutputDecoderInv
<1>3. ~Ending /\ ~Ending' /\ ~HandlesSlice
  BY DEF Ending, Ended, HandlesSlice
<1>4. QuietOutput
  BY <1>1, <1>3 DEF QuietOutput, streamVars
<1>5. CounterInv'
  BY DEF CounterInv
<1>6. EmptyInv'
  BY <1>1, <1>2 DEF EmptyInv
<1> QED
  BY <1>2, <1>3, <1>4, <1>5, <1>6, QuietOutputKeeps DEF RoomInv

LEMMA IgnoreLayerOutput ==
  ASSUME OInv, UNCHANGED streamVars, IgnoreLayer(nal)
  PROVE  OutputDecoderInv'
<1> DEFINE n == Len(coded)
<1>1. /\ phase = "decode" /\ IsNotDecoded(nal) /\ phase' = "returned" /\ newPicture' = FALSE
      /\ UNCHANGED <<nal, coded, dpb, curPic, firstSliceInPicture, appVars, isNoOutputPriorPics>>
  BY DEF IgnoreLayer, Return, streamVars
<1>2. nal.kind = "slice"
  <2>1. nal.kind # "slice" => nal.tid = 0
    BY DEF OInv, IInv, SourceInv, NalLaw
  <2>2. MaxTemporalLayer \in Nat
    BY MaxTemporalLayerAssumption, MaxDecPicBufAssumption
  <2> QED
    BY <1>1, <2>1, <2>2 DEF IsNotDecoded
<1>3. ~(coded[n].tid <= MaxTemporalLayer) /\ n > 0 /\ n \in Nat
  BY <1>1, <1>2, SliceFacts, Basics DEF OInv
<1>4. n \notin Decoded(coded)
  BY <1>3 DEF Decoded
<1>5. n \notin Starts(coded)
  <2>1. coded[n].tid # 0
    BY <1>3, MaxTemporalLayerAssumption, MaxDecPicBufAssumption
  <2>2. n \in 1..n
    BY <1>3
  <2>3. StartLaw(coded, n) /\ Starts(coded) \subseteq Iraps(coded)
    BY <2>2, Basics DEF OInv
  <2> QED
    BY <2>1, <2>3 DEF StartLaw, Iraps
<1> HIDE DEF n
<1>6. ~Ahead'
  BY <1>1 DEF Ahead
<1>7. ~HandlesSlice'
  BY <1>1, <1>4 DEF HandlesSlice, n
<1> QED
  BY <1>1, <1>4, <1>5, <1>6, <1>7, HeaderStepOutput DEF n

LEMMA OtherNalUnitOutput ==
  ASSUME OInv, UNCHANGED <<streamVars, appVars>>,
         PrefixSEI(nal) \/ ReservedVcl(nal) \/ OtherNal(nal),
         phase' # "crashed"
  PROVE  OutputDecoderInv'
<1>1. /\ nal.kind # "slice" /\ phase = "decode" /\ phase' = "returned" /\ newPicture' = FALSE
      /\ UNCHANGED <<nal, coded, dpb, curPic, firstSliceInPicture, appVars, isNoOutputPriorPics>>
  BY DEF PrefixSEI, ReservedVcl, OtherNal, Return, Crash, streamVars
<1>2. ~Ahead /\ ~Ahead' /\ ~HandlesSlice'
  BY <1>1 DEF Ahead, HandlesSlice
<1> QED
  BY <1>1, <1>2, HeaderStepOutput

LEMMA SkipSliceOutput ==
  ASSUME OInv, UNCHANGED <<streamVars, appVars>>, SkipSlice(nal), ~IsNotDecoded(nal)
  PROVE  OutputDecoderInv'
<1> DEFINE n == Len(coded)
<1>1. /\ phase = "decode" /\ nal.kind = "slice" /\ phase' = "returned" /\ newPicture' = FALSE
      /\ UNCHANGED <<nal, coded, dpb, curPic, firstSliceInPicture, appVars>>
  BY DEF SkipSlice, Return, streamVars
<1>2. Undecodable(coded, n)
  BY <1>1, SkippedPictures DEF SkipSlice, OInv
<1>3. /\ n \in Nat /\ n > 0 /\ n \in 1..n /\ StartLaw(coded, n)
      /\ Starts(coded) \subseteq Iraps(coded) /\ nal.type = coded[n].type
  BY <1>1, Basics, SliceFacts DEF OInv
<1>4. coded[n].type \in RaslTypes /\ coded[n].type \notin RapTypes
  BY <1>2 DEF Undecodable, RaslTypes, RapTypes, IdrTypes, BlaTypes
<1>5. n \notin Starts(coded) /\ n \notin Decoded(coded)
  BY <1>2, <1>3, <1>4 DEF Iraps, Decoded
<1>6. ~isNoOutputPriorPics'
  BY <1>3, <1>4 DEF NoOutputPriorPics, SkipSlice, ParseHeader
<1> HIDE DEF n
<1>7. ~Ahead' /\ ~HandlesSlice'
  BY <1>1, <1>5 DEF Ahead, HandlesSlice, n
<1> QED
  BY <1>1, <1>5, <1>6, <1>7, HeaderStepOutput DEF n

(* Where no flag asks for it, no prior pictures are to be dropped.         *)
LEMMA PriorPicturesStay ==
  ASSUME OInv, phase = "decode", nal.kind = "slice", ~IsNotDecoded(nal),
         NoPriorFlags \subseteq {FALSE}
  PROVE  ~NoOutputPriorPics(nal)
<1> DEFINE n == Len(coded)
<1>1. n \in 1..n /\ StartLaw(coded, n) /\ nal.noPrior = coded[n].noPrior
  BY Basics, SliceFacts DEF OInv
<1>2. nal.noPrior = FALSE
  BY <1>1 DEF StartLaw
<1>3. CraNoRasl(nal) = FALSE
  BY HeaderPocIsRight DEF OInv
<1>4. nal.type = "CRA" => ~NoRaslOutputFlag(nal)
  BY <1>3 DEF CraNoRasl
<1> QED
  BY <1>2, <1>4 DEF NoOutputPriorPics

LEMMA BeginSliceOutput ==
  ASSUME OInv, UNCHANGED <<streamVars, appVars>>, BeginSlice(nal), ~IsNotDecoded(nal)
  PROVE  OutputDecoderInv'
<1>1. /\ phase = "decode" /\ nal.kind = "slice"
      /\ UNCHANGED <<nal, coded, dpb, curPic, firstSliceInPicture, appVars>>
      /\ \/ StartsPicture(nal) /\ phase' = "returned" /\ newPicture' = TRUE
         \/ phase' = "conceal" /\ newPicture' = newPicture
  <2>1. \/ StartsPicture(nal) /\ phase' = "returned" /\ newPicture' = TRUE
        \/ phase' = "conceal" /\ newPicture' = newPicture
    BY DEF BeginSlice, Return
  <2> QED
    BY <2>1 DEF BeginSlice, streamVars
<1>2. Ahead' <=> Ahead
  BY <1>1 DEF Ahead, StartsPicture
<1>3. ~HandlesSlice'
  BY <1>1 DEF HandlesSlice
<1>4. isNoOutputPriorPics' = NoOutputPriorPics(nal)
  BY DEF BeginSlice, ParseHeader
<1>5. NoPriorFlags \subseteq {FALSE} => ~isNoOutputPriorPics'
  BY <1>1, <1>4, PriorPicturesStay
<1> QED
  BY <1>1, <1>2, <1>3, <1>5, HeaderStepOutput

(* Nothing changes. *)
LEMMA StutterOutput ==
  ASSUME OInv, UNCHANGED vars
  PROVE  OutputDecoderInv'
<1>1. UNCHANGED <<streamVars, decVars, appVars>>
  BY DEF vars
<1>2. /\ UNCHANGED <<phase, newPicture, dpb, curPic, isNoOutputPriorPics, firstSliceInPicture>>
      /\ UNCHANGED <<listSet, iPOCLastDisplay, written, numPicsNotYetDisplayed, dpbFullness>>
      /\ UNCHANGED <<nal, last, coded>>
  BY <1>1 DEF decVars, streamVars
<1>3. (Ahead' <=> Ahead) /\ (Ending' <=> Ending) /\ (HandlesSlice' <=> HandlesSlice)
  BY <1>2 DEF Ahead, Ending, Ended, HandlesSlice
<1>4. RoomInv /\ EmptyInv /\ CounterInv
  BY DEF OInv, OutputDecoderInv
<1>5. QuietOutput
  BY <1>1, <1>2, <1>3 DEF QuietOutput, streamVars
<1>6. CounterInv' /\ EmptyInv'
  BY <1>2, <1>4 DEF CounterInv, EmptyInv
<1> QED
  BY <1>2, <1>3, <1>4, <1>5, <1>6, QuietOutputKeeps DEF RoomInv

(* The reference pictures are known when the slice has been decoded.       *)
LEMMA SetRefPicListOutput ==
  ASSUME OInv, UNCHANGED <<streamVars, appVars>>, SetRefPicList, phase' # "crashed"
  PROVE  OutputDecoderInv'
<1>1. /\ phase = "lists" /\ phase' = "returned" /\ newPicture' = FALSE
      /\ firstSliceInPicture' = FALSE
      /\ UNCHANGED <<nal, coded, dpb, curPic, appVars, isNoOutputPriorPics>>
  BY DEF SetRefPicList, Return, Crash, streamVars
<1>2. /\ nal.kind = "slice" /\ ~IsNotDecoded(nal) /\ ~Undecodable(coded, Len(coded))
      /\ EmptyInv
  BY <1>1 DEF OInv, IInv, DecoderInv, PilotInv, OutputDecoderInv
<1>3. Len(coded) \in Decoded(coded)
  BY <1>2, SliceFacts, Basics DEF Decoded, OInv
<1>4. ~Ahead /\ ~Ahead' /\ ~Ending /\ HandlesSlice'
  BY <1>1, <1>2, <1>3 DEF Ahead, Ending, Ended, HandlesSlice
<1>5. QuietOutput
  BY <1>1, <1>4 DEF QuietOutput, streamVars
<1>6. CounterInv' /\ EmptyInv'
  BY <1>1, <1>2 DEF CounterInv, EmptyInv
<1> QED
  BY <1>4, <1>5, <1>6, QuietOutputKeeps

(* A picture that is to be written comes after the last one written.       *)
LEMMA PendingIsLater ==
  ASSUME OInv, NEW s \in Held(dpb), dpb[s].out \/ (IsOpen(dpb, s) /\ dpb[s].pof)
  PROVE  dpb[s].poc > iPOCLastDisplay
<1>1. PICK k \in 1..Reached : /\ dpb[s].ids = {k} /\ SameSequence(coded, k, Reached)
                              /\ k \in 1..Len(coded) /\ dpb[s].poc = coded[k].poc
                              /\ coded[k].poc \in Int /\ coded[k].poc > -MaxInt
  BY ListFacts
<1>2. Reached \in Nat
  BY Basics DEF OInv
<1>3. CASE iPOCLastDisplay = -MaxInt
  BY <1>1, <1>3
<1>4. CASE iPOCLastDisplay # -MaxInt
  <2>1. PICK a \in 1..Len(coded) : /\ IsWritten(written, a) /\ SameSequence(coded, a, Reached)
                                   /\ iPOCLastDisplay = coded[a].poc
    BY <1>4 DEF OInv, OutputDecoderInv, DisplayInv
  <2>2. Pending(k)
    BY <1>1 DEF Pending
  <2>3. Precedes(coded, a, k)
    BY <1>1, <2>1, <2>2 DEF OInv, OutputDecoderInv, OrderInv
  <2>4. a < k => SameSequence(coded, a, k)
    BY <1>1, <1>2, <2>1, Basics DEF OInv, SameSequence
  <2>5. coded[a].poc < coded[k].poc
    BY <2>3, <2>4 DEF Precedes
  <2>6. coded[a] \in CodedPicture
    BY Basics DEF OInv
  <2> QED
    BY <1>1, <2>1, <2>5, <2>6 DEF CodedPicture
<1> QED
  BY <1>3, <1>4

LEMMA ToDisplayIsMarked ==
  ASSUME OInv
  PROVE  ToDisplay(dpb) = Marked(dpb)
<1>1. \A s \in Marked(dpb) : s \in ToDisplay(dpb)
  BY PendingIsLater DEF Marked, ToDisplay
<1>2. \A s \in ToDisplay(dpb) : s \in Marked(dpb)
  BY DEF Marked, ToDisplay
<1> QED
  BY <1>1, <1>2

(* Numbers of pictures. *)
LEMMA ListIsFinite ==
  /\ \A d : IsFiniteSet(Held(d)) /\ IsFiniteSet(Marked(d)) /\ IsFiniteSet(Marked(d) \cup Referenced(d))
  /\ \A d : Cardinality(Marked(d)) \in Nat /\ Cardinality(Marked(d) \cup Referenced(d)) \in Nat
  /\ MaxDecPicBuf[MaxTemporalLayer] \in Nat /\ NumReorderPics[MaxTemporalLayer] \in Nat
<1>1. ASSUME NEW d PROVE IsFiniteSet(Held(d)) /\ IsFiniteSet(Marked(d))
                         /\ IsFiniteSet(Marked(d) \cup Referenced(d))
  <2>1. Held(d) \subseteq Slots /\ Marked(d) \subseteq Slots
        /\ Marked(d) \cup Referenced(d) \subseteq Slots
    BY DEF Held, Marked, Referenced
  <2> QED
    BY <2>1, SlotsAssumption, FS_Subset
<1>2. ASSUME NEW d PROVE Cardinality(Marked(d)) \in Nat
                         /\ Cardinality(Marked(d) \cup Referenced(d)) \in Nat
  BY <1>1, FS_CardinalityType
<1> QED
  BY <1>1, <1>2, NumReorderPicsAssumption, MaxTemporalLayerAssumption, MaxDecPicBufAssumption

(* Few enough pictures wait to be written when they are those a conforming *)
(* decoder has not output yet, and there is room for the last picture.     *)
LEMMA RestFits ==
  ASSUME OInv, Len(coded) \in Decoded(coded),
         \A s \in Marked(dpb) : \E k \in Rest(coded, waiting) : dpb[s].ids = {k}
  PROVE  /\ Cardinality(Marked(dpb)) <= NumReorderPics[MaxTemporalLayer]
         /\ ~Ahead => Cardinality(Marked(dpb) \cup Referenced(dpb))
                        <= MaxDecPicBuf[MaxTemporalLayer]
<1> DEFINE n == Len(coded)
           rest == Rest(coded, waiting)
           kept == KeptWith(coded, references)
           M == Marked(dpb)
           R == Referenced(dpb)
           max == MaxDecPicBuf[MaxTemporalLayer]
<1>1. /\ IsFiniteSet(references) /\ IsFiniteSet(rest)
      /\ Cardinality(kept) < max
      /\ Cardinality(rest) <= NumReorderPics[MaxTemporalLayer]
      /\ rest = {} \/ Cardinality(rest \cup kept) < max
  BY DEF OInv, OutputSourceInv, RoomLaw
<1>2. ListDiffers(dpb) /\ M \subseteq Held(dpb) /\ R \subseteq Held(dpb)
  BY DEF OInv, IInv, DecoderInv, ListInv, Marked, Referenced
<1>3. /\ Cardinality(M) \in Nat /\ Cardinality(M \cup R) \in Nat /\ max \in Nat
      /\ NumReorderPics[MaxTemporalLayer] \in Nat
  BY ListIsFinite
<1> HIDE DEF rest, M, R, max
<1>4. Cardinality(M) <= Cardinality(rest)
  BY <1>1, <1>2, AsManyIds DEF rest, M
<1>5. Cardinality(rest) \in Nat
  BY <1>1, FS_CardinalityType
<1>6. IsFiniteSet(kept)
  BY <1>1, FS_Subset DEF KeptWith
<1>7. ASSUME ~Ahead PROVE Cardinality(M \cup R) <= max
  <2>1. ASSUME NEW s \in R PROVE \E k \in kept \cup {n} : dpb[s].ids = {k}
    <3>1. PICK k \in 1..Reached : dpb[s].ids = {k} /\ k \in 1..n /\ k \in Decoded(coded)
      BY <1>2, ListFacts
    <3>2. k \in references
      BY <1>7, <3>1 DEF OInv, OutputDecoderInv, RoomInv, R
    <3>3. coded[k].tid <= MaxTemporalLayer
      BY <3>1 DEF Decoded
    <3> QED
      BY <3>1, <3>2, <3>3 DEF KeptWith
  <2> HIDE DEF kept, n
  <2>2. CASE M = {}
    <3>1. IsFiniteSet(kept \cup {n}) /\ Cardinality(kept \cup {n}) <= Cardinality(kept) + 1
      BY <1>6, FS_AddElement, FS_CardinalityType
    <3>2. Cardinality(R) <= Cardinality(kept \cup {n})
      BY <1>2, <2>1, <3>1, AsManyIds
    <3>3. M \cup R = R
      BY <2>2
    <3>4. Cardinality(kept) \in Nat /\ Cardinality(kept \cup {n}) \in Nat
      BY <1>6, <3>1, FS_CardinalityType
    <3>5. Cardinality(kept) < max
      BY <1>1 DEF kept, max
    <3>6. Cardinality(M \cup R) = Cardinality(R)
      BY <3>3, Zenon
    <3> QED
      BY <1>3, <3>1, <3>2, <3>4, <3>5, <3>6
  <2>3. CASE M # {}
    <3>1. rest # {}
      BY <2>3 DEF M, rest
    <3> DEFINE T == rest \cup kept
    <3>2. IsFiniteSet(T) /\ Cardinality(T) < max
      BY <1>1, <1>6, <3>1, FS_Union DEF kept
    <3> HIDE DEF T
    <3>3. IsFiniteSet(T \cup {n}) /\ Cardinality(T \cup {n}) <= Cardinality(T) + 1
      BY <3>2, FS_AddElement, FS_CardinalityType
    <3>4. \A s \in M \cup R : \E k \in T \cup {n} : dpb[s].ids = {k}
      BY <2>1 DEF T, rest, M
    <3>5. Cardinality(M \cup R) <= Cardinality(T \cup {n})
      <4>1. M \cup R \in SUBSET Held(dpb)
        BY <1>2
      <4> QED
        BY <1>2, <3>3, <3>4, <4>1, AsManyIds
    <3>6. Cardinality(T) \in Nat /\ Cardinality(T \cup {n}) \in Nat
      BY <3>2, <3>3, FS_CardinalityType
    <3> QED
      BY <1>3, <3>2, <3>3, <3>5, <3>6
  <2> QED
    BY <2>2, <2>3
<1> QED
  BY <1>1, <1>3, <1>4, <1>5, <1>7 DEF M, R, max, rest

(* Bumping ends when nothing more has to be written.                       *)
LEMMA EndBumpOutput ==
  ASSUME OInv, UNCHANGED streamVars, EndBump(last)
  PROVE  OutputDecoderInv'
<1> DEFINE m == Cardinality(Marked(dpb))
           f == Cardinality(Marked(dpb) \cup Referenced(dpb))
<1>1. /\ UNCHANGED <<nal, last, coded, newPicture, dpb, curPic, firstSliceInPicture, listSet>>
      /\ UNCHANGED <<written, iPOCLastDisplay, isNoOutputPriorPics>>
      /\ phase \in {"bump1", "bump2"} /\ (~MustBump \/ ToDisplay(dpb) = {})
      /\ phase' = IF phase = "bump1" THEN "prior"
                  ELSE IF newPicture THEN "decode" ELSE IF last THEN "final" ELSE "read"
  BY DEF EndBump, NextPhase, streamVars
<1>2. CounterInv /\ RoomInv /\ EmptyInv
  BY DEF OInv, OutputDecoderInv
<1>3. /\ phase = "bump1" => newPicture /\ listSet
      /\ newPicture => nal.kind = "slice"
  BY <1>1 DEF OInv, IInv, DecoderInv, HandedBackInv, MemoryInv
<1>4. /\ m \in Nat /\ f \in Nat
      /\ MaxDecPicBuf[MaxTemporalLayer] \in Nat /\ NumReorderPics[MaxTemporalLayer] \in Nat
  BY ListIsFinite
<1>5. m <= NumReorderPics[MaxTemporalLayer]
  <2>1. CASE ~MustBump
    BY <1>1, <1>2, <1>4, <2>1 DEF MustBump, CounterInv
  <2>2. CASE ToDisplay(dpb) = {}
    <3>1. Marked(dpb) = {}
      BY <2>2, ToDisplayIsMarked
    <3>2. m = 0
      BY <3>1, FS_EmptySet, Zenon
    <3> QED
      BY <1>4, <3>2
  <2> QED
    BY <1>1, <2>1, <2>2
<1>6. ~Ending => f <= MaxDecPicBuf[MaxTemporalLayer]
  <2>1. CASE ~MustBump
    BY <1>1, <1>2, <1>4, <2>1 DEF MustBump, CounterInv
  <2>2. CASE ~HandlesSlice
    BY <1>2, <2>2 DEF RoomInv
  <2>3. CASE HandlesSlice /\ ToDisplay(dpb) = {}
    <3>1. Marked(dpb) = {}
      BY <2>3, ToDisplayIsMarked
    <3>2. ~Ahead /\ Len(coded) \in Decoded(coded)
      BY <1>1, <2>3 DEF HandlesSlice, Ahead
    <3> QED
      BY <3>1, <3>2, RestFits
  <2> QED
    BY <1>1, <2>1, <2>2, <2>3
<1> HIDE DEF m, f
<1>7. (Ahead' => Ahead) /\ (Ahead => Ahead') /\ (Ending => Ending')
  BY <1>1, <1>3 DEF Ahead, Ending, Ended
<1>8. QuietOutput
  BY <1>1, <1>7 DEF QuietOutput, streamVars
<1>9. CounterInv'
  BY <1>1 DEF CounterInv
<1>10. EmptyInv'
  BY <1>1, <1>2, <1>3 DEF EmptyInv
<1> QED
  BY <1>5, <1>6, <1>7, <1>8, <1>9, <1>10, QuietOutputKeeps DEF m, f

LEMMA EndFlushOutput ==
  ASSUME OInv, UNCHANGED streamVars, EndFlush
  PROVE  OutputDecoderInv'
<1>1. /\ UNCHANGED <<nal, last, coded, newPicture, dpb, curPic, firstSliceInPicture, appVars>>
      /\ UNCHANGED isNoOutputPriorPics
      /\ phase \in {"flush", "final"} /\ (Held(dpb) = {} \/ ~listSet)
      /\ phase' = IF phase = "flush" THEN "output2" ELSE "done"
  BY DEF EndFlush, streamVars
<1>2. RoomInv /\ EmptyInv
  BY DEF OInv, OutputDecoderInv
<1>3. phase = "flush" => newPicture /\ listSet /\ nal.kind = "slice"
  BY <1>1 DEF OInv, IInv, DecoderInv, HandedBackInv, MemoryInv
<1>4. /\ (Ahead' => Ahead) /\ (Ahead => Ahead') /\ (Ending => Ending')
      /\ (Ending' => Ending) /\ ~HandlesSlice /\ ~HandlesSlice'
  BY <1>1, <1>3 DEF Ahead, Ending, Ended, HandlesSlice
<1>5. QuietOutput
  BY <1>1, <1>4 DEF QuietOutput, streamVars
<1>6. CounterInv' /\ EmptyInv'
  BY <1>1, <1>2, <1>3 DEF CounterInv, EmptyInv
<1> QED
  BY <1>1, <1>2, <1>4, <1>5, <1>6, QuietOutputKeeps DEF RoomInv

LEMMA BeginSecondOutputOutput ==
  ASSUME OInv, UNCHANGED streamVars, BeginSecondOutput(nal, last)
  PROVE  OutputDecoderInv'
<1>1. nal.kind # "EOS"
  BY DEF OInv, IInv, Intact, SourceInv, NalLaw
<1>2. /\ UNCHANGED <<nal, last, coded, newPicture, dpb, curPic, firstSliceInPicture, listSet>>
      /\ UNCHANGED <<written, iPOCLastDisplay, isNoOutputPriorPics>>
      /\ phase = "output2"
      /\ \/ phase' = "bump2" /\ CountPictures(dpb)
         \/ /\ newPicture \/ nal.kind # "slice"
            /\ phase' = IF newPicture THEN "decode" ELSE IF last THEN "final" ELSE "read"
  BY <1>1 DEF BeginSecondOutput, NextPhase, streamVars
<1>3. RoomInv /\ EmptyInv
  BY DEF OInv, OutputDecoderInv
<1>4. newPicture => nal.kind = "slice"
  BY <1>2 DEF OInv, IInv, DecoderInv, HandedBackInv
<1>5. (Ahead' => Ahead) /\ (Ahead => Ahead') /\ (Ending => Ending')
  BY <1>2, <1>4 DEF Ahead, Ending, Ended
<1>6. QuietOutput
  BY <1>2, <1>5 DEF QuietOutput, streamVars
<1>7. CounterInv'
  <2>1. CASE phase' = "bump2" /\ CountPictures(dpb)
    <3>1. ToDisplay(dpb) = Marked(dpb)
      BY ToDisplayIsMarked
    <3>2. {s \in Held(dpb) : dpb[s].ref} = Referenced(dpb)
      BY DEF Referenced
    <3>3. /\ numPicsNotYetDisplayed' = Cardinality(Marked(dpb))
          /\ dpbFullness' = Cardinality(Marked(dpb) \cup Referenced(dpb))
      BY <2>1, <3>1, <3>2, Zenon DEF CountPictures
    <3> QED
      BY <1>2, <3>3 DEF CounterInv
  <2> QED
    BY <1>2, <2>1 DEF CounterInv
<1>8. EmptyInv'
  BY <1>2, <1>3 DEF EmptyInv
<1>9. HandlesSlice => HandlesSlice'
  BY <1>2 DEF HandlesSlice
<1> QED
  BY <1>2, <1>3, <1>5, <1>6, <1>7, <1>8, <1>9, QuietOutputKeeps DEF RoomInv

(* Marks may be taken away where prior pictures may be dropped.            *)
LEMMA CheckNoOutputPriorPicsOutput ==
  ASSUME OInv, UNCHANGED streamVars, CheckNoOutputPriorPics(nal)
  PROVE  OutputDecoderInv'
<1>1. /\ UNCHANGED <<nal, last, coded, references, waiting, newPicture, curPic>>
      /\ UNCHANGED <<firstSliceInPicture, listSet, written, iPOCLastDisplay>>
      /\ phase = "prior"
      /\ phase' \in {"flush", "output2"}
      /\ phase' = "flush" => newPicture
      /\ isNoOutputPriorPics' => isNoOutputPriorPics
      /\ dpb' = dpb \/ (isNoOutputPriorPics /\ dpb' = WithoutPriorPics)
  BY DEF CheckNoOutputPriorPics, FlushesList, streamVars
<1>2. MarksInv /\ OrderInv /\ DisplayInv /\ RoomInv /\ EmptyInv /\ ShownInv
  BY DEF OInv, OutputDecoderInv
<1>3. listSet /\ (newPicture => nal.kind = "slice")
  BY <1>1 DEF OInv, IInv, DecoderInv, MemoryInv, HandedBackInv
<1>4. /\ (Ahead' <=> Ahead) /\ (Ending' <=> Ending) /\ (HandlesSlice' <=> HandlesSlice)
  BY <1>1, <1>3 DEF Ahead, Ending, Ended, HandlesSlice
<1>5. Reached' = Reached
  BY <1>1, <1>4 DEF Reached
<1>6. /\ Held(dpb') = Held(dpb)
      /\ \A s \in Held(dpb) :
           /\ dpb'[s].ids = dpb[s].ids /\ dpb'[s].poc = dpb[s].poc /\ dpb'[s].pos = dpb[s].pos
           /\ dpb'[s].pof = dpb[s].pof /\ dpb'[s].ref = dpb[s].ref
           /\ dpb'[s].recon = dpb[s].recon /\ (dpb'[s].out => dpb[s].out)
  <2>1. \A s \in Slots : dpb[s] \in Picture
    BY DEF OInv, IInv, Inv, TypeOK, ObjectsOK
  <2>2. \A s \in Slots : dpb'[s] \in {dpb[s], [dpb[s] EXCEPT !.out = FALSE]}
    BY <1>1 DEF WithoutPriorPics
  <2>3. ASSUME NEW p \in Picture, NEW q \in {p, [p EXCEPT !.out = FALSE]}
        PROVE  /\ q.ids = p.ids /\ q.poc = p.poc /\ q.pos = p.pos /\ q.pof = p.pof
               /\ q.ref = p.ref /\ q.recon = p.recon
    BY DEF Picture
  <2>4. ASSUME NEW p \in Picture, NEW q \in {p, [p EXCEPT !.out = FALSE]}
        PROVE  q.out => p.out
    BY DEF Picture
  <2>5. ASSUME NEW s \in Slots
        PROVE  /\ dpb'[s].ids = dpb[s].ids /\ dpb'[s].poc = dpb[s].poc
               /\ dpb'[s].pos = dpb[s].pos
               /\ dpb'[s].pof = dpb[s].pof /\ dpb'[s].ref = dpb[s].ref
               /\ dpb'[s].recon = dpb[s].recon /\ (dpb'[s].out => dpb[s].out)
    <3>1. dpb[s] \in Picture /\ dpb'[s] \in {dpb[s], [dpb[s] EXCEPT !.out = FALSE]}
      BY <2>1, <2>2
    <3>2. dpb'[s].out => dpb[s].out
      BY <3>1, <2>4, Zenon
    <3>3. /\ dpb'[s].ids = dpb[s].ids /\ dpb'[s].poc = dpb[s].poc
          /\ dpb'[s].pos = dpb[s].pos
          /\ dpb'[s].pof = dpb[s].pof /\ dpb'[s].ref = dpb[s].ref
          /\ dpb'[s].recon = dpb[s].recon
      BY <3>1, <2>3, Zenon
    <3> QED
      BY <3>2, <3>3, Zenon
  <2> QED
    BY <2>5 DEF Held
<1>7. Marked(dpb') \subseteq Marked(dpb) /\ Referenced(dpb') = Referenced(dpb)
  BY <1>6 DEF Marked, Referenced
<1>8. MarksInv'
  BY <1>1, <1>2, <1>6, <1>7 DEF MarksInv, Marked
<1>9. OrderInv'
  <2>1. ASSUME NEW k \in 1..Len(coded), Pending(k)' PROVE Pending(k)
    BY <1>1, <1>4, <1>6, <2>1 DEF Pending, IsOpen
  <2> QED
    BY <1>1, <1>2, <1>4, <2>1, SameOrderKeeps
<1>10. DisplayInv'
  BY <1>1, <1>2, <1>5, <1>6 DEF DisplayInv, IsWritten
<1>11. CounterInv'
  BY <1>1 DEF CounterInv
<1>12. RoomInv'
  <2>1. /\ Cardinality(Marked(dpb')) <= Cardinality(Marked(dpb))
        /\ Cardinality(Marked(dpb') \cup Referenced(dpb'))
             <= Cardinality(Marked(dpb) \cup Referenced(dpb))
    <3>1. Marked(dpb') \cup Referenced(dpb') \subseteq Marked(dpb) \cup Referenced(dpb)
      BY <1>7
    <3> QED
      BY <1>7, <3>1, ListIsFinite, FS_Subset
  <2>2. /\ Cardinality(Marked(dpb)) \in Nat /\ Cardinality(Marked(dpb')) \in Nat
        /\ Cardinality(Marked(dpb) \cup Referenced(dpb)) \in Nat
        /\ Cardinality(Marked(dpb') \cup Referenced(dpb')) \in Nat
        /\ MaxDecPicBuf[MaxTemporalLayer] \in Nat /\ NumReorderPics[MaxTemporalLayer] \in Nat
    BY ListIsFinite
  <2>3. ~HandlesSlice' /\ ~Ending' =>
          Cardinality(Marked(dpb') \cup Referenced(dpb')) <= MaxDecPicBuf[MaxTemporalLayer]
    BY <1>2, <1>4, <2>1, <2>2 DEF RoomInv
  <2>4. ~HandlesSlice' /\ ~Ending' =>
          Cardinality(Marked(dpb')) <= NumReorderPics[MaxTemporalLayer]
    BY <1>1, <1>2, <1>4, <2>1, <2>2 DEF RoomInv
  <2>5. ~Ahead' /\ Len(coded) \in Decoded(coded) =>
          \A s \in Referenced(dpb'), k \in 1..Len(coded) : dpb'[s].ids = {k} => k \in references
    BY <1>2, <1>4, <1>6, <1>7 DEF RoomInv, Referenced
  <2> QED
    BY <1>1, <2>3, <2>4, <2>5 DEF RoomInv
<1>13. EmptyInv'
  BY <1>1, <1>3 DEF EmptyInv
<1>14. ShownInv'
  <2>1. NoPriorFlags \subseteq {FALSE} => dpb' = dpb /\ ~isNoOutputPriorPics'
    BY <1>1, <1>2 DEF ShownInv
  <2> QED
    BY <1>1, <1>2, <1>5, <2>1 DEF ShownInv, IsWritten, IsOpen
<1> QED
  BY <1>8, <1>9, <1>10, <1>11, <1>12, <1>13, <1>14 DEF OutputDecoderInv

-----------------------------------------------------------------------------
(* A NAL unit is read.                                                     *)

(* A picture is later than what has been output of its sequence, and       *)
(* nothing else begins to wait.                                            *)
LEMMA NewPictureIsLater ==
  ASSUME coded \in Seq(CodedPicture), Lawful(coded), OutputLaw(coded, waiting, output),
         NEW x \in CodedPicture, NEW kept, OutputAround(x, Len(coded) + 1, kept)
  PROVE  /\ \A j \in 1..Len(coded) :
              x.pof /\ ~x.starts /\ SameSequence(coded, j, Len(coded)) /\ j \in OutIds(output)
                => coded[j].poc < x.poc
         /\ \A w \in waiting' : w \in waiting \/ w.id = Len(coded) + 1
<1> DEFINE n == Len(coded)
           before == IF x.starts THEN waiting ELSE BumpedBeforeStore(waiting, kept)
           new == IF x.pof THEN {[id |-> n + 1, poc |-> x.poc]} ELSE {}
           stored == (waiting \ before) \cup new
           after == Bumped(stored, FewEnoughWait)
<1>1. /\ x.pof /\ ~x.starts => \A q \in OutputPocs \cup {b.poc : b \in before} : q < x.poc
      /\ waiting' = stored \ after
  BY DEF OutputAround
<1> HIDE DEF before, after
<1>2. ASSUME NEW j \in 1..n, x.pof, ~x.starts, SameSequence(coded, j, n), j \in OutIds(output)
      PROVE  coded[j].poc < x.poc
  <2>1. n > 0
    OBVIOUS
  <2>2. j \in SequenceIds
    BY <1>2, <2>1, CurrentStructure
  <2>3. DOMAIN output = 1..Len(output)
    BY DEF OutputLaw
  <2>4. j \in SequenceIds \cap {output[i] : i \in DOMAIN output}
    BY <1>2, <2>2, <2>3 DEF OutIds
  <2>5. coded[j].poc \in OutputPocs
    BY <2>4 DEF OutputPocs, Poc
  <2> QED
    BY <1>1, <1>2, <2>5
<1>3. ASSUME NEW w \in waiting' PROVE w \in waiting \/ w.id = n + 1
  BY <1>1
<1> QED
  BY <1>2, <1>3

LEMMA ReadPictureOutput ==
  ASSUME OInv, ReadNal, SendPicture, SourceInv'
  PROVE  OutputDecoderInv'
<1> DEFINE n == Len(coded)
<1>1. /\ Intact /\ PocsAreShown /\ StreamTypeOK /\ coded \in Seq(CodedPicture) /\ Lawful(coded)
      /\ WaitingLaw(coded, waiting) /\ OutputLaw(coded, waiting, output)
      /\ MarksInv /\ OrderInv /\ DisplayInv /\ RoomInv /\ EmptyInv /\ ShownInv
  BY DEF OInv, IInv, Inv, TypeOK, StreamTypeOK, SourceInv, OutputSourceInv, OutputDecoderInv
<1>2. PICK x \in CodedPicture, kept \in SUBSET references :
           /\ coded' = Append(coded, x)
           /\ references' = IF Decodable(x) THEN kept \cup {Len(coded) + 1} ELSE references
           /\ nal'.kind = "slice" /\ nal'.first
           /\ IF Decodable(x) /\ x.tid <= MaxTemporalLayer
                THEN OutputAround(x, Len(coded) + 1, KeptOf(kept))
                ELSE UNCHANGED <<waiting, output>>
  BY <1>1, SendPictureOutput
<1> DEFINE d == Append(coded, x)
<1>3. /\ n \in Nat /\ d \in Seq(CodedPicture) /\ Len(d) = n + 1 /\ d[n + 1] = x
      /\ \A k \in 1..n : d[k] = coded[k]
  BY <1>1, PrefixSets
<1>4. /\ \A k \in 1..n : /\ k \in Decoded(d) <=> k \in Decoded(coded)
                         /\ k \in Visible(d) <=> k \in Visible(coded)
      /\ \A j, k \in 1..n : Precedes(d, j, k) <=> Precedes(coded, j, k)
      /\ \A j \in 1..n : SameSequence(d, j, n) <=> SameSequence(coded, j, n)
      /\ \A j \in 1..n : SameSequence(d, j, n + 1) <=> ~x.starts /\ SameSequence(coded, j, n)
      /\ \A j \in 1..n : Precedes(d, j, n + 1) <=>
                           (SameSequence(d, j, n + 1) => coded[j].poc < x.poc)
  BY <1>1, PrefixOrder
<1> HIDE DEF d
<1>5. Lawful(d) /\ RefsLaw(d, references') /\ coded' = d
  BY <1>2 DEF SourceInv, d
<1> HIDE DEF n
<1>6. /\ Reached = n /\ Reached' = n /\ ~Ahead
      /\ phase = "read" /\ phase' \in {"read", "decode"} /\ ~newPicture /\ ~newPicture'
      /\ UNCHANGED <<dpb, curPic, firstSliceInPicture, isNoOutputPriorPics, listSet>>
      /\ UNCHANGED <<written, iPOCLastDisplay>>
  BY ReadFacts DEF OInv, n, ReadNal
<1>7. Ahead'
  <2>1. nal' # NoNal
    BY <1>2 DEF NoNal
  <2> QED
    BY <1>2, <2>1 DEF Ahead, ReadNal
<1>8. /\ ~Ending /\ ~Ending' /\ ~HandlesSlice /\ ~HandlesSlice'
  BY <1>6 DEF Ending, Ended, HandlesSlice
<1>9. ASSUME NEW s \in Held(dpb), NEW k, dpb[s].ids = {k} PROVE k \in 1..n
  <2>1. PICK j \in 1..Reached : dpb[s].ids = {j}
    BY ListFacts
  <2> QED
    BY <1>6, <1>9, <2>1
<1>10. ASSUME NEW i \in 1..Len(written), NEW k, written[i].ids = {k}
       PROVE  k \in 1..n /\ k \in Visible(coded)
  <2>1. PICK j \in 1..Reached : written[i].ids = {j} /\ j \in Visible(coded)
    BY WrittenFacts
  <2> QED
    BY <1>6, <1>10, <2>1
<1>11. MarksInv'
  <2>1. ASSUME NEW s \in Held(dpb), NEW k, dpb[s].ids = {k} PROVE k \in Decoded(d)
    <3>1. k \in 1..n /\ k \in Decoded(coded)
      BY <1>1, <1>9, <2>1 DEF MarksInv, n
    <3> QED
      BY <1>4, <3>1
  <2> QED
    BY <1>1, <1>5, <1>6, <2>1 DEF MarksInv
<1>12. WrittenInv /\ \A a : IsWritten(written, a)' <=> IsWritten(written, a)
  BY <1>6 DEF OInv, IInv, DecoderInv, IsWritten
<1>13. \A a : IsWritten(written, a) => a \in 1..n /\ a \in Visible(coded)
  BY <1>10 DEF IsWritten
<1>14. n + 1 \in Visible(d) => x.pof /\ OutputAround(x, n + 1, KeptOf(kept))
  <2> SUFFICES ASSUME n + 1 \in Visible(d) PROVE x.pof /\ OutputAround(x, n + 1, KeptOf(kept))
    OBVIOUS
  <2>1. x.pof /\ x.tid <= MaxTemporalLayer /\ ~Undecodable(d, n + 1)
    BY <1>3 DEF Visible, Decoded
  <2>2. n + 1 \in references'
    BY <1>3, <1>5, <2>1 DEF RefsLaw
  <2>3. n + 1 \notin references
    BY <1>1, <1>3 DEF StreamTypeOK, n
  <2>4. Decodable(x)
    BY <1>2, <2>2, <2>3
  <2> QED
    BY <1>2, <2>1, <2>4 DEF n
<1>15. n + 1 \in Visible(d) => \A a \in 1..n : IsWritten(written, a) => Precedes(d, a, n + 1)
  <2> SUFFICES ASSUME n + 1 \in Visible(d), NEW a \in 1..n, IsWritten(written, a),
                      SameSequence(d, a, n + 1)
               PROVE  coded[a].poc < x.poc
    BY <1>4
  <2>1. ~x.starts /\ SameSequence(coded, a, n)
    BY <1>4
  <2>2. a \in OutIds(output) \cup WaitIds(waiting)
    BY <1>1, <1>13, <2>1 DEF OutputLaw, n
  <2>3. a \notin WaitIds(waiting)
    BY <1>1, <1>8 DEF OrderInv, WaitIds
  <2>4. a \in OutIds(output)
    BY <2>2, <2>3
  <2> QED
    BY <1>1, <1>14, <2>1, <2>4, NewPictureIsLater DEF n
<1>16. \A w \in waiting' : w \in waiting \/ w.id = n + 1
  <2>1. CASE Decodable(x) /\ x.tid <= MaxTemporalLayer
    BY <1>1, <1>2, <2>1, NewPictureIsLater DEF n
  <2>2. CASE ~(Decodable(x) /\ x.tid <= MaxTemporalLayer)
    BY <1>2, <2>2
  <2> QED
    BY <2>1, <2>2
<1>17. OrderInv'
  <2>1. \A i \in 1..Len(written), k \in 1..n + 1 : written[i].ids = {k} => k \in Visible(d)
    BY <1>4, <1>10
  <2>2. ASSUME NEW i \in 1..Len(written), NEW j \in 1..Len(written), NEW a, NEW b,
               i < j, written[i].ids = {a}, written[j].ids = {b}
        PROVE  Precedes(d, a, b)
    <3>1. a \in 1..n /\ b \in 1..n
      BY <1>10, <2>2
    <3>2. Precedes(coded, a, b)
      BY <1>1, <2>2, <3>1 DEF OrderInv, n
    <3> QED
      BY <1>4, <3>1, <3>2
  <2>3. ASSUME NEW a, NEW k, IsWritten(written, a), Pending(k)'
        PROVE  Precedes(d, a, k)
    <3>1. a \in 1..n
      BY <1>13, <2>3
    <3>2. CASE \E s \in Held(dpb) : dpb[s].ids = {k}
                                    /\ (dpb[s].out \/ (IsOpen(dpb, s) /\ dpb[s].pof))
      <4>1. k \in 1..n /\ Pending(k)
        BY <1>9, <3>2 DEF Pending
      <4>2. Precedes(coded, a, k)
        BY <1>1, <2>3, <3>1, <4>1 DEF OrderInv, n
      <4> QED
        BY <1>4, <3>1, <4>1, <4>2
    <3>3. CASE k = n + 1 /\ k \in Visible(d)
      BY <1>15, <2>3, <3>1, <3>3
    <3>4. \/ \E s \in Held(dpb) : dpb[s].ids = {k} /\ (dpb[s].out \/ (IsOpen(dpb, s) /\ dpb[s].pof))
          \/ k = n + 1 /\ k \in Visible(d)
      BY <1>3, <1>5, <1>6, <2>3 DEF Pending, IsOpen
    <3> QED
      BY <3>2, <3>3, <3>4
  <2>4. ASSUME NEW w \in waiting' PROVE ~IsWritten(written, w.id)
    <3>1. CASE w \in waiting
      BY <1>1, <1>8, <3>1 DEF OrderInv
    <3>2. CASE w.id = n + 1
      <4>1. n + 1 \notin 1..n
        BY <1>3
      <4> QED
        BY <1>13, <3>2, <4>1
    <3> QED
      BY <1>16, <3>1, <3>2
  <2>5. \A w \in waiting' : ~IsWritten(written, w.id)'
    BY <1>6, <2>4 DEF IsWritten
  <2> QED
    BY <1>3, <1>5, <1>6, <1>12, <2>1, <2>2, <2>3, <2>5 DEF OrderInv
<1>18. DisplayInv'
  <2>1. Held(dpb) = {} => iPOCLastDisplay = -MaxInt
    BY <1>1 DEF DisplayInv
  <2>2. CASE iPOCLastDisplay = -MaxInt
    BY <1>6, <2>2 DEF DisplayInv
  <2>3. CASE iPOCLastDisplay # -MaxInt
    <3>1. PICK a \in 1..n : /\ IsWritten(written, a) /\ SameSequence(coded, a, n)
                            /\ iPOCLastDisplay = coded[a].poc
      BY <1>1, <1>6, <2>3 DEF DisplayInv, n
    <3>2. /\ a \in 1..n + 1 /\ IsWritten(written, a) /\ SameSequence(d, a, n)
          /\ iPOCLastDisplay = d[a].poc
      BY <1>3, <1>4, <3>1
    <3> QED
      BY <1>3, <1>5, <1>6, <2>1, <3>2 DEF DisplayInv, IsWritten
  <2> QED
    BY <2>2, <2>3
<1>19. CounterInv'
  BY <1>6 DEF CounterInv
<1>20. RoomInv'
  BY <1>1, <1>6, <1>7, <1>8 DEF RoomInv
<1>21. EmptyInv'
  BY <1>1, <1>6 DEF EmptyInv
<1>22. ShownInv'
  <2> SUFFICES ASSUME NoPriorFlags \subseteq {FALSE}
               PROVE  /\ ~isNoOutputPriorPics
                      /\ \A k \in Visible(d) : k <= n =>
                           \/ IsWritten(written, k)
                           \/ \E s \in Held(dpb) : dpb[s].ids = {k}
                                                   /\ (dpb[s].out \/ IsOpen(dpb, s))
    BY <1>5, <1>6 DEF ShownInv, IsWritten, IsOpen
  <2>1. ASSUME NEW k \in Visible(d), k <= n PROVE k \in Visible(coded)
    <3>1. k \in 1..n
      BY <1>3, <2>1 DEF Visible, Decoded
    <3> QED
      BY <1>4, <2>1, <3>1
  <2> QED
    BY <1>1, <1>6, <2>1 DEF ShownInv
<1> QED
  BY <1>11, <1>17, <1>18, <1>19, <1>20, <1>21, <1>22 DEF OutputDecoderInv

LEMMA ReadNalOutput ==
  ASSUME OInv, ReadNal, SourceInv'
  PROVE  OutputDecoderInv'
<1>1. CASE SendPicture
  BY <1>1, ReadPictureOutput
<1>2. CASE ~SendPicture
  <2>1. /\ phase = "read" /\ phase' \in {"read", "decode"}
        /\ UNCHANGED <<dpb, curPic, firstSliceInPicture, isNoOutputPriorPics, appVars>>
        /\ Send /\ newPicture' = FALSE
    BY DEF ReadNal
  <2>2. UNCHANGED <<coded, references, waiting>>
    BY <1>2, <2>1 DEF Send, SendSlice, SendExtra, SendEndOfBitstream
  <2>3. ~Ahead'
    <3>1. \A k \in BOOLEAN : ~SliceOf(coded[Len(coded)], Len(coded), FALSE, k).first
      BY DEF SliceOf
    <3>2. NoNal.kind # "slice" /\ Extras \subseteq {"EOS", "SEI", "RSV", "OTHER"}
      BY StreamAssumption DEF NoNal
    <3>3. CASE SendSlice
      <4>1. \/ nal' = NoNal
            \/ \E dep \in {FALSE, Dependent} :
                 nal' = SliceOf(coded[Len(coded)], Len(coded), FALSE, dep)
        BY <3>3 DEF SendSlice, Deliver, Lose
      <4>2. Dependent \in BOOLEAN
        BY StreamAssumption
      <4> QED
        BY <3>1, <3>2, <4>1, <4>2 DEF Ahead
    <3>4. CASE SendExtra
      BY <3>2, <3>4 DEF SendExtra, Deliver, Ahead
    <3>5. CASE SendEndOfBitstream
      BY <3>5 DEF SendEndOfBitstream, Ahead
    <3> QED
      BY <1>2, <2>1, <3>3, <3>4, <3>5 DEF Send
  <2>4. /\ ~Ahead /\ ~Ending /\ ~Ending' /\ ~HandlesSlice /\ ~HandlesSlice'
    BY <2>1, ReadFacts DEF OInv, Ending, Ended, HandlesSlice
  <2>5. RoomInv /\ EmptyInv
    BY DEF OInv, OutputDecoderInv
  <2>6. QuietOutput
    BY <2>1, <2>2, <2>3, <2>4 DEF QuietOutput
  <2>7. CounterInv' /\ EmptyInv'
    BY <2>1, <2>5 DEF CounterInv, EmptyInv
  <2> QED
    BY <2>1, <2>4, <2>5, <2>6, <2>7, QuietOutputKeeps DEF RoomInv
<1> QED
  BY <1>1, <1>2

-----------------------------------------------------------------------------
(* A slice is activated.                                                   *)

SamePlace(p, q) == q.pos = p.pos

(* Reference marking moves no picture within the list.                     *)
LEMMA MarksKeepPlaces ==
  ASSUME NEW d \in List, NEW p, NEW s \in Slots
  PROVE  ApplyRps(d, p)[s].pos = d[s].pos
<1> DEFINE entries == {r \in p.rps : d[s].poc0 = p.poc + r.delta}
           used == \E r \in entries : r.used
<1>1. d[s] \in Picture
  BY DEF List
<1>2. ApplyRps(d, p)[s] =
        IF s \notin Held(d) \/ ~d[s].ref THEN d[s]
        ELSE IF entries # {} THEN [d[s] EXCEPT !.used = used]
        ELSE IF d[s].poc0 # p.poc THEN [d[s] EXCEPT !.ref = FALSE, !.used = FALSE]
        ELSE d[s]
  BY DEF ApplyRps
<1> HIDE DEF entries, used
<1>3. \/ ApplyRps(d, p)[s] = d[s]
      \/ ApplyRps(d, p)[s] = [d[s] EXCEPT !.used = used]
      \/ ApplyRps(d, p)[s] = [d[s] EXCEPT !.ref = FALSE, !.used = FALSE]
  BY <1>2
<1> HIDE DEF Picture
<1>4. \A q \in Picture : SamePlace(q, q)
  BY DEF SamePlace
<1>5. \A q \in Picture : \A u : SamePlace(q, [q EXCEPT !.used = u])
  BY DEF SamePlace, Picture
<1>6. \A q \in Picture : SamePlace(q, [q EXCEPT !.ref = FALSE, !.used = FALSE])
  BY DEF SamePlace, Picture
<1>7. SamePlace(d[s], ApplyRps(d, p)[s])
  BY <1>1, <1>3, <1>4, <1>5, <1>6
<1> QED
  BY <1>7 DEF SamePlace

(* The picture whose slice is activated is to be decoded.                  *)
LEMMA SliceIsDecoded ==
  ASSUME IInv, phase \in {"conceal", "lists"}
  PROVE  nal.kind = "slice" /\ Len(coded) \in Decoded(coded) /\ Len(coded) \in 1..Len(coded)
<1>1. nal.kind = "slice" /\ ~IsNotDecoded(nal) /\ ~Undecodable(coded, Len(coded))
  BY DEF IInv, DecoderInv, PilotInv
<1>2. coded[Len(coded)].tid <= MaxTemporalLayer /\ Len(coded) > 0 /\ Len(coded) \in Nat
  BY <1>1, SliceFacts, Basics
<1> QED
  BY <1>1, <1>2 DEF Decoded

LEMMA ActivateFirstSliceOutput ==
  ASSUME OInv, UNCHANGED <<streamVars, appVars>>, ActivateFirstSlice
  PROVE  OutputDecoderInv'
<1> DEFINE n == Len(coded)
           marked == ApplyRps(dpb, pilot)
<1>1. phase = "conceal" /\ firstSliceInPicture /\ IInv
  BY DEF ActivateFirstSlice, OInv
<1>2. PICK s \in Slots :
           /\ IsNewPicBuffer(marked, pilot.tid, s)
           /\ curPic' = s /\ SliceActivated(pilot)
           /\ Held(dpb') = Held(dpb) \cup {s}
           /\ Shows(dpb'[s], coded, n)
           /\ dpb'[s].ref /\ ~dpb'[s].recon /\ ~dpb'[s].out /\ dpb'[s].slices = 1
           /\ \A t \in Held(dpb) : t # s => dpb'[t] = marked[t]
  BY <1>1, FirstSliceIsStored
<1>3. /\ Ahead /\ nal.first /\ ~pilot.dep /\ n \in Nat /\ n > 0 /\ Reached = n - 1
      /\ nal.kind = "slice"
      /\ n \in Starts(coded) => Held(dpb) = {}
      /\ \A t \in Held(dpb) : \E k \in 1..n - 1 :
           Shows(dpb[t], coded, k) /\ SameSequence(coded, k, n)
  <2>1. n \in Starts(coded) => Held(dpb) = {}
    BY <1>1, FirstSliceIsAhead
  <2> QED
    BY <1>1, <2>1, FirstSliceIsAhead DEF Ahead
<1>4. /\ UNCHANGED <<nal, last, coded, references, waiting, listSet, written,
                     iPOCLastDisplay, firstSliceInPicture, isNoOutputPriorPics>>
      /\ phase' = "lists" /\ newPicture' = FALSE
  BY <1>1, <1>2, <1>3 DEF SliceActivated, streamVars
<1>5. MarksInv /\ OrderInv /\ DisplayInv /\ EmptyInv /\ ShownInv
  BY DEF OInv, OutputDecoderInv
<1>6. n \in Decoded(coded) /\ n \in 1..n
  BY <1>1, SliceIsDecoded
<1>7. ~Ahead' /\ Reached' = n
  BY <1>4 DEF Ahead, Reached
<1>8. PICK used : RpsIs(used)
  BY <1>1, PilotReferences
<1>9. \A t \in Held(dpb) : SameButMarks(dpb[t], marked[t]) /\ marked[t].pos = dpb[t].pos
  <2>1. dpb \in List
    BY <1>1 DEF IInv, Inv, TypeOK, ObjectsOK, List
  <2> QED
    BY <2>1, MarksOnly, MarksKeepPlaces DEF Held
<1>10. \A t \in Held(dpb) : \A k \in 1..n - 1 :
         Shows(dpb[t], coded, k) /\ SameSequence(coded, k, n) =>
           (marked[t].ref <=> dpb[t].ref /\ k \in references)
  BY <1>1, <1>8, MarksOfPicture
<1>11. s \in Held(dpb) => ~dpb[s].out
  BY <1>1, <1>2, TakenBuffer
<1>12. curPic \in Held(dpb) => dpb[curPic].recon
  BY <1>1, OldPictureIsFiltered
<1>13. n \in references
  BY <1>8 DEF RpsIs
<1> HIDE DEF n, marked
<1>14. dpb'[s].ids = {n} /\ dpb'[s].pof = coded[n].pof
  BY <1>2 DEF Shows
<1>15. \A t \in Held(dpb') : t = s \/ (/\ t \in Held(dpb) /\ t # s /\ SameButMarks(dpb[t], dpb'[t])
                                       /\ dpb'[t].pos = dpb[t].pos /\ dpb'[t] = marked[t])
  BY <1>2, <1>9
<1>16. Marked(dpb') = Marked(dpb) /\ s \notin Marked(dpb)
  <2>1. \A t \in Marked(dpb') : t \in Marked(dpb)
    BY <1>2, <1>15 DEF Marked, SameButMarks
  <2>2. \A t \in Marked(dpb) : t # s /\ t \in Marked(dpb')
    BY <1>2, <1>9, <1>11 DEF Marked, SameButMarks
  <2> QED
    BY <2>1, <2>2
<1>17. MarksInv'
  <2>1. ASSUME NEW t \in Held(dpb'), NEW k \in 1..n, dpb'[t].ids = {k}
        PROVE  k \in Decoded(coded)
    <3>1. CASE t = s
      BY <1>6, <1>14, <2>1, <3>1
    <3>2. CASE t # s
      BY <1>5, <1>15, <2>1, <3>2 DEF MarksInv, SameButMarks, n
    <3> QED
      BY <3>1, <3>2
  <2>2. \A t \in Marked(dpb) : dpb'[t].pof = dpb[t].pof /\ dpb'[t].pos = dpb[t].pos
                               /\ dpb'[t].poc = dpb[t].poc
    BY <1>15, <1>16 DEF SameButMarks, Marked
  <2> QED
    BY <1>4, <1>5, <1>16, <2>1, <2>2 DEF MarksInv, n
<1>18. OrderInv'
  <2>1. ASSUME NEW k \in 1..n, Pending(k)' PROVE Pending(k)
    <3>1. PICK t \in Held(dpb') : dpb'[t].ids = {k}
                                  /\ (dpb'[t].out \/ (IsOpen(dpb, t)' /\ dpb'[t].pof))
      BY <1>7, <2>1 DEF Pending
    <3>2. CASE t = s
      <4>1. k = n /\ dpb'[t].pof
        BY <1>2, <1>14, <3>1, <3>2
      <4> QED
        BY <1>3, <1>6, <1>14, <3>2, <4>1 DEF Pending, Visible, n
    <3>3. CASE t # s
      <4>1. ~IsOpen(dpb, t)'
        BY <1>2, <3>3 DEF IsOpen
      <4>2. t \in Held(dpb) /\ dpb[t].ids = {k} /\ dpb[t].out
        BY <1>15, <3>1, <3>3, <4>1 DEF SameButMarks
      <4> QED
        BY <4>2 DEF Pending
    <3> QED
      BY <3>2, <3>3
  <2>2. ~Ending
    BY <1>1 DEF Ending, Ended
  <2> QED
    BY <1>4, <1>5, <2>1, <2>2, SameOrderKeeps DEF n
<1>19. DisplayInv'
  <2>1. \/ iPOCLastDisplay = -MaxInt
        \/ \E a \in 1..n : /\ IsWritten(written, a) /\ SameSequence(coded, a, n)
                           /\ iPOCLastDisplay = coded[a].poc
    <3>1. CASE n \in Starts(coded)
      BY <1>3, <1>5, <3>1 DEF DisplayInv
    <3>2. CASE n \notin Starts(coded)
      <4>1. \A a \in 1..n : SameSequence(coded, a, Reached) => SameSequence(coded, a, n)
        BY <1>1, <1>3, <3>2, SequenceGoesOn DEF n
      <4> QED
        BY <1>5, <4>1 DEF DisplayInv, n
    <3> QED
      BY <3>1, <3>2
  <2>2. Held(dpb') # {}
    BY <1>2
  <2> QED
    BY <1>4, <1>7, <2>1, <2>2 DEF DisplayInv, IsWritten, n
<1>20. CounterInv'
  BY <1>4 DEF CounterInv
<1>21. RoomInv'
  <2>1. HandlesSlice'
    BY <1>3, <1>4, <1>6 DEF HandlesSlice, n
  <2>2. ASSUME NEW t \in Referenced(dpb'), NEW k \in 1..n, dpb'[t].ids = {k}
        PROVE  k \in references
    <3>1. CASE t = s
      BY <1>13, <1>14, <2>2, <3>1
    <3>2. CASE t # s
      <4>1. t \in Held(dpb) /\ dpb[t].ids = {k} /\ marked[t].ref
        BY <1>15, <2>2, <3>2 DEF Referenced, SameButMarks
      <4>2. PICK j \in 1..n - 1 : Shows(dpb[t], coded, j) /\ SameSequence(coded, j, n)
        BY <1>3, <4>1
      <4>3. j = k
        BY <4>1, <4>2 DEF Shows
      <4> QED
        BY <1>10, <4>1, <4>2, <4>3
    <3> QED
      BY <3>1, <3>2
  <2> QED
    BY <1>4, <2>1, <2>2 DEF RoomInv, n
<1>22. EmptyInv'
  <2>1. ~listSet => Held(dpb) = {}
    BY <1>1, <1>5 DEF EmptyInv
  <2> QED
    BY <1>2, <1>4, <2>1 DEF EmptyInv
<1>23. ShownInv'
  <2> SUFFICES ASSUME NoPriorFlags \subseteq {FALSE}
               PROVE  /\ ~isNoOutputPriorPics
                      /\ \A k \in Visible(coded) : k <= n =>
                           \/ IsWritten(written, k)
                           \/ \E t \in Held(dpb') : dpb'[t].ids = {k}
                                                   /\ (dpb'[t].out \/ IsOpen(dpb, t)')
    BY <1>4, <1>7 DEF ShownInv, IsWritten
  <2>1. ASSUME NEW k \in Visible(coded), k <= n
        PROVE  \/ IsWritten(written, k)
               \/ \E t \in Held(dpb') : dpb'[t].ids = {k} /\ (dpb'[t].out \/ IsOpen(dpb, t)')
    <3>1. CASE k = n
      BY <1>2, <1>14, <3>1 DEF IsOpen
    <3>2. CASE k # n
      <4>1. k \in 1..n /\ k <= Reached
        BY <1>3, <2>1, <3>2 DEF Visible, Decoded, n
      <4>2. \/ IsWritten(written, k)
            \/ \E t \in Held(dpb) : dpb[t].ids = {k} /\ (dpb[t].out \/ IsOpen(dpb, t))
        BY <1>5, <2>1, <4>1 DEF ShownInv
      <4>3. \A t \in Held(dpb) : ~IsOpen(dpb, t)
        BY <1>12 DEF IsOpen
      <4>4. \A t \in Marked(dpb) : t \in Marked(dpb') /\ dpb'[t].ids = dpb[t].ids
        BY <1>15, <1>16 DEF SameButMarks, Marked
      <4> QED
        BY <4>2, <4>3, <4>4 DEF Marked
    <3> QED
      BY <3>1, <3>2
  <2> QED
    BY <1>5, <2>1 DEF ShownInv
<1> QED
  BY <1>17, <1>18, <1>19, <1>20, <1>21, <1>22, <1>23 DEF OutputDecoderInv

LEMMA ActivateNextSliceOutput ==
  ASSUME OInv, UNCHANGED <<streamVars, appVars>>, ActivateNextSlice
  PROVE  OutputDecoderInv'
<1> DEFINE n == Len(coded)
<1>1. phase = "conceal" /\ ~firstSliceInPicture /\ IInv
  BY DEF ActivateNextSlice, OInv
<1>2. /\ curPic \in Held(dpb) /\ curPic' = curPic /\ SliceActivated(pilot)
      /\ Unfiltered(dpb, curPic, written)
      /\ ~newPicture /\ ~nal.first
      /\ Held(dpb') = Held(dpb)
      /\ \A t \in Held(dpb) : SameButMarks(dpb[t], dpb'[t]) /\ dpb'[t].ref = dpb[t].ref
  BY <1>1, NextSliceIsStored
<1>3. phase' \in {"lists", "returned"} /\ newPicture' = FALSE
  BY <1>2 DEF SliceActivated
<1>4. /\ UNCHANGED <<nal, last, coded, references, waiting, listSet, written,
                     iPOCLastDisplay, isNoOutputPriorPics>>
  BY <1>2 DEF SliceActivated, streamVars
<1>5. \A t \in Slots : t # curPic => dpb'[t] = dpb[t]
  <2>1. dpb' = [dpb EXCEPT ![curPic].slices = @ + 1, ![curPic].poc = pilot.poc,
                           ![curPic].tid = pilot.tid, ![curPic].ids = @ \cup {pilot.id}]
    BY <1>1, <1>2, <1>3 DEF ActivateNextSlice, Crash, AbortDecoding
  <2>2. dpb \in [Slots -> Picture]
    BY <1>1 DEF IInv, Inv, TypeOK, ObjectsOK
  <2> QED
    BY <2>1, <2>2
<1>6. MarksInv /\ OrderInv /\ DisplayInv /\ RoomInv /\ EmptyInv /\ ShownInv
  BY DEF OInv, OutputDecoderInv
<1>7. nal.kind = "slice" /\ n \in Decoded(coded)
  BY <1>1, SliceIsDecoded
<1>8. ~Ahead /\ ~Ahead' /\ Reached' = Reached
  BY <1>2, <1>4 DEF Ahead, Reached
<1>9. ~Ending /\ HandlesSlice'
  BY <1>1, <1>3, <1>4, <1>7 DEF Ending, Ended, HandlesSlice
<1> HIDE DEF n
<1>10. ~dpb[curPic].out /\ ~dpb'[curPic].out
  BY <1>2 DEF Unfiltered, SameButMarks
<1>11. /\ Marked(dpb') = Marked(dpb) /\ Referenced(dpb') = Referenced(dpb)
       /\ \A t \in Marked(dpb) : t # curPic /\ dpb'[t] = dpb[t]
  <2>1. \A t \in Held(dpb) : dpb'[t].out = dpb[t].out /\ dpb'[t].ref = dpb[t].ref
    BY <1>2 DEF SameButMarks
  <2>2. \A t \in Marked(dpb) : t # curPic /\ dpb'[t] = dpb[t]
    BY <1>5, <1>10 DEF Marked, Held
  <2> QED
    BY <1>2, <2>1, <2>2 DEF Marked, Referenced
<1>12. MarksInv'
  BY <1>2, <1>4, <1>6, <1>11 DEF MarksInv, SameButMarks
<1>13. OrderInv'
  <2>1. ASSUME NEW k \in 1..n, Pending(k)' PROVE Pending(k)
    BY <1>2, <1>4, <1>8, <2>1 DEF Pending, IsOpen, SameButMarks
  <2> QED
    BY <1>4, <1>6, <1>9, <2>1, SameOrderKeeps DEF n
<1>14. DisplayInv'
  BY <1>2, <1>4, <1>6, <1>8 DEF DisplayInv, IsWritten
<1>15. CounterInv'
  BY <1>3 DEF CounterInv
<1>16. RoomInv'
  <2>1. ASSUME NEW t \in Referenced(dpb'), NEW k \in 1..n, dpb'[t].ids = {k}
        PROVE  k \in references
    <3>1. t \in Referenced(dpb) /\ dpb[t].ids = {k}
      BY <1>2, <1>11, <2>1 DEF Referenced, SameButMarks
    <3> QED
      BY <1>6, <1>7, <1>8, <3>1 DEF RoomInv, n
  <2> QED
    BY <1>4, <1>9, <2>1 DEF RoomInv, n
<1>17. EmptyInv'
  <2>1. listSet \/ ~firstSliceInPicture'
    BY <1>1, <1>2, <1>6 DEF SliceActivated, EmptyInv
  <2>2. ~listSet => \A s \in Held(dpb') : s = curPic' /\ ~dpb'[s].out
    BY <1>2, <1>6, <1>10 DEF EmptyInv
  <2> QED
    BY <1>2, <1>3, <1>4, <2>1, <2>2 DEF EmptyInv
<1>18. ShownInv'
  <2>1. ASSUME NEW k, NEW s \in Held(dpb), dpb[s].ids = {k}, dpb[s].out \/ IsOpen(dpb, s)
        PROVE  dpb'[s].ids = {k} /\ (dpb'[s].out \/ IsOpen(dpb, s)')
    BY <1>2, <2>1 DEF IsOpen, SameButMarks
  <2> QED
    BY <1>2, <1>4, <1>6, <1>8, <2>1 DEF ShownInv, IsWritten
<1> QED
  BY <1>12, <1>13, <1>14, <1>15, <1>16, <1>17, <1>18 DEF OutputDecoderInv

-----------------------------------------------------------------------------
(* A picture is finished.                                                  *)

(* The sorted list is in the order of the POCs.                            *)
LEMMA SortedOrder ==
  ASSUME NEW d \in List, NEW s \in Held(d), NEW t \in Held(d),
         Sorted(d)[s].pos <= Sorted(d)[t].pos
  PROVE  d[s].poc0 <= d[t].poc0
<1> DEFINE precedes(a, b) == \/ d[a].poc0 < d[b].poc0
                             \/ d[a].poc0 = d[b].poc0 /\ d[a].pos >= d[b].pos
           before(b) == {a \in Held(d) : precedes(a, b)}
<1>1. \A a \in Held(d) : d[a].poc0 \in Int /\ d[a].pos \in Nat /\ d[a] \in Picture
  BY HeldIsSlot DEF List, Picture
<1>2. IsFiniteSet(Held(d))
  BY ListIsFinite
<1> SUFFICES ASSUME d[t].poc0 < d[s].poc0 PROVE FALSE
  BY <1>1
<1>3. ~(Size(d) < 2)
  <2>1. s # t
    BY <1>1
  <2>2. {s, t} \subseteq Held(d) /\ Cardinality({s, t}) = 2
    <3>1. {s, t} = {s} \cup {t} /\ t \notin {s}
      BY <2>1
    <3>2. IsFiniteSet({s}) /\ Cardinality({s}) = 1
      BY FS_Singleton
    <3>3. Cardinality({s} \cup {t}) = Cardinality({s}) + 1
      BY <3>1, <3>2, FS_AddElement
    <3>4. Cardinality({s, t}) = Cardinality({s} \cup {t})
      BY <3>1, Zenon
    <3> QED
      BY <3>2, <3>3, <3>4
  <2>3. Cardinality(Held(d)) >= 2
    BY <1>2, <2>2, FS_Subset, FS_CardinalityType
  <2> QED
    BY <1>2, <2>3, FS_CardinalityType DEF Size
<1> HIDE DEF before
<1>4. \A b \in Held(d) : Sorted(d)[b].pos = Cardinality(before(b))
  <2> SUFFICES ASSUME NEW b \in Held(d) PROVE Sorted(d)[b].pos = Cardinality(before(b))
    OBVIOUS
  <2>1. Sorted(d)[b] = [d[b] EXCEPT !.pos = Cardinality(before(b)), !.poc = d[b].poc0]
    BY <1>3, HeldIsSlot DEF Sorted, before
  <2> QED
    BY <1>1, <2>1 DEF Picture
<1>5. before(t) \subseteq before(s) /\ s \in before(s) /\ s \notin before(t)
  <2>1. \A a \in before(t) : a \in before(s)
    BY <1>1 DEF before
  <2> QED
    BY <1>1, <2>1 DEF before
<1>6. IsFiniteSet(before(s)) /\ IsFiniteSet(before(t))
  BY <1>2, FS_Subset DEF before
<1>7. /\ Cardinality(before(t)) <= Cardinality(before(s))
      /\ Cardinality(before(t)) # Cardinality(before(s))
  <2>1. before(t) # before(s)
    BY <1>5
  <2> QED
    BY <1>5, <1>6, <2>1, FS_Subset
<1>8. Cardinality(before(s)) \in Nat /\ Cardinality(before(t)) \in Nat
  BY <1>6, FS_CardinalityType
<1> QED
  BY <1>4, <1>7, <1>8

LEMMA FilteredOrder ==
  ASSUME IInv, curPic \in Held(dpb), NEW s \in Held(dpb), NEW t \in Held(dpb),
         Filtered[s].pos <= Filtered[t].pos
  PROVE  dpb[s].poc <= dpb[t].poc
<1> DEFINE d == [dpb EXCEPT ![curPic].out = dpb[curPic].pof, ![curPic].recon = TRUE]
<1>1. dpb \in List /\ curPic \in Slots
  BY HeldIsSlot DEF IInv, Inv, TypeOK, ObjectsOK, List
<1>2. \A q \in Slots : d[q] = IF q = curPic THEN [dpb[q] EXCEPT !.out = dpb[q].pof, !.recon = TRUE]
                                           ELSE dpb[q]
  BY <1>1 DEF List
<1>3. ASSUME NEW p \in Picture, NEW q, q = [p EXCEPT !.out = p.pof, !.recon = TRUE]
      PROVE  q \in Picture /\ q.pos = p.pos /\ q.poc0 = p.poc0
  BY <1>3 DEF Picture
<1>4. \A q \in Slots : d[q] \in Picture /\ d[q].pos = dpb[q].pos /\ d[q].poc0 = dpb[q].poc0
  <2> SUFFICES ASSUME NEW q \in Slots
               PROVE  d[q] \in Picture /\ d[q].pos = dpb[q].pos /\ d[q].poc0 = dpb[q].poc0
    OBVIOUS
  <2>1. dpb[q] \in Picture
    BY <1>1 DEF List
  <2>2. d[q] = dpb[q] \/ d[q] = [dpb[q] EXCEPT !.out = dpb[q].pof, !.recon = TRUE]
    BY <1>2
  <2> HIDE DEF d
  <2> QED
    BY <1>3, <2>1, <2>2
<1>5. d \in List
  BY <1>1, <1>4 DEF List
<1> HIDE DEF d
<1>6. Held(d) = Held(dpb)
  BY <1>4 DEF Held
<1>7. Sorted(d)[s].pos <= Sorted(d)[t].pos
  BY DEF Filtered, d
<1>8. d[s].poc0 <= d[t].poc0
  BY <1>5, <1>6, <1>7, SortedOrder
<1>9. \A q \in Held(dpb) : dpb[q].poc = dpb[q].poc0
  BY DEF IInv, DecoderInv, ListInv, ListShows, Shows
<1> QED
  BY <1>4, <1>8, <1>9, HeldIsSlot

(* A picture that is over is filtered; a picture that is not stays open.   *)
LEMMA FinishPictureFacts ==
  ASSUME IInv, UNCHANGED streamVars, FinishPicture(nal, last)
  PROVE  LET over == newPicture \/ last
         IN /\ UNCHANGED <<nal, last, coded, references, waiting, newPicture, curPic, written,
                           iPOCLastDisplay, isNoOutputPriorPics>>
            /\ phase = "returned"
            /\ Reached > 0 => Unfiltered(dpb, curPic, written)
            /\ Reached = 0 => Held(dpb) = {} /\ ~newPicture /\ firstSliceInPicture
            /\ dpb' = IF over /\ Reached > 0 THEN Filtered ELSE dpb
            /\ listSet' = (listSet \/ (over /\ Reached > 0))
            /\ firstSliceInPicture' = IF over THEN TRUE ELSE firstSliceInPicture
            /\ phase' = IF ~listSet' THEN IF last THEN "final" ELSE "read"
                        ELSE IF newPicture THEN "bump1" ELSE "prior"
            /\ newPicture => CountPictures(Filtered)
<1> DEFINE over == newPicture \/ last
<1>1. nal.kind # "EOS" /\ ~loopFiltered /\ last \in BOOLEAN
  BY DEF IInv, Intact, Inv, TypeOK, StreamTypeOK, SourceInv, NalLaw, DecoderInv, MemoryInv
<1>2. /\ UNCHANGED <<nal, last, coded, references, waiting, newPicture, curPic, written,
                     iPOCLastDisplay, isNoOutputPriorPics>>
      /\ phase = "returned"
  BY DEF FinishPicture, streamVars
<1>3. (IsOver(nal, last) <=> over) /\ (Filters(nal, last) <=> over /\ ~firstSliceInSequence)
  BY <1>1 DEF IsOver, Filters, FileIsGood
<1>4. /\ firstSliceInSequence <=> Reached = 0
      /\ Reached = 0 => Held(dpb) = {} /\ ~newPicture /\ firstSliceInPicture
      /\ Reached > 0 => Unfiltered(dpb, curPic, written)
      /\ Reached \in Nat
  BY <1>2, Basics DEF MemoryInv, OpenInv, Ended, IInv, DecoderInv
<1> HIDE DEF over
<1>5. /\ dpb' = IF over /\ ~firstSliceInSequence THEN Filtered ELSE dpb
      /\ listSet' = (listSet \/ (over /\ ~firstSliceInSequence))
  BY <1>3 DEF FinishPicture
<1>6. /\ firstSliceInPicture' =
           IF (over /\ ~firstSliceInSequence) \/ (over /\ firstSliceInSequence)
             THEN TRUE ELSE firstSliceInPicture
      /\ phase' = IF ~listSet' THEN NextPhase(last) ELSE IF newPicture THEN "bump1" ELSE "prior"
  BY <1>3 DEF FinishPicture
<1>7. ~firstSliceInSequence <=> Reached > 0
  BY <1>4
<1>8. /\ dpb' = IF over /\ Reached > 0 THEN Filtered ELSE dpb
      /\ listSet' = (listSet \/ (over /\ Reached > 0))
      /\ firstSliceInPicture' = IF over THEN TRUE ELSE firstSliceInPicture
  BY <1>5, <1>6, <1>7
<1>9. newPicture => over /\ Reached > 0
  BY <1>4 DEF over
<1>10. newPicture => listSet' /\ Filters(nal, last)
  BY <1>3, <1>7, <1>8, <1>9
<1>11. phase' = IF ~listSet' THEN IF last THEN "final" ELSE "read"
                ELSE IF newPicture THEN "bump1" ELSE "prior"
  BY <1>6, <1>10 DEF NextPhase
<1>12. newPicture => CountPictures(Filtered)
  BY <1>10 DEF FinishPicture
<1> QED
  BY <1>2, <1>4, <1>8, <1>11, <1>12 DEF over

(* Nothing is filtered. *)
LEMMA NotFilteredOutput ==
  ASSUME OInv, UNCHANGED streamVars, FinishPicture(nal, last), ~((newPicture \/ last) /\ Reached > 0)
  PROVE  OutputDecoderInv'
<1> DEFINE n == Len(coded)
<1>1. IInv /\ RoomInv /\ EmptyInv
  BY DEF OInv, OutputDecoderInv
<1>2. /\ UNCHANGED <<nal, last, coded, references, waiting, newPicture, curPic, written,
                     iPOCLastDisplay, isNoOutputPriorPics>>
      /\ phase = "returned" /\ dpb' = dpb
      /\ listSet' = listSet
      /\ firstSliceInPicture' = firstSliceInPicture
      /\ phase' = IF ~listSet' THEN IF last THEN "final" ELSE "read"
                  ELSE IF newPicture THEN "bump1" ELSE "prior"
      /\ Reached = 0 => Held(dpb) = {} /\ ~newPicture
  <2>1. Reached \in Nat /\ listSet \in BOOLEAN
    BY <1>1, Basics DEF IInv, Inv, TypeOK, FlagsOK
  <2>2. /\ UNCHANGED <<nal, last, coded, references, waiting, newPicture, curPic, written,
                        iPOCLastDisplay, isNoOutputPriorPics>>
        /\ phase = "returned"
        /\ Reached = 0 => Held(dpb) = {} /\ ~newPicture /\ firstSliceInPicture
        /\ phase' = IF ~listSet' THEN IF last THEN "final" ELSE "read"
                    ELSE IF newPicture THEN "bump1" ELSE "prior"
    BY <1>1, FinishPictureFacts
  <2>3. /\ dpb' = IF (newPicture \/ last) /\ Reached > 0 THEN Filtered ELSE dpb
        /\ listSet' = (listSet \/ ((newPicture \/ last) /\ Reached > 0))
        /\ firstSliceInPicture' = IF newPicture \/ last THEN TRUE ELSE firstSliceInPicture
    BY <1>1, FinishPictureFacts
  <2>4. firstSliceInPicture' = firstSliceInPicture
    <3>1. newPicture \/ last => firstSliceInPicture /\ firstSliceInPicture \in BOOLEAN
      BY <1>1, <2>1, <2>2 DEF IInv, Inv, TypeOK, FlagsOK
    <3> QED
      BY <2>3, <3>1
  <2>5. dpb' = dpb /\ listSet' = listSet
    BY <2>1, <2>3
  <2> QED
    BY <2>2, <2>4, <2>5
<1>3. ~newPicture /\ (last => Held(dpb) = {})
  <2>1. Reached \in Nat
    BY <1>1, Basics
  <2> QED
    BY <1>2, <2>1
<1>4. /\ (Ahead' <=> Ahead) /\ ~Ahead /\ ~Ending
      /\ phase' \in {"prior", IF last THEN "final" ELSE "read"}
  BY <1>2, <1>3 DEF Ahead, Ending, Ended
<1>5. QuietOutput
  BY <1>2, <1>4 DEF QuietOutput, streamVars
<1>6. CounterInv'
  BY <1>4 DEF CounterInv
<1>7. EmptyInv'
  BY <1>1, <1>2, <1>3 DEF EmptyInv
<1> HIDE DEF n
<1>8. ~HandlesSlice' /\ ~Ending' =>
        /\ Cardinality(Marked(dpb) \cup Referenced(dpb)) <= MaxDecPicBuf[MaxTemporalLayer]
        /\ Cardinality(Marked(dpb)) <= NumReorderPics[MaxTemporalLayer]
  <2>1. CASE ~HandlesSlice
    BY <1>1, <1>2, <1>4, <2>1 DEF RoomInv
  <2>2. CASE HandlesSlice
    <3> SUFFICES ASSUME ~HandlesSlice', ~Ending'
                 PROVE  /\ Cardinality(Marked(dpb) \cup Referenced(dpb))
                             <= MaxDecPicBuf[MaxTemporalLayer]
                        /\ Cardinality(Marked(dpb)) <= NumReorderPics[MaxTemporalLayer]
      OBVIOUS
    <3>1. ~listSet
      BY <1>2, <1>3, <2>2 DEF HandlesSlice
    <3>2. Marked(dpb) = {}
      BY <1>1, <3>1 DEF EmptyInv, Marked
    <3>3. n \in Decoded(coded)
      BY <2>2 DEF HandlesSlice, n
    <3> QED
      BY <1>4, <3>2, <3>3, RestFits DEF n
  <2> QED
    BY <2>1, <2>2
<1> QED
  BY <1>2, <1>5, <1>6, <1>7, <1>8, QuietOutputKeeps

(* The open picture is filtered, and marked if it is to be output.         *)
LEMMA FilteredOutput ==
  ASSUME OInv, UNCHANGED streamVars, FinishPicture(nal, last), newPicture \/ last, Reached > 0
  PROVE  OutputDecoderInv'
<1> DEFINE n == Len(coded)
<1>1. IInv /\ MarksInv /\ OrderInv /\ DisplayInv /\ RoomInv /\ EmptyInv /\ ShownInv
  BY DEF OInv, OutputDecoderInv
<1>2. /\ UNCHANGED <<nal, last, coded, references, waiting, newPicture, curPic, written,
                     iPOCLastDisplay, isNoOutputPriorPics>>
      /\ phase = "returned" /\ Unfiltered(dpb, curPic, written)
      /\ newPicture => CountPictures(Filtered)
  BY <1>1, FinishPictureFacts
<1>3. dpb' = Filtered /\ listSet'
  BY <1>1, FinishPictureFacts
<1>4. phase' = IF newPicture THEN "bump1" ELSE "prior"
  BY <1>1, <1>3, FinishPictureFacts
<1>5. curPic \in Held(dpb) /\ ~dpb[curPic].recon /\ ~dpb[curPic].out /\ dpb[curPic].ref
  BY <1>2 DEF Unfiltered
<1>6. /\ Held(dpb') = Held(dpb)
      /\ \A s \in Held(dpb) : SamePicture(dpb[s], dpb'[s])
      /\ \A s \in Held(dpb) : s # curPic => /\ dpb'[s].recon = dpb[s].recon
                                            /\ dpb'[s].out = dpb[s].out
      /\ dpb'[curPic].recon /\ dpb'[curPic].out = dpb[curPic].pof
  BY <1>1, <1>3, <1>5, FilteredKeeps
<1>7. \A s, t \in Held(dpb) : dpb'[s].pos <= dpb'[t].pos => dpb[s].poc <= dpb[t].poc
  BY <1>1, <1>3, <1>5, FilteredOrder
<1>8. (Ahead' <=> Ahead) /\ Reached' = Reached /\ (newPicture => nal.kind = "slice")
  <2>1. newPicture /\ phase = "returned" => nal.kind = "slice"
    BY <1>1 DEF IInv, DecoderInv, HandedBackInv
  <2>2. Ahead' <=> Ahead
    BY <1>2, <1>4 DEF Ahead
  <2> QED
    BY <1>2, <2>1, <2>2 DEF Reached
<1>9. ~Ending /\ (~newPicture => Ending') /\ (newPicture => ~HandlesSlice /\ ~Ending')
  BY <1>2, <1>4 DEF Ending, Ended, HandlesSlice
<1> HIDE DEF n
<1>10. MarksInv'
  <2>1. \A s \in Held(dpb) : dpb'[s].ids = dpb[s].ids /\ dpb'[s].poc = dpb[s].poc
                             /\ dpb'[s].pof = dpb[s].pof
    BY <1>6 DEF SamePicture
  <2>2. ASSUME NEW s \in Held(dpb), dpb'[s].out PROVE dpb'[s].pof
    <3>1. CASE s = curPic
      BY <1>6, <2>1, <2>2, <3>1
    <3>2. CASE s # curPic
      BY <1>1, <1>6, <2>1, <2>2, <3>2 DEF MarksInv, Marked
    <3> QED
      BY <3>1, <3>2
  <2> QED
    BY <1>1, <1>2, <1>6, <1>7, <2>1, <2>2 DEF MarksInv, Marked
<1>11. OrderInv'
  <2>1. ASSUME NEW k \in 1..n, Pending(k)' PROVE Pending(k)
    <3>1. CASE Ahead' /\ k = n /\ k \in Visible(coded)
      BY <1>8, <3>1 DEF Pending, n
    <3>2. CASE \E s \in Held(dpb') : dpb'[s].ids = {k}
                                     /\ (dpb'[s].out \/ (IsOpen(dpb, s)' /\ dpb'[s].pof))
      <4>1. PICK s \in Held(dpb) : dpb[s].ids = {k} /\ dpb'[s].pof = dpb[s].pof
                                   /\ (dpb'[s].out \/ (IsOpen(dpb, s)' /\ dpb'[s].pof))
        BY <1>6, <3>2 DEF SamePicture
      <4>2. ~IsOpen(dpb, s)'
        BY <1>2, <1>6 DEF IsOpen
      <4>3. dpb[s].out \/ (IsOpen(dpb, s) /\ dpb[s].pof)
        BY <1>5, <1>6, <4>1, <4>2 DEF IsOpen
      <4> QED
        BY <4>1, <4>3 DEF Pending
    <3> QED
      BY <1>2, <2>1, <3>1, <3>2 DEF Pending, n
  <2> QED
    BY <1>1, <1>2, <1>9, <2>1, SameOrderKeeps DEF n
<1>12. DisplayInv'
  BY <1>1, <1>2, <1>6, <1>8 DEF DisplayInv, IsWritten
<1>13. Referenced(dpb') = Referenced(dpb) /\ Marked(dpb') \cup Referenced(dpb') = Marked(dpb) \cup Referenced(dpb)
  <2>1. Referenced(dpb') = Referenced(dpb) /\ curPic \in Referenced(dpb)
    BY <1>5, <1>6 DEF Referenced, SamePicture
  <2>2. \A s \in Held(dpb) : s \in Marked(dpb') \cup Referenced(dpb') <=> s \in Marked(dpb) \cup Referenced(dpb)
    BY <1>6, <2>1 DEF Marked
  <2>3. /\ Marked(dpb') \cup Referenced(dpb') \subseteq Held(dpb)
        /\ Marked(dpb) \cup Referenced(dpb) \subseteq Held(dpb)
    BY <1>6 DEF Marked, Referenced
  <2> QED
    BY <2>1, <2>2, <2>3
<1>14. CounterInv'
  <2> SUFFICES ASSUME newPicture
               PROVE  /\ numPicsNotYetDisplayed' = Cardinality(Marked(dpb'))
                      /\ dpbFullness' = Cardinality(Marked(dpb') \cup Referenced(dpb'))
    BY <1>4 DEF CounterInv
  <2>1. ASSUME NEW s \in Marked(dpb') PROVE s \in ToDisplay(Filtered)
    <3>1. s \in Held(dpb) /\ dpb'[s].out /\ dpb'[s].poc = dpb[s].poc
      BY <1>6, <2>1 DEF Marked, SamePicture
    <3>2. dpb[s].out \/ (IsOpen(dpb, s) /\ dpb[s].pof)
      BY <1>5, <1>6, <3>1 DEF IsOpen
    <3>3. dpb[s].poc > iPOCLastDisplay
      BY <3>1, <3>2, PendingIsLater
    <3> QED
      BY <1>3, <1>6, <3>1, <3>3 DEF ToDisplay
  <2>2. \A s \in ToDisplay(Filtered) : s \in Marked(dpb')
    BY <1>3 DEF ToDisplay, Marked
  <2>3. ToDisplay(Filtered) = Marked(dpb')
    BY <2>1, <2>2
  <2>4. {s \in Held(Filtered) : Filtered[s].ref} = Referenced(dpb')
    BY <1>3 DEF Referenced
  <2> QED
    BY <1>2, <2>3, <2>4, Zenon DEF CountPictures
<1>15. RoomInv'
  <2>1. ~HandlesSlice' /\ ~Ending' =>
          Cardinality(Marked(dpb') \cup Referenced(dpb')) <= MaxDecPicBuf[MaxTemporalLayer]
    <3>1. Cardinality(Marked(dpb') \cup Referenced(dpb')) = Cardinality(Marked(dpb) \cup Referenced(dpb))
      BY <1>13, Zenon
    <3> QED
      BY <1>1, <1>9, <3>1 DEF RoomInv
  <2>2. phase' = "bump1" \/ Ending'
    BY <1>4, <1>9
  <2>3. ~Ahead' /\ n \in Decoded(coded) =>
          \A s \in Referenced(dpb'), k \in 1..n : dpb'[s].ids = {k} => k \in references
    <3>1. \A s \in Referenced(dpb') : s \in Referenced(dpb) /\ dpb'[s].ids = dpb[s].ids
      BY <1>6, <1>13 DEF Referenced, SamePicture
    <3> QED
      BY <1>1, <1>8, <3>1 DEF RoomInv, n
  <2> QED
    BY <1>2, <2>1, <2>2, <2>3 DEF RoomInv, n
<1>16. EmptyInv'
  BY <1>3, <1>4 DEF EmptyInv
<1>17. ShownInv'
  <2> SUFFICES ASSUME NoPriorFlags \subseteq {FALSE}
               PROVE  /\ ~isNoOutputPriorPics
                      /\ \A k \in Visible(coded) : k <= Reached =>
                           \/ IsWritten(written, k)
                           \/ \E t \in Held(dpb') : dpb'[t].ids = {k}
                                                   /\ (dpb'[t].out \/ IsOpen(dpb, t)')
    BY <1>2, <1>8 DEF ShownInv, IsWritten
  <2>1. ASSUME NEW k \in Visible(coded), k <= Reached
        PROVE  \/ IsWritten(written, k)
               \/ \E t \in Held(dpb') : dpb'[t].ids = {k} /\ (dpb'[t].out \/ IsOpen(dpb, t)')
    <3>1. CASE IsWritten(written, k)
      BY <3>1
    <3>2. CASE ~IsWritten(written, k)
      <4>1. PICK s \in Held(dpb) : dpb[s].ids = {k} /\ (dpb[s].out \/ IsOpen(dpb, s))
        BY <1>1, <2>1, <3>2 DEF ShownInv
      <4>2. dpb'[s].ids = {k} /\ s \in Held(dpb')
        BY <1>6, <4>1 DEF SamePicture
      <4>3. s # curPic => dpb'[s].out
        BY <1>6, <4>1 DEF IsOpen
      <4>4. s = curPic => dpb[s].pof
        <5>1. PICK j \in 1..Reached : dpb[s].ids = {j} /\ Shows(dpb[s], coded, j)
          BY ListFacts
        <5>2. j = k
          BY <4>1, <5>1
        <5> QED
          BY <2>1, <5>1, <5>2 DEF Shows, Visible
      <4> QED
        BY <1>6, <4>2, <4>3, <4>4
    <3> QED
      BY <3>1, <3>2
  <2> QED
    BY <1>1, <2>1 DEF ShownInv
<1> QED
  BY <1>10, <1>11, <1>12, <1>14, <1>15, <1>16, <1>17 DEF OutputDecoderInv

LEMMA FinishPictureOutput ==
  ASSUME OInv, UNCHANGED streamVars, FinishPicture(nal, last)
  PROVE  OutputDecoderInv'
  BY NotFilteredOutput, FilteredOutput

-----------------------------------------------------------------------------
(* A picture is written.                                                   *)

(* The lemmas above, for the coded pictures.                               *)
LEMMA PrecedesIsOrder ==
  ASSUME OInv, NEW j \in 1..Len(coded), NEW k \in 1..Len(coded)
  PROVE  /\ ~Precedes(coded, k, k)
         /\ j # k => Precedes(coded, j, k) \/ Precedes(coded, k, j)
         /\ \A l \in 1..Len(coded) :
              Precedes(coded, j, k) /\ Precedes(coded, k, l) => Precedes(coded, j, l)
<1>1. \A i \in 1..Len(coded) : i \in Nat /\ coded[i] \in CodedPicture
  BY Basics DEF OInv
<1>2. \A i \in 1..Len(coded) : coded[i].poc \in Int
  BY <1>1 DEF CodedPicture
<1>3. coded \in Seq(CodedPicture) /\ Lawful(coded)
  BY Basics DEF OInv, IInv, SourceInv
<1>4. ~Precedes(coded, k, k)
  BY <1>1, <1>2, PrecedesIrreflexive
<1>5. j # k => Precedes(coded, j, k) \/ Precedes(coded, k, j)
  BY <1>3, PrecedesTotal
<1>6. ASSUME NEW l \in 1..Len(coded), Precedes(coded, j, k), Precedes(coded, k, l)
      PROVE  Precedes(coded, j, l)
  BY <1>1, <1>2, <1>6, PrecedesTransitive
<1> QED
  BY <1>4, <1>5, <1>6

(* What is written next keeps the order of what is written.                *)
LEMMA WriteKeepsOrder ==
  ASSUME OInv, UNCHANGED <<coded, waiting>>, Ending => Ending',
         NEW s \in Held(dpb), dpb[s].out, NEW k \in 1..Len(coded), dpb[s].ids = {k},
         written' = Append(written, Shown(dpb[s])),
         \A j \in 1..Len(coded) : Pending(j)' => Pending(j) /\ Precedes(coded, k, j),
         ~Ending' => k \notin WaitIds(waiting)
  PROVE  /\ OrderInv'
         /\ \A j : IsWritten(written, j)' <=> IsWritten(written, j) \/ j = k
<1> DEFINE n == Len(coded)
           l == Len(written)
<1>1. OrderInv /\ MarksInv
  BY DEF OInv, OutputDecoderInv
<1>2. /\ l \in Nat /\ Len(written') = l + 1
      /\ \A i \in 1..l : written'[i] = written[i]
      /\ written'[l + 1].ids = {k}
  <2>1. written \in Seq([ids : SUBSET Nat, poc : Int])
    BY DEF OInv, IInv, DecoderInv, WrittenInv
  <2>2. Shown(dpb[s]).ids = {k}
    BY DEF Shown
  <2> QED
    BY <2>1, <2>2
<1> HIDE DEF l
<1>3. ASSUME NEW i \in 1..l + 1 PROVE i \in 1..l \/ i = l + 1
  BY <1>2
<1>4. \A j : IsWritten(written, j)' <=> IsWritten(written, j) \/ j = k
  <2>1. \A i \in 1..l : i \in 1..l + 1
    BY <1>2
  <2>2. l + 1 \in 1..l + 1
    BY <1>2
  <2>3. ASSUME NEW j PROVE IsWritten(written, j)' <=> \E i \in 1..l + 1 : written'[i].ids = {j}
    BY <1>2 DEF IsWritten
  <2>4. ASSUME NEW j PROVE IsWritten(written, j) <=> \E i \in 1..l : written[i].ids = {j}
    BY DEF IsWritten, l
  <2> SUFFICES ASSUME NEW j
               PROVE  IsWritten(written, j)' <=> IsWritten(written, j) \/ j = k
    OBVIOUS
  <2>5. ASSUME IsWritten(written, j)' PROVE IsWritten(written, j) \/ j = k
    <3>1. PICK i \in 1..l + 1 : written'[i].ids = {j}
      BY <2>3, <2>5
    <3>2. i = l + 1 => j = k
      BY <1>2, <3>1
    <3>3. i \in 1..l => IsWritten(written, j)
      BY <1>2, <2>4, <3>1
    <3> QED
      BY <1>3, <3>2, <3>3
  <2>6. ASSUME IsWritten(written, j) PROVE IsWritten(written, j)'
    <3>1. PICK i \in 1..l : written[i].ids = {j}
      BY <2>4, <2>6
    <3>2. i \in 1..l + 1 /\ written'[i].ids = {j}
      BY <1>2, <2>1, <3>1
    <3> QED
      BY <2>3, <3>2
  <2>7. j = k => IsWritten(written, j)'
    BY <1>2, <2>2, <2>3
  <2> QED
    BY <2>5, <2>6, <2>7
<1>5. Pending(k)
  BY DEF Pending
<1>6. k \in Visible(coded)
  <2>1. dpb[s].pof
    BY <1>1 DEF MarksInv, Marked
  <2> QED
    BY <2>1, ListFacts
<1> HIDE DEF n
<1>7. \A i \in 1..l, j \in 1..n : written[i].ids = {j} => j \in Visible(coded) /\ Precedes(coded, j, k)
  <2> SUFFICES ASSUME NEW i \in 1..l, NEW j \in 1..n, written[i].ids = {j}
               PROVE  j \in Visible(coded) /\ Precedes(coded, j, k)
    OBVIOUS
  <2>1. IsWritten(written, j)
    BY DEF IsWritten, l
  <2> QED
    BY <1>1, <1>5, <2>1 DEF OrderInv, n, l
<1>8. \A i \in 1..l + 1, j \in 1..n : written'[i].ids = {j} => j \in Visible(coded)
  <2> SUFFICES ASSUME NEW i \in 1..l + 1, NEW j \in 1..n, written'[i].ids = {j}
               PROVE  j \in Visible(coded)
    OBVIOUS
  <2> QED
    BY <1>2, <1>3, <1>6, <1>7
<1>9. \A i, j \in 1..l + 1, a, b \in 1..n :
        i < j /\ written'[i].ids = {a} /\ written'[j].ids = {b} => Precedes(coded, a, b)
  <2> SUFFICES ASSUME NEW i \in 1..l + 1, NEW j \in 1..l + 1, NEW a \in 1..n, NEW b \in 1..n,
                      i < j, written'[i].ids = {a}, written'[j].ids = {b}
               PROVE  Precedes(coded, a, b)
    OBVIOUS
  <2>1. i \in 1..l /\ written[i].ids = {a}
    BY <1>2
  <2>2. CASE j \in 1..l
    BY <1>1, <1>2, <2>1, <2>2 DEF OrderInv, n, l
  <2>3. CASE j = l + 1
    BY <1>2, <1>7, <2>1, <2>3
  <2> QED
    BY <1>3, <2>2, <2>3
<1>10. \A a, j \in 1..n : IsWritten(written, a)' /\ Pending(j)' => Precedes(coded, a, j)
  BY <1>1, <1>4 DEF OrderInv, n
<1>11. ~Ending' => \A w \in waiting : ~IsWritten(written, w.id)'
  BY <1>1, <1>4 DEF OrderInv, WaitIds
<1>12. OrderInv'
  BY <1>2, <1>8, <1>9, <1>10, <1>11 DEF OrderInv, n
<1> QED
  BY <1>4, <1>12

(* Bumping chooses the first of the marked pictures, by its POC too.       *)
LEMMA FirstPrecedes ==
  ASSUME OInv, NEW s \in Marked(dpb), NEW k \in 1..Len(coded), dpb[s].ids = {k},
         NEW t \in Marked(dpb), t # s, dpb[s].pos <= dpb[t].pos,
         NEW m \in 1..Len(coded), dpb[t].ids = {m}
  PROVE  Precedes(coded, k, m)
<1>1. s \in Held(dpb) /\ t \in Held(dpb)
  BY DEF Marked
<1>2. /\ k \in 1..Reached /\ m \in 1..Reached
      /\ SameSequence(coded, k, Reached) /\ SameSequence(coded, m, Reached)
      /\ dpb[s].poc = coded[k].poc /\ dpb[t].poc = coded[m].poc
      /\ coded[k].poc \in Int /\ coded[m].poc \in Int
  <2>1. ASSUME NEW r \in Held(dpb), NEW j, dpb[r].ids = {j}
        PROVE  /\ j \in 1..Reached /\ SameSequence(coded, j, Reached)
               /\ dpb[r].poc = coded[j].poc /\ coded[j].poc \in Int
    BY <2>1, ListFacts
  <2> QED
    BY <1>1, <2>1
<1>3. dpb[s].poc <= dpb[t].poc
  BY DEF OInv, OutputDecoderInv, MarksInv
<1>4. k # m
  BY <1>1 DEF OInv, IInv, DecoderInv, ListInv, ListDiffers
<1>5. Reached \in Nat /\ Reached <= Len(coded)
  BY Basics DEF OInv
<1>6. coded[k].poc # coded[m].poc
  BY <1>2, <1>4, <1>5, PocsDiffer DEF OInv
<1>7. SameSequence(coded, k, m) \/ SameSequence(coded, m, k)
  BY <1>2, <1>5, Basics DEF OInv, SameSequence
<1> QED
  BY <1>2, <1>3, <1>6, <1>7 DEF Precedes

(* What a conforming decoder has output of the sequence precedes what it   *)
(* has not: if a marked picture still waits, or was output with the last   *)
(* picture and follows it, the same holds of those behind it.              *)
LEMMA AllRest ==
  ASSUME OInv, NEW s \in Marked(dpb), \A t \in Marked(dpb) : dpb[s].pos <= dpb[t].pos,
         NEW k \in Rest(coded, waiting), dpb[s].ids = {k},
         \A t \in Marked(dpb) : dpb[t].ids # {Len(coded)},
         \A m \in 1..Len(coded) : SameSequence(coded, m, Reached) => SameSequence(coded, m, Len(coded)),
         NEW t \in Marked(dpb)
  PROVE  \E m \in Rest(coded, waiting) : dpb[t].ids = {m}
<1> DEFINE n == Len(coded)
<1>1. PICK m \in 1..n : /\ dpb[t].ids = {m} /\ SameSequence(coded, m, Reached)
                        /\ dpb[t].pof => m \in Visible(coded)
  BY ListFacts DEF Marked
<1>2. m \in Visible(coded) /\ SameSequence(coded, m, n) /\ m # n
  BY <1>1 DEF OInv, OutputDecoderInv, MarksInv
<1>3. k \in 1..n /\ n \in Nat
  BY Basics DEF Rest, Visible, Decoded, OInv
<1>4. CASE t = s
  BY <1>4
<1>5. CASE t # s
  <2>1. Precedes(coded, k, m)
    BY <1>1, <1>3, <1>5, FirstPrecedes
  <2>2. m \in OutIds(output) \cup WaitIds(waiting)
    BY <1>2 DEF OInv, OutputSourceInv, OutputLaw
  <2>3. CASE k \in WaitIds(waiting)
    <3>1. m \notin OutIds(output)
      <4> SUFFICES ASSUME m \in OutIds(output) PROVE FALSE
        OBVIOUS
      <4>1. Precedes(coded, m, k)
        BY <2>3 DEF OInv, OutputSourceInv, OutputLaw, WaitIds
      <4> QED
        BY <1>1, <1>3, <2>1, <4>1, PrecedesIsOrder
    <3> QED
      BY <1>1, <1>2, <2>2, <3>1 DEF Rest
  <2>4. CASE k \notin WaitIds(waiting)
    <3>1. n \in Visible(coded) /\ Precedes(coded, n, k)
      BY <2>4 DEF Rest
    <3>2. n \in 1..n
      BY <3>1 DEF Visible, Decoded
    <3>3. Precedes(coded, n, m)
      BY <1>1, <1>3, <2>1, <3>1, <3>2, PrecedesIsOrder
    <3> QED
      BY <1>1, <1>2, <3>1, <3>3 DEF Rest
  <2> QED
    BY <2>3, <2>4
<1> QED
  BY <1>4, <1>5

(* Bumping is called for a picture that is to be decoded, which comes      *)
(* after the picture that is written.                                      *)
LEMMA BumpIsFor ==
  ASSUME OInv, phase \in {"bump1", "bump2"}, MustBump, ~Ending
  PROVE  /\ Len(coded) \in Decoded(coded) /\ Len(coded) \in 1..Len(coded)
         /\ nal.kind = "slice"
         /\ phase = "bump1" => newPicture /\ Ahead
         /\ phase = "bump2" => ~newPicture /\ ~Ahead /\ curPic \in Held(dpb)
                               /\ dpb[curPic].ids = {Len(coded)} /\ ~dpb[curPic].out
<1>1. IInv /\ MemoryInv /\ ListInv /\ OpenInv /\ HandedBackInv /\ CurrentInv
  BY DEF OInv, IInv, DecoderInv
<1>2. RoomInv /\ CounterInv
  BY DEF OInv, OutputDecoderInv
<1>3. CASE phase = "bump1"
  <2>1. newPicture /\ nal.kind = "slice" /\ nal.first /\ ~IsNotDecoded(nal)
        /\ ~Undecodable(coded, Len(coded))
    BY <1>1, <1>3 DEF HandedBackInv
  <2>2. Len(coded) > 0 /\ coded[Len(coded)].tid <= MaxTemporalLayer /\ Len(coded) \in Nat
    BY <1>1, <2>1, SliceFacts, Basics
  <2> QED
    BY <1>3, <2>1, <2>2 DEF Decoded, Ahead
<1>4. CASE phase = "bump2"
  <2>1. HandlesSlice
    <3> SUFFICES ASSUME ~HandlesSlice PROVE FALSE
      OBVIOUS
    <3>1. /\ numPicsNotYetDisplayed = Cardinality(Marked(dpb))
          /\ dpbFullness = Cardinality(Marked(dpb) \cup Referenced(dpb))
          /\ Cardinality(Marked(dpb) \cup Referenced(dpb)) <= MaxDecPicBuf[MaxTemporalLayer]
          /\ Cardinality(Marked(dpb)) <= NumReorderPics[MaxTemporalLayer]
      BY <1>2, <1>4 DEF RoomInv, CounterInv
    <3> QED
      BY <3>1, ListIsFinite DEF MustBump
  <2>2. nal.kind = "slice" /\ Len(coded) \in Decoded(coded) /\ ~newPicture
    BY <2>1 DEF HandlesSlice
  <2>3. ~Ahead /\ Reached = Len(coded) /\ Len(coded) \in 1..Len(coded)
        /\ coded[Len(coded)].tid <= MaxTemporalLayer /\ ~Undecodable(coded, Len(coded))
    <3>1. ~Ahead
      BY <1>4, <2>2 DEF Ahead
    <3> QED
      BY <1>1, <2>2, <3>1, Basics DEF Decoded
  <2>4. curPic \in Held(dpb) /\ dpb[curPic].ids = {Len(coded)}
    BY <1>1, <1>4, <2>3 DEF CurrentInv
  <2>5. ~dpb[curPic].out
    <3>1. ~Ended /\ Reached > 0
      BY <2>3 DEF Ending
    <3> QED
      BY <1>1, <1>4, <2>2, <3>1 DEF OpenInv, OpenPhases, Unfiltered
  <2> QED
    BY <1>4, <2>2, <2>3, <2>4, <2>5
<1> QED
  BY <1>3, <1>4

LEMMA BumpChooses ==
  ASSUME OInv, phase \in {"bump1", "bump2"}, MustBump, ~Ending,
         NEW s \in Marked(dpb), \A t \in Marked(dpb) : dpb[s].pos <= dpb[t].pos,
         NEW k \in 1..Reached, dpb[s].ids = {k}
  PROVE  /\ k \notin WaitIds(waiting)
         /\ Len(coded) \in Visible(coded) => Precedes(coded, k, Len(coded))
<1> DEFINE n == Len(coded)
<1>1. /\ n \in Decoded(coded) /\ n \in 1..n
      /\ phase = "bump1" => newPicture /\ Ahead
      /\ phase = "bump2" => ~newPicture /\ ~Ahead /\ curPic \in Held(dpb)
                            /\ dpb[curPic].ids = {n} /\ ~dpb[curPic].out
  BY BumpIsFor
<1>2. /\ IInv /\ ListInv /\ RoomInv /\ CounterInv /\ s \in Held(dpb)
      /\ WaitingLaw(coded, waiting) /\ RoomLaw(coded, references, waiting)
  BY DEF OInv, IInv, DecoderInv, OutputDecoderInv, OutputSourceInv, Marked
<1>3. /\ n \in Nat /\ Reached \in Nat /\ Reached <= n
      /\ Ahead => Reached = n - 1
      /\ ~Ahead => Reached = n
  BY <1>2, Basics
<1>4. /\ k \in 1..n /\ SameSequence(coded, k, Reached) /\ k \in Visible(coded)
  BY <1>2, ListFacts DEF OInv, OutputDecoderInv, MarksInv
<1>5. \A t \in Marked(dpb) : dpb[t].ids # {n}
  <2> SUFFICES ASSUME NEW t \in Marked(dpb), dpb[t].ids = {n} PROVE FALSE
    OBVIOUS
  <2>1. t \in Held(dpb) /\ dpb[t].out
    BY DEF Marked
  <2>2. CASE phase = "bump1"
    <3>1. PICK j \in 1..Reached : dpb[t].ids = {j}
      BY <2>1, ListFacts
    <3>2. j = n /\ Reached = n - 1
      BY <1>1, <1>3, <2>2, <3>1
    <3> QED
      BY <1>3, <3>1, <3>2
  <2>3. CASE phase = "bump2"
    BY <1>1, <1>2, <2>1, <2>3 DEF ListInv, ListDiffers
  <2> QED
    BY <2>2, <2>3
<1>6. k # n
  BY <1>5
<1> HIDE DEF n
<1>7. CASE Ahead /\ n \in Starts(coded)
  <2>1. ~SameSequence(coded, k, n) /\ k < n
    <3>1. k < n
      BY <1>3, <1>7
    <3>2. ~(n < n)
      BY <1>3
    <3> QED
      BY <1>7, <3>1, <3>2 DEF SameSequence
  <2>2. k \notin WaitIds(waiting)
    BY <1>2, <2>1 DEF WaitingLaw, WaitIds, n
  <2> QED
    BY <2>1, <2>2 DEF Precedes, n
<1>8. CASE ~(Ahead /\ n \in Starts(coded))
  <2>1. \A m \in 1..n : SameSequence(coded, m, Reached) => SameSequence(coded, m, n)
    <3>1. CASE Ahead
      BY <1>2, <1>8, <3>1, SequenceGoesOn DEF n
    <3>2. CASE ~Ahead
      BY <1>3, <3>2
    <3> QED
      BY <3>1, <3>2
  <2>2. k \notin Rest(coded, waiting)
    <3> SUFFICES ASSUME k \in Rest(coded, waiting) PROVE FALSE
      OBVIOUS
    <3>1. \A t \in Marked(dpb) : \E m \in Rest(coded, waiting) : dpb[t].ids = {m}
      BY <1>5, <2>1, AllRest DEF n
    <3>2. Cardinality(Marked(dpb)) <= NumReorderPics[MaxTemporalLayer]
          /\ (~Ahead => Cardinality(Marked(dpb) \cup Referenced(dpb))
                          <= MaxDecPicBuf[MaxTemporalLayer])
      BY <1>1, <3>1, RestFits DEF n
    <3>3. Cardinality(Marked(dpb) \cup Referenced(dpb)) <= MaxDecPicBuf[MaxTemporalLayer]
      <4>1. CASE phase = "bump1"
        BY <1>1, <1>2, <4>1 DEF RoomInv, HandlesSlice
      <4>2. CASE phase = "bump2"
        BY <1>1, <3>2, <4>2
      <4> QED
        BY <4>1, <4>2
    <3>4. /\ numPicsNotYetDisplayed = Cardinality(Marked(dpb))
          /\ dpbFullness = Cardinality(Marked(dpb) \cup Referenced(dpb))
      BY <1>2 DEF CounterInv
    <3> QED
      BY <3>2, <3>3, <3>4, ListIsFinite DEF MustBump
  <2>3. k \notin WaitIds(waiting) /\ ~(n \in Visible(coded) /\ Precedes(coded, n, k))
    BY <1>4, <1>6, <2>1, <2>2 DEF Rest, n
  <2>4. n \in Visible(coded) => Precedes(coded, k, n)
    BY <1>1, <1>4, <1>6, <2>3, PrecedesIsOrder DEF n
  <2> QED
    BY <2>3, <2>4 DEF n
<1> QED
  BY <1>7, <1>8

(* The record of a picture that is written. *)
LEMMA DisplayedFacts ==
  ASSUME NEW p \in Picture
  PROVE  /\ Displayed(p).ids = p.ids /\ Displayed(p).poc = p.poc /\ Displayed(p).pos = p.pos
         /\ Displayed(p).pof = p.pof /\ Displayed(p).ref = p.ref /\ ~Displayed(p).out
         /\ Displayed(p).recon = (p.ref /\ p.recon)
<1>1. /\ Displayed(p).ids = p.ids /\ Displayed(p).poc = p.poc /\ Displayed(p).pos = p.pos
      /\ Displayed(p).pof = p.pof /\ Displayed(p).ref = p.ref
      /\ Displayed(p).recon = (p.ref /\ p.recon)
  BY DEF Displayed, Picture
<1>2. ~Displayed(p).out
  BY DEF Displayed, Picture
<1> QED
  BY <1>1, <1>2

LEMMA BumpOutput ==
  ASSUME OInv, UNCHANGED streamVars, Bump
  PROVE  OutputDecoderInv'
<1> DEFINE n == Len(coded)
<1>1. PICK s \in Slots :
        /\ IsFirst(dpb, s, ToDisplay(dpb))
        /\ written' = Append(written, Shown(dpb[s]))
        /\ iPOCLastDisplay' = dpb[s].poc
        /\ dpb' = [dpb EXCEPT ![s] = Displayed(@)]
        /\ numPicsNotYetDisplayed' = numPicsNotYetDisplayed - 1
        /\ dpbFullness' = IF dpb[s].ref THEN dpbFullness ELSE dpbFullness - 1
  BY DEF Bump
<1>2. /\ UNCHANGED <<nal, last, coded, references, waiting, newPicture, curPic>>
      /\ UNCHANGED <<isNoOutputPriorPics, firstSliceInPicture, listSet>>
      /\ phase \in {"bump1", "bump2"} /\ phase' = phase /\ MustBump
  BY DEF Bump, streamVars
<1>3. /\ IInv /\ MemoryInv /\ ListInv /\ OpenInv /\ HandedBackInv /\ LastInv
      /\ MarksInv /\ OrderInv /\ CounterInv /\ RoomInv /\ EmptyInv /\ ShownInv
  BY DEF OInv, IInv, DecoderInv, OutputDecoderInv
<1>4. s \in Marked(dpb) /\ \A t \in Marked(dpb) : dpb[s].pos <= dpb[t].pos
  BY <1>1, ToDisplayIsMarked DEF IsFirst
<1>5. s \in Held(dpb) /\ dpb[s].out
  BY <1>4 DEF Marked
<1>6. PICK k \in 1..Reached :
         /\ dpb[s].ids = {k} /\ SameSequence(coded, k, Reached) /\ k \in 1..n
         /\ dpb[s].poc = coded[k].poc
  BY <1>5, ListFacts
<1>7. /\ Held(dpb') = Held(dpb)
      /\ \A t \in Held(dpb) : t # s => dpb'[t] = dpb[t]
      /\ ~dpb'[s].out
      /\ \A t \in Held(dpb) :
           /\ dpb'[t].ids = dpb[t].ids /\ dpb'[t].poc = dpb[t].poc /\ dpb'[t].pos = dpb[t].pos
           /\ dpb'[t].pof = dpb[t].pof /\ dpb'[t].ref = dpb[t].ref
      /\ dpb'[s].recon = (dpb[s].ref /\ dpb[s].recon)
  <2>1. dpb \in [Slots -> Picture]
    BY <1>3 DEF IInv, Inv, TypeOK, ObjectsOK
  <2>2. dpb'[s] = Displayed(dpb[s]) /\ \A t \in Slots : t # s => dpb'[t] = dpb[t]
    BY <1>1, <2>1
  <2>3. dpb[s] \in Picture
    BY <2>1
  <2> HIDE DEF Displayed
  <2>4. /\ dpb'[s].ids = dpb[s].ids /\ dpb'[s].poc = dpb[s].poc /\ dpb'[s].pos = dpb[s].pos
        /\ dpb'[s].pof = dpb[s].pof /\ dpb'[s].ref = dpb[s].ref /\ ~dpb'[s].out
        /\ dpb'[s].recon = (dpb[s].ref /\ dpb[s].recon)
    BY <2>2, <2>3, DisplayedFacts
  <2> QED
    BY <2>2, <2>4 DEF Held
<1>8. (Ahead' <=> Ahead) /\ Reached' = Reached /\ (Ending' <=> Ending)
      /\ (HandlesSlice' <=> HandlesSlice)
  <2>1. Ahead' <=> Ahead
    BY <1>2 DEF Ahead
  <2> QED
    BY <1>2, <2>1 DEF Reached, Ending, Ended, HandlesSlice
<1>9. ~Ending =>
        /\ n \in Decoded(coded) /\ k \notin WaitIds(waiting)
        /\ n \in Visible(coded) => Precedes(coded, k, n)
  BY <1>2, <1>4, <1>6, BumpIsFor, BumpChooses
<1>10. Ahead => ~Ending
  BY <1>2 DEF Ahead, Ending, Ended
<1>11. curPic = s => dpb[s].recon /\ dpb[s].ref
  <2> SUFFICES ASSUME curPic = s PROVE dpb[s].recon /\ dpb[s].ref
    OBVIOUS
  <2>1. dpb[s].ref
    BY <1>3, <1>5 DEF ListInv
  <2>2. Ending => dpb[s].recon
    BY <1>2, <1>3, <1>5 DEF Ending, LastInv
  <2>3. phase = "bump1" => dpb[s].recon
    BY <1>3, <1>5 DEF HandedBackInv
  <2>4. phase = "bump2" /\ ~Ending => FALSE
    BY <1>2, <1>5, BumpIsFor
  <2> QED
    BY <1>2, <2>1, <2>2, <2>3, <2>4
<1>12. \A t \in Held(dpb) : IsOpen(dpb, t)' <=> IsOpen(dpb, t)
  BY <1>2, <1>7, <1>11 DEF IsOpen
<1>13. \A t \in Held(dpb) : IsOpen(dpb, t) => t # s /\ ~Ending /\ dpb[t].ids = {n}
  <2> SUFFICES ASSUME NEW t \in Held(dpb), IsOpen(dpb, t)
               PROVE  t # s /\ ~Ending /\ dpb[t].ids = {n}
    OBVIOUS
  <2>1. t = curPic /\ ~dpb[curPic].recon
    BY DEF IsOpen
  <2>2. ~Ending
    BY <1>2, <1>3, <2>1 DEF Ending, LastInv
  <2>3. phase = "bump2"
    BY <1>2, <1>3, <2>1 DEF HandedBackInv
  <2> QED
    BY <1>2, <1>11, <2>1, <2>2, <2>3, BumpIsFor
<1> HIDE DEF n
<1>14. /\ Marked(dpb') = Marked(dpb) \ {s} /\ Referenced(dpb') = Referenced(dpb)
  BY <1>7 DEF Marked, Referenced
<1>15. MarksInv'
  BY <1>2, <1>3, <1>7, <1>14 DEF MarksInv, Marked
<1>16. ASSUME NEW j \in 1..n, Pending(j)' PROVE Pending(j) /\ Precedes(coded, k, j)
  <2>1. CASE Ahead' /\ j = n /\ j \in Visible(coded)
    BY <1>8, <1>9, <1>10, <2>1 DEF Pending, n
  <2>2. CASE \E t \in Held(dpb') : dpb'[t].ids = {j}
                                   /\ (dpb'[t].out \/ (IsOpen(dpb, t)' /\ dpb'[t].pof))
    <3>1. PICK t \in Held(dpb) : dpb[t].ids = {j}
                                 /\ (dpb'[t].out \/ (IsOpen(dpb, t) /\ dpb[t].pof))
      BY <1>7, <1>12, <2>2
    <3>2. CASE dpb'[t].out
      <4>1. t # s /\ t \in Marked(dpb)
        BY <1>7, <3>2 DEF Marked
      <4>2. Precedes(coded, k, j)
        BY <1>4, <1>6, <1>16, <3>1, <4>1, FirstPrecedes DEF n
      <4> QED
        BY <3>1, <4>1, <4>2 DEF Pending, Marked
    <3>3. CASE IsOpen(dpb, t) /\ dpb[t].pof
      <4>1. ~Ending /\ j = n
        BY <1>13, <3>1, <3>3
      <4>2. n \in Visible(coded)
        BY <3>1, <3>3, <4>1, ListFacts
      <4> QED
        BY <1>9, <3>1, <3>3, <4>1, <4>2 DEF Pending
    <3> QED
      BY <3>1, <3>2, <3>3
  <2> QED
    BY <1>2, <1>16, <2>1, <2>2 DEF Pending, n
<1>17. OrderInv' /\ \A j : IsWritten(written, j)' <=> IsWritten(written, j) \/ j = k
  <2>1. /\ UNCHANGED <<coded, waiting>> /\ (Ending => Ending')
        /\ ~Ending' => k \notin WaitIds(waiting)
    BY <1>2, <1>8, <1>9
  <2>2. \A j \in 1..Len(coded) : Pending(j)' => Pending(j) /\ Precedes(coded, k, j)
    BY <1>16 DEF n
  <2>3. k \in 1..Len(coded)
    BY <1>6 DEF n
  <2> QED
    BY <1>1, <1>5, <1>6, <2>1, <2>2, <2>3, WriteKeepsOrder
<1>18. DisplayInv'
  BY <1>1, <1>2, <1>5, <1>6, <1>7, <1>8, <1>17 DEF DisplayInv, n
<1>19. /\ Cardinality(Marked(dpb')) = Cardinality(Marked(dpb)) - 1
       /\ Cardinality(Marked(dpb') \cup Referenced(dpb')) =
            IF dpb[s].ref THEN Cardinality(Marked(dpb) \cup Referenced(dpb))
            ELSE Cardinality(Marked(dpb) \cup Referenced(dpb)) - 1
  <2> DEFINE M == Marked(dpb)
             U == Marked(dpb) \cup Referenced(dpb)
  <2>1. IsFiniteSet(M) /\ IsFiniteSet(U) /\ s \in M /\ s \in U
    BY <1>4, ListIsFinite
  <2>2. s \in Referenced(dpb) <=> dpb[s].ref
    BY <1>5 DEF Referenced
  <2>3. Marked(dpb') \cup Referenced(dpb') = IF dpb[s].ref THEN U ELSE U \ {s}
    BY <1>14, <2>1, <2>2
  <2> HIDE DEF M, U
  <2>4. Cardinality(M \ {s}) = Cardinality(M) - 1 /\ Cardinality(U \ {s}) = Cardinality(U) - 1
    BY <2>1, FS_RemoveElement
  <2>5. Cardinality(Marked(dpb')) = Cardinality(M \ {s})
    BY <1>14, Zenon DEF M
  <2>6. dpb[s].ref => Cardinality(Marked(dpb') \cup Referenced(dpb')) = Cardinality(U)
    BY <2>3, Zenon
  <2>7. ~dpb[s].ref => Cardinality(Marked(dpb') \cup Referenced(dpb')) = Cardinality(U \ {s})
    BY <2>3, Zenon
  <2> QED
    BY <2>4, <2>5, <2>6, <2>7 DEF M, U
<1>20. CounterInv'
  BY <1>1, <1>2, <1>3, <1>19 DEF CounterInv
<1>21. RoomInv'
  <2>1. /\ Cardinality(Marked(dpb')) <= Cardinality(Marked(dpb))
        /\ Cardinality(Marked(dpb') \cup Referenced(dpb'))
             <= Cardinality(Marked(dpb) \cup Referenced(dpb))
        /\ Cardinality(Marked(dpb)) \in Nat /\ Cardinality(Marked(dpb')) \in Nat
        /\ Cardinality(Marked(dpb) \cup Referenced(dpb)) \in Nat
        /\ Cardinality(Marked(dpb') \cup Referenced(dpb')) \in Nat
    BY <1>19, ListIsFinite
  <2>2. MaxDecPicBuf[MaxTemporalLayer] \in Nat /\ NumReorderPics[MaxTemporalLayer] \in Nat
    BY ListIsFinite
  <2>3. ~HandlesSlice' /\ ~Ending' =>
          Cardinality(Marked(dpb') \cup Referenced(dpb')) <= MaxDecPicBuf[MaxTemporalLayer]
    BY <1>3, <1>8, <2>1, <2>2 DEF RoomInv
  <2>4. ~HandlesSlice' /\ ~Ending' /\ phase # "bump1" =>
          Cardinality(Marked(dpb')) <= NumReorderPics[MaxTemporalLayer]
    BY <1>3, <1>8, <2>1, <2>2 DEF RoomInv
  <2>5. ~Ahead' /\ n \in Decoded(coded) =>
          \A t \in Referenced(dpb'), j \in 1..n : dpb'[t].ids = {j} => j \in references
    BY <1>3, <1>7, <1>8, <1>14 DEF RoomInv, Referenced, n
  <2> QED
    BY <1>2, <2>3, <2>4, <2>5 DEF RoomInv, n
<1>22. EmptyInv'
  <2>1. listSet
    BY <1>2, <1>3 DEF EmptyInv, MemoryInv
  <2> QED
    BY <1>2, <2>1 DEF EmptyInv
<1>23. ShownInv'
  <2> SUFFICES ASSUME NoPriorFlags \subseteq {FALSE}
               PROVE  /\ ~isNoOutputPriorPics
                      /\ \A j \in Visible(coded) : j <= Reached =>
                           \/ IsWritten(written, j)'
                           \/ \E t \in Held(dpb') : dpb'[t].ids = {j}
                                                   /\ (dpb'[t].out \/ IsOpen(dpb, t)')
    BY <1>2, <1>8 DEF ShownInv
  <2>1. ASSUME NEW j \in Visible(coded), j <= Reached, ~IsWritten(written, j)'
        PROVE  \E t \in Held(dpb') : dpb'[t].ids = {j} /\ (dpb'[t].out \/ IsOpen(dpb, t)')
    <3>1. ~IsWritten(written, j) /\ j # k
      BY <1>17, <2>1
    <3>2. PICK t \in Held(dpb) : dpb[t].ids = {j} /\ (dpb[t].out \/ IsOpen(dpb, t))
      BY <1>3, <2>1, <3>1 DEF ShownInv
    <3>3. t # s
      BY <1>6, <3>1, <3>2
    <3> QED
      BY <1>7, <1>12, <3>2, <3>3
  <2> QED
    BY <1>3, <2>1 DEF ShownInv
<1> QED
  BY <1>15, <1>17, <1>18, <1>20, <1>21, <1>22, <1>23 DEF OutputDecoderInv

(* Flushing writes the pictures of the list one after the other.           *)
LEMMA FlushPictureOutput ==
  ASSUME OInv, UNCHANGED streamVars, FlushPicture
  PROVE  OutputDecoderInv'
<1> DEFINE n == Len(coded)
<1>1. PICK s \in Slots :
        /\ IsFirst(dpb, s, Held(dpb))
        /\ written' = IF dpb[s].out THEN Append(written, Shown(dpb[s])) ELSE written
        /\ iPOCLastDisplay' = IF Held(dpb) = {s} THEN -MaxInt
                              ELSE IF dpb[s].out THEN dpb[s].poc ELSE iPOCLastDisplay
        /\ dpb' = [dpb EXCEPT ![s] = NewPicture]
  BY DEF FlushPicture
<1>2. /\ UNCHANGED <<nal, last, coded, references, waiting, newPicture, curPic>>
      /\ UNCHANGED <<isNoOutputPriorPics, firstSliceInPicture, listSet>>
      /\ phase \in {"flush", "final"} /\ phase' = phase /\ listSet
  BY DEF FlushPicture, streamVars
<1>3. /\ IInv /\ MemoryInv /\ ListInv /\ OpenInv /\ HandedBackInv /\ LastInv
      /\ MarksInv /\ OrderInv /\ CounterInv /\ RoomInv /\ EmptyInv /\ ShownInv
      /\ DisplayInv /\ WaitingLaw(coded, waiting)
  BY DEF OInv, IInv, DecoderInv, OutputDecoderInv, OutputSourceInv
<1>4. s \in Held(dpb) /\ \A t \in Held(dpb) : dpb[s].pos <= dpb[t].pos
  BY <1>1 DEF IsFirst
<1>5. PICK k \in 1..Reached :
         /\ dpb[s].ids = {k} /\ SameSequence(coded, k, Reached) /\ k \in 1..n
         /\ dpb[s].poc = coded[k].poc
  BY <1>4, ListFacts
<1>6. /\ Held(dpb') = Held(dpb) \ {s}
      /\ \A t \in Held(dpb') : t \in Held(dpb) /\ t # s /\ dpb'[t] = dpb[t]
  <2>1. dpb \in [Slots -> Picture]
    BY <1>3 DEF IInv, Inv, TypeOK, ObjectsOK
  <2>2. \A t \in Slots : dpb'[t] = IF t = s THEN NewPicture ELSE dpb[t]
    BY <1>1, <2>1
  <2>3. ~(dpb'[s].pos > 0)
    BY <2>2, NewPictureType
  <2> QED
    BY <2>2, <2>3 DEF Held
<1>7. (Ahead' <=> Ahead) /\ Reached' = Reached /\ (Ending' <=> Ending)
      /\ (HandlesSlice' <=> HandlesSlice)
  <2>1. Ahead' <=> Ahead
    BY <1>2 DEF Ahead
  <2> QED
    BY <1>2, <2>1 DEF Reached, Ending, Ended, HandlesSlice
<1>8. ~Ending => Ahead /\ coded[n].starts /\ Reached = n - 1 /\ n \in Nat
  <2>1. phase = "flush" => newPicture /\ coded[n].starts /\ nal.kind = "slice" /\ nal.first
    BY <1>3 DEF HandedBackInv, AfterFinish
  <2>2. phase = "flush" => Ahead
    BY <2>1 DEF Ahead, AfterFinish
  <2> QED
    BY <1>2, <1>3, <2>1, <2>2, Basics DEF Ending
<1>9. Ahead => ~Ending
  BY <1>2 DEF Ahead, Ending, Ended
<1>10. ~Ending => n \in 1..n /\ Precedes(coded, k, n) /\ k \notin WaitIds(waiting)
  <2> SUFFICES ASSUME ~Ending PROVE n \in 1..n /\ Precedes(coded, k, n) /\ k \notin WaitIds(waiting)
    OBVIOUS
  <2>1. k < n /\ n \in 1..n
    BY <1>5, <1>8
  <2>2. n \in Starts(coded)
    BY <1>8, <2>1 DEF Starts
  <2>3. ~SameSequence(coded, k, n)
    BY <2>1, <2>2 DEF SameSequence
  <2>4. \A w \in waiting : SameSequence(coded, w.id, n)
    BY <1>3 DEF WaitingLaw
  <2> QED
    BY <2>1, <2>3, <2>4 DEF Precedes, WaitIds
<1>11. \A t \in Held(dpb) : ~IsOpen(dpb, t)
  <2>1. phase = "flush" => newPicture /\ (curPic \in Held(dpb) => dpb[curPic].recon)
    BY <1>3 DEF HandedBackInv, AfterFinish
  <2>2. phase = "final" => (curPic \in Held(dpb) => dpb[curPic].recon)
    BY <1>3 DEF LastInv
  <2> QED
    BY <1>2, <2>1, <2>2 DEF IsOpen
<1>12. \A t \in Held(dpb') : ~IsOpen(dpb, t)'
  BY <1>2, <1>6, <1>11 DEF IsOpen
<1> HIDE DEF n
<1>13. /\ Marked(dpb') = Marked(dpb) \ {s} /\ Referenced(dpb') = Referenced(dpb) \ {s}
       /\ Marked(dpb') \cup Referenced(dpb') = (Marked(dpb) \cup Referenced(dpb)) \ {s}
  <2>1. Marked(dpb') = Marked(dpb) \ {s}
    BY <1>6 DEF Marked
  <2>2. Referenced(dpb') = Referenced(dpb) \ {s}
    BY <1>6 DEF Referenced
  <2> QED
    BY <2>1, <2>2
<1>14. MarksInv'
  <2>1. \A t \in Marked(dpb') : t \in Marked(dpb) /\ dpb'[t] = dpb[t]
    BY <1>6, <1>13 DEF Marked
  <2> QED
    BY <1>2, <1>3, <1>6, <2>1 DEF MarksInv
<1>15. ASSUME NEW j \in 1..n, Pending(j)'
       PROVE  Pending(j) /\ (dpb[s].out => Precedes(coded, k, j))
  <2>1. CASE Ahead' /\ j = n /\ j \in Visible(coded)
    BY <1>7, <1>9, <1>10, <2>1 DEF Pending, n
  <2>2. CASE \E t \in Held(dpb') : dpb'[t].ids = {j} /\ dpb'[t].out
    <3>1. PICK t \in Held(dpb) : dpb[t].ids = {j} /\ dpb[t].out /\ t # s
      BY <1>6, <2>2
    <3>2. t \in Marked(dpb)
      BY <3>1 DEF Marked
    <3>3. dpb[s].out => Precedes(coded, k, j)
      <4>1. dpb[s].out => s \in Marked(dpb)
        BY <1>4 DEF Marked
      <4> QED
        BY <1>4, <1>5, <1>15, <3>1, <3>2, <4>1, FirstPrecedes DEF n
    <3> QED
      BY <3>1, <3>3 DEF Pending
  <2> QED
    BY <1>2, <1>12, <1>15, <2>1, <2>2 DEF Pending, n
<1>16. /\ OrderInv'
       /\ \A j : IsWritten(written, j)' <=> IsWritten(written, j) \/ (dpb[s].out /\ j = k)
  <2>1. /\ UNCHANGED <<coded, waiting>> /\ (Ending => Ending')
        /\ ~Ending' => k \notin WaitIds(waiting)
    BY <1>2, <1>7, <1>10
  <2>2. \A j \in 1..Len(coded) : Pending(j)' => Pending(j) /\ (dpb[s].out => Precedes(coded, k, j))
    BY <1>15 DEF n
  <2>3. k \in 1..Len(coded)
    BY <1>5 DEF n
  <2>4. CASE dpb[s].out
    BY <1>1, <1>4, <1>5, <2>1, <2>2, <2>3, <2>4, WriteKeepsOrder
  <2>5. CASE ~dpb[s].out
    <3>1. written' = written
      BY <1>1, <2>5
    <3>2. \A j : IsWritten(written, j)' <=> IsWritten(written, j)
      BY <3>1 DEF IsWritten
    <3> QED
      BY <1>3, <2>1, <2>2, <2>5, <3>1, <3>2, SameOrderKeeps
  <2> QED
    BY <2>4, <2>5
<1>17. DisplayInv'
  <2>1. Held(dpb') = {} <=> Held(dpb) = {s}
    BY <1>4, <1>6
  <2>2. CASE Held(dpb) = {s}
    BY <1>1, <2>1, <2>2 DEF DisplayInv
  <2>3. CASE Held(dpb) # {s} /\ dpb[s].out
    <3>1. iPOCLastDisplay' = coded[k].poc /\ IsWritten(written, k)' /\ k \in 1..n
      BY <1>1, <1>5, <1>16, <2>3
    <3> QED
      BY <1>2, <1>5, <1>7, <2>1, <2>3, <3>1 DEF DisplayInv, n
  <2>4. CASE Held(dpb) # {s} /\ ~dpb[s].out
    <3>1. iPOCLastDisplay' = iPOCLastDisplay
      BY <1>1, <2>4
    <3> QED
      BY <1>2, <1>3, <1>7, <1>16, <2>1, <2>4, <3>1 DEF DisplayInv, n
  <2> QED
    BY <2>2, <2>3, <2>4
<1>18. CounterInv'
  BY <1>2 DEF CounterInv
<1>19. RoomInv'
  <2> DEFINE M == Marked(dpb)
             U == Marked(dpb) \cup Referenced(dpb)
  <2>1. IsFiniteSet(M) /\ IsFiniteSet(U)
    BY ListIsFinite
  <2>2. Cardinality(Marked(dpb')) = Cardinality(M \ {s})
    BY <1>13, Zenon DEF M
  <2>3. Cardinality(Marked(dpb') \cup Referenced(dpb')) = Cardinality(U \ {s})
    BY <1>13, Zenon DEF U
  <2> HIDE DEF M, U
  <2>4. Cardinality(M \ {s}) <= Cardinality(M) /\ Cardinality(U \ {s}) <= Cardinality(U)
    <3>1. M \ {s} \subseteq M /\ U \ {s} \subseteq U
      OBVIOUS
    <3> QED
      BY <2>1, <3>1, FS_Subset, Zenon
  <2>5. /\ Cardinality(M) \in Nat /\ Cardinality(U) \in Nat
        /\ Cardinality(Marked(dpb')) \in Nat /\ Cardinality(Marked(dpb') \cup Referenced(dpb')) \in Nat
        /\ MaxDecPicBuf[MaxTemporalLayer] \in Nat /\ NumReorderPics[MaxTemporalLayer] \in Nat
    BY ListIsFinite DEF M, U
  <2>6. ~HandlesSlice' /\ ~Ending' =>
          Cardinality(Marked(dpb') \cup Referenced(dpb')) <= MaxDecPicBuf[MaxTemporalLayer]
    <3>1. ~HandlesSlice /\ ~Ending => Cardinality(U) <= MaxDecPicBuf[MaxTemporalLayer]
      BY <1>3, Zenon DEF RoomInv, U
    <3> QED
      BY <1>7, <2>3, <2>4, <2>5, <3>1
  <2>7. ~HandlesSlice' /\ ~Ending' /\ phase # "bump1" =>
          Cardinality(Marked(dpb')) <= NumReorderPics[MaxTemporalLayer]
    <3>1. ~HandlesSlice /\ ~Ending /\ phase # "bump1" => Cardinality(M) <= NumReorderPics[MaxTemporalLayer]
      BY <1>3, Zenon DEF RoomInv, M
    <3> QED
      BY <1>7, <2>2, <2>4, <2>5, <3>1
  <2>8. ~Ahead' /\ n \in Decoded(coded) =>
          \A t \in Referenced(dpb'), j \in 1..n : dpb'[t].ids = {j} => j \in references
    <3>1. \A t \in Referenced(dpb') : t \in Referenced(dpb) /\ dpb'[t] = dpb[t]
      BY <1>6, <1>13 DEF Referenced
    <3> QED
      BY <1>3, <1>7, <3>1 DEF RoomInv, n
  <2> QED
    BY <1>2, <2>6, <2>7, <2>8 DEF RoomInv, n
<1>20. EmptyInv'
  BY <1>2 DEF EmptyInv
<1>21. ShownInv'
  <2>1. ASSUME NoPriorFlags \subseteq {FALSE},
               NEW j \in Visible(coded), j <= Reached, ~IsWritten(written, j)'
        PROVE  \E t \in Held(dpb') : dpb'[t].ids = {j} /\ (dpb'[t].out \/ IsOpen(dpb, t)')
    <3>1. ~IsWritten(written, j) /\ ~(dpb[s].out /\ j = k)
      BY <1>16, <2>1
    <3>2. PICK t \in Held(dpb) : dpb[t].ids = {j} /\ dpb[t].out
      BY <1>3, <1>11, <2>1, <3>1 DEF ShownInv
    <3>3. t # s
      BY <1>5, <3>1, <3>2
    <3> QED
      BY <1>6, <3>2, <3>3
  <2> QED
    BY <1>2, <1>3, <1>7, <2>1 DEF ShownInv
<1> QED
  BY <1>14, <1>16, <1>17, <1>18, <1>19, <1>20, <1>21 DEF OutputDecoderInv

-----------------------------------------------------------------------------
(* The invariant.                                                          *)

LEMMA InitOInv == Intact /\ PocsAreShown /\ Init => OInv
<1> SUFFICES ASSUME Intact, PocsAreShown, Init PROVE OInv
  OBVIOUS
<1>1. IInv /\ OutputSourceInv
  BY InitIInv, InitOutputSource DEF Init
<1>2. /\ phase = "read" /\ dpb = EmptyDpb /\ firstSliceInPicture = TRUE
      /\ written = << >> /\ coded = << >> /\ iPOCLastDisplay = -MaxInt
      /\ listSet = FALSE /\ isNoOutputPriorPics = FALSE /\ waiting = {} /\ nal.kind # "slice"
  <2>1. iPOCLastDisplay = -MaxInt + 0
    BY DEF Init, AppInit, Intact
  <2>2. MaxInt \in Nat
    BY MaxIntAssumption
  <2> QED
    BY <2>1, <2>2 DEF Init, AppInit, DecInit, StreamInit, NoNal
<1>3. Held(dpb) = {}
  BY <1>2, NewPictureType DEF Held, EmptyDpb
<1>4. Len(coded) = 0 /\ Len(written) = 0 /\ 1..Len(coded) = {} /\ 1..Len(written) = {}
  BY <1>2
<1>5. Visible(coded) = {} /\ Decoded(coded) = {}
  BY <1>4 DEF Visible, Decoded
<1>6. Marked(dpb) = {} /\ Referenced(dpb) = {}
  BY <1>3 DEF Marked, Referenced
<1>7. MarksInv
  BY <1>3, <1>6 DEF MarksInv
<1>8. OrderInv
  BY <1>2, <1>4 DEF OrderInv
<1>9. DisplayInv /\ CounterInv
  BY <1>2 DEF DisplayInv, CounterInv
<1>10. RoomInv
  <2>1. Cardinality(Marked(dpb)) = 0 /\ Cardinality(Marked(dpb) \cup Referenced(dpb)) = 0
    <3>1. Marked(dpb) \cup Referenced(dpb) = {}
      BY <1>6
    <3> QED
      BY <1>6, <3>1, FS_EmptySet, Zenon
  <2>2. MaxDecPicBuf[MaxTemporalLayer] \in Nat /\ NumReorderPics[MaxTemporalLayer] \in Nat
    BY ListIsFinite
  <2> QED
    BY <1>6, <2>1, <2>2 DEF RoomInv
<1>11. EmptyInv /\ ShownInv
  BY <1>2, <1>3, <1>5 DEF EmptyInv, ShownInv
<1> QED
  BY <1>1, <1>7, <1>8, <1>9, <1>10, <1>11 DEF OInv, OutputDecoderInv

LEMMA NextOInv == OInv /\ [Next]_vars => OInv'
<1> SUFFICES ASSUME OInv, [Next]_vars PROVE OInv'
  OBVIOUS
<1>1. IInv'
  BY NextIInv DEF OInv
<1>2. PocsAreShown' /\ SourceInv' /\ phase' # "crashed"
  BY <1>1 DEF OInv, PocsAreShown, IInv, DecoderInv
<1>3. UNCHANGED streamVars => OutputSourceInv'
  BY DEF OInv, OutputSourceInv, streamVars
<1>4. ASSUME OutputSourceInv', OutputDecoderInv' PROVE OInv'
  BY <1>1, <1>2, <1>4 DEF OInv
<1>5. CASE UNCHANGED vars
  BY <1>3, <1>4, <1>5, StutterOutput DEF vars
<1>6. CASE ReadNal
  <2>1. OutputSourceInv'
    BY <1>2, <1>6, SendKeepsOutput DEF ReadNal, OInv
  <2> QED
    BY <1>2, <1>4, <1>6, <2>1, ReadNalOutput
<1>7. ASSUME UNCHANGED streamVars, IgnoreLayer(nal) PROVE OInv'
  BY <1>3, <1>4, <1>7, IgnoreLayerOutput
<1>8. ASSUME UNCHANGED streamVars, Decode(nal) PROVE OInv'
  <2>1. /\ ~IsNotDecoded(nal) /\ DecNext(nal) /\ UNCHANGED <<streamVars, appVars>>
        /\ OutputSourceInv'
    BY <1>3, <1>8 DEF Decode
  <2>2. CASE SkipSlice(nal)
    BY <1>4, <2>1, <2>2, SkipSliceOutput
  <2>3. CASE BeginSlice(nal)
    BY <1>4, <2>1, <2>3, BeginSliceOutput
  <2>4. ~CreateLostPicture
    BY CreateLostPictureIsImpossible DEF OInv
  <2>5. CASE ActivateFirstSlice
    BY <1>4, <2>1, <2>5, ActivateFirstSliceOutput
  <2>6. CASE ActivateNextSlice
    BY <1>4, <2>1, <2>6, ActivateNextSliceOutput
  <2>7. CASE SetRefPicList
    BY <1>2, <1>4, <2>1, <2>7, SetRefPicListOutput
  <2>8. CASE PrefixSEI(nal) \/ ReservedVcl(nal) \/ OtherNal(nal)
    BY <1>2, <1>4, <2>1, <2>8, OtherNalUnitOutput
  <2>9. ~EndOfSequence(nal)
    BY DEF OInv, IInv, Intact, SourceInv, NalLaw, EndOfSequence
  <2> QED
    BY <2>1, <2>2, <2>3, <2>4, <2>5, <2>6, <2>7, <2>8, <2>9 DEF DecNext
<1>9. ASSUME UNCHANGED streamVars, FinishPicture(nal, last) PROVE OInv'
  BY <1>3, <1>4, <1>9, FinishPictureOutput
<1>10. ASSUME UNCHANGED streamVars, Bump PROVE OInv'
  BY <1>3, <1>4, <1>10, BumpOutput
<1>11. ASSUME UNCHANGED streamVars, EndBump(last) \/ EndFlush \/ BeginSecondOutput(nal, last)
       PROVE OInv'
  BY <1>3, <1>4, <1>11, EndBumpOutput, EndFlushOutput, BeginSecondOutputOutput
<1>12. ASSUME UNCHANGED streamVars, CheckNoOutputPriorPics(nal) PROVE OInv'
  BY <1>3, <1>4, <1>12, CheckNoOutputPriorPicsOutput
<1>13. ASSUME UNCHANGED streamVars, FlushPicture PROVE OInv'
  BY <1>3, <1>4, <1>13, FlushPictureOutput
<1>14. CASE DecoderStep
  BY <1>7, <1>8, <1>9, <1>10, <1>11, <1>12, <1>13, <1>14 DEF DecoderStep, AppNext
<1> QED
  BY <1>5, <1>6, <1>14 DEF Next

LEMMA OutputInvariantHolds == Intact /\ PocsAreShown /\ Spec => []OInv
<1>1. Intact /\ PocsAreShown /\ Init => OInv
  BY InitOInv
<1>2. OInv /\ [Next]_vars => OInv'
  BY NextOInv
<1> QED
  BY <1>1, <1>2, PTL DEF Spec

-----------------------------------------------------------------------------
(* What follows.                                                           *)

(* What has been written, as a sequence of pictures.                       *)
LEMMA WrittenSequence ==
  ASSUME OInv
  PROVE  \E s \in Seq(1..Len(coded)) :
           /\ Len(s) = Len(written) /\ DOMAIN written = 1..Len(written)
           /\ \A i \in 1..Len(s) : written[i].ids = {s[i]}
           /\ IsInOrder(coded, s)
           /\ \A k : k \in OutIds(s) <=> IsWritten(written, k)
           /\ OutIds(s) \subseteq Visible(coded)
<1> DEFINE s == [i \in 1..Len(written) |-> CHOOSE k \in 1..Len(coded) : written[i].ids = {k}]
<1>1. Len(written) \in Nat /\ DOMAIN written = 1..Len(written)
  BY DEF OInv, IInv, DecoderInv, WrittenInv
<1>2. \A i \in 1..Len(written) : s[i] \in 1..Len(coded) /\ written[i].ids = {s[i]}
  BY WrittenFacts
<1>3. s \in Seq(1..Len(coded)) /\ Len(s) = Len(written)
  <2>1. s \in [1..Len(written) -> 1..Len(coded)]
    BY <1>2
  <2> HIDE DEF s
  <2> QED
    BY <1>1, <2>1
<1> HIDE DEF s
<1>4. IsInOrder(coded, s)
  BY <1>2, <1>3 DEF IsInOrder, OInv, OutputDecoderInv, OrderInv
<1>5. \A k : k \in OutIds(s) <=> IsWritten(written, k)
  BY <1>2, <1>3 DEF OutIds, IsWritten
<1>6. OutIds(s) \subseteq Visible(coded)
  BY <1>2, <1>3 DEF OutIds, OInv, OutputDecoderInv, OrderInv
<1> QED
  BY <1>1, <1>2, <1>3, <1>4, <1>5, <1>6

(* The pictures of a sequence are written in the order of their POCs:      *)
(* xWriteOutput() has written none that a later one precedes, and          *)
(* xFlushOutput() takes those that are left in the order of the list.      *)
THEOREM IntactOutputInOrder == Intact /\ PocsAreShown /\ Spec => []OutputInOrder
<1>1. ASSUME OInv PROVE OutputInOrder
  <2>1. PICK s \in Seq(1..Len(coded)) :
           /\ Len(s) = Len(written) /\ DOMAIN written = 1..Len(written)
           /\ \A i \in 1..Len(s) : written[i].ids = {s[i]}
           /\ IsInOrder(coded, s)
    BY <1>1, WrittenSequence
  <2>2. \A m \in Starts(coded) : m \in IrapIds /\ coded[m].starts
    <3>1. \A m \in 1..Len(coded) : coded[m].starts => coded[m].type \in RapTypes
      BY <1>1 DEF OInv, IInv, SourceInv, Lawful, Law, StartLaw, RapTypes
    <3> QED
      BY <3>1 DEF Starts, IrapIds
  <2> SUFFICES ASSUME NEW i \in 1..Len(s), NEW j \in 1..Len(s), i < j,
                      ~Separated(s[i], s[j])
               PROVE  Poc(s[i]) < Poc(s[j])
    <3>1. \A i \in DOMAIN written : i \in 1..Len(s) /\ \A a \in written[i].ids : a = s[i]
      BY <2>1
    <3> HIDE DEF Separated, Poc
    <3> QED
      BY <3>1, Zenon DEF OutputInOrder
  <2>3. Precedes(coded, s[i], s[j])
    BY <2>1 DEF IsInOrder
  <2>4. s[i] < s[j] => SameSequence(coded, s[i], s[j])
    <3>1. \A m \in 1..Len(coded) : m \in Nat
      OBVIOUS
    <3>2. s[i] \in Nat /\ s[j] \in Nat
      BY <2>1
    <3>3. \A m \in Starts(coded) : m \in Nat /\ ~(s[i] < m /\ m <= s[j])
      BY <2>2 DEF Separated, Starts
    <3> QED
      BY <3>2, <3>3 DEF SameSequence
  <2> QED
    BY <2>3, <2>4 DEF Precedes, Poc
<1>2. (Intact => Intact') /\ (PocsAreShown => PocsAreShown')
  BY DEF Intact, PocsAreShown
<1> QED
  BY <1>1, <1>2, OutputInvariantHolds, PTL

(* At the end of the file everything that a conforming decoder outputs has *)
(* been written, in the same order, each picture once.                     *)
LEMMA AllIsWritten ==
  ASSUME OInv, NoPriorFlags \subseteq {FALSE}
  PROVE  OutputConforms
<1> SUFFICES ASSUME phase = "done" PROVE WrittenIds = Singletons(FinalOutput)
  BY DEF OutputConforms
<1>1. PICK s \in Seq(1..Len(coded)) :
         /\ Len(s) = Len(written) /\ DOMAIN written = 1..Len(written)
         /\ \A i \in 1..Len(s) : written[i].ids = {s[i]}
         /\ IsInOrder(coded, s)
         /\ \A k : k \in OutIds(s) <=> IsWritten(written, k)
         /\ OutIds(s) \subseteq Visible(coded)
  BY WrittenSequence
<1>2. /\ coded \in Seq(CodedPicture) /\ Lawful(coded) /\ Len(coded) \in Nat
      /\ WaitingLaw(coded, waiting) /\ OutputLaw(coded, waiting, output)
  BY Basics DEF OInv, IInv, SourceInv, OutputSourceInv
<1> DEFINE t == InOutputOrder(waiting)
<1>3. t \in Seq(Visible(coded)) /\ IsInOrder(coded, t) /\ OutIds(t) = WaitIds(waiting)
  BY <1>2, ShownInOrder
<1> HIDE DEF t
<1>4. output \in Seq(Visible(coded)) /\ IsInOrder(coded, output)
      /\ \A a \in OutIds(output), b \in OutIds(t) : Precedes(coded, a, b)
  BY <1>2, <1>3 DEF OutputLaw, WaitIds
<1>5. /\ FinalOutput \in Seq(Visible(coded)) /\ IsInOrder(coded, FinalOutput)
      /\ OutIds(FinalOutput) = OutIds(output) \cup WaitIds(waiting)
  BY <1>3, <1>4, OrderOfBoth DEF FinalOutput, t
<1>6. Visible(coded) \subseteq 1..Len(coded)
  BY DEF Visible, Decoded
<1>7. FinalOutput \in Seq(1..Len(coded))
  BY <1>5, <1>6
<1>8. \A k \in Visible(coded) : k \in OutIds(FinalOutput)
  BY <1>2, <1>5 DEF OutputLaw
<1>9. \A k \in Visible(coded) : k \in OutIds(s)
  <2>1. Held(dpb) = {} /\ Reached = Len(coded)
    BY DEF OInv, OutputDecoderInv, EmptyInv, Reached, Ahead, AfterFinish
  <2>2. \A k \in Visible(coded) : k <= Reached
    BY <1>2, <1>6, <2>1
  <2>3. \A k \in Visible(coded) : IsWritten(written, k)
    BY <2>1, <2>2 DEF OInv, OutputDecoderInv, ShownInv
  <2> QED
    BY <1>1, <2>3
<1>10. \A k \in OutIds(FinalOutput) : k \in Visible(coded)
  BY <1>5 DEF OutIds
<1>11. OutIds(s) = OutIds(FinalOutput)
  BY <1>1, <1>8, <1>9, <1>10
<1>12. s = FinalOutput
  BY <1>1, <1>2, <1>5, <1>7, <1>11, OrderIsUnique
<1>13. DOMAIN s = 1..Len(s)
  OBVIOUS
<1> QED
  BY <1>1, <1>12, <1>13 DEF WrittenIds, Singletons

(* Where no prior pictures are dropped, the decoder's output is that of a  *)
(* conforming decoder, however it delays each picture (C.5.2).             *)
THEOREM IntactOutputConforms ==
  Intact /\ PocsAreShown /\ NoPriorFlags \subseteq {FALSE} /\ Spec => []OutputConforms
<1>1. OInv /\ NoPriorFlags \subseteq {FALSE} => OutputConforms
  BY AllIsWritten
<1>2. NoPriorFlags \subseteq {FALSE} => (NoPriorFlags \subseteq {FALSE})'
  OBVIOUS
<1> QED
  BY <1>1, <1>2, OutputInvariantHolds, PTL
=============================================================================
