----------------------------- MODULE IntactProofs -----------------------------
(***************************************************************************)
(* Proofs about the decoder reading a bitstream nothing is missing from:   *)
(* it begins with an IDR picture, nothing is lost or skipped, and no       *)
(* sequence is ended by a NAL unit of its own.  For every such stream, the *)
(* decoder gives each picture its POC, keeps the pictures later ones refer *)
(* to, makes up none, fails no assert and writes no picture twice.         *)
(***************************************************************************)
EXTENDS DecodingProofs

(* The streams.  Two prefix SEI units before a reserved slice type crash   *)
(* the decoder (ReservedVcl), and MAX_INT is no POC.                       *)
Intact ==
  /\ MaxLosses = 0 /\ SkipFrame = 0
  /\ FirstTypes \subseteq IdrTypes
  /\ "EOS" \notin Extras /\ ~({"SEI", "RSV"} \subseteq Extras)
  /\ MaxInt > 0 /\ \A poc \in Pocs : poc >= -MaxInt

-----------------------------------------------------------------------------
(* The structure of a sequence c of coded pictures.                        *)

Iraps(c) == {k \in 1..Len(c) : c[k].type \in RapTypes}
Anchors(c) == {k \in 1..Len(c) : c[k].tid = 0 /\ c[k].type \in AnchorTypes}
Starts(c) == {k \in 1..Len(c) : c[k].starts}

(* j is the last member of S up to k. *)
IsLatest(S, j, k) == j \in S /\ j <= k /\ \A m \in S : m <= k => m <= j

(* Picture k follows picture j, or is picture j, in the same sequence.     *)
SameSequence(c, j, k) == j <= k /\ \A m \in Starts(c) : j < m => k < m

(* A RASL picture of an IRAP picture that starts a sequence.               *)
Undecodable(c, k) ==
  c[k].type \in RaslTypes /\ \E i \in Starts(c) : IsLatest(Iraps(c), i, k - 1)

StartLaw(c, k) ==
  /\ c[k].starts <=> c[k].type \in IdrTypes \cup BlaTypes
  /\ k = 1 => c[k].starts /\ c[k].type \in IdrTypes
  /\ c[k].type \in IdrTypes => c[k].poc = 0
  /\ c[k].starts => c[k].poc \in 0..MaxPocLsb - 1
  /\ c[k].type \in RapTypes => c[k].tid = 0
  /\ c[k].poc >= -MaxInt
  /\ c[k].pof \in PicOutputFlags /\ c[k].noPrior \in NoPriorFlags

(* The POCs of a sequence differ, and each is near the last anchor's.      *)
PocLaw(c, k) ==
  /\ \A j \in 1..k - 1 : SameSequence(c, j, k) => c[j].poc # c[k].poc
  /\ \A a \in 1..k - 1 : IsLatest(Anchors(c), a, k - 1) /\ ~c[k].starts =>
       /\ 2 * (c[k].poc - c[a].poc) < MaxPocLsb
       /\ 2 * (c[a].poc - c[k].poc) < MaxPocLsb

(* Leading and trailing pictures, of the IRAP picture i before picture k.  *)
LeadingLaw(c, i, k) ==
  /\ c[k].poc < c[i].poc
  /\ \A m \in i + 1..k - 1 : c[m].type \in LeadingTypes
  /\ c[k].type \in RadlTypes =>
       /\ c[i].type \notin {"IDR_N_LP", "BLA_N_LP"}
       /\ \A m \in 1..i - 1 : SameSequence(c, m, k) => c[m].poc < c[k].poc
  /\ c[k].type \in RaslTypes =>
       /\ c[i].type \in {"CRA", "BLA_W_LP"}
       /\ \A m \in i + 1..k - 1 : c[m].type \in RadlTypes => c[k].poc < c[m].poc
       /\ \A m \in 1..i - 1 : SameSequence(c, m, k) /\ c[m].type \in RapTypes
            => c[m].poc < c[k].poc

OrderLaw(c, k) ==
  /\ c[k].type = "CRA" =>
       \A j \in 1..k - 1 : SameSequence(c, j, k) => c[j].poc < c[k].poc
  /\ \A i \in 1..k - 1 : IsLatest(Iraps(c), i, k - 1) =>
       /\ c[k].type \in TrailingTypes => c[k].poc > c[i].poc
       /\ c[k].type \in LeadingTypes => LeadingLaw(c, i, k)

(* Each picture has an IRAP picture, an anchor and a sequence.             *)
LatestLaw(c, k) ==
  /\ \E i \in 1..k : IsLatest(Iraps(c), i, k)
  /\ \E a \in 1..k : IsLatest(Anchors(c), a, k)
  /\ \E s \in 1..k : IsLatest(Starts(c), s, k)

Law(c, k) == StartLaw(c, k) /\ PocLaw(c, k) /\ OrderLaw(c, k) /\ LatestLaw(c, k)

Lawful(c) == \A k \in 1..Len(c) : Law(c, k)

(* The last picture, whose reference picture set is what refs holds        *)
(* besides it, uses those in used.                                         *)
RpsLaw(c, refs, used) ==
  LET n    == Len(c)
      kept == refs \ {n}
  IN /\ used \subseteq kept
     /\ c[n].rps = {[delta |-> c[k].poc - c[n].poc, used |-> k \in used] : k \in kept}
     /\ \A k \in used : /\ c[k].tid <= c[n].tid
                        /\ c[k].tid = c[n].tid => c[k].type \notin NonReferenceTypes
     /\ c[n].type \in TsaTypes => \A k \in kept : c[k].tid < c[n].tid
     /\ c[n].type \in TrailingTypes \cup {"CRA"} =>
          \A i \in 1..n - 1 : IsLatest(Iraps(c), i, n - 1) =>
            \A k \in kept : c[k].poc >= c[i].poc

(* What the encoder keeps. *)
RefsLaw(c, refs) ==
  LET n == Len(c)
  IN /\ \A k \in refs : k \in 1..n /\ SameSequence(c, k, n)
     /\ n > 0 /\ ~Undecodable(c, n) => n \in refs /\ \E used \in SUBSET refs : RpsLaw(c, refs, used)
     /\ n > 0 /\ c[n].starts => refs = {n}
     /\ n > 0 /\ Undecodable(c, n) => n \notin refs

(* What is sent. *)
NalLaw ==
  /\ nal.kind = "slice" =>
       /\ Len(coded) > 0 /\ nal.id = Len(coded)
       /\ nal = SliceOf(coded[Len(coded)], Len(coded), nal.first, nal.dep)
       /\ nal.first => ~nal.dep
  /\ nal.kind # "slice" => nal.kind \in Extras \cup {"NONE", "OTHER"} /\ nal.tid = 0
  /\ sequenceEnd <=> coded = << >>
  /\ moreSlices > 0 => nal.kind = "slice"

SourceInv == Lawful(coded) /\ RefsLaw(coded, references) /\ NalLaw

-----------------------------------------------------------------------------
(* Another picture changes nothing about those before it.                  *)
LEMMA PrefixSets ==
  ASSUME NEW c \in Seq(CodedPicture), NEW x \in CodedPicture
  PROVE  LET n == Len(c)
             d == Append(c, x)
         IN /\ n \in Nat /\ d \in Seq(CodedPicture) /\ Len(d) = n + 1 /\ d[n + 1] = x
            /\ \A k \in 1..n : d[k] = c[k]
            /\ Iraps(c) \subseteq 1..n /\ Anchors(c) \subseteq 1..n /\ Starts(c) \subseteq 1..n
            /\ Iraps(d) = Iraps(c) \cup {k \in {n + 1} : x.type \in RapTypes}
            /\ Anchors(d) = Anchors(c) \cup {k \in {n + 1} : x.tid = 0 /\ x.type \in AnchorTypes}
            /\ Starts(d) = Starts(c) \cup {k \in {n + 1} : x.starts}
<1> DEFINE n == Len(c)
           d == Append(c, x)
<1>1. /\ n \in Nat /\ d \in Seq(CodedPicture) /\ Len(d) = n + 1 /\ d[n + 1] = x
      /\ \A k \in 1..n : d[k] = c[k]
  OBVIOUS
<1> HIDE DEF n, d
<1>2. /\ Iraps(c) \subseteq 1..n /\ Anchors(c) \subseteq 1..n /\ Starts(c) \subseteq 1..n
  BY DEF Iraps, Anchors, Starts, n
<1>3. Iraps(d) = Iraps(c) \cup {k \in {n + 1} : x.type \in RapTypes}
  BY <1>1 DEF Iraps, n
<1>4. Anchors(d) = Anchors(c) \cup {k \in {n + 1} : x.tid = 0 /\ x.type \in AnchorTypes}
  BY <1>1 DEF Anchors, n
<1>5. Starts(d) = Starts(c) \cup {k \in {n + 1} : x.starts}
  BY <1>1 DEF Starts, n
<1> QED
  BY <1>1, <1>2, <1>3, <1>4, <1>5 DEF n, d

(* The latest of a set, when a number beyond k is added to it.             *)
LEMMA LatestPrefix ==
  ASSUME NEW n \in Nat, NEW S \in SUBSET (1..n), NEW E \in SUBSET {n + 1}, NEW k \in 0..n
  PROVE  \A j : IsLatest(S \cup E, j, k) <=> IsLatest(S, j, k)
<1>1. \A m \in E : ~(m <= k)
  OBVIOUS
<1> QED
  BY <1>1 DEF IsLatest

(* It is what is added, or what was there.                                 *)
LEMMA LatestExtended ==
  ASSUME NEW n \in Nat, NEW S \in SUBSET (1..n), NEW E \in SUBSET {n + 1},
         E = {} => \E i \in 1..n : IsLatest(S, i, n)
  PROVE  \E i \in 1..n + 1 : IsLatest(S \cup E, i, n + 1)
<1>1. CASE E = {}
  <2>1. PICK i \in 1..n : IsLatest(S, i, n)
    BY <1>1
  <2>2. IsLatest(S \cup E, i, n + 1) /\ i \in 1..n + 1
    BY <1>1, <2>1 DEF IsLatest
  <2> QED
    BY <2>2
<1>2. CASE E # {}
  <2>1. E = {n + 1}
    BY <1>2
  <2>2. IsLatest(S \cup E, n + 1, n + 1)
    BY <2>1 DEF IsLatest
  <2> QED
    BY <2>2
<1> QED
  BY <1>1, <1>2

(* There is only one.                                                      *)
LEMMA LatestUnique ==
  ASSUME NEW S \in SUBSET Int, NEW k, NEW i, NEW j, IsLatest(S, i, k), IsLatest(S, j, k)
  PROVE  i = j
<1>1. i \in Int /\ j \in Int /\ i <= j /\ j <= i
  BY DEF IsLatest
<1> QED
  BY <1>1

LEMMA PrefixStructure ==
  ASSUME NEW c \in Seq(CodedPicture), NEW x \in CodedPicture, NEW k \in 0..Len(c)
  PROVE  LET d == Append(c, x)
         IN /\ \A j : /\ IsLatest(Iraps(d), j, k) <=> IsLatest(Iraps(c), j, k)
                      /\ IsLatest(Anchors(d), j, k) <=> IsLatest(Anchors(c), j, k)
                      /\ IsLatest(Starts(d), j, k) <=> IsLatest(Starts(c), j, k)
            /\ \A j : SameSequence(d, j, k) <=> SameSequence(c, j, k)
<1> DEFINE n == Len(c)
           d == Append(c, x)
           E1 == {m \in {n + 1} : x.type \in RapTypes}
           E2 == {m \in {n + 1} : x.tid = 0 /\ x.type \in AnchorTypes}
           E3 == {m \in {n + 1} : x.starts}
<1>1. /\ n \in Nat /\ k \in 0..n
      /\ Iraps(c) \in SUBSET (1..n) /\ Anchors(c) \in SUBSET (1..n) /\ Starts(c) \in SUBSET (1..n)
      /\ Iraps(d) = Iraps(c) \cup E1
      /\ Anchors(d) = Anchors(c) \cup E2
      /\ Starts(d) = Starts(c) \cup E3
  BY PrefixSets
<1>2. E1 \in SUBSET {n + 1} /\ E2 \in SUBSET {n + 1} /\ E3 \in SUBSET {n + 1}
  OBVIOUS
<1> HIDE DEF n, d, E1, E2, E3
<1>3. \A j : IsLatest(Iraps(d), j, k) <=> IsLatest(Iraps(c), j, k)
  <2>1. \A j : IsLatest(Iraps(c) \cup E1, j, k) <=> IsLatest(Iraps(c), j, k)
    BY <1>1, <1>2, LatestPrefix
  <2> QED
    BY <1>1, <2>1
<1>4. \A j : IsLatest(Anchors(d), j, k) <=> IsLatest(Anchors(c), j, k)
  <2>1. \A j : IsLatest(Anchors(c) \cup E2, j, k) <=> IsLatest(Anchors(c), j, k)
    BY <1>1, <1>2, LatestPrefix
  <2> QED
    BY <1>1, <2>1
<1>5. \A j : IsLatest(Starts(d), j, k) <=> IsLatest(Starts(c), j, k)
  <2>1. \A j : IsLatest(Starts(c) \cup E3, j, k) <=> IsLatest(Starts(c), j, k)
    BY <1>1, <1>2, LatestPrefix
  <2> QED
    BY <1>1, <2>1
<1>6. \A j : SameSequence(d, j, k) <=> SameSequence(c, j, k)
  <2>1. \A m \in E3 : k < m
    BY <1>1, <1>2
  <2> QED
    BY <1>1, <2>1 DEF SameSequence
<1> QED
  BY <1>3, <1>4, <1>5, <1>6 DEF d
(* A law holds of a picture, whatever follows it.                          *)
LEMMA LawPrefix ==
  ASSUME NEW c \in Seq(CodedPicture), NEW x \in CodedPicture, NEW k \in 1..Len(c), Law(c, k)
  PROVE  Law(Append(c, x), k)
<1> DEFINE d == Append(c, x)
<1>1. Len(c) \in Nat /\ k \in 1..Len(c) /\ \A m \in 1..k : d[m] = c[m]
  BY PrefixSets
<1>2. \A l \in {k - 1, k} : \A j :
        /\ IsLatest(Iraps(d), j, l) <=> IsLatest(Iraps(c), j, l)
        /\ IsLatest(Anchors(d), j, l) <=> IsLatest(Anchors(c), j, l)
        /\ IsLatest(Starts(d), j, l) <=> IsLatest(Starts(c), j, l)
  BY <1>1, PrefixStructure
<1>3. \A j : SameSequence(d, j, k) <=> SameSequence(c, j, k)
  BY <1>1, PrefixStructure
<1> HIDE DEF d
<1>4. StartLaw(d, k)
  BY <1>1 DEF Law, StartLaw
<1>5. PocLaw(d, k)
  BY <1>1, <1>2, <1>3 DEF Law, PocLaw
<1>6. OrderLaw(d, k)
  <2>1. c[k].type = "CRA" => \A j \in 1..k - 1 : SameSequence(c, j, k) => c[j].poc < c[k].poc
    BY DEF Law, OrderLaw
  <2>2. \A j \in 1..k - 1 : d[j] = c[j]
    BY <1>1
  <2>3. ASSUME NEW i \in 1..k - 1, IsLatest(Iraps(d), i, k - 1)
        PROVE  /\ d[k].type \in TrailingTypes => d[k].poc > d[i].poc
               /\ d[k].type \in LeadingTypes => LeadingLaw(d, i, k)
    <3>1. /\ c[k].type \in TrailingTypes => c[k].poc > c[i].poc
          /\ c[k].type \in LeadingTypes => LeadingLaw(c, i, k)
      BY <1>2, <2>3 DEF Law, OrderLaw
    <3>2. LeadingLaw(c, i, k) => LeadingLaw(d, i, k)
      BY <1>1, <1>3 DEF LeadingLaw
    <3> QED
      BY <1>1, <3>1, <3>2
  <2> QED
    BY <1>1, <1>3, <2>1, <2>2, <2>3 DEF OrderLaw
<1>7. LatestLaw(d, k)
  BY <1>2 DEF Law, LatestLaw
<1> QED
  BY <1>4, <1>5, <1>6, <1>7 DEF Law, d

-----------------------------------------------------------------------------
(* What StreamSource computes of the pictures coded so far.                *)
LEMMA CurrentStructure ==
  ASSUME coded \in Seq(CodedPicture), Lawful(coded), Len(coded) > 0
  PROVE  /\ IsLatest(Iraps(coded), CurrentIrap, Len(coded))
         /\ \A j \in 1..Len(coded) : j \in SequenceIds <=> SameSequence(coded, j, Len(coded))
         /\ SequenceIds \subseteq 1..Len(coded)
         /\ \E a : IsLatest(Anchors(coded), a, Len(coded)) /\ AnchorPoc = coded[a].poc
<1> DEFINE n == Len(coded)
<1>1. n \in Nat /\ n > 0 /\ DOMAIN coded = 1..n /\ Law(coded, n)
  BY DEF Lawful
<1>2. \A k \in 1..n : StartLaw(coded, k)
  BY DEF Lawful, Law
<1>3. IrapIds = Iraps(coded)
  BY <1>1 DEF IrapIds, Iraps
<1>4. {id \in IrapIds : coded[id].starts} = Starts(coded)
  BY <1>1, <1>2 DEF IrapIds, Starts, StartLaw, RapTypes
<1>5. PICK i : IsLatest(Iraps(coded), i, n)
  BY <1>1 DEF Law, LatestLaw
<1>6. PICK s : IsLatest(Starts(coded), s, n)
  BY <1>1 DEF Law, LatestLaw
<1>7. PICK a : IsLatest(Anchors(coded), a, n)
  BY <1>1 DEF Law, LatestLaw
<1>8. CurrentIrap = i
  <2>1. i \in IrapIds /\ \A j \in IrapIds : j <= i
    BY <1>1, <1>3, <1>5 DEF IsLatest, Iraps
  <2>2. \A k \in IrapIds : (\A j \in IrapIds : j <= k) => k = i
    BY <1>1, <1>3, <2>1 DEF Iraps
  <2> QED
    BY <2>1, <2>2 DEF CurrentIrap
<1>9. SequenceIds = s..n
  <2>1. s \in 1..n /\ \A t \in Starts(coded) : t <= s
    BY <1>1, <1>6 DEF IsLatest, Starts
  <2>2. \A t \in Starts(coded) : t \in 1..n
    BY <1>1 DEF Starts
  <2>3. Starts(coded) # {}
    BY <1>6 DEF IsLatest
  <2>4. SequenceIds = {id \in 1..n : \E t \in Starts(coded) :
                          id >= t /\ \A u \in Starts(coded) : u <= t}
    BY <1>1, <1>4, <2>3 DEF SequenceIds
  <2>5. \A id \in 1..n : (\E t \in Starts(coded) : id >= t /\ \A u \in Starts(coded) : u <= t)
                           <=> id >= s
    BY <1>6, <2>1, <2>2 DEF IsLatest
  <2> QED
    BY <1>1, <2>1, <2>4, <2>5
<1>10. \A j \in 1..n : j \in SequenceIds <=> SameSequence(coded, j, n)
  <2>1. s \in 1..n /\ \A t \in Starts(coded) : t <= s /\ t \in 1..n
    BY <1>1, <1>6 DEF IsLatest, Starts
  <2>2. s \in Starts(coded)
    BY <1>6 DEF IsLatest
  <2> QED
    BY <1>1, <1>9, <2>1, <2>2 DEF SameSequence
<1>11. AnchorPoc = coded[a].poc
  <2> DEFINE anchors == {id \in SequenceIds : coded[id].tid = 0 /\ coded[id].type \in AnchorTypes}
  <2>1. s \in 1..n /\ s \in Starts(coded) /\ \A t \in Anchors(coded) : t <= a /\ t \in 1..n
    BY <1>1, <1>6, <1>7 DEF IsLatest, Starts, Anchors
  <2>2. s \in Anchors(coded)
    <3>1. coded[s].type \in IdrTypes \cup BlaTypes /\ coded[s].tid = 0
      BY <1>2, <2>1 DEF StartLaw, Starts, RapTypes
    <3> QED
      BY <1>1, <2>1, <3>1 DEF Anchors, AnchorTypes, ReferenceTypes, SliceTypes, RapTypes,
                              IdrTypes, BlaTypes, NonReferenceTypes, LeadingTypes, RadlTypes,
                              RaslTypes
  <2>3. a \in Anchors(coded) /\ s <= a
    BY <1>7, <2>1, <2>2 DEF IsLatest
  <2>4. anchors \subseteq Anchors(coded) /\ a \in anchors
    BY <1>1, <1>9, <2>1, <2>3 DEF Anchors
  <2>5. \A k \in anchors : (\A j \in anchors : j <= k) => k = a
    BY <1>1, <2>1, <2>4
  <2>6. (CHOOSE id \in anchors : \A j \in anchors : j <= id) = a
    BY <2>1, <2>4, <2>5
  <2> QED
    BY <2>6 DEF AnchorPoc, Poc
<1>12. SequenceIds \subseteq 1..n
  <2>1. s \in 1..n
    BY <1>1, <1>6 DEF IsLatest, Starts
  <2> QED
    BY <1>1, <1>9, <2>1
<1>13. IsLatest(Iraps(coded), CurrentIrap, n)
  BY <1>5, <1>8
<1>14. \E b : IsLatest(Anchors(coded), b, n) /\ AnchorPoc = coded[b].poc
  BY <1>7, <1>11
<1> HIDE DEF n
<1> QED
  BY <1>10, <1>12, <1>13, <1>14 DEF n

(* The rules a new picture obeys, and what the encoder keeps with it.      *)
Rules(type, poc, tid, kept, used) ==
  /\ coded = << >> => type \in IdrTypes
  /\ poc >= -MaxInt
  /\ PocIsLegal(type, poc) /\ LayerIsLegal(type, tid) /\ OrderIsConforming(type, poc)
  /\ kept \subseteq MayKeep(type, poc, tid)
  /\ used \subseteq kept \cap MayUse(type, poc, tid)

SentPicture(c, kept) ==
  /\ coded' = Append(coded, c)
  /\ references' = IF Decodable(c) THEN kept \cup {Len(coded) + 1} ELSE references
  /\ nal' = SliceOf(c, Len(coded) + 1, TRUE, FALSE)

LEMMA SendPictureFacts ==
  ASSUME Intact, StreamTypeOK, SendPicture
  PROVE  \E type \in SliceTypes, poc \in Int, tid \in Tids, pof \in PicOutputFlags,
            noPrior \in NoPriorFlags, kept \in SUBSET references, used \in SUBSET references :
           /\ Rules(type, poc, tid, kept, used)
           /\ PictureOf(type, poc, tid, pof, noPrior, kept, used) \in CodedPicture
           /\ SentPicture(PictureOf(type, poc, tid, pof, noPrior, kept, used), kept)
<1>1. /\ FirstTypes \subseteq IdrTypes /\ IdrTypes \subseteq SliceTypes
      /\ Types \subseteq SliceTypes /\ Pocs \subseteq Int /\ MaxLosses = 0
      /\ \A poc \in Pocs : poc >= -MaxInt
  BY StreamAssumption DEF Intact, SliceTypes, RapTypes
<1>2. PICK type \in IF coded = << >> THEN FirstTypes ELSE Types, poc \in Pocs, tid \in Tids,
           pof \in PicOutputFlags, noPrior \in NoPriorFlags :
        /\ PocIsLegal(type, poc) /\ LayerIsLegal(type, tid) /\ OrderIsConforming(type, poc)
        /\ \E kept \in SUBSET MayKeep(type, poc, tid) :
             \E used \in SUBSET (kept \cap MayUse(type, poc, tid)) :
               SendFirstSlice(PictureOf(type, poc, tid, pof, noPrior, kept, used), kept)
  BY SMTT(30) DEF SendPicture
<1>3. type \in SliceTypes /\ poc \in Int /\ (coded = << >> => type \in IdrTypes)
      /\ poc >= -MaxInt
  BY <1>1, <1>2
<1>4. PICK kept, used :
        /\ kept \subseteq MayKeep(type, poc, tid)
        /\ used \subseteq kept \cap MayUse(type, poc, tid)
        /\ SendFirstSlice(PictureOf(type, poc, tid, pof, noPrior, kept, used), kept)
  BY <1>2
<1>5. Rules(type, poc, tid, kept, used)
  BY <1>2, <1>3, <1>4 DEF Rules
<1> DEFINE c == PictureOf(type, poc, tid, pof, noPrior, kept, used)
<1>6. ~Lose
  BY <1>1 DEF Lose, StreamTypeOK
<1>7. SentPicture(c, kept)
  <2> HIDE DEF c
  <2>1. SendFirstSlice(c, kept)
    BY <1>4 DEF c
  <2> QED
    BY <1>6, <2>1 DEF SendFirstSlice, SentPicture, Deliver
<1>8. c \in CodedPicture
  <2> HIDE DEF c
  <2>1. coded' \in Seq(CodedPicture) /\ coded \in Seq(CodedPicture)
    BY SendType DEF Send, StreamTypeOK
  <2>2. coded' = Append(coded, c)
    BY <1>7 DEF SentPicture
  <2>3. Len(coded) + 1 \in 1..Len(coded') /\ coded'[Len(coded) + 1] = c
    BY <2>1, <2>2
  <2> QED
    BY <2>1, <2>3
<1>9. kept \in SUBSET references /\ used \in SUBSET references
  BY <1>4 DEF MayKeep
<1> QED
  BY <1>2, <1>3, <1>5, <1>7, <1>8, <1>9

(* Only an IDR or a BLA picture starts a sequence of such a stream.        *)
LEMMA OnlyIdrOrBlaStarts ==
  ASSUME NEW type, coded = << >> => type \in IdrTypes, sequenceEnd <=> coded = << >>
  PROVE  StartsSequence(type) <=> type \in IdrTypes \cup BlaTypes
  BY DEF StartsSequence, IdrTypes, BlaTypes

(* A new picture obeys the laws.                                           *)
LEMMA NewPictureLaw ==
  ASSUME Intact, StreamTypeOK, SourceInv,
         NEW type \in SliceTypes, NEW poc \in Int, NEW tid \in Tids, NEW pof \in PicOutputFlags,
         NEW noPrior \in NoPriorFlags, NEW kept, NEW used,
         Rules(type, poc, tid, kept, used),
         PictureOf(type, poc, tid, pof, noPrior, kept, used) \in CodedPicture
  PROVE  Law(Append(coded, PictureOf(type, poc, tid, pof, noPrior, kept, used)), Len(coded) + 1)
<1> DEFINE c == PictureOf(type, poc, tid, pof, noPrior, kept, used)
           d == Append(coded, c)
           n == Len(coded)
           starts == type \in IdrTypes \cup BlaTypes
<1>1. coded \in Seq(CodedPicture) /\ Lawful(coded) /\ (sequenceEnd <=> coded = << >>)
  BY DEF StreamTypeOK, SourceInv, NalLaw
<1>2. /\ c.type = type /\ c.poc = poc /\ c.tid = tid /\ c.pof = pof /\ c.noPrior = noPrior
      /\ c.starts = StartsSequence(type)
  BY DEF PictureOf
<1>3. (c.starts <=> starts) /\ (StartsSequence(type) <=> starts)
  BY <1>1, <1>2, OnlyIdrOrBlaStarts DEF Rules
<1>4. c \in CodedPicture
  OBVIOUS
<1> HIDE DEF c, d
<1>5. /\ n \in Nat /\ d \in Seq(CodedPicture) /\ Len(d) = n + 1 /\ d[n + 1] = c
      /\ \A k \in 1..n : d[k] = coded[k]
      /\ Iraps(coded) \subseteq 1..n /\ Anchors(coded) \subseteq 1..n /\ Starts(coded) \subseteq 1..n
      /\ Iraps(d) = Iraps(coded) \cup {k \in {n + 1} : c.type \in RapTypes}
      /\ Anchors(d) = Anchors(coded) \cup {k \in {n + 1} : c.tid = 0 /\ c.type \in AnchorTypes}
      /\ Starts(d) = Starts(coded) \cup {k \in {n + 1} : c.starts}
  BY <1>1, <1>4, PrefixSets DEF d
<1>6. /\ PocIsLegal(type, poc) /\ LayerIsLegal(type, tid) /\ OrderIsConforming(type, poc)
      /\ coded = << >> => type \in IdrTypes
      /\ poc >= -MaxInt
  BY DEF Rules
<1>7. StartLaw(d, n + 1)
  <2>1. n + 1 = 1 => starts
    BY <1>1, <1>5, <1>6
  <2>2. starts => poc \in 0..MaxPocLsb - 1
    BY <1>3, <1>6, MaxPocLsbAssumption DEF PocIsLegal
  <2>3. type \in IdrTypes => poc = 0
    BY <1>6 DEF PocIsLegal
  <2>4. type \in RapTypes => tid = 0
    BY <1>6 DEF LayerIsLegal
  <2> QED
    BY <1>2, <1>3, <1>5, <1>6, <2>1, <2>2, <2>3, <2>4 DEF StartLaw
<1>8. ASSUME NEW j, SameSequence(d, j, n + 1), j \in 1..n
      PROVE  ~starts /\ SameSequence(coded, j, n)
  <2>1. starts => n + 1 \in Starts(d)
    BY <1>3, <1>5
  <2>2. \A m \in Starts(d) : m <= n + 1
    BY <1>5
  <2> QED
    BY <1>5, <1>8, <2>1, <2>2 DEF SameSequence
<1>9. n > 0 => /\ IsLatest(Iraps(coded), CurrentIrap, n)
               /\ \A j \in 1..n : j \in SequenceIds <=> SameSequence(coded, j, n)
               /\ SequenceIds \subseteq 1..n
               /\ \E a : IsLatest(Anchors(coded), a, n) /\ AnchorPoc = coded[a].poc
  BY <1>1, CurrentStructure
<1>10. \A j : /\ IsLatest(Iraps(d), j, n) <=> IsLatest(Iraps(coded), j, n)
              /\ IsLatest(Anchors(d), j, n) <=> IsLatest(Anchors(coded), j, n)
  <2>1. n \in 0..Len(coded)
    BY <1>5
  <2>2. \A j : IsLatest(Iraps(d), j, n) <=> IsLatest(Iraps(coded), j, n)
    BY <1>1, <1>4, <2>1, PrefixStructure DEF d
  <2>3. \A j : IsLatest(Anchors(d), j, n) <=> IsLatest(Anchors(coded), j, n)
    BY <1>1, <1>4, <2>1, PrefixStructure DEF d
  <2> QED
    BY <2>2, <2>3
<1>11. n + 1 - 1 = n
  BY <1>5
<1>12. PocLaw(d, n + 1)
  <2>1. ASSUME NEW j \in 1..n, SameSequence(d, j, n + 1)
        PROVE  d[j].poc # d[n + 1].poc
    <3>1. ~starts /\ j \in SequenceIds
      BY <1>5, <1>8, <1>9, <2>1
    <3>2. Poc(j) # poc
      BY <1>3, <1>6, <3>1 DEF PocIsLegal
    <3> QED
      BY <1>2, <1>5, <3>2 DEF Poc
  <2>2. ASSUME NEW a \in 1..n, IsLatest(Anchors(d), a, n), ~d[n + 1].starts
        PROVE  /\ 2 * (d[n + 1].poc - d[a].poc) < MaxPocLsb
               /\ 2 * (d[a].poc - d[n + 1].poc) < MaxPocLsb
    <3>1. AnchorPoc = coded[a].poc
      <4>1. PICK b : IsLatest(Anchors(coded), b, n) /\ AnchorPoc = coded[b].poc
        BY <1>5, <1>9
      <4>2. a = b
        BY <1>5, <1>10, <2>2, <4>1, LatestUnique
      <4> QED
        BY <4>1, <4>2
    <3>2. 2 * (poc - AnchorPoc) < MaxPocLsb /\ 2 * (AnchorPoc - poc) < MaxPocLsb
      BY <1>2, <1>3, <1>5, <1>6, <2>2 DEF PocIsLegal
    <3> QED
      BY <1>2, <1>5, <3>1, <3>2
  <2> QED
    BY <1>11, <2>1, <2>2 DEF PocLaw
<1>13. LatestLaw(d, n + 1)
  <2>1. n > 0 => LatestLaw(coded, n)
    BY <1>1, <1>5 DEF Lawful, Law
  <2>2. n = 0 => starts
    BY <1>1, <1>5, <1>6
  <2>3. /\ starts => type \in RapTypes
        /\ type \in RapTypes => type \in AnchorTypes /\ tid = 0
    BY <1>6 DEF RapTypes, IdrTypes, BlaTypes, LayerIsLegal, AnchorTypes, ReferenceTypes,
                SliceTypes, NonReferenceTypes, LeadingTypes, RadlTypes, RaslTypes
  <2>5. \E i \in 1..n + 1 : IsLatest(Iraps(d), i, n + 1)
    <3> DEFINE E == {k \in {n + 1} : c.type \in RapTypes}
    <3>1. E = {} => \E i \in 1..n : IsLatest(Iraps(coded), i, n)
      BY <1>2, <1>5, <2>1, <2>2, <2>3 DEF LatestLaw
    <3>2. Iraps(coded) \in SUBSET (1..n) /\ E \in SUBSET {n + 1} /\ Iraps(d) = Iraps(coded) \cup E
      BY <1>5
    <3> HIDE DEF E
    <3>3. \E i \in 1..n + 1 : IsLatest(Iraps(coded) \cup E, i, n + 1)
      BY <1>5, <3>1, <3>2, LatestExtended
    <3> QED
      BY <3>2, <3>3
  <2>6. \E i \in 1..n + 1 : IsLatest(Anchors(d), i, n + 1)
    <3> DEFINE E == {k \in {n + 1} : c.tid = 0 /\ c.type \in AnchorTypes}
    <3>1. E = {} => \E i \in 1..n : IsLatest(Anchors(coded), i, n)
      BY <1>2, <1>5, <2>1, <2>2, <2>3 DEF LatestLaw
    <3>2. Anchors(coded) \in SUBSET (1..n) /\ E \in SUBSET {n + 1} /\ Anchors(d) = Anchors(coded) \cup E
      BY <1>5
    <3> HIDE DEF E
    <3>3. \E i \in 1..n + 1 : IsLatest(Anchors(coded) \cup E, i, n + 1)
      BY <1>5, <3>1, <3>2, LatestExtended
    <3> QED
      BY <3>2, <3>3
  <2>7. \E i \in 1..n + 1 : IsLatest(Starts(d), i, n + 1)
    <3> DEFINE E == {k \in {n + 1} : c.starts}
    <3>1. E = {} => \E i \in 1..n : IsLatest(Starts(coded), i, n)
      BY <1>3, <1>5, <2>1, <2>2 DEF LatestLaw
    <3>2. Starts(coded) \in SUBSET (1..n) /\ E \in SUBSET {n + 1} /\ Starts(d) = Starts(coded) \cup E
      BY <1>5
    <3> HIDE DEF E
    <3>3. \E i \in 1..n + 1 : IsLatest(Starts(coded) \cup E, i, n + 1)
      BY <1>5, <3>1, <3>2, LatestExtended
    <3> QED
      BY <3>2, <3>3
  <2> QED
    BY <2>5, <2>6, <2>7 DEF LatestLaw
<1>14. ASSUME OrderLaw(d, n + 1) PROVE Law(d, n + 1)
  BY <1>7, <1>12, <1>13, <1>14 DEF Law
<1>15. ~starts => n > 0 /\ ~StartsSequence(type)
  BY <1>1, <1>3, <1>5, <1>6
<1>16. \A m \in 1..n : m \in SequenceIds => Poc(m) = d[m].poc
  BY <1>5 DEF Poc
<1>17. type = "CRA" => \A j \in 1..n : SameSequence(d, j, n + 1) => d[j].poc < d[n + 1].poc
  <2> SUFFICES ASSUME type = "CRA", NEW j \in 1..n, SameSequence(d, j, n + 1)
               PROVE  d[j].poc < d[n + 1].poc
    OBVIOUS
  <2>1. ~starts /\ j \in SequenceIds
    BY <1>5, <1>8, <1>9
  <2>2. Poc(j) < poc
    BY <1>6, <1>15, <2>1 DEF OrderIsConforming
  <2> QED
    BY <1>2, <1>5, <2>2 DEF Poc
<1>18. ASSUME NEW i \in 1..n, IsLatest(Iraps(d), i, n)
       PROVE  /\ type \in TrailingTypes => poc > d[i].poc
              /\ type \in LeadingTypes => LeadingLaw(d, i, n + 1)
  <2>1. i = CurrentIrap /\ n > 0
    <3>1. n > 0 /\ IsLatest(Iraps(coded), i, n) /\ IsLatest(Iraps(coded), CurrentIrap, n)
      BY <1>5, <1>9, <1>10, <1>18
    <3> QED
      BY <1>5, <3>1, LatestUnique
  <2>2. ~starts /\ type # "CRA" <=> type \in TrailingTypes \cup LeadingTypes
    BY DEF SliceTypes, RapTypes, IdrTypes, BlaTypes, TrailingTypes, LeadingTypes, RadlTypes,
           RaslTypes, TsaTypes
  <2>3. type \in TrailingTypes => poc > Poc(i)
    BY <1>6, <1>15, <2>1, <2>2 DEF OrderIsConforming
  <2>4. ASSUME type \in LeadingTypes PROVE LeadingLaw(d, i, n + 1)
    <3> DEFINE own == {id \in SequenceIds : id > i}
               before == {id \in SequenceIds : id < i}
    <3>1. type \notin TrailingTypes
      BY <2>4 DEF TrailingTypes, LeadingTypes, RadlTypes, RaslTypes, TsaTypes
    <3>2. /\ poc < Poc(i)
          /\ \A id \in own : coded[id].type \in LeadingTypes
          /\ type \in RadlTypes =>
               /\ coded[i].type \notin {"IDR_N_LP", "BLA_N_LP"}
               /\ \A id \in before : Poc(id) < poc
          /\ type \in RaslTypes =>
               /\ coded[i].type \in {"CRA", "BLA_W_LP"}
               /\ \A id \in own : coded[id].type \in RadlTypes => poc < Poc(id)
               /\ \A id \in before \cap IrapIds : Poc(id) < poc
      BY <1>6, <1>15, <2>1, <2>2, <2>4, <3>1 DEF OrderIsConforming
    <3>3. \A m \in i + 1..n : m \in own
      <4> SUFFICES ASSUME NEW m \in i + 1..n PROVE m \in SequenceIds
        BY <1>5
      <4>1. \A t \in Starts(coded) : t <= i
        <5> SUFFICES ASSUME NEW t \in Starts(coded) PROVE t <= i
          OBVIOUS
        <5>1. t \in 1..n /\ coded[t].starts /\ StartLaw(coded, t)
          BY <1>1, <1>5 DEF Starts, Lawful, Law
        <5>2. t \in Iraps(coded)
          BY <5>1 DEF StartLaw, Iraps, RapTypes
        <5> QED
          BY <1>9, <2>1, <5>1, <5>2 DEF IsLatest
      <4>2. SameSequence(coded, m, n)
        BY <1>5, <4>1 DEF SameSequence
      <4> QED
        BY <1>5, <1>9, <2>1, <4>2
    <3>4. \A m \in 1..i - 1 : SameSequence(d, m, n + 1) => m \in before
      BY <1>5, <1>8, <1>9, <2>1
    <3>5. \A m \in before : m \in 1..n /\ (d[m].type \in RapTypes => m \in IrapIds)
      BY <1>5, <1>9, <2>1 DEF IrapIds
    <3>6. \A m \in 1..n : d[m] = coded[m] /\ Poc(m) = d[m].poc
      BY <1>5 DEF Poc
    <3> HIDE DEF own, before
    <3>7. d[n + 1].poc = poc /\ d[n + 1].type = type
      BY <1>2, <1>5
    <3>8. /\ d[n + 1].poc < d[i].poc
          /\ \A m \in i + 1..n : d[m].type \in LeadingTypes
      BY <3>2, <3>3, <3>6, <3>7
    <3>9. type \in RadlTypes =>
            /\ d[i].type \notin {"IDR_N_LP", "BLA_N_LP"}
            /\ \A m \in 1..i - 1 : SameSequence(d, m, n + 1) => d[m].poc < d[n + 1].poc
      BY <3>2, <3>4, <3>5, <3>6, <3>7
    <3>10. type \in RaslTypes =>
            /\ d[i].type \in {"CRA", "BLA_W_LP"}
            /\ \A m \in i + 1..n : d[m].type \in RadlTypes => d[n + 1].poc < d[m].poc
            /\ \A m \in 1..i - 1 : SameSequence(d, m, n + 1) /\ d[m].type \in RapTypes
                 => d[m].poc < d[n + 1].poc
      BY <3>2, <3>3, <3>4, <3>5, <3>6, <3>7
    <3> QED
      BY <1>11, <3>7, <3>8, <3>9, <3>10 DEF LeadingLaw
  <2> QED
    BY <1>5, <2>3, <2>4 DEF Poc
<1>19. OrderLaw(d, n + 1)
  <2>1. d[n + 1].type = type /\ d[n + 1].poc = poc
    BY <1>2, <1>5
  <2> QED
    BY <1>11, <1>17, <1>18, <2>1 DEF OrderLaw
<1> QED
  BY <1>14, <1>19 DEF d, c

(* What the encoder keeps with a new picture obeys the rules.              *)
LEMMA NewPictureRefs ==
  ASSUME Intact, StreamTypeOK, SourceInv,
         NEW type \in SliceTypes, NEW poc \in Int, NEW tid \in Tids, NEW pof \in PicOutputFlags,
         NEW noPrior \in NoPriorFlags, NEW kept, NEW used,
         Rules(type, poc, tid, kept, used),
         NEW c \in CodedPicture, c = PictureOf(type, poc, tid, pof, noPrior, kept, used),
         NEW refs, refs = IF Decodable(c) THEN kept \cup {Len(coded) + 1} ELSE references
  PROVE  RefsLaw(Append(coded, c), refs)
<1> DEFINE d == Append(coded, c)
           n == Len(coded)
           starts == type \in IdrTypes \cup BlaTypes
<1>1. coded \in Seq(CodedPicture) /\ Lawful(coded) /\ (sequenceEnd <=> coded = << >>)
  BY DEF StreamTypeOK, SourceInv, NalLaw
<1>2. /\ c.type = type /\ c.poc = poc /\ c.tid = tid
      /\ c.starts = StartsSequence(type)
      /\ c.rps = {[delta |-> Poc(k) - poc, used |-> k \in used] : k \in kept}
  BY DEF PictureOf
<1>3. (c.starts <=> starts) /\ (StartsSequence(type) <=> starts)
  BY <1>1, <1>2, OnlyIdrOrBlaStarts DEF Rules
<1> HIDE DEF d
<1>5. /\ n \in Nat /\ d \in Seq(CodedPicture) /\ Len(d) = n + 1 /\ d[n + 1] = c
      /\ \A k \in 1..n : d[k] = coded[k]
      /\ Iraps(coded) \subseteq 1..n /\ Starts(coded) \subseteq 1..n
      /\ Starts(d) = Starts(coded) \cup {k \in {n + 1} : c.starts}
  BY <1>1, PrefixSets DEF d
<1>6. /\ coded = << >> => type \in IdrTypes
      /\ kept \subseteq MayKeep(type, poc, tid)
      /\ used \subseteq kept \cap MayUse(type, poc, tid)
  BY DEF Rules
<1>7. n > 0 => IsLatest(Iraps(coded), CurrentIrap, n)
  BY <1>1, CurrentStructure
<1>8. \A j : IsLatest(Iraps(d), j, n) <=> IsLatest(Iraps(coded), j, n)
  BY <1>1, <1>5, PrefixStructure DEF d
<1>9. n + 1 - 1 = n /\ n + 1 \in Nat /\ n + 1 > 0
  BY <1>5
<1>10. type \in RaslTypes => n > 0 /\ ~starts
  BY <1>1, <1>5, <1>6 DEF RaslTypes, IdrTypes, BlaTypes
<1>11. n > 0 => \A i : IsLatest(Iraps(d), i, n) => i = CurrentIrap
  BY <1>5, <1>7, <1>8, LatestUnique
<1>12. Undecodable(d, n + 1) <=> ~Decodable(c)
  <2>1. n > 0 => CurrentIrap \in 1..n
    BY <1>5, <1>7 DEF IsLatest
  <2>2. n > 0 => (CurrentIrap \in Starts(d) <=> coded[CurrentIrap].starts)
    BY <1>5, <2>1 DEF Starts
  <2>3. n > 0 => ((\E i \in Starts(d) : IsLatest(Iraps(d), i, n)) <=> coded[CurrentIrap].starts)
    BY <1>7, <1>8, <1>11, <2>2
  <2> QED
    BY <1>2, <1>5, <1>9, <1>10, <2>3 DEF Undecodable, Decodable
<1>13. \A k \in references : k \in 1..n /\ SameSequence(coded, k, n)
  BY DEF SourceInv, RefsLaw
<1>14. MayKeep(type, poc, tid) \subseteq references /\ (starts => MayKeep(type, poc, tid) = {})
  BY <1>3 DEF MayKeep
<1>15. ASSUME ~starts, NEW k \in references
       PROVE  k \in 1..n + 1 /\ SameSequence(d, k, n + 1)
  <2>1. Starts(d) = Starts(coded)
    BY <1>3, <1>5, <1>15
  <2>2. k \in 1..n /\ SameSequence(coded, k, n)
    BY <1>13, <1>15
  <2> QED
    BY <1>5, <2>1, <2>2 DEF SameSequence
<1>16. SameSequence(d, n + 1, n + 1)
  BY <1>5 DEF SameSequence
<1>17. \A k \in refs : k \in 1..n + 1 /\ SameSequence(d, k, n + 1)
  <2>1. Decodable(c) \/ ~starts
    BY <1>10, <1>2 DEF Decodable
  <2>2. starts => kept = {}
    BY <1>6, <1>14
  <2>3. kept \subseteq references
    BY <1>6, <1>14
  <2> QED
    BY <1>5, <1>9, <1>15, <1>16, <2>1, <2>2, <2>3
<1>18. ASSUME Decodable(c) PROVE n + 1 \in refs /\ \E u \in SUBSET refs : RpsLaw(d, refs, u)
  <2>1. refs = kept \cup {n + 1} /\ kept \subseteq 1..n
    BY <1>6, <1>13, <1>14, <1>18
  <2>2. refs \ {n + 1} = kept
    BY <1>5, <2>1
  <2>3. used \subseteq kept /\ used \subseteq MayUse(type, poc, tid)
    BY <1>6
  <2>4. d[n + 1].rps = {[delta |-> d[k].poc - d[n + 1].poc, used |-> k \in used] : k \in kept}
    <3>1. \A k \in kept : Poc(k) = d[k].poc
      BY <1>5, <2>1 DEF Poc
    <3> QED
      BY <1>2, <1>5, <3>1
  <2>5. \A k \in used : /\ d[k].tid <= d[n + 1].tid
                        /\ d[k].tid = d[n + 1].tid => d[k].type \notin NonReferenceTypes
    BY <1>2, <1>5, <2>1, <2>3 DEF MayUse
  <2>6. d[n + 1].type \in TsaTypes => \A k \in kept : d[k].tid < d[n + 1].tid
    <3>1. type \in TsaTypes => ~starts
      BY DEF TsaTypes, IdrTypes, BlaTypes
    <3> QED
      BY <1>2, <1>3, <1>5, <1>6, <2>1, <3>1 DEF MayKeep
  <2>7. ASSUME d[n + 1].type \in TrailingTypes \cup {"CRA"},
               NEW i \in 1..n, IsLatest(Iraps(d), i, n), NEW k \in kept
        PROVE  d[k].poc >= d[i].poc
    <3>1. ~starts
      BY <1>2, <1>5, <2>7 DEF TrailingTypes, TsaTypes, IdrTypes, BlaTypes
    <3>2. i = CurrentIrap
      BY <1>5, <1>11, <2>7
    <3>3. Poc(k) >= Poc(CurrentIrap)
      BY <1>2, <1>3, <1>5, <1>6, <2>7, <3>1 DEF MayKeep
    <3> QED
      BY <1>5, <2>1, <2>7, <3>2, <3>3 DEF Poc
  <2>8. RpsLaw(d, refs, used)
    BY <1>5, <1>9, <2>2, <2>3, <2>4, <2>5, <2>6, <2>7 DEF RpsLaw
  <2>9. used \in SUBSET refs
    BY <2>1, <2>3
  <2> QED
    BY <2>1, <2>8, <2>9
<1>19. starts => refs = {n + 1}
  BY <1>2, <1>6, <1>10, <1>14 DEF Decodable
<1>20. ~Decodable(c) => n + 1 \notin refs
  BY <1>5, <1>13
<1> QED
  BY <1>3, <1>5, <1>9, <1>12, <1>17, <1>18, <1>19, <1>20 DEF RefsLaw, d

(* What a NAL unit adds to the stream: a picture, or none.                 *)
AddsPicture(c) ==
  /\ coded' = Append(coded, c)
  /\ references' \subseteq references \cup {Len(coded) + 1}
  /\ nal'.kind = "slice" /\ nal'.first

AddsNoPicture ==
  /\ UNCHANGED <<coded, references>>
  /\ nal'.kind = "slice" => ~nal'.first

(* The laws hold of everything that is sent.                               *)
LEMMA SendKeepsSourceInv ==
  ASSUME Intact, StreamTypeOK, SourceInv, Send
  PROVE  /\ SourceInv'
         /\ AddsNoPicture \/ \E c \in CodedPicture : AddsPicture(c)
<1>1. ~Lose /\ Extras \subseteq {"SEI", "RSV", "OTHER"}
  BY StreamAssumption DEF Intact, Lose, StreamTypeOK
<1>2. CASE SendPicture
  <2>1. PICK type \in SliceTypes, poc \in Int, tid \in Tids, pof \in PicOutputFlags,
             noPrior \in NoPriorFlags, kept \in SUBSET references, used \in SUBSET references :
           /\ Rules(type, poc, tid, kept, used)
           /\ PictureOf(type, poc, tid, pof, noPrior, kept, used) \in CodedPicture
           /\ SentPicture(PictureOf(type, poc, tid, pof, noPrior, kept, used), kept)
    BY <1>2, SendPictureFacts
  <2> DEFINE c == PictureOf(type, poc, tid, pof, noPrior, kept, used)
  <2>2. c \in CodedPicture /\ SentPicture(c, kept)
    BY <2>1
  <2>3. Law(Append(coded, c), Len(coded) + 1)
    BY <2>1, NewPictureLaw
  <2>4. \A refs : refs = (IF Decodable(c) THEN kept \cup {Len(coded) + 1} ELSE references)
                    => RefsLaw(Append(coded, c), refs)
    <3> SUFFICES ASSUME NEW refs,
                        refs = IF Decodable(c) THEN kept \cup {Len(coded) + 1} ELSE references
                 PROVE  RefsLaw(Append(coded, c), refs)
      OBVIOUS
    <3>1. c = PictureOf(type, poc, tid, pof, noPrior, kept, used)
      OBVIOUS
    <3>2. c \in CodedPicture /\ Rules(type, poc, tid, kept, used)
      BY <2>1
    <3> HIDE DEF c
    <3> QED
      BY <3>1, <3>2, NewPictureRefs
  <2>5. kept \subseteq references
    BY <2>1 DEF Rules, MayKeep
  <2> HIDE DEF c
  <2>6. /\ coded' = Append(coded, c)
        /\ references' = IF Decodable(c) THEN kept \cup {Len(coded) + 1} ELSE references
        /\ nal' = SliceOf(c, Len(coded) + 1, TRUE, FALSE)
    BY <2>2 DEF SentPicture
  <2>7. coded \in Seq(CodedPicture) /\ Lawful(coded)
    BY DEF StreamTypeOK, SourceInv
  <2>8. /\ Len(coded) \in Nat /\ Len(coded') = Len(coded) + 1 /\ coded'[Len(coded) + 1] = c
        /\ coded' # << >>
    BY <2>2, <2>6, <2>7
  <2>9. Lawful(coded')
    <3>1. \A k \in 1..Len(coded) : Law(coded', k)
      BY <2>2, <2>6, <2>7, LawPrefix DEF Lawful
    <3>2. Law(coded', Len(coded) + 1)
      BY <2>3, <2>6
    <3> QED
      BY <2>8, <3>1, <3>2 DEF Lawful
  <2>10. RefsLaw(coded', references')
    BY <2>4, <2>6
  <2>11. /\ nal'.kind = "slice" /\ nal'.first = TRUE /\ nal'.dep = FALSE
         /\ nal'.id = Len(coded) + 1
    BY <2>6 DEF SliceOf
  <2>12. NalLaw'
    <3>1. sequenceEnd' = FALSE
      BY <1>2 DEF SendPicture
    <3>2. nal' = SliceOf(coded'[Len(coded')], Len(coded'), TRUE, FALSE) /\ Len(coded') > 0
      BY <2>6, <2>8
    <3>3. nal' = SliceOf(coded'[Len(coded')], Len(coded'), nal'.first, nal'.dep)
      BY <2>11, <3>2
    <3> QED
      BY <2>8, <2>11, <3>1, <3>2, <3>3 DEF NalLaw
  <2>13. AddsPicture(c)
    BY <2>5, <2>6, <2>11 DEF AddsPicture
  <2> QED
    BY <2>2, <2>9, <2>10, <2>12, <2>13 DEF SourceInv
<1>3. ASSUME UNCHANGED <<coded, references, sequenceEnd>>, NalLaw',
             nal'.kind = "slice" => ~nal'.first
      PROVE  SourceInv' /\ AddsNoPicture
  BY <1>3 DEF SourceInv, AddsNoPicture
<1>4. CASE SendSlice
  <2>1. PICK dep \in BOOLEAN : Deliver(SliceOf(coded[Len(coded)], Len(coded), FALSE, dep))
    BY <1>1, <1>4, StreamAssumption DEF SendSlice
  <2>2. /\ nal' = SliceOf(coded[Len(coded)], Len(coded), FALSE, dep)
        /\ nal'.kind = "slice" /\ nal'.first = FALSE /\ nal'.dep = dep /\ nal'.id = Len(coded)
    BY <2>1 DEF Deliver, SliceOf
  <2>3. UNCHANGED <<coded, references, sequenceEnd>> /\ coded # << >> /\ Len(coded) > 0
    BY <1>4 DEF SendSlice, StreamTypeOK
  <2>4. NalLaw'
    BY <2>2, <2>3 DEF NalLaw, SourceInv
  <2> QED
    BY <1>3, <2>2, <2>3, <2>4
<1>5. CASE SendExtra
  <2>1. PICK kind \in Extras : nal' = [kind |-> kind, tid |-> 0]
                               /\ sequenceEnd' = (sequenceEnd \/ kind = "EOS")
    BY <1>5 DEF SendExtra, Deliver
  <2>2. nal'.kind = kind /\ nal'.tid = 0 /\ kind \notin {"slice", "EOS"}
    BY <1>1, <2>1
  <2>3. UNCHANGED <<coded, references>> /\ moreSlices' = 0 /\ sequenceEnd \in BOOLEAN
    BY <1>5 DEF SendExtra, StreamTypeOK
  <2>4. sequenceEnd' = sequenceEnd
    BY <2>1, <2>2, <2>3
  <2>5. NalLaw'
    BY <2>2, <2>3, <2>4 DEF NalLaw, SourceInv
  <2> QED
    BY <1>3, <2>2, <2>3, <2>4, <2>5
<1>6. CASE SendEndOfBitstream
  <2>1. /\ nal'.kind = "OTHER" /\ nal'.tid = 0 /\ moreSlices' = 0
        /\ UNCHANGED <<coded, references, sequenceEnd>>
    BY <1>6 DEF SendEndOfBitstream
  <2>2. NalLaw'
    BY <2>1 DEF NalLaw, SourceInv
  <2> QED
    BY <1>3, <2>1, <2>2
<1> QED
  BY <1>2, <1>4, <1>5, <1>6 DEF Send

(* And of the stream before anything is sent.                              *)
LEMMA InitSourceInv == StreamInit => SourceInv
<1> SUFFICES ASSUME StreamInit PROVE SourceInv
  OBVIOUS
<1>1. /\ coded = << >> /\ references = {} /\ sequenceEnd = TRUE /\ moreSlices = 0
      /\ nal.kind = "NONE" /\ nal.tid = 0
  BY DEF StreamInit, NoNal
<1>2. Len(coded) = 0
  BY <1>1
<1>3. Lawful(coded) /\ RefsLaw(coded, references)
  BY <1>1, <1>2 DEF Lawful, RefsLaw
<1>4. NalLaw
  BY <1>1 DEF NalLaw
<1> QED
  BY <1>3, <1>4 DEF SourceInv

-----------------------------------------------------------------------------
(* A POC is recovered from its LSBs and one that is near.                  *)
LEMMA Division ==
  ASSUME NEW M \in Nat \ {0}, NEW a \in Int
  PROVE  \E q \in Int : a = (a % M) + M * q /\ a % M \in 0..M - 1
<1>1. (a % M) + M * (a \div M) = a /\ (a \div M) \in Int
  BY Z3
<1>2. a % M \in 0..M - 1
  OBVIOUS
<1> QED
  BY <1>1, <1>2

LEMMA SmallMultiple ==
  ASSUME NEW M \in Nat \ {0}, NEW e \in Int, M * e < 2 * M, -2 * M < M * e
  PROVE  e \in {-1, 0, 1}
<1>1. e >= 2 => M * e >= 2 * M
  BY Z3
<1>2. e <= -2 => M * e <= -2 * M
  BY Z3
<1> QED
  BY <1>1, <1>2

Completed(lsb, prevLsb, prev, M) ==
  (IF lsb < prevLsb /\ 2 * (prevLsb - lsb) >= M THEN prev - prevLsb + M
   ELSE IF lsb > prevLsb /\ 2 * (lsb - prevLsb) > M THEN prev - prevLsb - M
   ELSE prev - prevLsb) + lsb

LEMMA NearestPoc ==
  ASSUME NEW M \in Nat \ {0}, NEW poc \in Int, NEW prev \in Int,
         2 * (poc - prev) < M, 2 * (prev - poc) < M
  PROVE  poc = Completed(poc % M, prev % M, prev, M)
<1> DEFINE lsb == poc % M
           prevLsb == prev % M
<1>1. PICK q \in Int : poc = lsb + M * q /\ lsb \in 0..M - 1
  BY Division
<1>2. PICK p \in Int : prev = prevLsb + M * p /\ prevLsb \in 0..M - 1
  BY Division
<1> DEFINE e == q - p
<1>3. M * q - M * p = M * e /\ e \in Int /\ M * q \in Int /\ M * p \in Int /\ M * e \in Int
  BY Z3
<1> HIDE DEF e, lsb, prevLsb
<1>4. poc - prev = lsb - prevLsb + M * e
  <2> DEFINE mq == M * q
             mp == M * p
             me == M * e
  <2>1. /\ mq \in Int /\ mp \in Int /\ me \in Int /\ mq - mp = me
        /\ poc = lsb + mq /\ prev = prevLsb + mp /\ lsb \in Int /\ prevLsb \in Int
    BY <1>1, <1>2, <1>3
  <2> HIDE DEF mq, mp, me
  <2>2. poc - prev = lsb - prevLsb + me
    BY <2>1
  <2> QED
    BY <2>2 DEF me
<1>5. M * e < 2 * M /\ -2 * M < M * e
  BY <1>1, <1>2, <1>3, <1>4
<1>6. e \in {-1, 0, 1}
  BY <1>3, <1>5, SmallMultiple
<1>7. (e = 0 => M * e = 0) /\ (e = 1 => M * e = M) /\ (e = -1 => M * e = -M)
  OBVIOUS
<1>8. ASSUME e = 0 PROVE poc = Completed(lsb, prevLsb, prev, M)
  <2>1. poc = prev - prevLsb + lsb
    BY <1>1, <1>2, <1>4, <1>7, <1>8
  <2>2. ~(lsb < prevLsb /\ 2 * (prevLsb - lsb) >= M) /\ ~(lsb > prevLsb /\ 2 * (lsb - prevLsb) > M)
    BY <1>1, <1>2, <2>1
  <2> QED
    BY <2>1, <2>2 DEF Completed
<1>9. ASSUME e = 1 PROVE poc = Completed(lsb, prevLsb, prev, M)
  <2>1. poc = prev - prevLsb + M + lsb
    BY <1>1, <1>2, <1>4, <1>7, <1>9
  <2>2. lsb < prevLsb /\ 2 * (prevLsb - lsb) >= M
    BY <1>1, <1>2, <2>1
  <2> QED
    BY <2>1, <2>2 DEF Completed
<1>10. ASSUME e = -1 PROVE poc = Completed(lsb, prevLsb, prev, M)
  <2>1. poc = prev - prevLsb - M + lsb
    BY <1>1, <1>2, <1>4, <1>7, <1>10
  <2>2. lsb > prevLsb /\ 2 * (lsb - prevLsb) > M
    BY <1>1, <1>2, <2>1
  <2> QED
    <3>1. ~(lsb < prevLsb /\ 2 * (prevLsb - lsb) >= M)
      BY <1>1, <1>2, <2>2
    <3> QED
      BY <2>1, <2>2, <3>1 DEF Completed
<1>11. poc = Completed(lsb, prevLsb, prev, M)
  BY <1>6, <1>8, <1>9, <1>10
<1> QED
  BY <1>11 DEF lsb, prevLsb

-----------------------------------------------------------------------------
(* The decoder's side.                                                     *)

(* The last coded picture is still ahead of the decoder's memory: its      *)
(* first slice has not been given a picture, skipped or ignored.           *)
Ahead ==
  /\ nal.kind = "slice" /\ nal.first
  /\ phase \in {"decode", "conceal"} \/ (newPicture /\ phase \in AfterFinish \cup {"returned"})

(* The number of pictures that have reached the decoder. *)
Reached == IF Ahead THEN Len(coded) - 1 ELSE Len(coded)

(* The decoder's memory of what it has decoded.                            *)
MemoryInv ==
  /\ iSkipFrame = 0 /\ craNoRaslOutputFlag = FALSE /\ loopFiltered = FALSE
  /\ prevPOC >= -MaxInt /\ pocRandomAccess \in {MaxInt, -MaxInt}
  /\ prefixSEIs > 0 => "SEI" \in Extras
  /\ firstSliceInSequence <=> Reached = 0
  /\ Reached = 0 => Held(dpb) = {} /\ firstSliceInPicture /\ ~newPicture
  /\ Reached > 0 => pocRandomAccess = -MaxInt
  /\ phase \in {"bump1", "prior", "flush"} => listSet

(* The IRAP picture and the anchor it knows are the last ones.             *)
IrapInv ==
  \A i \in Iraps(coded) : IsLatest(Iraps(coded), i, Reached) =>
    pocCRA = coded[i].poc /\ associatedIRAPType = coded[i].type

AnchorInv ==
  \A a \in Anchors(coded) : IsLatest(Anchors(coded), a, Reached) =>
    \/ prevTid0POC = coded[a].poc
    \/ Ahead /\ Len(coded) \in Anchors(coded) /\ prevTid0POC = coded[Len(coded)].poc

(* pic is picture k of c, decoded as such.                                 *)
Shows(pic, c, k) ==
  /\ pic.ids = {k} /\ pic.poc = c[k].poc /\ pic.poc0 = c[k].poc
  /\ pic.tid = c[k].tid /\ pic.type = c[k].type /\ pic.pof = c[k].pof
  /\ c[k].type \notin RapTypes =>
       \A i \in Iraps(c) : IsLatest(Iraps(c), i, k - 1) => pic.irap = c[i].poc

(* The list holds pictures of the current sequence, each once, and among   *)
(* them all that later pictures may refer to.                              *)
InList(d, k) == \E s \in Held(d) : d[s].ids = {k} /\ d[s].ref

ListShows(d, c, n) == \A s \in Held(d) : \E k \in 1..n : Shows(d[s], c, k) /\ SameSequence(c, k, n)

ListDiffers(d) == \A s, t \in Held(d) : d[s].ids = d[t].ids => s = t

ListKeeps(d, c, refs, n) ==
  \A k \in refs : k <= n /\ c[k].tid <= MaxTemporalLayer => InList(d, k)

ListInv ==
  /\ ListShows(dpb, coded, Reached)
  /\ ListDiffers(dpb)
  /\ phase \notin {"final", "done"} => ListKeeps(dpb, coded, references, Reached)
  /\ \A s \in Held(dpb) : IF s = curPic THEN dpb[s].ref ELSE dpb[s].ref => dpb[s].recon
  /\ Ahead /\ coded[Len(coded)].starts
     /\ (phase \in {"output2", "bump2", "conceal"} \/ (phase = "decode" /\ newPicture))
       => Held(dpb) = {}

(* The picture being decoded. *)
Unfiltered(d, s, w) ==
  /\ s \in Held(d) /\ ~d[s].recon /\ ~d[s].out /\ d[s].ref
  /\ \A i \in DOMAIN w : w[i].ids # d[s].ids

(* The phases between the slices of a picture, and the end of the file,    *)
(* when the last picture has been filtered.                                *)
OpenPhases == {"read", "decode", "conceal", "prior", "output2", "bump2"}
Ended == last /\ ~newPicture /\ phase \in {"prior", "output2", "bump2"}

(* A picture is open from its first slice until another one begins.        *)
OpenInv ==
  /\ Reached > 0 /\ ~newPicture /\ phase \in OpenPhases /\ ~Ended => ~firstSliceInPicture
  /\ Reached > 0 /\ phase = "returned" => ~firstSliceInPicture
  /\ ~firstSliceInPicture /\ phase \in OpenPhases \cup {"returned"} /\ ~Ended =>
       Unfiltered(dpb, curPic, written) /\ sliceIdx = dpb[curPic].slices
  /\ phase = "lists" => /\ ~newPicture /\ Unfiltered(dpb, curPic, written)
                        /\ sliceIdx + 1 = dpb[curPic].slices
  /\ phase = "conceal" /\ firstSliceInPicture => sliceIdx = 0
  /\ phase = "conceal" /\ nal.first => firstSliceInPicture

(* A slice that has been handed back is the first of a picture that can be *)
(* decoded, and the picture before it is filtered.                         *)
HandedBackInv ==
  /\ newPicture /\ phase \in AfterFinish \cup {"returned", "conceal"} =>
       /\ nal.kind = "slice" /\ nal.first
       /\ ~IsNotDecoded(nal) /\ ~Undecodable(coded, Len(coded))
  /\ newPicture /\ phase \in AfterFinish \cup {"conceal"} =>
       firstSliceInPicture /\ (curPic \in Held(dpb) => dpb[curPic].recon)
  /\ newPicture /\ phase = "returned" => refPics = {}
  /\ phase \in {"bump1", "flush"} => newPicture
  /\ phase = "flush" => coded[Len(coded)].starts

(* What has been done with the last picture.                               *)
CurrentInv ==
  ~Ahead /\ Len(coded) > 0 /\ coded[Len(coded)].tid <= MaxTemporalLayer
  /\ phase \notin {"final", "done"} =>
    IF Undecodable(coded, Len(coded))
      THEN prevSliceSkipped /\ skippedPOC = coded[Len(coded)].poc
      ELSE ~prevSliceSkipped /\ curPic \in Held(dpb) /\ dpb[curPic].ids = {Len(coded)}

(* The slice header that is being acted on.                                *)
PilotInv ==
  /\ phase \in {"conceal", "lists"} =>
       /\ nal.kind = "slice" /\ ~IsNotDecoded(nal) /\ ~Undecodable(coded, Len(coded))
       /\ refPics = {} /\ ~prevSliceSkipped
       /\ pilot.id = Len(coded) /\ pilot.dep = nal.dep
       /\ LET c == coded[Len(coded)]
          IN /\ pilot.poc = c.poc /\ pilot.type = c.type /\ pilot.tid = c.tid
             /\ pilot.rps = c.rps /\ pilot.pof = c.pof
  /\ phase = "conceal" => /\ pilot.irap = pocCRA /\ pilot.irapType = associatedIRAPType
                          /\ pocRandomAccess = -MaxInt
                          /\ Len(coded) \in Anchors(coded) => prevTid0POC = coded[Len(coded)].poc

RefPicsInv ==
  \A r \in refPics : r.ref /\ \E k \in 1..Reached :
    SameSequence(coded, k, Reached) /\ r.ids = {k} /\ r.poc = coded[k].poc

(* What is written has been decoded, is written once, and is not marked.   *)
WrittenInv ==
  /\ written \in Seq([ids : SUBSET Nat, poc : Int])
  /\ \A i \in DOMAIN written : \E k \in 1..Reached : written[i].ids = {k}
  /\ \A i, j \in DOMAIN written : written[i].ids = written[j].ids => i = j
  /\ \A s \in Held(dpb), i \in DOMAIN written : dpb[s].ids = written[i].ids => ~dpb[s].out

(* Where every picture is to be output, each is written, marked, or open.  *)
AllOutput == PicOutputFlags = {TRUE} /\ NoPriorFlags = {FALSE}

VanishInv ==
  /\ ~isNoOutputPriorPics
  /\ \A s \in Held(dpb) : \/ dpb[s].out
                          \/ \E i \in DOMAIN written : written[i].ids = dpb[s].ids
                          \/ s = curPic /\ ~dpb[s].recon

(* The last picture is filtered at the end of the file.                    *)
LastInv ==
  (phase \in {"final", "done"} \/ Ended) /\ curPic \in Held(dpb) => dpb[curPic].recon

DecoderInv ==
  /\ phase \notin {"aborted", "crashed"}
  /\ MemoryInv /\ IrapInv /\ AnchorInv /\ ListInv /\ OpenInv /\ HandedBackInv /\ CurrentInv
  /\ PilotInv /\ RefPicsInv /\ WrittenInv /\ LastInv /\ (AllOutput => VanishInv)

IInv == Intact /\ Inv /\ SourceInv /\ DecoderInv

-----------------------------------------------------------------------------
(* What the invariants say of the coded pictures.                          *)
LEMMA Basics ==
  ASSUME IInv
  PROVE  /\ coded \in Seq(CodedPicture) /\ Len(coded) \in Nat
         /\ \A k \in 1..Len(coded) : /\ coded[k] \in CodedPicture /\ coded[k].tid \in Nat
                                     /\ StartLaw(coded, k) /\ PocLaw(coded, k)
                                     /\ OrderLaw(coded, k) /\ LatestLaw(coded, k)
         /\ Iraps(coded) \subseteq 1..Len(coded) /\ Anchors(coded) \subseteq 1..Len(coded)
         /\ Starts(coded) \subseteq 1..Len(coded) /\ Starts(coded) \subseteq Iraps(coded)
         /\ Reached \in Nat /\ Reached <= Len(coded)
         /\ Ahead => Reached = Len(coded) - 1 /\ Len(coded) > 0
         /\ ~Ahead => Reached = Len(coded)
<1>1. coded \in Seq(CodedPicture) /\ Len(coded) \in Nat
  BY DEF IInv, Inv, TypeOK, StreamTypeOK
<1>2. ASSUME NEW k \in 1..Len(coded) PROVE coded[k] \in CodedPicture /\ coded[k].tid \in Nat
  <2>1. coded[k] \in CodedPicture
    BY <1>1
  <2>2. coded[k].tid \in Tids
    BY <2>1 DEF CodedPicture
  <2> QED
    BY <2>1, <2>2, MaxDecPicBufAssumption DEF Tids
<1>3. \A k \in 1..Len(coded) : /\ StartLaw(coded, k) /\ PocLaw(coded, k)
                               /\ OrderLaw(coded, k) /\ LatestLaw(coded, k)
  BY DEF IInv, SourceInv, Lawful, Law
<1>4. /\ Iraps(coded) \subseteq 1..Len(coded) /\ Anchors(coded) \subseteq 1..Len(coded)
      /\ Starts(coded) \subseteq 1..Len(coded)
  BY DEF Iraps, Anchors, Starts
<1>5. Starts(coded) \subseteq Iraps(coded)
  BY <1>3 DEF Starts, Iraps, StartLaw, RapTypes
<1>6. Ahead => Len(coded) > 0
  BY DEF Ahead, IInv, SourceInv, NalLaw
<1> QED
  BY <1>1, <1>2, <1>3, <1>4, <1>5, <1>6 DEF Reached

(* A slice belongs to the last coded picture.                              *)
LEMMA SliceFacts ==
  ASSUME IInv, nal.kind = "slice"
  PROVE  /\ Len(coded) > 0 /\ nal.id = Len(coded) /\ nal \in SliceNal
         /\ nal.type = coded[Len(coded)].type /\ nal.tid = coded[Len(coded)].tid
         /\ nal.lsb = coded[Len(coded)].poc % MaxPocLsb
         /\ nal.rps = coded[Len(coded)].rps /\ nal.pof = coded[Len(coded)].pof
         /\ nal.noPrior = coded[Len(coded)].noPrior
         /\ nal.first => ~nal.dep
         /\ IsNotDecoded(nal) <=> ~(coded[Len(coded)].tid <= MaxTemporalLayer)
<1>1. /\ Len(coded) > 0 /\ nal.id = Len(coded)
      /\ nal = SliceOf(coded[Len(coded)], Len(coded), nal.first, nal.dep)
      /\ nal.first => ~nal.dep
  BY DEF IInv, SourceInv, NalLaw
<1>2. /\ nal.type = coded[Len(coded)].type /\ nal.tid = coded[Len(coded)].tid
      /\ nal.lsb = coded[Len(coded)].poc % MaxPocLsb
      /\ nal.rps = coded[Len(coded)].rps /\ nal.pof = coded[Len(coded)].pof
      /\ nal.noPrior = coded[Len(coded)].noPrior
  BY <1>1 DEF SliceOf
<1>3. nal \in SliceNal
  BY DEF IInv, Inv, TypeOK, StreamTypeOK, OtherNals
<1>4. coded[Len(coded)].tid \in Nat /\ MaxTemporalLayer \in Nat
  BY <1>1, Basics, MaxTemporalLayerAssumption, MaxDecPicBufAssumption
<1>5. IsNotDecoded(nal) <=> ~(coded[Len(coded)].tid <= MaxTemporalLayer)
  BY <1>2, <1>4 DEF IsNotDecoded
<1> QED
  BY <1>1, <1>2, <1>3, <1>5

(* The picture that has received the slices of picture k shows it.         *)
LEMMA ShownPicture ==
  ASSUME NEW d, NEW c, NEW n, ListShows(d, c, n), NEW s \in Held(d), NEW k, d[s].ids = {k}
  PROVE  k \in 1..n /\ Shows(d[s], c, k) /\ SameSequence(c, k, n)
<1>1. PICK j \in 1..n : Shows(d[s], c, j) /\ SameSequence(c, j, n)
  BY DEF ListShows
<1>2. j = k
  BY <1>1 DEF Shows
<1> QED
  BY <1>1, <1>2

(* The decoder gives a slice the POC of its picture.                       *)
LEMMA HeaderPocIsRight ==
  ASSUME IInv, phase = "decode", nal.kind = "slice", ~IsNotDecoded(nal)
  PROVE  /\ HeaderPoc(nal) = coded[Len(coded)].poc
         /\ FinalPoc(nal) = coded[Len(coded)].poc
         /\ CraNoRasl(nal) = FALSE
<1> DEFINE n == Len(coded)
<1>1. /\ n \in Nat /\ n > 0 /\ coded[n] \in CodedPicture /\ coded[n].poc \in Int
      /\ StartLaw(coded, n) /\ PocLaw(coded, n)
      /\ Reached \in Nat
      /\ Ahead => Reached = n - 1
      /\ ~Ahead => Reached = n
      /\ Anchors(coded) \subseteq 1..n
      /\ \A k \in 1..n : LatestLaw(coded, k) /\ coded[k].poc \in Int
  BY Basics, SliceFacts DEF CodedPicture
<1>2. /\ nal.type = coded[n].type /\ nal.lsb = coded[n].poc % MaxPocLsb
      /\ nal.first => ~nal.dep
      /\ coded[n].tid <= MaxTemporalLayer /\ nal.tid = coded[n].tid
  BY SliceFacts
<1>3. Ahead <=> nal.first
  BY DEF Ahead
<1>4. MemoryInv /\ AnchorInv /\ ListInv /\ CurrentInv
  BY DEF IInv, DecoderInv
<1>5. firstSliceInSequence => nal.type \in IdrTypes \cup BlaTypes
  <2>1. firstSliceInSequence => n = 1
    BY <1>1, <1>4 DEF MemoryInv
  <2> QED
    BY <1>1, <1>2, <2>1 DEF StartLaw
<1>6. CraNoRasl(nal) = FALSE
  <2>1. craNoRaslOutputFlag = FALSE
    BY <1>4 DEF MemoryInv
  <2>2. CASE nal.type = "CRA"
    <3>1. nal.type \notin IdrTypes \cup BlaTypes
      BY <2>2 DEF IdrTypes, BlaTypes
    <3>2. ~NoRaslOutputFlag(nal)
      BY <1>5, <3>1 DEF NoRaslOutputFlag
    <3>3. NoRaslOutputFlag(nal) \in BOOLEAN
      BY Zenon DEF NoRaslOutputFlag
    <3> QED
      BY <2>2, <3>2, <3>3 DEF CraNoRasl
  <2> QED
    BY <2>1, <2>2 DEF CraNoRasl
<1>7. CASE nal.dep
  <2>1. ~Ahead /\ ~nal.first
    BY <1>2, <1>3, <1>7
  <2>2. IF Undecodable(coded, n) THEN prevSliceSkipped /\ skippedPOC = coded[n].poc
        ELSE ~prevSliceSkipped /\ curPic \in Held(dpb) /\ dpb[curPic].ids = {n}
    BY <1>1, <1>2, <1>4, <2>1 DEF CurrentInv
  <2>3. ~Undecodable(coded, n) => dpb[curPic].poc = coded[n].poc
    BY <1>4, <2>2, ShownPicture DEF ListInv, Shows
  <2> QED
    BY <1>6, <1>7, <2>2, <2>3 DEF HeaderPoc, FinalPoc
<1>8. CASE ~nal.dep /\ nal.type \in IdrTypes
  BY <1>1, <1>2, <1>6, <1>8 DEF HeaderPoc, FinalPoc, StartLaw
<1>9. CASE ~nal.dep /\ nal.type \in BlaTypes
  <2>1. coded[n].poc \in 0..MaxPocLsb - 1
    BY <1>1, <1>2, <1>9 DEF StartLaw
  <2>2. coded[n].poc % MaxPocLsb = coded[n].poc
    BY <2>1, MaxPocLsbAssumption
  <2>3. DerivedPoc(nal.lsb, nal.type) = coded[n].poc
    BY <1>1, <1>2, <1>9, <2>2 DEF DerivedPoc
  <2>4. nal.type \notin IdrTypes
    BY <1>9 DEF IdrTypes, BlaTypes
  <2> QED
    BY <1>6, <1>9, <2>3, <2>4 DEF HeaderPoc, FinalPoc
<1>10. CASE ~nal.dep /\ nal.type \notin IdrTypes \cup BlaTypes
  <2>1. Reached > 0 /\ ~coded[n].starts
    BY <1>1, <1>2, <1>4, <1>5, <1>10 DEF MemoryInv, StartLaw
  <2>2. PICK a \in 1..Reached : IsLatest(Anchors(coded), a, Reached)
    <3>1. Reached \in 1..n
      BY <1>1, <2>1
    <3> QED
      BY <1>1, <3>1 DEF LatestLaw
  <2>3. a \in Anchors(coded) /\ a \in 1..n
    BY <1>1, <2>2 DEF IsLatest
  <2>4. \/ prevTid0POC = coded[n].poc
        \/ prevTid0POC = coded[a].poc /\ a \in 1..n - 1 /\ IsLatest(Anchors(coded), a, n - 1)
    <3>1. prevTid0POC = coded[a].poc \/ prevTid0POC = coded[n].poc
      BY <1>4, <2>2, <2>3 DEF AnchorInv
    <3>2. a # n => a \in 1..n - 1 /\ IsLatest(Anchors(coded), a, n - 1)
      BY <1>1, <2>2, <2>3 DEF IsLatest
    <3> QED
      BY <3>1, <3>2
  <2>5. /\ prevTid0POC \in Int
        /\ 2 * (coded[n].poc - prevTid0POC) < MaxPocLsb
        /\ 2 * (prevTid0POC - coded[n].poc) < MaxPocLsb
    <3>1. CASE prevTid0POC = coded[n].poc
      BY <1>1, <3>1, MaxPocLsbAssumption
    <3>2. CASE prevTid0POC = coded[a].poc /\ a \in 1..n - 1 /\ IsLatest(Anchors(coded), a, n - 1)
      BY <1>1, <2>1, <2>3, <3>2 DEF PocLaw
    <3> QED
      BY <2>4, <3>1, <3>2
  <2>6. DerivedPoc(nal.lsb, nal.type) = coded[n].poc
    <3>1. coded[n].poc = Completed(coded[n].poc % MaxPocLsb, prevTid0POC % MaxPocLsb,
                                   prevTid0POC, MaxPocLsb)
      BY <1>1, <2>5, MaxPocLsbAssumption, NearestPoc
    <3> DEFINE lsb == nal.lsb
               prevLsb == prevTid0POC % MaxPocLsb
    <3>2. coded[n].poc = Completed(lsb, prevLsb, prevTid0POC, MaxPocLsb)
      BY <1>2, <3>1
    <3>3. DerivedPoc(nal.lsb, nal.type) = Completed(lsb, prevLsb, prevTid0POC, MaxPocLsb)
      BY <1>10 DEF DerivedPoc, Completed
    <3> QED
      BY <3>2, <3>3
  <2> QED
    BY <1>6, <1>10, <2>6 DEF HeaderPoc, FinalPoc
<1> QED
  BY <1>7, <1>8, <1>9, <1>10

-----------------------------------------------------------------------------
(* What the application's steps leave of the invariants.                   *)

USE DEF AfterFinish, headerVars, skipVars, irapVars, firstVars, pictureVars, headerAndSkipVars,
        counterVars, appVars

(* The same pictures, whatever their marks for output and places.          *)
SamePicture(p, q) ==
  /\ q.ids = p.ids /\ q.poc = p.poc /\ q.poc0 = p.poc0 /\ q.tid = p.tid /\ q.type = p.type
  /\ q.pof = p.pof /\ q.irap = p.irap /\ q.ref = p.ref /\ q.slices = p.slices

SameList(d, e) == Held(e) = Held(d) /\ \A s \in Held(d) : SamePicture(d[s], e[s])

LEMMA SameListKeeps ==
  ASSUME NEW d, NEW e, SameList(d, e), NEW c, NEW refs, NEW n
  PROVE  /\ ListShows(d, c, n) => ListShows(e, c, n)
         /\ ListDiffers(d) => ListDiffers(e)
         /\ ListKeeps(d, c, refs, n) => ListKeeps(e, c, refs, n)
<1>1. \A s \in Held(d) : \A k : Shows(d[s], c, k) => Shows(e[s], c, k)
  BY DEF SameList, SamePicture, Shows
<1>2. \A k : InList(d, k) => InList(e, k)
  BY DEF SameList, SamePicture, InList
<1>3. ListShows(d, c, n) => ListShows(e, c, n)
  BY <1>1 DEF SameList, ListShows
<1>4. ListDiffers(d) => ListDiffers(e)
  BY DEF SameList, SamePicture, ListDiffers
<1>5. ListKeeps(d, c, refs, n) => ListKeeps(e, c, refs, n)
  BY <1>2 DEF ListKeeps
<1> QED
  BY <1>3, <1>4, <1>5

QuietPhases == {"returned", "bump1", "prior", "flush", "output2", "bump2", "final"}

(* A step of the application that leaves the decoder's variables alone.    *)
QuietStep ==
  /\ UNCHANGED <<streamVars, newPicture, pilot, refPics, prevTid0POC, craNoRaslOutputFlag,
                 skipVars, irapVars, prevPOC, pocRandomAccess, prefixSEIs, curPic, sliceIdx,
                 firstSliceInSequence>>
  /\ phase \in QuietPhases
  /\ phase' \in QuietPhases \cup {"read", "decode", "done"}
  /\ phase' \in {"read", "final", "done"} => ~newPicture \/ phase = "final"
  /\ phase' = "decode" => newPicture
  /\ phase = "final" => phase' \in {"final", "done"}
  /\ phase # "final" => phase' # "done"

LEMMA QuietStepKeeps ==
  ASSUME IInv, QuietStep
  PROVE  /\ (Ahead' <=> Ahead) /\ Reached' = Reached /\ coded' = coded
         /\ IrapInv' /\ AnchorInv' /\ PilotInv' /\ RefPicsInv'
<1>1. /\ UNCHANGED <<nal, coded, newPicture, refPics, prevTid0POC, pocCRA, associatedIRAPType>>
      /\ phase \in QuietPhases
      /\ phase' \in QuietPhases \cup {"read", "decode", "done"}
      /\ phase' \in {"read", "final", "done"} => ~newPicture \/ phase = "final"
      /\ phase' = "decode" => newPicture
      /\ phase = "final" => phase' \in {"final", "done"}
  BY DEF QuietStep, streamVars
<1>2. Ahead' <=> Ahead
  BY <1>1 DEF Ahead, QuietPhases
<1>3. Reached' = Reached /\ coded' = coded
  BY <1>1, <1>2 DEF Reached
<1>4. IrapInv'
  BY <1>1, <1>3 DEF IInv, DecoderInv, IrapInv
<1>5. AnchorInv'
  BY <1>1, <1>2, <1>3 DEF IInv, DecoderInv, AnchorInv
<1>6. PilotInv'
  BY <1>1 DEF PilotInv, QuietPhases
<1>7. RefPicsInv'
  BY <1>1, <1>3 DEF IInv, DecoderInv, RefPicsInv
<1> QED
  BY <1>2, <1>3, <1>4, <1>5, <1>6, <1>7

(* A step of the iteration that changes nothing but the phase.             *)
IdleStep ==
  /\ UNCHANGED <<streamVars, newPicture, headerAndSkipVars, firstVars, dpb, listSet,
                 loopFiltered, written>>
  /\ \/ phase = "bump1" /\ phase' = "prior"
     \/ phase \in {"bump2", "output2"} /\ phase' = NextPhase(last)
     \/ phase = "output2" /\ phase' = "bump2"
     \/ phase = "flush" /\ phase' = "output2" /\ Held(dpb) = {}
     \/ phase = "final" /\ phase' = "done"

LEMMA IdleStepKeeps ==
  ASSUME IInv, IdleStep
  PROVE  DecoderInv'
<1>1. /\ UNCHANGED <<nal, last, coded, references, newPicture, pilot, refPics, prevTid0POC,
                     craNoRaslOutputFlag, isNoOutputPriorPics, prevSliceSkipped, skippedPOC,
                     iSkipFrame, pocCRA, associatedIRAPType, prevPOC, pocRandomAccess,
                     prefixSEIs, curPic, sliceIdx, firstSliceInPicture,
                     firstSliceInSequence, dpb, listSet, loopFiltered, written>>
  BY DEF IdleStep, streamVars
<1>2. /\ \/ phase = "bump1" /\ phase' = "prior"
         \/ phase \in {"bump2", "output2"} /\ newPicture /\ phase' = "decode"
         \/ phase \in {"bump2", "output2"} /\ ~newPicture /\ last /\ phase' = "final"
         \/ phase \in {"bump2", "output2"} /\ ~newPicture /\ ~last /\ phase' = "read"
         \/ phase = "output2" /\ phase' = "bump2"
         \/ phase = "flush" /\ phase' = "output2" /\ Held(dpb) = {}
         \/ phase = "final" /\ phase' = "done"
  BY DEF IdleStep, NextPhase
<1>3. MemoryInv /\ ListInv /\ OpenInv /\ HandedBackInv /\ CurrentInv /\ WrittenInv
      /\ LastInv /\ (AllOutput => VanishInv)
  BY DEF IInv, DecoderInv
<1>4. phase \in {"bump1", "flush"} => newPicture /\ firstSliceInPicture
  BY <1>3 DEF HandedBackInv
<1>5. QuietStep
  BY <1>1, <1>2, <1>4 DEF QuietStep, QuietPhases, IdleStep
<1>6. /\ (Ahead' <=> Ahead) /\ Reached' = Reached /\ coded' = coded
      /\ IrapInv' /\ AnchorInv' /\ PilotInv' /\ RefPicsInv'
  BY <1>5, QuietStepKeeps
<1>7. phase' \notin {"aborted", "crashed"}
  BY <1>2
<1>8. MemoryInv'
  BY <1>1, <1>2, <1>3, <1>6 DEF MemoryInv
<1>9. ListInv'
  <2>1. Ahead /\ phase' \in {"output2", "bump2", "decode"} => newPicture
    BY <1>2, <1>3 DEF Ahead, HandedBackInv
  <2> QED
    BY <1>1, <1>2, <1>3, <1>6, <2>1 DEF ListInv
<1>10. OpenInv'
  BY <1>1, <1>2, <1>3, <1>4, <1>6 DEF OpenInv, OpenPhases, Ended
<1>11. HandedBackInv'
  BY <1>1, <1>2, <1>3 DEF HandedBackInv
<1>12. CurrentInv'
  BY <1>1, <1>2, <1>3, <1>6 DEF CurrentInv
<1>13. WrittenInv'
  BY <1>1, <1>3, <1>6 DEF WrittenInv
<1>14. LastInv'
  BY <1>1, <1>2, <1>3, <1>4 DEF LastInv, Ended
<1>15. AllOutput => VanishInv'
  BY <1>1, <1>3 DEF VanishInv
<1> QED
  BY <1>6, <1>7, <1>8, <1>9, <1>10, <1>11, <1>12, <1>13, <1>14, <1>15 DEF DecoderInv

LEMMA IdleStepsKeep ==
  ASSUME IInv, UNCHANGED streamVars,
         EndBump(last) \/ EndFlush \/ BeginSecondOutput(nal, last)
  PROVE  DecoderInv'
<1>1. nal.kind # "EOS"
  BY DEF IInv, Intact, SourceInv, NalLaw
<1>2. phase = "flush" => listSet
  BY DEF IInv, DecoderInv, MemoryInv
<1>3. CASE EndBump(last)
  BY <1>3, IdleStepKeeps DEF EndBump, IdleStep
<1>4. CASE EndFlush
  BY <1>2, <1>4, IdleStepKeeps DEF EndFlush, IdleStep
<1>5. CASE BeginSecondOutput(nal, last)
  BY <1>1, <1>5, IdleStepKeeps DEF BeginSecondOutput, IdleStep
<1> QED
  BY <1>3, <1>4, <1>5

(* checkNoOutputPriorPics() takes marks away.                              *)
LEMMA CheckNoOutputPriorPicsKeeps ==
  ASSUME IInv, UNCHANGED streamVars, CheckNoOutputPriorPics(nal)
  PROVE  DecoderInv'
<1>1. /\ UNCHANGED <<nal, last, coded, references, newPicture, pilot, refPics, prevTid0POC,
                     craNoRaslOutputFlag, prevSliceSkipped, skippedPOC,
                     iSkipFrame, pocCRA, associatedIRAPType, prevPOC, pocRandomAccess,
                     prefixSEIs, curPic, sliceIdx, firstSliceInPicture,
                     firstSliceInSequence, listSet, loopFiltered, written>>
      /\ phase = "prior"
      /\ phase' = IF FlushesList(nal) THEN "flush" ELSE "output2"
      /\ isNoOutputPriorPics' => isNoOutputPriorPics
      /\ dpb' = dpb \/ (isNoOutputPriorPics /\ dpb' = WithoutPriorPics)
  BY DEF CheckNoOutputPriorPics, streamVars
<1>2. MemoryInv /\ ListInv /\ OpenInv /\ HandedBackInv /\ CurrentInv /\ WrittenInv
      /\ LastInv /\ (AllOutput => VanishInv) /\ TypeOK
  BY DEF IInv, DecoderInv, Inv
<1>3. QuietStep
  BY <1>1 DEF QuietStep, QuietPhases, FlushesList
<1>4. /\ (Ahead' <=> Ahead) /\ Reached' = Reached /\ coded' = coded
      /\ IrapInv' /\ AnchorInv' /\ PilotInv' /\ RefPicsInv'
  BY <1>3, QuietStepKeeps
<1>5. /\ Held(dpb') = Held(dpb)
      /\ \A s \in Held(dpb) : /\ SamePicture(dpb[s], dpb'[s])
                              /\ dpb'[s].recon = dpb[s].recon
                              /\ dpb'[s].out => dpb[s].out
  <2>1. \A s \in Slots : dpb[s] \in Picture
    BY <1>2 DEF TypeOK, ObjectsOK
  <2>2. CASE dpb' = dpb
    BY <2>2 DEF SamePicture
  <2>3. CASE dpb' = WithoutPriorPics
    <3>1. \A s \in Slots : dpb'[s] = IF s \in Held(dpb) /\ dpb[s].poc # lastPOCNoOutputPriorPics
                                       THEN [dpb[s] EXCEPT !.out = FALSE] ELSE dpb[s]
      BY <2>3 DEF WithoutPriorPics
    <3>2. \A s \in Slots : /\ SamePicture(dpb[s], dpb'[s]) /\ dpb'[s].recon = dpb[s].recon
                           /\ dpb'[s].out => dpb[s].out
                           /\ dpb'[s].pos = dpb[s].pos
      <4>1. ASSUME NEW p \in Picture, NEW q, q \in {p, [p EXCEPT !.out = FALSE]}
            PROVE  SamePicture(p, q) /\ q.recon = p.recon /\ q.pos = p.pos
        BY <4>1 DEF SamePicture, Picture
      <4>2. ASSUME NEW p \in Picture, NEW q, q \in {p, [p EXCEPT !.out = FALSE]}
            PROVE  q.out => p.out
        BY <4>2 DEF Picture
      <4>3. \A s \in Slots : dpb'[s] \in {dpb[s], [dpb[s] EXCEPT !.out = FALSE]}
        BY <3>1
      <4> QED
        BY <2>1, <4>1, <4>2, <4>3
    <3> QED
      BY <3>2 DEF Held
  <2> QED
    BY <1>1, <2>2, <2>3
<1>6. SameList(dpb, dpb')
  BY <1>5 DEF SameList
<1>7. ListShows(dpb', coded, Reached) /\ ListDiffers(dpb')
      /\ ListKeeps(dpb', coded, references, Reached)
  BY <1>1, <1>2, <1>6, SameListKeeps DEF ListInv
<1>8. phase' \in {"flush", "output2"} /\ (phase' = "flush" <=> FlushesList(nal))
  BY <1>1
<1>9. MemoryInv'
  BY <1>1, <1>2, <1>4, <1>5, <1>8 DEF MemoryInv
<1>10. ListInv'
  <2>1. \A s \in Held(dpb') : IF s = curPic' THEN dpb'[s].ref ELSE dpb'[s].ref => dpb'[s].recon
    BY <1>1, <1>2, <1>5 DEF ListInv, SamePicture
  <2>2. Ahead /\ coded[Len(coded)].starts => phase' = "flush"
    <3>1. Ahead => newPicture /\ nal.kind = "slice"
      BY <1>1 DEF Ahead
    <3>2. Ahead /\ coded[Len(coded)].starts => nal.type \in IdrTypes \cup BlaTypes
      BY <3>1, SliceFacts, Basics DEF StartLaw
    <3> QED
      BY <1>8, <3>1, <3>2 DEF FlushesList
  <2> QED
    BY <1>1, <1>4, <1>7, <1>8, <2>1, <2>2 DEF ListInv
<1>11. OpenInv'
  <2>1. /\ Reached > 0 /\ ~newPicture /\ ~Ended => ~firstSliceInPicture
        /\ ~firstSliceInPicture /\ ~Ended =>
             Unfiltered(dpb, curPic, written) /\ sliceIdx = dpb[curPic].slices
    BY <1>1, <1>2 DEF OpenInv, OpenPhases
  <2>2. Ended' <=> (Ended /\ phase' = "output2")
    BY <1>1, <1>8 DEF Ended
  <2>3. phase' = "flush" => newPicture
    BY <1>8 DEF FlushesList
  <2>4. ~firstSliceInPicture /\ phase' = "output2" /\ ~Ended' =>
          Unfiltered(dpb', curPic, written) /\ sliceIdx = dpb'[curPic].slices
    BY <1>5, <2>1, <2>2 DEF Unfiltered, SamePicture
  <2> QED
    BY <1>1, <1>4, <1>8, <2>1, <2>2, <2>4 DEF OpenInv, OpenPhases
<1>12. HandedBackInv'
  <2>1. phase' = "flush" => newPicture /\ coded[Len(coded)].starts
    <3>1. phase' = "flush" => newPicture /\ nal.type \in IdrTypes \cup BlaTypes
      BY <1>8 DEF FlushesList
    <3>2. newPicture => nal.kind = "slice"
      BY <1>1, <1>2 DEF HandedBackInv
    <3> QED
      BY <3>1, <3>2, SliceFacts, Basics DEF StartLaw
  <2> QED
    BY <1>1, <1>2, <1>5, <1>8, <2>1 DEF HandedBackInv
<1>13. CurrentInv'
  BY <1>1, <1>2, <1>4, <1>5 DEF CurrentInv, SamePicture
<1>14. WrittenInv'
  BY <1>1, <1>2, <1>4, <1>5 DEF WrittenInv, SamePicture
<1>15. LastInv'
  BY <1>1, <1>2, <1>5, <1>8 DEF LastInv, Ended
<1>16. AllOutput => VanishInv'
  <2>1. AllOutput => dpb' = dpb /\ ~isNoOutputPriorPics'
    BY <1>1, <1>2 DEF VanishInv
  <2> QED
    BY <1>1, <1>2, <2>1 DEF VanishInv
<1> QED
  BY <1>4, <1>8, <1>9, <1>10, <1>11, <1>12, <1>13, <1>14, <1>15, <1>16 DEF DecoderInv

(* xWriteOutput() writes a picture that is marked, once.                   *)
LEMMA BumpKeeps ==
  ASSUME IInv, UNCHANGED streamVars, Bump
  PROVE  DecoderInv'
<1>1. PICK s \in Slots :
        /\ IsFirst(dpb, s, ToDisplay(dpb))
        /\ written' = Append(written, Shown(dpb[s]))
        /\ dpb' = [dpb EXCEPT ![s] = Displayed(@)]
  BY DEF Bump
<1>2. /\ UNCHANGED <<nal, last, coded, references, newPicture, pilot, refPics, prevTid0POC,
                     craNoRaslOutputFlag, isNoOutputPriorPics, prevSliceSkipped, skippedPOC,
                     iSkipFrame, pocCRA, associatedIRAPType, prevPOC, pocRandomAccess,
                     prefixSEIs, curPic, sliceIdx, firstSliceInPicture,
                     firstSliceInSequence, listSet, loopFiltered>>
      /\ phase \in {"bump1", "bump2"} /\ phase' = phase
  BY DEF Bump, streamVars
<1>3. MemoryInv /\ ListInv /\ OpenInv /\ HandedBackInv /\ CurrentInv /\ WrittenInv
      /\ LastInv /\ (AllOutput => VanishInv) /\ TypeOK
  BY DEF IInv, DecoderInv, Inv
<1>4. QuietStep
  BY <1>2 DEF QuietStep, QuietPhases, Bump
<1>5. /\ (Ahead' <=> Ahead) /\ Reached' = Reached /\ coded' = coded
      /\ IrapInv' /\ AnchorInv' /\ PilotInv' /\ RefPicsInv'
  BY <1>4, QuietStepKeeps
<1>6. s \in Held(dpb) /\ dpb[s].out
  BY <1>1 DEF IsFirst, ToDisplay
<1>7. /\ Held(dpb') = Held(dpb)
      /\ \A t \in Held(dpb) : /\ SamePicture(dpb[t], dpb'[t])
                              /\ dpb[t].recon /\ dpb[t].ref => dpb'[t].recon
                              /\ t # s => dpb'[t] = dpb[t]
      /\ ~dpb'[s].out
  <2>1. \A t \in Slots : dpb[t] \in Picture /\ dpb \in [Slots -> Picture]
    BY <1>3 DEF TypeOK, ObjectsOK
  <2>2. \A t \in Slots : dpb'[t] = IF t = s THEN Displayed(dpb[t]) ELSE dpb[t]
    BY <1>1, <2>1
  <2>3. \A t \in Slots : /\ SamePicture(dpb[t], dpb'[t])
                         /\ dpb[t].recon /\ dpb[t].ref => dpb'[t].recon
                         /\ dpb'[t].pos = dpb[t].pos
    <3>1. ASSUME NEW p \in Picture
          PROVE  /\ SamePicture(p, Displayed(p)) /\ Displayed(p).pos = p.pos
                 /\ Displayed(p).recon = (p.ref /\ p.recon)
      BY DEF SamePicture, Picture, Displayed
    <3>2. ASSUME NEW p \in Picture PROVE SamePicture(p, p)
      BY DEF SamePicture
    <3>3. ASSUME NEW t \in Slots
          PROVE  /\ SamePicture(dpb[t], dpb'[t]) /\ dpb'[t].pos = dpb[t].pos
                 /\ dpb[t].recon /\ dpb[t].ref => dpb'[t].recon
      <4>1. CASE t = s
        <5>1. dpb[t] \in Picture /\ dpb'[t] = Displayed(dpb[t])
          BY <2>1, <2>2, <4>1
        <5> HIDE DEF Displayed
        <5>2. SamePicture(dpb[t], dpb'[t]) /\ dpb'[t].pos = dpb[t].pos
          BY <3>1, <5>1
        <5>3. dpb'[t].recon = (dpb[t].ref /\ dpb[t].recon)
          BY <3>1, <5>1
        <5> QED
          BY <5>2, <5>3
      <4>2. CASE t # s
        BY <2>1, <2>2, <3>2, <4>2
      <4> QED
        BY <4>1, <4>2
    <3> QED
      BY <3>3
  <2>4. ~dpb'[s].out
    BY <2>1, <2>2 DEF Picture, Displayed
  <2> QED
    BY <2>2, <2>3, <2>4 DEF Held
<1>8. SameList(dpb, dpb')
  BY <1>7 DEF SameList
<1>9. ListShows(dpb', coded, Reached) /\ ListDiffers(dpb')
      /\ ListKeeps(dpb', coded, references, Reached)
  BY <1>2, <1>3, <1>8, SameListKeeps DEF ListInv
<1>10. MemoryInv'
  BY <1>2, <1>3, <1>5, <1>7 DEF MemoryInv
<1>11. ListInv'
  <2>1. \A t \in Held(dpb') : IF t = curPic' THEN dpb'[t].ref ELSE dpb'[t].ref => dpb'[t].recon
    BY <1>2, <1>3, <1>7 DEF ListInv, SamePicture
  <2> QED
    BY <1>2, <1>3, <1>5, <1>7, <1>9, <2>1 DEF ListInv
<1>12. PICK k \in 1..Reached : dpb[s].ids = {k} /\ Shown(dpb[s]) = [ids |-> {k}, poc |-> dpb[s].poc]
  <2>1. PICK k \in 1..Reached : Shows(dpb[s], coded, k)
    BY <1>3, <1>6 DEF ListInv, ListShows
  <2> QED
    BY <2>1 DEF Shown, Shows
<1>13. /\ written \in Seq([ids : SUBSET Nat, poc : Int])
       /\ written' \in Seq([ids : SUBSET Nat, poc : Int])
       /\ Len(written) \in Nat
       /\ DOMAIN written = 1..Len(written) /\ DOMAIN written' = 1..Len(written) + 1
       /\ \A i \in DOMAIN written : written'[i] = written[i]
       /\ written'[Len(written) + 1].ids = {k}
  <2>1. dpb[s].poc \in Int
    BY <1>3 DEF TypeOK, ObjectsOK, Picture
  <2>2. Shown(dpb[s]) \in [ids : SUBSET Nat, poc : Int] /\ Shown(dpb[s]).ids = {k}
    BY <1>12, <2>1
  <2> HIDE DEF Shown
  <2> QED
    BY <1>1, <1>3, <2>2 DEF WrittenInv
<1>14. \A i \in DOMAIN written : written[i].ids # {k}
  BY <1>3, <1>6, <1>12 DEF WrittenInv
<1>15. OpenInv'
  <2>1. /\ Reached > 0 /\ ~newPicture /\ phase = "bump2" /\ ~Ended => ~firstSliceInPicture
        /\ ~firstSliceInPicture /\ phase = "bump2" /\ ~Ended =>
             Unfiltered(dpb, curPic, written) /\ sliceIdx = dpb[curPic].slices
    BY <1>2, <1>3 DEF OpenInv, OpenPhases
  <2>2. Ended' <=> Ended
    BY <1>2 DEF Ended
  <2>3. Unfiltered(dpb, curPic, written) => Unfiltered(dpb', curPic, written')
    <3> SUFFICES ASSUME Unfiltered(dpb, curPic, written)
                 PROVE  Unfiltered(dpb', curPic, written')
      OBVIOUS
    <3>1. curPic \in Held(dpb) /\ curPic # s /\ dpb'[curPic] = dpb[curPic]
      BY <1>6, <1>7 DEF Unfiltered
    <3>2. dpb[curPic].ids # {k}
      BY <1>3, <1>6, <1>12, <3>1 DEF ListInv, ListDiffers
    <3>3. \A i \in DOMAIN written' : written'[i].ids # dpb[curPic].ids
      <4>1. \A i \in DOMAIN written : written[i].ids # dpb[curPic].ids
        BY DEF Unfiltered
      <4>2. \A i \in DOMAIN written' :
              i = Len(written) + 1 \/ (i \in DOMAIN written /\ written'[i] = written[i])
        BY <1>13
      <4>3. written'[Len(written) + 1].ids # dpb[curPic].ids
        BY <1>13, <3>2
      <4> QED
        BY <4>1, <4>2, <4>3
    <3> QED
      BY <1>7, <3>1, <3>3 DEF Unfiltered
  <2>4. ~firstSliceInPicture /\ phase' = "bump2" /\ ~Ended' =>
          Unfiltered(dpb', curPic, written') /\ sliceIdx = dpb'[curPic].slices
    BY <1>2, <1>7, <2>1, <2>2, <2>3 DEF Unfiltered, SamePicture
  <2> QED
    BY <1>2, <1>5, <2>1, <2>2, <2>4 DEF OpenInv, OpenPhases
<1>16. HandedBackInv'
  BY <1>2, <1>3, <1>7 DEF HandedBackInv, ListInv
<1>17. CurrentInv'
  <2>1. \A t \in Held(dpb) : t \in Held(dpb') /\ dpb'[t].ids = dpb[t].ids
    BY <1>7 DEF SamePicture
  <2>2. CurrentInv
    BY <1>3
  <2>3. /\ phase \notin {"final", "done"}
        /\ (Ahead' <=> Ahead) /\ UNCHANGED <<coded, curPic, prevSliceSkipped, skippedPOC>>
    BY <1>2, <1>5
  <2> QED
    BY <2>1, <2>2, <2>3 DEF CurrentInv
<1>18. WrittenInv'
  <2>1. \A i \in DOMAIN written' : \E j \in 1..Reached : written'[i].ids = {j}
    <3>1. \A i \in DOMAIN written : \E j \in 1..Reached : written[i].ids = {j}
      BY <1>3 DEF WrittenInv
    <3>2. \A i \in DOMAIN written' :
            i = Len(written) + 1 \/ (i \in DOMAIN written /\ written'[i] = written[i])
      BY <1>13
    <3>3. k \in 1..Reached /\ written'[Len(written) + 1].ids = {k}
      BY <1>12, <1>13
    <3> QED
      BY <3>1, <3>2, <3>3
  <2>2. \A i, j \in DOMAIN written' : written'[i].ids = written'[j].ids => i = j
    <3> DEFINE l == Len(written) + 1
    <3>1. \A i \in DOMAIN written' : i = l \/ (i \in DOMAIN written /\ written'[i] = written[i])
      BY <1>13
    <3>2. written'[l].ids = {k}
      BY <1>13
    <3>3. \A i, j \in DOMAIN written : written[i].ids = written[j].ids => i = j
      BY <1>3 DEF WrittenInv
    <3> HIDE DEF l
    <3> QED
      BY <1>14, <3>1, <3>2, <3>3
  <2>3. \A t \in Held(dpb'), i \in DOMAIN written' :
          dpb'[t].ids = written'[i].ids => ~dpb'[t].out
    <3>1. ~dpb'[s].out
      BY <1>7
    <3>2. ASSUME NEW t \in Held(dpb), t # s, NEW i \in DOMAIN written',
                 dpb[t].ids = written'[i].ids
          PROVE  ~dpb[t].out
      <4>1. dpb[t].ids # {k}
        BY <1>3, <1>6, <1>12, <3>2 DEF ListInv, ListDiffers
      <4>2. i \in DOMAIN written /\ written'[i] = written[i]
        BY <1>13, <3>2, <4>1
      <4> QED
        BY <1>3, <3>2, <4>2 DEF WrittenInv
    <3> QED
      BY <1>7, <3>1, <3>2 DEF SamePicture
  <2> QED
    BY <1>5, <1>13, <2>1, <2>2, <2>3 DEF WrittenInv
<1>19. LastInv'
  BY <1>2, <1>3, <1>7 DEF LastInv, Ended, ListInv
<1>20. AllOutput => VanishInv'
  <2>1. Len(written) + 1 \in DOMAIN written' /\ written'[Len(written) + 1].ids = dpb'[s].ids
    <3>1. dpb'[s].ids = {k}
      BY <1>6, <1>7, <1>12 DEF SamePicture
    <3> QED
      BY <1>13, <3>1
  <2>2. \A i \in DOMAIN written : i \in DOMAIN written' /\ written'[i] = written[i]
    BY <1>13
  <2> QED
    BY <1>2, <1>3, <1>7, <2>1, <2>2 DEF VanishInv
<1> QED
  BY <1>2, <1>3, <1>5, <1>10, <1>11, <1>15, <1>16, <1>17, <1>18, <1>19, <1>20 DEF DecoderInv

(* xFlushOutput() writes and deletes pictures nobody refers to any more.   *)
LEMMA FlushPictureKeeps ==
  ASSUME IInv, UNCHANGED streamVars, FlushPicture
  PROVE  DecoderInv'
<1>1. PICK s \in Slots :
        /\ IsFirst(dpb, s, Held(dpb))
        /\ written' = IF dpb[s].out THEN Append(written, Shown(dpb[s])) ELSE written
        /\ dpb' = [dpb EXCEPT ![s] = NewPicture]
  BY DEF FlushPicture
<1>2. /\ UNCHANGED <<nal, last, coded, references, newPicture, pilot, refPics, prevTid0POC,
                     craNoRaslOutputFlag, isNoOutputPriorPics, prevSliceSkipped, skippedPOC,
                     iSkipFrame, pocCRA, associatedIRAPType, prevPOC, pocRandomAccess,
                     prefixSEIs, curPic, sliceIdx, firstSliceInPicture,
                     firstSliceInSequence, listSet, loopFiltered>>
      /\ phase \in {"flush", "final"} /\ phase' = phase
  BY DEF FlushPicture, streamVars
<1>3. MemoryInv /\ ListInv /\ OpenInv /\ HandedBackInv /\ CurrentInv /\ WrittenInv
      /\ LastInv /\ (AllOutput => VanishInv) /\ TypeOK
  BY DEF IInv, DecoderInv, Inv
<1>4. QuietStep
  BY <1>2 DEF QuietStep, QuietPhases, FlushPicture
<1>5. /\ (Ahead' <=> Ahead) /\ Reached' = Reached /\ coded' = coded
      /\ IrapInv' /\ AnchorInv' /\ PilotInv' /\ RefPicsInv'
  BY <1>4, QuietStepKeeps
<1>6. s \in Held(dpb)
  BY <1>1 DEF IsFirst
<1>7. /\ Held(dpb') = Held(dpb) \ {s}
      /\ \A t \in Held(dpb') : t \in Held(dpb) /\ dpb'[t] = dpb[t]
  <2>1. dpb \in [Slots -> Picture]
    BY <1>3 DEF TypeOK, ObjectsOK
  <2>2. \A t \in Slots : dpb'[t] = IF t = s THEN NewPicture ELSE dpb[t]
    BY <1>1, <2>1
  <2>3. ~(dpb'[s].pos > 0)
    BY <2>2, NewPictureType
  <2> QED
    BY <2>2, <2>3 DEF Held
<1>8. phase = "flush" => /\ newPicture /\ firstSliceInPicture /\ coded[Len(coded)].starts
                         /\ Ahead /\ Len(coded) \in Nat /\ Reached = Len(coded) - 1
                         /\ references = {Len(coded)}
  <2>1. phase = "flush" => /\ newPicture /\ firstSliceInPicture /\ coded[Len(coded)].starts
                           /\ nal.kind = "slice" /\ nal.first
    BY <1>3 DEF HandedBackInv
  <2>2. phase = "flush" => Ahead
    BY <2>1 DEF Ahead
  <2>3. Len(coded) > 0 /\ coded[Len(coded)].starts => references = {Len(coded)}
    BY DEF IInv, SourceInv, RefsLaw
  <2> QED
    BY <2>1, <2>2, <2>3, Basics
<1>9. MemoryInv'
  BY <1>2, <1>3, <1>5, <1>7 DEF MemoryInv
<1>10. ListInv'
  <2>1. ListShows(dpb', coded, Reached) /\ ListDiffers(dpb')
    BY <1>3, <1>7 DEF ListInv, ListShows, ListDiffers
  <2>2. phase = "flush" => ListKeeps(dpb', coded, references, Reached)
    BY <1>8 DEF ListKeeps
  <2>3. \A t \in Held(dpb') : IF t = curPic' THEN dpb'[t].ref ELSE dpb'[t].ref => dpb'[t].recon
    BY <1>2, <1>3, <1>7 DEF ListInv
  <2> QED
    BY <1>2, <1>5, <2>1, <2>2, <2>3 DEF ListInv
<1>11. OpenInv'
  BY <1>2 DEF OpenInv, OpenPhases
<1>12. HandedBackInv'
  BY <1>2, <1>3, <1>7 DEF HandedBackInv
<1>13. CurrentInv'
  BY <1>2, <1>5, <1>8 DEF CurrentInv
<1>14. PICK k \in 1..Reached : dpb[s].ids = {k} /\ Shown(dpb[s]) = [ids |-> {k}, poc |-> dpb[s].poc]
  <2>1. PICK k \in 1..Reached : Shows(dpb[s], coded, k)
    BY <1>3, <1>6 DEF ListInv, ListShows
  <2> QED
    BY <2>1 DEF Shown, Shows
<1> DEFINE l == Len(written) + 1
<1>15. /\ written \in Seq([ids : SUBSET Nat, poc : Int])
       /\ written' \in Seq([ids : SUBSET Nat, poc : Int])
       /\ \A i \in DOMAIN written : i \in DOMAIN written' /\ written'[i] = written[i]
       /\ \A i \in DOMAIN written' : i \in DOMAIN written \/ (dpb[s].out /\ i = l)
       /\ dpb[s].out => l \in DOMAIN written' /\ written'[l].ids = {k}
  <2>1. dpb[s].poc \in Int
    BY <1>3 DEF TypeOK, ObjectsOK, Picture
  <2>2. Shown(dpb[s]) \in [ids : SUBSET Nat, poc : Int] /\ Shown(dpb[s]).ids = {k}
    BY <1>14, <2>1
  <2>3. written \in Seq([ids : SUBSET Nat, poc : Int])
    BY <1>3 DEF WrittenInv
  <2> HIDE DEF Shown
  <2>4. CASE dpb[s].out
    BY <1>1, <2>2, <2>3, <2>4
  <2>5. CASE ~dpb[s].out
    BY <1>1, <2>3, <2>5
  <2> QED
    BY <2>4, <2>5
<1> HIDE DEF l
<1>16. WrittenInv'
  <2>1. dpb[s].out => \A i \in DOMAIN written : written[i].ids # {k}
    BY <1>3, <1>6, <1>14 DEF WrittenInv
  <2>2. \A i \in DOMAIN written' : \E j \in 1..Reached : written'[i].ids = {j}
    <3>1. \A i \in DOMAIN written : \E j \in 1..Reached : written[i].ids = {j}
      BY <1>3 DEF WrittenInv
    <3>2. ASSUME NEW i \in DOMAIN written' PROVE \E j \in 1..Reached : written'[i].ids = {j}
      <4>1. CASE i \in DOMAIN written
        BY <1>15, <3>1, <4>1
      <4>2. CASE i \notin DOMAIN written
        BY <1>14, <1>15, <4>2
      <4> QED
        BY <4>1, <4>2
    <3> QED
      BY <3>2
  <2>3. \A i, j \in DOMAIN written' : written'[i].ids = written'[j].ids => i = j
    <3>1. \A i, j \in DOMAIN written : written[i].ids = written[j].ids => i = j
      BY <1>3 DEF WrittenInv
    <3> QED
      BY <1>15, <2>1, <3>1
  <2>4. ASSUME NEW t \in Held(dpb'), NEW i \in DOMAIN written', dpb'[t].ids = written'[i].ids
        PROVE  ~dpb'[t].out
    <3>1. dpb'[t] = dpb[t] /\ t \in Held(dpb) /\ t # s
      BY <1>7, <2>4
    <3>2. dpb[t].ids # {k}
      BY <1>3, <1>6, <1>14, <3>1 DEF ListInv, ListDiffers
    <3>3. i \in DOMAIN written /\ written'[i] = written[i]
      BY <1>15, <2>4, <3>1, <3>2
    <3> QED
      BY <1>3, <2>4, <3>1, <3>3 DEF WrittenInv
  <2> QED
    BY <1>5, <1>15, <2>2, <2>3, <2>4 DEF WrittenInv
<1>17. LastInv'
  BY <1>2, <1>3, <1>7 DEF LastInv, Ended
<1>18. AllOutput => VanishInv'
  BY <1>2, <1>3, <1>7, <1>15 DEF VanishInv
<1> QED
  BY <1>2, <1>3, <1>5, <1>9, <1>10, <1>11, <1>12, <1>13, <1>16, <1>17, <1>18 DEF DecoderInv

(* Sorting moves pictures and resets their current slice.                  *)
LEMMA SortedKeeps ==
  ASSUME NEW d \in List, \A s \in Held(d) : d[s].poc = d[s].poc0
  PROVE  /\ Held(Sorted(d)) = Held(d)
         /\ \A s \in Held(d) : /\ SamePicture(d[s], Sorted(d)[s])
                               /\ Sorted(d)[s].recon = d[s].recon
                               /\ Sorted(d)[s].out = d[s].out
<1> DEFINE precedes(s, t) == \/ d[s].poc0 < d[t].poc0
                             \/ d[s].poc0 = d[t].poc0 /\ d[s].pos >= d[t].pos
           place(t) == Cardinality({s \in Held(d) : precedes(s, t)})
<1>1. Held(Sorted(d)) = Held(d)
  BY SortedType
<1>2. CASE Size(d) < 2
  BY <1>2 DEF Sorted, SamePicture
<1>3. CASE ~(Size(d) < 2)
  <2> HIDE DEF place
  <2>1. Sorted(d) = [t \in Slots |->
                       IF t \in Held(d)
                         THEN [d[t] EXCEPT !.pos = place(t), !.poc = d[t].poc0]
                         ELSE d[t]]
    BY <1>3 DEF Sorted, place
  <2>2. ASSUME NEW s \in Held(d)
        PROVE  /\ SamePicture(d[s], Sorted(d)[s])
               /\ Sorted(d)[s].recon = d[s].recon /\ Sorted(d)[s].out = d[s].out
    <3>1. Sorted(d)[s] = [d[s] EXCEPT !.pos = place(s), !.poc = d[s].poc0]
      BY <2>1, HeldIsSlot
    <3>2. d[s] \in Picture /\ d[s].poc = d[s].poc0
      BY HeldIsSlot DEF List
    <3> QED
      BY <3>1, <3>2 DEF SamePicture, Picture
  <2> QED
    BY <1>1, <2>2
<1> QED
  BY <1>1, <1>2, <1>3

(* executeLoopFilters(): the open picture is reconstructed and marked.     *)
LEMMA FilteredKeeps ==
  ASSUME IInv, curPic \in Held(dpb)
  PROVE  /\ Held(Filtered) = Held(dpb)
         /\ \A s \in Held(dpb) : SamePicture(dpb[s], Filtered[s])
         /\ \A s \in Held(dpb) : s # curPic => /\ Filtered[s].recon = dpb[s].recon
                                               /\ Filtered[s].out = dpb[s].out
         /\ Filtered[curPic].recon /\ Filtered[curPic].out = dpb[curPic].pof
<1> DEFINE d == [dpb EXCEPT ![curPic].out = dpb[curPic].pof, ![curPic].recon = TRUE]
<1>1. dpb \in List /\ curPic \in Slots
  BY HeldIsSlot DEF IInv, Inv, TypeOK, ObjectsOK, List
<1>2. \A s \in Slots : d[s] = IF s = curPic THEN [dpb[s] EXCEPT !.out = dpb[s].pof, !.recon = TRUE]
                                           ELSE dpb[s]
  BY <1>1 DEF List
<1>3. \A s \in Slots : /\ d[s] \in Picture /\ SamePicture(dpb[s], d[s]) /\ d[s].pos = dpb[s].pos
                       /\ s # curPic => d[s] = dpb[s]
                       /\ s = curPic => d[s].recon = TRUE /\ d[s].out = dpb[s].pof
  <2>1. ASSUME NEW p \in Picture, NEW q, q = [p EXCEPT !.out = p.pof, !.recon = TRUE]
        PROVE  q \in Picture /\ SamePicture(p, q) /\ q.pos = p.pos /\ q.recon = TRUE
    BY <2>1 DEF Picture, SamePicture
  <2>2. ASSUME NEW p \in Picture, NEW q, q = [p EXCEPT !.out = p.pof, !.recon = TRUE]
        PROVE  q.out = p.pof
    BY <2>2 DEF Picture
  <2>3. \A s \in Slots : dpb[s] \in Picture /\ SamePicture(dpb[s], dpb[s])
    BY <1>1 DEF List, SamePicture
  <2>4. /\ d[curPic] \in Picture /\ SamePicture(dpb[curPic], d[curPic])
        /\ d[curPic].pos = dpb[curPic].pos /\ d[curPic].recon = TRUE
    <3>1. /\ dpb[curPic] \in Picture
          /\ d[curPic] = [dpb[curPic] EXCEPT !.out = dpb[curPic].pof, !.recon = TRUE]
      BY <1>1, <1>2, <2>3
    <3> HIDE DEF d
    <3> QED
      BY <2>1, <3>1
  <2>5. d[curPic].out = dpb[curPic].pof
    BY <1>1, <1>2, <2>2, <2>3
  <2>6. \A s \in Slots : s # curPic => d[s] = dpb[s]
    BY <1>2
  <2> HIDE DEF d
  <2> QED
    BY <2>3, <2>4, <2>5, <2>6
<1>4. d \in List
  BY <1>1, <1>3 DEF List
<1>5. Filtered = Sorted(d)
  BY DEF Filtered
<1> HIDE DEF d
<1>6. Held(d) = Held(dpb)
  BY <1>3 DEF Held
<1>7. \A s \in Held(dpb) : dpb[s].poc = dpb[s].poc0
  BY DEF IInv, DecoderInv, ListInv, ListShows, Shows
<1>8. \A s \in Held(d) : d[s].poc = d[s].poc0
  BY <1>3, <1>6, <1>7, HeldIsSlot DEF SamePicture
<1>9. /\ Held(Sorted(d)) = Held(d)
      /\ \A s \in Held(d) : /\ SamePicture(d[s], Sorted(d)[s])
                            /\ Sorted(d)[s].recon = d[s].recon
                            /\ Sorted(d)[s].out = d[s].out
  BY <1>4, <1>8, SortedKeeps
<1>10. \A s \in Held(dpb) : SamePicture(dpb[s], Sorted(d)[s])
  BY <1>3, <1>6, <1>9, HeldIsSlot DEF SamePicture
<1> QED
  BY <1>3, <1>5, <1>6, <1>9, <1>10, HeldIsSlot

(* A picture that is over is filtered; a picture that is not stays open.   *)
LEMMA FinishPictureKeeps ==
  ASSUME IInv, UNCHANGED streamVars, FinishPicture(nal, last)
  PROVE  DecoderInv'
<1> DEFINE over == newPicture \/ last
<1>1. nal.kind # "EOS" /\ ~loopFiltered /\ last \in BOOLEAN
  BY DEF IInv, Intact, Inv, TypeOK, StreamTypeOK, SourceInv, NalLaw, DecoderInv, MemoryInv
<1>2. /\ UNCHANGED <<nal, last, coded, references, newPicture, pilot, refPics, prevTid0POC,
                     craNoRaslOutputFlag, isNoOutputPriorPics, prevSliceSkipped, skippedPOC,
                     iSkipFrame, pocCRA, associatedIRAPType, prevPOC, pocRandomAccess,
                     prefixSEIs, curPic, sliceIdx, written>>
      /\ phase = "returned"
  BY DEF FinishPicture, streamVars
<1>3. (IsOver(nal, last) <=> over) /\ (Filters(nal, last) <=> over /\ ~firstSliceInSequence)
  BY <1>1 DEF IsOver, Filters, FileIsGood
<1>4. /\ dpb' = IF over /\ ~firstSliceInSequence THEN Filtered ELSE dpb
      /\ listSet' = (listSet \/ (over /\ ~firstSliceInSequence))
      /\ firstSliceInPicture' = IF over THEN TRUE ELSE firstSliceInPicture
      /\ loopFiltered' = FALSE
      /\ firstSliceInSequence' = firstSliceInSequence
      /\ phase' = IF ~listSet' THEN NextPhase(last) ELSE IF newPicture THEN "bump1" ELSE "prior"
  <2> HIDE DEF over
  <2>1. /\ dpb' = IF over /\ ~firstSliceInSequence THEN Filtered ELSE dpb
        /\ listSet' = (listSet \/ (over /\ ~firstSliceInSequence))
    BY <1>3 DEF FinishPicture
  <2>2. /\ firstSliceInPicture' =
             IF (over /\ ~firstSliceInSequence) \/ (over /\ firstSliceInSequence)
               THEN TRUE ELSE firstSliceInPicture
        /\ loopFiltered' = IF over /\ ~firstSliceInSequence THEN nal.kind = "EOS" ELSE loopFiltered
    BY <1>3 DEF FinishPicture
  <2>3. /\ firstSliceInSequence' = (firstSliceInSequence \/ (over /\ nal.kind = "EOS"))
        /\ phase' = IF ~listSet' THEN NextPhase(last) ELSE IF newPicture THEN "bump1" ELSE "prior"
    BY <1>3 DEF FinishPicture
  <2>4. firstSliceInSequence \in BOOLEAN /\ loopFiltered = FALSE
    BY <1>1 DEF IInv, Inv, TypeOK, FlagsOK
  <2> QED
    BY <1>1, <2>1, <2>2, <2>3, <2>4
<1>5. MemoryInv /\ ListInv /\ OpenInv /\ HandedBackInv /\ CurrentInv /\ WrittenInv
      /\ LastInv /\ (AllOutput => VanishInv) /\ TypeOK
  BY DEF IInv, DecoderInv, Inv
<1>6. /\ firstSliceInSequence <=> Reached = 0
      /\ Reached = 0 => Held(dpb) = {} /\ ~newPicture
      /\ Reached > 0 => /\ ~firstSliceInPicture /\ Unfiltered(dpb, curPic, written)
                        /\ sliceIdx = dpb[curPic].slices
      /\ Reached \in Nat
  BY <1>2, <1>5, Basics DEF MemoryInv, OpenInv, Ended
<1>7. /\ newPicture => phase' = "bump1" /\ over /\ Reached > 0
      /\ ~newPicture => phase' \in {"prior", IF last THEN "final" ELSE "read"}
      /\ over /\ Reached > 0 => phase' \in {"bump1", "prior"} /\ listSet'
      /\ phase' \in {"bump1", "prior", "flush"} => listSet'
  <2>1. newPicture \in BOOLEAN /\ listSet \in BOOLEAN
    BY <1>5 DEF TypeOK, FlagsOK
  <2>2. Reached > 0 /\ over => listSet' = TRUE
    <3>1. Reached > 0 => ~firstSliceInSequence
      BY <1>6
    <3>2. over /\ ~firstSliceInSequence => listSet'
      BY <1>4, Zenon
    <3>3. listSet' = (listSet \/ (over /\ ~firstSliceInSequence))
      BY <1>4
    <3> QED
      BY <3>1, <3>2, <3>3
  <2>3. newPicture => over /\ Reached > 0
    BY <1>6
  <2>4. newPicture => phase' = "bump1"
    BY <1>4, <2>2, <2>3
  <2>5. ~newPicture => IF listSet' THEN phase' = "prior"
                       ELSE phase' = IF last THEN "final" ELSE "read"
    BY <1>4 DEF NextPhase
  <2> HIDE DEF over
  <2> QED
    BY <2>1, <2>2, <2>3, <2>4, <2>5
<1>8. QuietStep
  BY <1>2, <1>4, <1>7 DEF QuietStep, QuietPhases, FinishPicture
<1>9. /\ (Ahead' <=> Ahead) /\ Reached' = Reached /\ coded' = coded
      /\ IrapInv' /\ AnchorInv' /\ PilotInv' /\ RefPicsInv'
  BY <1>8, QuietStepKeeps
<1>10. /\ Held(dpb') = Held(dpb)
       /\ \A s \in Held(dpb) : SamePicture(dpb[s], dpb'[s])
       /\ \A s \in Held(dpb) : s # curPic => dpb'[s].recon = dpb[s].recon /\ dpb'[s].out = dpb[s].out
       /\ ~over => dpb' = dpb
       /\ over /\ Reached > 0 => dpb'[curPic].recon /\ dpb'[curPic].out = dpb[curPic].pof
  <2>1. CASE over /\ Reached > 0
    <3>1. curPic \in Held(dpb) /\ dpb' = Filtered
      BY <1>4, <1>6, <2>1 DEF Unfiltered
    <3> QED
      BY <2>1, <3>1, FilteredKeeps
  <2>2. CASE ~(over /\ Reached > 0)
    <3>1. dpb' = dpb
      BY <1>4, <1>6, <2>2
    <3> QED
      BY <2>2, <3>1 DEF SamePicture
  <2> QED
    BY <2>1, <2>2
<1> HIDE DEF over
<1>11. SameList(dpb, dpb')
  BY <1>10 DEF SameList
<1>12. ListShows(dpb', coded, Reached) /\ ListDiffers(dpb')
       /\ ListKeeps(dpb', coded, references, Reached)
  BY <1>2, <1>5, <1>11, SameListKeeps DEF ListInv
<1>13. phase' \in {"bump1", "prior", "read", "final"}
  BY <1>7
<1>14. MemoryInv'
  BY <1>2, <1>4, <1>5, <1>7, <1>9, <1>10 DEF MemoryInv
<1>15. ListInv'
  <2>1. \A s \in Held(dpb') : IF s = curPic' THEN dpb'[s].ref ELSE dpb'[s].ref => dpb'[s].recon
    BY <1>2, <1>5, <1>10 DEF ListInv, SamePicture
  <2> QED
    BY <1>2, <1>9, <1>12, <1>13, <2>1 DEF ListInv
<1>16. OpenInv'
  <2>1. Reached > 0 /\ ~newPicture /\ phase' # "final" /\ ~Ended' => ~over
    BY <1>2, <1>7, <1>13 DEF Ended, over
  <2>2. ~over => dpb' = dpb /\ firstSliceInPicture' = firstSliceInPicture
    BY <1>4, <1>10
  <2>3. ~firstSliceInPicture' => ~over
    BY <1>4
  <2>4. ~firstSliceInPicture => Reached > 0
    BY <1>5, <1>6 DEF MemoryInv
  <2> QED
    BY <1>2, <1>6, <1>9, <1>13, <2>1, <2>2, <2>3, <2>4 DEF OpenInv, OpenPhases
<1>17. HandedBackInv'
  BY <1>2, <1>4, <1>5, <1>7, <1>10, <1>13 DEF HandedBackInv
<1>18. CurrentInv'
  BY <1>2, <1>5, <1>9, <1>10 DEF CurrentInv, SamePicture
<1>19. WrittenInv'
  <2>1. ASSUME NEW s \in Held(dpb), NEW i \in DOMAIN written, dpb[s].ids = written[i].ids
        PROVE  ~dpb'[s].out
    <3>1. ~dpb[s].out
      BY <1>5, <2>1 DEF WrittenInv
    <3>2. Reached > 0 => s # curPic
      BY <1>6, <2>1 DEF Unfiltered
    <3>3. Reached = 0 => FALSE
      BY <1>6
    <3> QED
      BY <1>6, <1>10, <3>1, <3>2, <3>3
  <2>2. \A s \in Held(dpb) : dpb'[s].ids = dpb[s].ids
    BY <1>10 DEF SamePicture
  <2> QED
    BY <1>2, <1>5, <1>9, <1>10, <2>1, <2>2 DEF WrittenInv
<1>20. LastInv'
  <2>1. (phase' \in {"final", "done"} \/ Ended') => over
    BY <1>2, <1>7, <1>13 DEF Ended, over
  <2> QED
    BY <1>2, <1>6, <1>10, <2>1 DEF LastInv
<1>21. AllOutput => VanishInv'
  <2> SUFFICES ASSUME AllOutput PROVE VanishInv'
    OBVIOUS
  <2>1. over /\ Reached > 0 => dpb'[curPic].out
    <3>1. Reached > 0 => \E k \in 1..Reached : Shows(dpb[curPic], coded, k)
      BY <1>5, <1>6 DEF ListInv, ListShows, Unfiltered
    <3>2. \A k \in 1..Reached : coded[k].pof \in {TRUE}
      <4>1. \A k \in 1..Reached : k \in 1..Len(coded)
        BY Basics
      <4>2. \A k \in 1..Len(coded) : StartLaw(coded, k)
        BY Basics
      <4> QED
        BY <4>1, <4>2 DEF StartLaw, AllOutput
    <3> QED
      BY <1>10, <3>1, <3>2 DEF Shows
  <2>2. Reached = 0 => Held(dpb') = {}
    BY <1>6, <1>10
  <2> QED
    BY <1>2, <1>5, <1>6, <1>10, <2>1, <2>2 DEF VanishInv, SamePicture
<1> QED
  BY <1>9, <1>13, <1>14, <1>15, <1>16, <1>17, <1>18, <1>19, <1>20, <1>21 DEF DecoderInv

-----------------------------------------------------------------------------
(* What the decoder's steps leave of the invariants.                       *)

(* A picture is in its own sequence, and in the one before it unless it    *)
(* starts one.                                                             *)
LEMMA SequenceGoesOn ==
  ASSUME IInv, Ahead
  PROVE  /\ SameSequence(coded, Len(coded), Len(coded))
         /\ Len(coded) \notin Starts(coded) =>
              /\ \A k \in Nat : SameSequence(coded, k, Reached) => SameSequence(coded, k, Len(coded))
              /\ \A d : ListShows(d, coded, Reached) => ListShows(d, coded, Len(coded))
<1>1. /\ Starts(coded) \subseteq 1..Len(coded) /\ Len(coded) \in Nat /\ Len(coded) > 0
      /\ Reached = Len(coded) - 1
  BY Basics
<1>2. SameSequence(coded, Len(coded), Len(coded))
  BY <1>1 DEF SameSequence
<1> SUFFICES ASSUME Len(coded) \notin Starts(coded)
             PROVE  /\ \A k \in Nat : SameSequence(coded, k, Reached) => SameSequence(coded, k, Len(coded))
                    /\ \A d : ListShows(d, coded, Reached) => ListShows(d, coded, Len(coded))
  BY <1>2
<1>4. ASSUME NEW k \in Nat, SameSequence(coded, k, Reached)
      PROVE  SameSequence(coded, k, Len(coded))
  <2>1. k <= Len(coded)
    BY <1>1, <1>4 DEF SameSequence
  <2>2. ASSUME NEW m \in Starts(coded), k < m PROVE Len(coded) < m
    BY <1>1, <1>4, <2>2 DEF SameSequence
  <2> QED
    BY <2>1, <2>2 DEF SameSequence
<1>5. ASSUME NEW d, ListShows(d, coded, Reached) PROVE ListShows(d, coded, Len(coded))
  BY <1>1, <1>4, <1>5 DEF ListShows
<1> QED
  BY <1>4, <1>5

(* What is latest up to n, without n, is latest before it.                 *)
LEMMA LatestBefore ==
  ASSUME NEW S \in SUBSET Int, NEW n \in Int, n \notin S
  PROVE  \A i : IsLatest(S, i, n) <=> IsLatest(S, i, n - 1)
<1>1. \A m \in S : m <= n <=> m <= n - 1
  OBVIOUS
<1> QED
  BY <1>1 DEF IsLatest

(* A NAL unit that is read and not decoded.                                *)
PassStep ==
  /\ phase = "decode" /\ phase' = "returned" /\ ~newPicture /\ ~newPicture'
  /\ UNCHANGED <<streamVars, pictureVars, irapVars, firstVars, prevPOC, pocRandomAccess,
                 prevTid0POC, craNoRaslOutputFlag, iSkipFrame, appVars>>
  /\ prefixSEIs' > 0 => "SEI" \in Extras
  /\ isNoOutputPriorPics' => isNoOutputPriorPics
  /\ Ahead => LET n == Len(coded)
              IN /\ n \notin Iraps(coded) \cup Anchors(coded) \cup Starts(coded)
                 /\ n \in references => ~(coded[n].tid <= MaxTemporalLayer)

LEMMA PassStepKeeps ==
  ASSUME IInv, PassStep, CurrentInv'
  PROVE  DecoderInv'
<1> DEFINE n == Len(coded)
<1>1. /\ UNCHANGED <<nal, last, coded, references, prevTid0POC, refPics,
                     craNoRaslOutputFlag, iSkipFrame, pocCRA, associatedIRAPType, prevPOC,
                     pocRandomAccess, curPic, sliceIdx, firstSliceInPicture, dpb,
                     firstSliceInSequence, listSet, loopFiltered, written>>
      /\ phase = "decode" /\ phase' = "returned" /\ ~newPicture /\ ~newPicture'
      /\ prefixSEIs' > 0 => "SEI" \in Extras
      /\ isNoOutputPriorPics' => isNoOutputPriorPics
  BY DEF PassStep, streamVars
<1>2. MemoryInv /\ IrapInv /\ AnchorInv /\ ListInv /\ OpenInv /\ HandedBackInv /\ WrittenInv
      /\ RefPicsInv /\ LastInv /\ (AllOutput => VanishInv) /\ TypeOK
  BY DEF IInv, DecoderInv, Inv
<1>3. ~Ahead' /\ Reached' = n
  BY <1>1 DEF Ahead, Reached
<1>4. /\ n \in Nat /\ Reached \in Nat /\ (Reached = n \/ (Ahead /\ Reached = n - 1 /\ n > 0))
      /\ Iraps(coded) \subseteq Int /\ Anchors(coded) \subseteq Int
      /\ Starts(coded) \subseteq 1..n
  BY Basics
<1>5. Ahead => /\ n \notin Iraps(coded) /\ n \notin Anchors(coded) /\ n \notin Starts(coded)
               /\ n \in references => ~(coded[n].tid <= MaxTemporalLayer)
  BY DEF PassStep
<1>6. Reached = 0 <=> n = 0
  <2>1. Ahead => n # 1
    <3>1. Ahead /\ n = 1 => StartLaw(coded, n)
      BY Basics
    <3>2. Ahead /\ n = 1 => n \in Starts(coded)
      BY <3>1 DEF StartLaw, Starts
    <3> QED
      BY <1>5, <3>2
  <2> HIDE DEF n
  <2>2. CASE Ahead /\ Reached = n - 1 /\ n > 0
    BY <1>4, <2>1, <2>2
  <2>3. CASE Reached = n
    BY <2>3
  <2> QED
    BY <1>4, <2>2, <2>3
<1>7. \A i : /\ IsLatest(Iraps(coded), i, n) <=> IsLatest(Iraps(coded), i, Reached)
             /\ IsLatest(Anchors(coded), i, n) <=> IsLatest(Anchors(coded), i, Reached)
  BY <1>4, <1>5, LatestBefore
<1>8. /\ \A k \in Nat : SameSequence(coded, k, Reached) => SameSequence(coded, k, n)
      /\ ListShows(dpb, coded, Reached) => ListShows(dpb, coded, n)
  BY <1>4, <1>5, SequenceGoesOn
<1> HIDE DEF n
<1>9. MemoryInv'
  BY <1>1, <1>2, <1>3, <1>4, <1>6 DEF MemoryInv
<1>10. IrapInv'
  BY <1>1, <1>2, <1>3, <1>7 DEF IrapInv
<1>11. AnchorInv'
  BY <1>1, <1>2, <1>3, <1>5, <1>7 DEF AnchorInv, n
<1>12. ListInv'
  <2>1. ListShows(dpb, coded, n) /\ ListDiffers(dpb)
    BY <1>2, <1>8 DEF ListInv
  <2>2. ListKeeps(dpb, coded, references, n)
    <3>1. ListKeeps(dpb, coded, references, Reached)
      BY <1>1, <1>2 DEF ListInv
    <3>2. \A k \in references : k \in Nat
      BY <1>2 DEF TypeOK, StreamTypeOK
    <3>3. \A k \in references : k <= n /\ coded[k].tid <= MaxTemporalLayer => k <= Reached
      BY <1>4, <1>5, <3>2
    <3> QED
      BY <3>1, <3>3 DEF ListKeeps
  <2> QED
    BY <1>1, <1>2, <1>3, <2>1, <2>2 DEF ListInv
<1>13. OpenInv'
  <2>1. Reached > 0 => ~firstSliceInPicture
    BY <1>1, <1>2 DEF OpenInv, OpenPhases, Ended
  <2>2. ~firstSliceInPicture => Unfiltered(dpb, curPic, written) /\ sliceIdx = dpb[curPic].slices
    BY <1>1, <1>2 DEF OpenInv, OpenPhases, Ended
  <2> QED
    BY <1>1, <1>3, <1>4, <1>6, <2>1, <2>2 DEF OpenInv
<1>14. HandedBackInv'
  BY <1>1 DEF HandedBackInv
<1>15. PilotInv'
  BY <1>1 DEF PilotInv
<1>16. RefPicsInv'
  BY <1>1, <1>2, <1>3, <1>4, <1>8 DEF RefPicsInv
<1>17. WrittenInv'
  BY <1>1, <1>2, <1>3, <1>4 DEF WrittenInv
<1>18. LastInv'
  BY <1>1 DEF LastInv, Ended
<1>19. AllOutput => VanishInv'
  BY <1>1, <1>2 DEF VanishInv
<1> QED
  BY <1>1, <1>9, <1>10, <1>11, <1>12, <1>13, <1>14, <1>15, <1>16, <1>17, <1>18, <1>19
  DEF DecoderInv

(* A slice of a layer that is not decoded is no IRAP picture and no anchor. *)
LEMMA IgnoreLayerKeeps ==
  ASSUME IInv, UNCHANGED streamVars, IgnoreLayer(nal)
  PROVE  DecoderInv'
<1> DEFINE n == Len(coded)
<1>1. /\ phase = "decode" /\ IsNotDecoded(nal) /\ phase' = "returned" /\ ~newPicture'
      /\ UNCHANGED <<nal, coded>>
  BY DEF IgnoreLayer, Return, streamVars
<1>2. nal.kind = "slice"
  <2>1. nal.kind # "slice" => nal.tid = 0
    BY DEF IInv, SourceInv, NalLaw
  <2>2. MaxTemporalLayer \in Nat
    BY MaxTemporalLayerAssumption, MaxDecPicBufAssumption
  <2> QED
    BY <1>1, <2>1, <2>2 DEF IsNotDecoded
<1>3. ~(coded[n].tid <= MaxTemporalLayer) /\ n > 0
  BY <1>1, <1>2, SliceFacts
<1>4. ~newPicture
  BY <1>1 DEF IInv, DecoderInv, HandedBackInv
<1>5. n \notin Iraps(coded) \cup Anchors(coded) \cup Starts(coded)
  <2>1. coded[n].tid # 0
    BY <1>3, MaxTemporalLayerAssumption, MaxDecPicBufAssumption
  <2>2. n \in 1..n
    BY <1>3, Basics
  <2>3. StartLaw(coded, n) /\ Starts(coded) \subseteq Iraps(coded)
    BY <2>2, Basics
  <2> QED
    BY <2>1, <2>3 DEF StartLaw, Iraps, Anchors
<1>6. PassStep
  <2>1. prefixSEIs > 0 => "SEI" \in Extras
    BY DEF IInv, DecoderInv, MemoryInv
  <2> HIDE DEF n
  <2> QED
    BY <1>1, <1>3, <1>4, <1>5, <2>1 DEF IgnoreLayer, PassStep, n
<1>7. CurrentInv'
  <2>1. ~(coded'[Len(coded')].tid <= MaxTemporalLayer)
    BY <1>1, <1>3
  <2> QED
    BY <2>1 DEF CurrentInv
<1> QED
  BY <1>6, <1>7, PassStepKeeps

(* NAL units that are not slices.                                          *)
LEMMA OtherNalUnitKeeps ==
  ASSUME IInv, UNCHANGED <<streamVars, appVars>>,
         EndOfSequence(nal) \/ PrefixSEI(nal) \/ ReservedVcl(nal) \/ OtherNal(nal)
  PROVE  DecoderInv'
<1>1. nal.kind # "slice" /\ phase = "decode" /\ UNCHANGED <<nal, coded>>
  BY DEF EndOfSequence, PrefixSEI, ReservedVcl, OtherNal, streamVars
<1>2. /\ nal.kind \in Extras \cup {"NONE", "OTHER"}
      /\ "EOS" \notin Extras /\ ~({"SEI", "RSV"} \subseteq Extras)
      /\ prefixSEIs > 0 => "SEI" \in Extras
  BY <1>1 DEF IInv, Intact, SourceInv, NalLaw, DecoderInv, MemoryInv
<1>3. ~newPicture
  BY <1>1 DEF IInv, DecoderInv, HandedBackInv
<1>4. ~Ahead
  BY <1>1 DEF Ahead
<1>5. PassStep /\ UNCHANGED skipVars
  <2>1. CASE EndOfSequence(nal)
    BY <1>2, <2>1 DEF EndOfSequence
  <2>2. CASE PrefixSEI(nal)
    <3>1. "SEI" \in Extras
      BY <1>2, <2>2 DEF PrefixSEI
    <3> QED
      BY <1>3, <1>4, <2>2, <3>1 DEF PrefixSEI, Return, PassStep
  <2>3. CASE ReservedVcl(nal)
    <3>1. ~(prefixSEIs > 0)
      BY <1>2, <2>3 DEF ReservedVcl
    <3> QED
      BY <1>2, <1>3, <1>4, <2>3, <3>1 DEF ReservedVcl, Return, PassStep
  <2>4. CASE OtherNal(nal)
    BY <1>2, <1>3, <1>4, <2>4 DEF OtherNal, Return, PassStep
  <2> QED
    BY <2>1, <2>2, <2>3, <2>4
<1>6. CurrentInv'
  BY <1>1, <1>4, <1>5 DEF IInv, DecoderInv, CurrentInv, PassStep
<1> QED
  BY <1>5, <1>6, PassStepKeeps

(* The header of a slice of the last coded picture.                        *)
LEMMA SliceHeader ==
  ASSUME IInv, phase = "decode", nal.kind = "slice", ~IsNotDecoded(nal)
  PROVE  LET n == Len(coded)
             p == Pilot(nal)
         IN /\ p.id = n /\ p.dep = nal.dep /\ p.poc = coded[n].poc /\ p.type = coded[n].type
            /\ p.tid = coded[n].tid /\ p.rps = coded[n].rps /\ p.pof = coded[n].pof
            /\ p.irap = pocCRA /\ p.irapType = associatedIRAPType
            /\ UpdatedPrevTid0POC(nal, FinalPoc(nal)) =
                 IF n \in Anchors(coded) THEN coded[n].poc ELSE prevTid0POC
            /\ AllOutput => ~NoOutputPriorPics(nal)
<1> DEFINE n == Len(coded)
           p == Pilot(nal)
<1>1. /\ n > 0 /\ nal.id = n /\ nal.type = coded[n].type /\ nal.tid = coded[n].tid
      /\ nal.rps = coded[n].rps /\ nal.pof = coded[n].pof /\ nal.noPrior = coded[n].noPrior
      /\ nal \in SliceNal
  BY SliceFacts
<1>2. FinalPoc(nal) = coded[n].poc /\ CraNoRasl(nal) = FALSE
  BY HeaderPocIsRight
<1>3. n \in Nat /\ n \in 1..n /\ StartLaw(coded, n)
  BY <1>1, Basics
<1>4. coded[n].type \in IdrTypes \cup BlaTypes => coded[n].rps = {}
  <2> SUFFICES ASSUME coded[n].type \in IdrTypes \cup BlaTypes PROVE coded[n].rps = {}
    OBVIOUS
  <2>1. coded[n].starts /\ ~Undecodable(coded, n)
    BY <1>3 DEF StartLaw, Undecodable, IdrTypes, BlaTypes, RaslTypes
  <2>2. references = {n} /\ \E used \in SUBSET references : RpsLaw(coded, references, used)
    BY <1>1, <2>1 DEF IInv, SourceInv, RefsLaw
  <2>3. coded[n].rps = {[delta |-> coded[k].poc - coded[n].poc, used |-> FALSE] : k \in {}}
    BY <2>2 DEF RpsLaw
  <2> QED
    BY <2>3
<1>5. /\ p.id = n /\ p.dep = nal.dep /\ p.poc = coded[n].poc /\ p.type = coded[n].type
      /\ p.tid = coded[n].tid /\ p.irap = pocCRA /\ p.irapType = associatedIRAPType
      /\ p.rps = IF nal.type \in IdrTypes \cup BlaTypes THEN {} ELSE nal.rps
      /\ p.pof = PicOutputFlag(nal)
  <2> HIDE DEF n
  <2> QED
    BY <1>1, <1>2 DEF Pilot
<1>6. p.rps = coded[n].rps
  <2> HIDE DEF n, p
  <2> QED
    BY <1>1, <1>4, <1>5
<1>7. p.pof = coded[n].pof
  <2>1. PicOutputFlag(nal) = nal.pof
    <3>1. nal.pof \in BOOLEAN
      BY <1>1 DEF SliceNal
    <3> QED
      BY <1>2, <3>1, Zenon DEF PicOutputFlag
  <2> HIDE DEF n, p
  <2> QED
    BY <1>1, <1>5, <2>1
<1>8. UpdatedPrevTid0POC(nal, FinalPoc(nal)) = IF n \in Anchors(coded) THEN coded[n].poc ELSE prevTid0POC
  <2>1. n \in Anchors(coded) <=> nal.tid = 0 /\ nal.type \in AnchorTypes
    BY <1>1, <1>3 DEF Anchors
  <2> QED
    BY <1>2, <2>1 DEF UpdatedPrevTid0POC
<1>9. AllOutput => ~NoOutputPriorPics(nal)
  <2>1. AllOutput => nal.noPrior = FALSE
    BY <1>1, <1>3 DEF AllOutput, StartLaw
  <2>2. nal.type = "CRA" => ~NoRaslOutputFlag(nal)
    BY <1>2 DEF CraNoRasl
  <2> QED
    BY <2>1, <2>2 DEF NoOutputPriorPics
<1> HIDE DEF n, p
<1>10. p.id = n /\ p.dep = nal.dep /\ p.poc = coded[n].poc /\ p.type = coded[n].type
  BY <1>5
<1> QED
  BY <1>5, <1>6, <1>7, <1>8, <1>9, <1>10 DEF n, p

(* Nothing is skipped but the pictures that cannot be decoded.             *)
LEMMA SkippedPictures ==
  ASSUME IInv, phase = "decode", nal.kind = "slice", ~IsNotDecoded(nal)
  PROVE  /\ ~SkippedForRandomAccess(Pilot(nal))
         /\ SkippedForBla(Pilot(nal)) <=> Undecodable(coded, Len(coded))
         /\ RandomAccessPoc(Pilot(nal)) = -MaxInt
<1> DEFINE n == Len(coded)
           p == Pilot(nal)
<1>1. p.poc = coded[n].poc /\ p.type = coded[n].type
  BY SliceHeader
<1> HIDE DEF p
<1>2. /\ n \in Nat /\ n > 0 /\ n \in 1..n /\ StartLaw(coded, n) /\ OrderLaw(coded, n)
      /\ Reached \in Nat /\ (Reached = n - 1 \/ Reached = n)
      /\ Iraps(coded) \subseteq 1..n /\ coded[n].poc \in Int
  BY Basics, SliceFacts DEF CodedPicture
<1>3. /\ iSkipFrame = 0 /\ pocRandomAccess \in {MaxInt, -MaxInt} /\ MaxInt > 0 /\ MaxInt \in Int
      /\ Reached > 0 => pocRandomAccess = -MaxInt
  BY MaxIntAssumption DEF IInv, DecoderInv, MemoryInv, Intact
<1>4. NoRandomAccessPoint => n = 1
  <2> HIDE DEF n
  <2>1. NoRandomAccessPoint => ~(Reached > 0)
    BY <1>3 DEF NoRandomAccessPoint
  <2> QED
    BY <1>2, <2>1
<1>5. NoRandomAccessPoint => p.type \in IdrTypes
  BY <1>1, <1>2, <1>4 DEF StartLaw
<1>6. ~SkippedForRandomAccess(p)
  <2>1. ~(iSkipFrame > 0)
    BY <1>3
  <2>2. ~(NoRandomAccessPoint /\ p.type \notin RapTypes)
    BY <1>5 DEF RapTypes
  <2>3. ~(~NoRandomAccessPoint /\ p.poc < pocRandomAccess /\ p.type \in RaslTypes)
    <3>1. coded[n].poc >= -MaxInt
      BY <1>2 DEF StartLaw
    <3>2. ~NoRandomAccessPoint => pocRandomAccess = -MaxInt
      BY <1>3 DEF NoRandomAccessPoint
    <3> QED
      BY <1>1, <1>2, <1>3, <3>1, <3>2
  <2> QED
    BY <2>1, <2>2, <2>3 DEF SkippedForRandomAccess
<1>7. RandomAccessPoc(p) = -MaxInt
  BY <1>3, <1>5 DEF RandomAccessPoc, NoRandomAccessPoint
<1>8. SkippedForBla(p) <=> Undecodable(coded, n)
  <2>1. CASE coded[n].type \notin RaslTypes
    BY <1>1, <2>1 DEF SkippedForBla, Undecodable
  <2>2. CASE coded[n].type \in RaslTypes
    <3>1. coded[n].type \notin RapTypes /\ coded[n].type \in LeadingTypes /\ coded[n].type \notin RadlTypes
      BY <2>2 DEF RaslTypes, RapTypes, IdrTypes, BlaTypes, LeadingTypes, RadlTypes
    <3>2. n - 1 > 0 /\ n - 1 \in 1..n
      <4>1. n # 1
        BY <1>2, <3>1 DEF StartLaw, RapTypes
      <4> HIDE DEF n
      <4> QED
        BY <1>2, <4>1
    <3>3. PICK i \in 1..n - 1 : IsLatest(Iraps(coded), i, n - 1)
      BY <3>2, Basics DEF LatestLaw
    <3>4. IsLatest(Iraps(coded), i, Reached) /\ i \in Iraps(coded) /\ i \in 1..n
      <4>1. n \notin Iraps(coded)
        BY <3>1 DEF Iraps
      <4>2. IsLatest(Iraps(coded), i, n)
        BY <1>2, <3>3, <4>1, LatestBefore
      <4> QED
        BY <1>2, <3>3, <4>2 DEF IsLatest
    <3>5. pocCRA = coded[i].poc /\ associatedIRAPType = coded[i].type
      BY <3>4 DEF IInv, DecoderInv, IrapInv
    <3>6. LeadingLaw(coded, i, n)
      BY <1>2, <3>1, <3>3 DEF OrderLaw
    <3>7. coded[n].poc < coded[i].poc /\ coded[i].type \in {"CRA", "BLA_W_LP"}
      BY <2>2, <3>6 DEF LeadingLaw
    <3>8. SkippedForBla(p) <=> coded[i].type \in BlaTypes
      BY <1>1, <2>2, <3>5, <3>7 DEF SkippedForBla
    <3>9. Undecodable(coded, n) <=> i \in Starts(coded)
      <4>1. \A j \in Starts(coded) : IsLatest(Iraps(coded), j, n - 1) => j = i
        <5>1. Iraps(coded) \in SUBSET Int
          BY <1>2
        <5> QED
          BY <3>3, <5>1, LatestUnique
      <4> QED
        BY <2>2, <3>3, <4>1 DEF Undecodable
    <3>10. i \in Starts(coded) <=> coded[i].type \in IdrTypes \cup BlaTypes
      <4>1. StartLaw(coded, i)
        BY <3>4, Basics
      <4> QED
        BY <3>4, <4>1 DEF StartLaw, Starts
    <3> QED
      BY <3>7, <3>8, <3>9, <3>10 DEF IdrTypes, BlaTypes
  <2> QED
    BY <2>1, <2>2
<1> QED
  BY <1>6, <1>7, <1>8 DEF p

LEMMA SkipSliceKeeps ==
  ASSUME IInv, UNCHANGED <<streamVars, appVars>>, SkipSlice(nal), ~IsNotDecoded(nal)
  PROVE  DecoderInv'
<1> DEFINE n == Len(coded)
<1>1. /\ phase = "decode" /\ nal.kind = "slice" /\ phase' = "returned" /\ ~newPicture'
      /\ UNCHANGED <<nal, coded>>
  BY DEF SkipSlice, Return, streamVars
<1>2. Undecodable(coded, n)
  BY <1>1, SkippedPictures DEF SkipSlice
<1>3. /\ n \in Nat /\ n > 0 /\ n \in 1..n /\ StartLaw(coded, n)
      /\ (Reached = n - 1 \/ Reached = n) /\ Starts(coded) \subseteq Iraps(coded)
      /\ nal.type = coded[n].type
  BY <1>1, Basics, SliceFacts
<1>4. /\ coded[n].type \in RaslTypes /\ coded[n].type \notin RapTypes
      /\ coded[n].type \notin AnchorTypes
  BY <1>2 DEF Undecodable, RaslTypes, RapTypes, IdrTypes, BlaTypes, LeadingTypes, AnchorTypes
<1>5. n \notin Iraps(coded) \cup Anchors(coded) \cup Starts(coded)
  BY <1>3, <1>4 DEF Iraps, Anchors
<1>6. Reached > 0
  <2>1. n # 1
    BY <1>3, <1>4 DEF StartLaw, RapTypes
  <2> HIDE DEF n
  <2> QED
    BY <1>3, <2>1
<1>7. ~newPicture
  BY <1>1, <1>2 DEF IInv, DecoderInv, HandedBackInv
<1>8. ~firstSliceInPicture /\ iSkipFrame = 0 /\ craNoRaslOutputFlag = FALSE
      /\ (prefixSEIs > 0 => "SEI" \in Extras)
  BY <1>1, <1>6, <1>7 DEF IInv, DecoderInv, OpenInv, OpenPhases, Ended, MemoryInv
<1>9. n \notin references
  BY <1>2, <1>3 DEF IInv, SourceInv, RefsLaw
<1>10. prevTid0POC' = prevTid0POC
  BY <1>1, <1>5, SliceHeader DEF SkipSlice, ParseHeader
<1>11. craNoRaslOutputFlag' = FALSE /\ ~isNoOutputPriorPics'
  <2>1. CraNoRasl(nal) = FALSE
    BY <1>1, HeaderPocIsRight
  <2>2. ~NoOutputPriorPics(nal)
    BY <1>3, <1>4 DEF NoOutputPriorPics
  <2> QED
    BY <2>1, <2>2 DEF SkipSlice, ParseHeader
<1>12. PassStep
  <2>1. UNCHANGED <<dpb, curPic, sliceIdx, refPics, irapVars, firstVars, prevPOC, pocRandomAccess,
                    iSkipFrame, prefixSEIs>>
    BY <1>8 DEF SkipSlice
  <2> HIDE DEF n
  <2> QED
    BY <1>1, <1>5, <1>7, <1>8, <1>9, <1>10, <1>11, <2>1 DEF PassStep, n
<1>13. CurrentInv'
  <2>1. prevSliceSkipped' /\ skippedPOC' = coded[n].poc
    BY <1>1, SliceHeader DEF SkipSlice
  <2> QED
    BY <1>1, <1>2, <2>1 DEF CurrentInv
<1> QED
  BY <1>12, <1>13, PassStepKeeps

(* A slice that is decoded: it is handed back while another picture is     *)
(* open, otherwise its header stays behind as the pilot.                   *)
LEMMA BeginSliceKeeps ==
  ASSUME IInv, UNCHANGED <<streamVars, appVars>>, BeginSlice(nal), ~IsNotDecoded(nal)
  PROVE  DecoderInv'
<1> DEFINE n == Len(coded)
<1>1. /\ phase = "decode" /\ nal.kind = "slice"
      /\ UNCHANGED <<nal, last, coded, references, pocCRA, associatedIRAPType, curPic, dpb,
                     iSkipFrame, prefixSEIs, firstSliceInPicture, firstSliceInSequence,
                     listSet, loopFiltered, written>>
      /\ refPics' = {} /\ prevSliceSkipped' = FALSE
      /\ sliceIdx' = IF firstSliceInPicture THEN 0 ELSE sliceIdx
  BY DEF BeginSlice, streamVars
<1>2. ~Undecodable(coded, n) /\ RandomAccessPoc(Pilot(nal)) = -MaxInt
  BY <1>1, SkippedPictures DEF BeginSlice
<1>3. /\ MemoryInv /\ IrapInv /\ AnchorInv /\ ListInv /\ OpenInv /\ HandedBackInv /\ WrittenInv
      /\ CurrentInv /\ (AllOutput => VanishInv)
  BY DEF IInv, DecoderInv
<1>4. /\ n \in Nat /\ n > 0 /\ n \in 1..n /\ StartLaw(coded, n) /\ Reached \in Nat
      /\ coded[n].tid <= MaxTemporalLayer
      /\ nal.first => ~nal.dep
      /\ coded[n].poc \in Int
  BY <1>1, Basics, SliceFacts DEF CodedPicture
<1>5. /\ pocRandomAccess' = -MaxInt /\ prevPOC >= -MaxInt
      /\ prevPOC' = IF StartsPicture(nal) THEN coded[n].poc ELSE prevPOC
      /\ IF StartsPicture(nal)
           THEN phase' = "returned" /\ newPicture' = TRUE
           ELSE phase' = "conceal" /\ pilot' = Pilot(nal) /\ newPicture' = newPicture
  <2>1. prevPOC >= -MaxInt
    BY <1>3 DEF MemoryInv
  <2>2. Pilot(nal).poc = coded[n].poc
    BY <1>1, SliceHeader
  <2> HIDE DEF n
  <2> QED
    BY <1>2, <2>1, <2>2 DEF BeginSlice, Return
<1>6. /\ craNoRaslOutputFlag' = FALSE
      /\ prevTid0POC' = IF n \in Anchors(coded) THEN coded[n].poc ELSE prevTid0POC
      /\ AllOutput => ~isNoOutputPriorPics'
  BY <1>1, SliceHeader, HeaderPocIsRight DEF BeginSlice, ParseHeader
<1>7. Ahead <=> nal.first
  BY <1>1 DEF Ahead
<1>8. StartsPicture(nal) <=> nal.first /\ ~firstSliceInPicture
  BY <1>4 DEF StartsPicture
<1>9. newPicture => nal.first /\ firstSliceInPicture
  BY <1>1, <1>3 DEF HandedBackInv
<1>10. Ahead' <=> Ahead
  BY <1>1, <1>5, <1>7, <1>8 DEF Ahead
<1>11. Reached' = Reached
  BY <1>1, <1>10 DEF Reached
<1> HIDE DEF n
<1>12. phase' \in {"returned", "conceal"}
  BY <1>5
<1>13. /\ Reached > 0 /\ ~newPicture => ~firstSliceInPicture
       /\ ~firstSliceInPicture =>
            Unfiltered(dpb, curPic, written) /\ sliceIdx = dpb[curPic].slices
       /\ ~firstSliceInPicture => Reached > 0
  BY <1>1, <1>3, <1>4 DEF OpenInv, OpenPhases, Ended, MemoryInv
<1>14. MemoryInv'
  <2>1. prevPOC' >= -MaxInt
    BY <1>4, <1>5 DEF StartLaw
  <2>2. Reached = 0 => ~newPicture'
    BY <1>3, <1>5, <1>8, <1>13 DEF MemoryInv
  <2> QED
    BY <1>1, <1>3, <1>5, <1>6, <1>11, <1>12, <2>1, <2>2 DEF MemoryInv
<1>15. IrapInv'
  BY <1>1, <1>3, <1>11 DEF IrapInv
<1>16. AnchorInv'
  <2> SUFFICES ASSUME NEW a \in Anchors(coded), IsLatest(Anchors(coded), a, Reached)
               PROVE  \/ prevTid0POC' = coded[a].poc
                      \/ Ahead /\ n \in Anchors(coded) /\ prevTid0POC' = coded[n].poc
    BY <1>1, <1>10, <1>11 DEF AnchorInv, n
  <2>1. CASE n \notin Anchors(coded)
    BY <1>3, <1>6, <2>1 DEF AnchorInv, n
  <2>2. CASE n \in Anchors(coded) /\ Ahead
    BY <1>6, <2>2
  <2>3. CASE n \in Anchors(coded) /\ ~Ahead
    <3>1. Reached = n /\ Anchors(coded) \subseteq 1..n
      BY <2>3, Basics DEF n
    <3>2. a = n
      BY <1>4, <2>3, <3>1 DEF IsLatest
    <3> QED
      BY <1>6, <2>3, <3>2
  <2> QED
    BY <2>1, <2>2, <2>3
<1>17. ListInv'
  <2>1. /\ ListShows(dpb, coded, Reached) /\ ListDiffers(dpb)
        /\ ListKeeps(dpb, coded, references, Reached)
        /\ \A s \in Held(dpb) : IF s = curPic THEN dpb[s].ref ELSE dpb[s].ref => dpb[s].recon
    BY <1>1, <1>3 DEF ListInv
  <2>2. Ahead /\ coded[n].starts /\ phase' = "conceal" => Held(dpb) = {}
    <3> SUFFICES ASSUME Ahead, coded[n].starts, phase' = "conceal" PROVE Held(dpb) = {}
      OBVIOUS
    <3>1. CASE newPicture
      BY <1>1, <1>3, <3>1 DEF ListInv, n
    <3>2. CASE ~newPicture
      <4>1. firstSliceInPicture
        BY <1>5, <1>7, <1>8
      <4>2. Reached = 0
        BY <1>4, <1>13, <3>2, <4>1
      <4> QED
        BY <1>3, <4>2 DEF MemoryInv
    <3> QED
      BY <3>1, <3>2
  <2> QED
    BY <1>1, <1>10, <1>11, <1>12, <2>1, <2>2 DEF ListInv, n
<1>18. OpenInv'
  BY <1>1, <1>5, <1>7, <1>8, <1>9, <1>11, <1>12, <1>13 DEF OpenInv, OpenPhases, Ended
<1>19. HandedBackInv'
  <2>1. newPicture' => nal.kind = "slice" /\ nal.first /\ ~IsNotDecoded(nal) /\ ~Undecodable(coded, n)
    BY <1>1, <1>2, <1>5, <1>8, <1>9
  <2>2. newPicture /\ phase' = "conceal" =>
          firstSliceInPicture /\ (curPic \in Held(dpb) => dpb[curPic].recon)
    BY <1>1, <1>3 DEF HandedBackInv
  <2>3. IsNotDecoded(nal)' <=> IsNotDecoded(nal)
    BY <1>1 DEF IsNotDecoded
  <2> QED
    BY <1>1, <1>5, <1>12, <2>1, <2>2, <2>3 DEF HandedBackInv, n
<1>20. CurrentInv'
  <2>1. ~Ahead => curPic \in Held(dpb) /\ dpb[curPic].ids = {n}
    BY <1>1, <1>2, <1>3, <1>4 DEF CurrentInv, n
  <2> QED
    BY <1>1, <1>2, <1>10, <2>1 DEF CurrentInv, n
<1>21. PilotInv'
  <2>1. phase' = "conceal" => pilot' = Pilot(nal)
    BY <1>5
  <2>2. IsNotDecoded(nal)' <=> IsNotDecoded(nal)
    BY <1>1 DEF IsNotDecoded
  <2>3. LET p == Pilot(nal)
        IN /\ p.id = n /\ p.dep = nal.dep /\ p.poc = coded[n].poc /\ p.type = coded[n].type
           /\ p.tid = coded[n].tid /\ p.rps = coded[n].rps /\ p.pof = coded[n].pof
           /\ p.irap = pocCRA /\ p.irapType = associatedIRAPType
    BY <1>1, SliceHeader DEF n
  <2> QED
    BY <1>1, <1>2, <1>5, <1>6, <1>12, <2>1, <2>2, <2>3 DEF PilotInv, n
<1>22. RefPicsInv'
  BY <1>1 DEF RefPicsInv
<1>23. WrittenInv'
  BY <1>1, <1>3, <1>11 DEF WrittenInv
<1>24. LastInv'
  BY <1>12 DEF LastInv, Ended
<1>25. AllOutput => VanishInv'
  BY <1>1, <1>3, <1>6 DEF VanishInv
<1> QED
  BY <1>12, <1>14, <1>15, <1>16, <1>17, <1>18, <1>19, <1>20, <1>21, <1>22, <1>23, <1>24, <1>25
  DEF DecoderInv

-----------------------------------------------------------------------------
(* Reference pictures.                                                     *)

(* No two pictures of a sequence have the same POC.                        *)
LEMMA PocsDiffer ==
  ASSUME IInv, NEW n \in Nat, n <= Len(coded), NEW j \in 1..n, NEW k \in 1..n,
         SameSequence(coded, j, n), SameSequence(coded, k, n), coded[j].poc = coded[k].poc
  PROVE  j = k
<1>1. Starts(coded) \subseteq Int /\ Len(coded) \in Nat
  BY Basics
<1>2. ASSUME NEW a \in 1..n, NEW b \in 1..n, a < b, SameSequence(coded, a, n)
      PROVE  coded[a].poc # coded[b].poc
  <2>1. SameSequence(coded, a, b)
    BY <1>1, <1>2 DEF SameSequence
  <2>2. PocLaw(coded, b) /\ a \in 1..b - 1
    BY <1>1, <1>2, Basics
  <2> QED
    BY <2>1, <2>2 DEF PocLaw
<1> QED
  BY <1>2

(* The set of the slice header refers to pictures of the sequence, and the *)
(* list holds as reference pictures those it uses.                         *)
RpsIs(used) ==
  LET n == Len(coded)
  IN /\ RpsLaw(coded, references, used) /\ used \subseteq references \ {n}
     /\ \A k \in references \ {n} : k \in 1..n - 1 /\ SameSequence(coded, k, n)
     /\ \A k \in used : \E s \in Held(dpb) : dpb[s].ref /\ Shows(dpb[s], coded, k)
     /\ pilot.rps = {[delta |-> coded[k].poc - pilot.poc, used |-> k \in used] :
                       k \in references \ {n}}
     /\ pilot.poc = coded[n].poc /\ pilot.poc \in Int /\ n \in references
     /\ coded[n].starts => references = {n}

LEMMA PilotReferences ==
  ASSUME IInv, phase \in {"conceal", "lists"}
  PROVE  \E used : RpsIs(used)
<1> DEFINE n == Len(coded)
<1>1. /\ pilot.poc = coded[n].poc /\ pilot.rps = coded[n].rps /\ ~Undecodable(coded, n)
      /\ nal.kind = "slice" /\ ~IsNotDecoded(nal)
  BY DEF IInv, DecoderInv, PilotInv
<1>2. /\ n \in Nat /\ n > 0 /\ Reached \in Nat /\ (Reached = n - 1 \/ Reached = n)
      /\ coded[n].tid <= MaxTemporalLayer /\ coded[n].tid \in Nat /\ coded[n].poc \in Int
      /\ \A k \in 1..n : coded[k].tid \in Nat
  BY <1>1, Basics, SliceFacts DEF CodedPicture
<1>3. /\ n \in references /\ \A k \in references : k \in 1..n /\ SameSequence(coded, k, n)
      /\ coded[n].starts => references = {n}
  BY <1>1, <1>2 DEF IInv, SourceInv, RefsLaw
<1>4. PICK used \in SUBSET references : RpsLaw(coded, references, used)
  BY <1>1, <1>2 DEF IInv, SourceInv, RefsLaw
<1>5. /\ used \subseteq references \ {n}
      /\ coded[n].rps = {[delta |-> coded[k].poc - coded[n].poc, used |-> k \in used] :
                           k \in references \ {n}}
      /\ \A k \in used : coded[k].tid <= coded[n].tid
  BY <1>4 DEF RpsLaw
<1>6. ListShows(dpb, coded, Reached) /\ ListKeeps(dpb, coded, references, Reached)
  BY DEF IInv, DecoderInv, ListInv
<1> HIDE DEF n
<1>7. ASSUME NEW k \in used
      PROVE  \E s \in Held(dpb) : dpb[s].ref /\ Shows(dpb[s], coded, k)
  <2>1. k \in references /\ k \in 1..n /\ k # n
    BY <1>3, <1>5
  <2>2. k <= Reached
    BY <1>2, <2>1
  <2>3. coded[k].tid <= MaxTemporalLayer
    <3>1. coded[k].tid \in Nat /\ coded[k].tid <= coded[n].tid /\ MaxTemporalLayer \in Nat
      BY <1>2, <1>5, <2>1, MaxTemporalLayerAssumption, MaxDecPicBufAssumption
    <3> QED
      BY <1>2, <3>1
  <2>4. PICK s \in Held(dpb) : dpb[s].ids = {k} /\ dpb[s].ref
    BY <1>6, <2>1, <2>2, <2>3 DEF ListKeeps, InList
  <2> QED
    BY <1>6, <2>4, ShownPicture
<1>8. \A k \in references \ {n} : k \in 1..n - 1 /\ SameSequence(coded, k, n)
  BY <1>2, <1>3
<1>9. pilot.rps = {[delta |-> coded[k].poc - pilot.poc, used |-> k \in used] :
                     k \in references \ {n}}
  BY <1>1, <1>5 DEF n
<1> QED
  BY <1>1, <1>2, <1>3, <1>4, <1>5, <1>7, <1>8, <1>9 DEF RpsIs, n

(* The POCs it names.                                                      *)
LEMMA RpsPocs ==
  ASSUME IInv, NEW used, RpsIs(used)
  PROVE  /\ \A r \in pilot.rps : \E k \in references \ {Len(coded)} :
              pilot.poc + r.delta = coded[k].poc /\ r.used = (k \in used)
         /\ \A k \in references \ {Len(coded)} : \E r \in pilot.rps :
              pilot.poc + r.delta = coded[k].poc /\ r.used = (k \in used)
         /\ \A poc \in UsedPocs(pilot) : \E k \in used : poc = coded[k].poc
<1> DEFINE kept == references \ {Len(coded)}
<1>1. /\ pilot.rps = {[delta |-> coded[k].poc - pilot.poc, used |-> k \in used] : k \in kept}
      /\ pilot.poc \in Int /\ \A k \in kept : k \in 1..Len(coded)
  BY Basics DEF RpsIs
<1>2. \A k \in kept : coded[k].poc \in Int
  BY <1>1, Basics DEF CodedPicture
<1>3. \A k \in kept : pilot.poc + (coded[k].poc - pilot.poc) = coded[k].poc
  BY <1>1, <1>2
<1> HIDE DEF kept
<1>4. \A r \in pilot.rps : \E k \in kept : pilot.poc + r.delta = coded[k].poc /\ r.used = (k \in used)
  BY <1>1, <1>3
<1>5. \A k \in kept : \E r \in pilot.rps :
        pilot.poc + r.delta = coded[k].poc /\ r.used = (k \in used)
  <2> SUFFICES ASSUME NEW k \in kept
               PROVE  \E r \in pilot.rps : pilot.poc + r.delta = coded[k].poc /\ r.used = (k \in used)
    OBVIOUS
  <2> DEFINE r == [delta |-> coded[k].poc - pilot.poc, used |-> k \in used]
  <2>1. r \in pilot.rps
    BY <1>1
  <2>2. pilot.poc + r.delta = coded[k].poc /\ r.used = (k \in used)
    BY <1>3
  <2> QED
    BY <2>1, <2>2
<1>6. \A poc \in UsedPocs(pilot) : \E k \in used : poc = coded[k].poc
  BY <1>4 DEF UsedPocs
<1> QED
  BY <1>4, <1>5, <1>6 DEF kept

(* checkThatAllRefPicsAreAvailable() finds nothing lost.                   *)
LEMMA NothingLost ==
  ASSUME IInv, phase = "conceal"
  PROVE  LostPocs(dpb, pilot, pocRandomAccess) = {}
<1>1. PICK used : RpsIs(used)
  BY PilotReferences
<1>2. \A r \in pilot.rps : \E k \in references \ {Len(coded)} :
        pilot.poc + r.delta = coded[k].poc /\ r.used = (k \in used)
  BY <1>1, RpsPocs
<1>3. \A k \in used : \E s \in Held(dpb) : dpb[s].ref /\ dpb[s].poc0 = coded[k].poc
  BY <1>1 DEF RpsIs, Shows
<1>4. \A r \in pilot.rps : r.used =>
        \E s \in Held(dpb) : dpb[s].ref /\ dpb[s].poc0 = pilot.poc + r.delta
  BY <1>2, <1>3
<1> QED
  BY <1>4 DEF LostPocs

LEMMA CreateLostPictureIsImpossible ==
  ASSUME IInv PROVE ~CreateLostPicture
<1>1. phase = "conceal" => \A poc : ~MustConceal(poc)
  BY NothingLost DEF MustConceal, IsReportedLost
<1> QED
  BY <1>1 DEF CreateLostPicture

-----------------------------------------------------------------------------
(* The first slice of a picture.                                           *)

(* It is ahead of everything in the list, which is of its sequence.        *)
LEMMA FirstSliceIsAhead ==
  ASSUME IInv, phase = "conceal", firstSliceInPicture
  PROVE  LET n == Len(coded)
         IN /\ Ahead /\ nal.first /\ ~pilot.dep /\ n \in Nat /\ n > 0 /\ Reached = n - 1
            /\ sliceIdx = 0
            /\ n \in Starts(coded) => Held(dpb) = {}
            /\ \A s \in Held(dpb) : \E k \in 1..n - 1 :
                 Shows(dpb[s], coded, k) /\ SameSequence(coded, k, n)
            /\ \A s \in Held(dpb) : dpb[s].ref => dpb[s].recon
<1> DEFINE n == Len(coded)
<1>1. /\ MemoryInv /\ ListInv /\ OpenInv /\ HandedBackInv /\ PilotInv
  BY DEF IInv, DecoderInv
<1>2. /\ nal.kind = "slice" /\ pilot.dep = nal.dep
  BY <1>1 DEF PilotInv
<1>3. n \in Nat /\ n > 0 /\ (nal.first => ~nal.dep) /\ Starts(coded) \subseteq 1..n
  BY <1>2, Basics, SliceFacts
<1>4. nal.first
  <2> SUFFICES ASSUME ~nal.first PROVE FALSE
    OBVIOUS
  <2>1. ~Ahead /\ Reached = n
    BY Basics, <1>3 DEF Ahead
  <2>2. ~newPicture
    BY <1>1 DEF HandedBackInv
  <2> QED
    BY <1>1, <1>3, <2>1, <2>2 DEF OpenInv, OpenPhases, Ended
<1>5. Ahead /\ Reached = n - 1
  BY <1>2, <1>4, Basics DEF Ahead
<1>6. n \in Starts(coded) => Held(dpb) = {}
  BY <1>1, <1>5 DEF ListInv, Starts
<1>7. ListShows(dpb, coded, Reached)
  BY <1>1 DEF ListInv
<1>8. \A s \in Held(dpb) : \E k \in 1..n - 1 :
        Shows(dpb[s], coded, k) /\ SameSequence(coded, k, n)
  <2>1. CASE n \in Starts(coded)
    BY <1>6, <2>1
  <2>2. CASE n \notin Starts(coded)
    <3> SUFFICES ASSUME NEW s \in Held(dpb)
                 PROVE  \E k \in 1..n - 1 : Shows(dpb[s], coded, k) /\ SameSequence(coded, k, n)
      OBVIOUS
    <3>1. PICK k \in 1..Reached : Shows(dpb[s], coded, k) /\ SameSequence(coded, k, Reached)
      BY <1>7 DEF ListShows
    <3>2. SameSequence(coded, k, n)
      <4>1. k \in Nat
        BY <1>3, <1>5
      <4> QED
        BY <1>5, <2>2, <3>1, <4>1, SequenceGoesOn
    <3> QED
      BY <1>5, <3>1, <3>2
  <2> QED
    BY <2>1, <2>2
<1>9. \A s \in Held(dpb) : dpb[s].ref => dpb[s].recon
  <2>1. newPicture => (curPic \in Held(dpb) => dpb[curPic].recon)
    BY <1>1 DEF HandedBackInv
  <2>2. ~newPicture => Held(dpb) = {}
    <3> SUFFICES ASSUME ~newPicture PROVE Held(dpb) = {}
      OBVIOUS
    <3>1. ~(Reached > 0)
      BY <1>1 DEF OpenInv, OpenPhases, Ended
    <3>2. Reached = 0
      BY <1>3, <1>5, <3>1
    <3> QED
      BY <1>1, <3>2 DEF MemoryInv
  <2> QED
    BY <1>1, <2>1, <2>2 DEF ListInv
<1>10. sliceIdx = 0
  BY <1>1 DEF OpenInv
<1> QED
  BY <1>2, <1>3, <1>4, <1>5, <1>6, <1>8, <1>9, <1>10

(* What the header says of the IRAP picture before it.                     *)
LEMMA IrapBefore ==
  ASSUME IInv, phase = "conceal", firstSliceInPicture, Len(coded) \notin Starts(coded)
  PROVE  \E i \in 1..Len(coded) - 1 :
           /\ IsLatest(Iraps(coded), i, Len(coded) - 1)
           /\ pilot.irap = coded[i].poc /\ pilot.irapType = coded[i].type
           /\ pocCRA = coded[i].poc
<1> DEFINE n == Len(coded)
<1>1. n \in Nat /\ n > 0 /\ Reached = n - 1
  BY FirstSliceIsAhead
<1>2. /\ \A k \in 1..n : StartLaw(coded, k) /\ LatestLaw(coded, k)
  BY Basics
<1>3. n # 1
  BY <1>1, <1>2 DEF StartLaw, Starts
<1>4. PICK i \in 1..n - 1 : IsLatest(Iraps(coded), i, n - 1)
  <2>1. n - 1 \in 1..n
    BY <1>1, <1>3
  <2> QED
    BY <1>2, <2>1 DEF LatestLaw
<1>5. pilot.irap = pocCRA /\ pilot.irapType = associatedIRAPType
  BY DEF IInv, DecoderInv, PilotInv
<1>6. pocCRA = coded[i].poc /\ associatedIRAPType = coded[i].type
  BY <1>1, <1>4 DEF IInv, DecoderInv, IrapInv, IsLatest
<1> QED
  BY <1>4, <1>5, <1>6

(* A picture that starts no sequence is a CRA, leading or trailing one.    *)
LEMMA GoesOnTypes ==
  ASSUME IInv, NEW k \in 1..Len(coded), k \notin Starts(coded)
  PROVE  /\ coded[k].type \in {"CRA"} \cup LeadingTypes \cup TrailingTypes
         /\ coded[k].type \notin IdrTypes \cup BlaTypes
<1>1. StartLaw(coded, k) /\ coded[k].type \in SliceTypes
  BY Basics DEF CodedPicture
<1>2. coded[k].type \notin IdrTypes \cup BlaTypes
  BY <1>1 DEF Starts, StartLaw
<1> QED
  BY <1>1, <1>2 DEF SliceTypes, RapTypes

(* checkLeadingPictureRestrictions() finds the type in order.              *)
LEMMA TypeIsLegal ==
  ASSUME IInv, phase = "conceal", firstSliceInPicture
  PROVE  LeadingTypeIsLegal(pilot)
<1> DEFINE n == Len(coded)
<1>1. n \in Nat /\ n > 0 /\ n \in 1..n /\ coded[n].poc \in Int /\ StartLaw(coded, n)
      /\ OrderLaw(coded, n) /\ \A k \in 1..n : coded[k].poc \in Int
  BY FirstSliceIsAhead, Basics DEF CodedPicture
<1>2. pilot.poc = coded[n].poc /\ pilot.type = coded[n].type
  BY DEF IInv, DecoderInv, PilotInv
<1>3. CASE n \in Starts(coded)
  <2>1. pilot.type \in IdrTypes \cup BlaTypes
    BY <1>1, <1>2, <1>3 DEF StartLaw, Starts
  <2>2. pilot.type \in RapTypes /\ pilot.type \notin LeadingTypes
    BY <2>1 DEF RapTypes, IdrTypes, BlaTypes, LeadingTypes, RadlTypes, RaslTypes
  <2> QED
    BY <2>2 DEF LeadingTypeIsLegal, LeadingTypes
<1>4. CASE n \notin Starts(coded)
  <2>1. PICK i \in 1..n - 1 :
           /\ IsLatest(Iraps(coded), i, n - 1)
           /\ pilot.irap = coded[i].poc /\ pilot.irapType = coded[i].type
    BY <1>4, IrapBefore
  <2>2. /\ coded[n].type \in TrailingTypes => coded[n].poc > coded[i].poc
        /\ coded[n].type \in LeadingTypes => LeadingLaw(coded, i, n)
    BY <1>1, <2>1 DEF OrderLaw
  <2>3. coded[n].type \in {"CRA"} \cup LeadingTypes \cup TrailingTypes
    BY <1>1, <1>4, GoesOnTypes
  <2>4. pilot.irap > pilot.poc /\ pilot.type \notin RapTypes => pilot.type \in LeadingTypes
    BY <1>1, <1>2, <2>1, <2>2, <2>3 DEF RapTypes
  <2>5. pilot.irap < pilot.poc => pilot.type \notin LeadingTypes
    BY <1>1, <1>2, <2>1, <2>2 DEF LeadingLaw
  <2>6. pilot.type \in RaslTypes => pilot.irapType \in {"CRA", "BLA_W_LP"}
    BY <1>2, <2>1, <2>2 DEF LeadingLaw, LeadingTypes
  <2>7. pilot.type \in RadlTypes => pilot.irapType \notin {"IDR_N_LP", "BLA_N_LP"}
    BY <1>2, <2>1, <2>2 DEF LeadingLaw, LeadingTypes
  <2> QED
    BY <2>4, <2>5, <2>6, <2>7 DEF LeadingTypeIsLegal, IdrTypes
<1> QED
  BY <1>3, <1>4

(* IRAP pictures of a sequence have rising POCs, and precede what follows  *)
(* a sequence's CRA picture.                                               *)
LEMMA IrapPocsRise ==
  ASSUME IInv, NEW n \in 1..Len(coded), NEW k \in 1..n, NEW i \in Iraps(coded), k < i, i <= n,
         SameSequence(coded, k, n)
  PROVE  coded[k].poc < coded[i].poc
<1>1. /\ Len(coded) \in Nat /\ Starts(coded) \subseteq 1..Len(coded) /\ i \in 1..Len(coded)
  BY Basics
<1>2. i \notin Starts(coded)
  BY <1>1 DEF SameSequence
<1>3. coded[i].type = "CRA"
  BY <1>1, <1>2, GoesOnTypes DEF Iraps, RapTypes
<1>4. SameSequence(coded, k, i)
  BY <1>1 DEF SameSequence
<1>5. OrderLaw(coded, i) /\ k \in 1..i - 1
  BY <1>1, Basics
<1> QED
  BY <1>3, <1>4, <1>5 DEF OrderLaw

(* The IRAP picture of a leading or trailing picture of the sequence is in *)
(* the sequence, and none follows it up to the picture.                    *)
LEMMA IrapOfPicture ==
  ASSUME IInv, NEW n \in 1..Len(coded), NEW k \in 1..n, k \notin Iraps(coded),
         SameSequence(coded, k, n)
  PROVE  \E j \in 1..k - 1 : IsLatest(Iraps(coded), j, k - 1) /\ SameSequence(coded, j, n)
<1>1. /\ Len(coded) \in Nat /\ Starts(coded) \subseteq Iraps(coded) /\ LatestLaw(coded, k)
      /\ Iraps(coded) \subseteq 1..Len(coded)
  BY Basics
<1>2. PICK j \in 1..k : IsLatest(Iraps(coded), j, k)
  BY <1>1 DEF LatestLaw
<1>3. j # k
  BY <1>2 DEF IsLatest
<1>4. IsLatest(Iraps(coded), j, k - 1) /\ j \in 1..k - 1
  <2>1. \A m \in Iraps(coded) : m <= k - 1 => m <= k
    BY <1>1
  <2> QED
    BY <1>2, <1>3, <2>1 DEF IsLatest
<1>5. SameSequence(coded, j, n)
  <2>1. ASSUME NEW m \in Starts(coded), j < m PROVE n < m
    <3>1. m \in Iraps(coded) /\ m # k /\ m \in Int
      BY <1>1
    <3>2. ~(m <= k)
      BY <1>1, <1>2, <2>1, <3>1 DEF IsLatest
    <3> QED
      BY <3>1, <3>2 DEF SameSequence
  <2> QED
    BY <1>4, <2>1 DEF SameSequence
<1> QED
  BY <1>4, <1>5

(* It finds the pictures of the list in order with it.                     *)
LEMMA OrderOfPictures ==
  ASSUME IInv, phase = "conceal", firstSliceInPicture, Len(coded) \notin Starts(coded),
         NEW q, NEW k \in 1..Len(coded) - 1, Shows(q, coded, k),
         SameSequence(coded, k, Len(coded))
  PROVE  OrderIsLegal(pilot, q)
<1> DEFINE n == Len(coded)
<1>1. /\ n \in Nat /\ n > 0 /\ n \in 1..n /\ k \in 1..n
      /\ \A m \in 1..n : coded[m].poc \in Int /\ OrderLaw(coded, m)
      /\ Iraps(coded) \subseteq 1..n
  BY FirstSliceIsAhead, Basics DEF CodedPicture
<1>2. pilot.poc = coded[n].poc /\ pilot.type = coded[n].type
  BY DEF IInv, DecoderInv, PilotInv
<1>3. PICK i \in 1..n - 1 :
         /\ IsLatest(Iraps(coded), i, n - 1)
         /\ pilot.irap = coded[i].poc /\ pilot.irapType = coded[i].type
  BY IrapBefore
<1>4. i \in Iraps(coded) /\ \A m \in Iraps(coded) : m <= n - 1 => m <= i
  BY <1>3 DEF IsLatest
<1>5. coded[n].type \in LeadingTypes => LeadingLaw(coded, i, n)
  BY <1>1, <1>3 DEF OrderLaw
<1>6. /\ q.poc = coded[k].poc /\ q.poc0 = coded[k].poc /\ q.type = coded[k].type
  BY DEF Shows
<1>7. k < i => coded[k].poc < coded[i].poc
  <2>1. n \in 1..Len(coded) /\ k \in 1..n /\ i \in Iraps(coded) /\ i <= n
    BY <1>1, <1>3, <1>4
  <2> QED
    BY <2>1, IrapPocsRise
<1>8. k > i => k \notin Iraps(coded)
  BY <1>1, <1>3, <1>4
<1>9. ASSUME k \notin Iraps(coded)
      PROVE  /\ q.irap \in Int
             /\ k > i => q.irap = pilot.irap /\ IsLatest(Iraps(coded), i, k - 1)
             /\ k < i => q.irap < pilot.irap
  <2>1. PICK j \in 1..k - 1 : IsLatest(Iraps(coded), j, k - 1) /\ SameSequence(coded, j, n)
    BY <1>1, <1>9, IrapOfPicture
  <2>2. coded[k].type \notin RapTypes
    BY <1>1, <1>9 DEF Iraps
  <2>3. j \in Iraps(coded) /\ j <= k - 1 /\ \A m \in Iraps(coded) : m <= k - 1 => m <= j
    BY <2>1 DEF IsLatest
  <2>4. q.irap = coded[j].poc
    BY <2>1, <2>2, <2>3 DEF Shows
  <2>5. j \in 1..n
    BY <1>1
  <2>6. CASE k > i
    <3>1. j = i
      BY <1>1, <1>3, <1>4, <2>3, <2>5, <2>6
    <3> QED
      BY <1>1, <1>3, <2>1, <2>4, <2>6, <3>1
  <2>7. CASE k < i
    <3>1. coded[j].poc < coded[i].poc
      <4>1. n \in 1..Len(coded) /\ j \in 1..n /\ i \in Iraps(coded) /\ j < i /\ i <= n
        BY <1>1, <1>3, <1>4, <2>3, <2>5, <2>7
      <4> QED
        BY <2>1, <4>1, IrapPocsRise
    <3> QED
      BY <1>1, <1>3, <2>4, <2>5, <2>7, <3>1
  <2>8. k # i
    BY <1>4, <1>9
  <2> QED
    BY <1>1, <2>4, <2>5, <2>6, <2>7, <2>8
<1>10. k < i \/ k = i \/ k > i
  BY <1>1, <1>3
<1> HIDE DEF n
<1>11. pilot.type \in RapTypes => q.poc < pilot.poc
  <2> SUFFICES ASSUME pilot.type \in RapTypes PROVE q.poc < pilot.poc
    OBVIOUS
  <2>1. coded[n].type = "CRA"
    <3>1. coded[n].type \in {"CRA"} \cup LeadingTypes \cup TrailingTypes
          /\ coded[n].type \notin IdrTypes \cup BlaTypes
      BY <1>1, GoesOnTypes DEF n
    <3> QED
      BY <1>2, <3>1 DEF RapTypes
  <2> QED
    BY <1>1, <1>2, <1>6, <2>1 DEF OrderLaw, n
<1>12. pilot.type \in RadlTypes /\ pilot.irap > q.irap /\ pilot.irap # q.poc => q.poc < pilot.poc
  <2> SUFFICES ASSUME pilot.type \in RadlTypes, pilot.irap > q.irap, pilot.irap # q.poc
               PROVE  q.poc < pilot.poc
    OBVIOUS
  <2>1. LeadingLaw(coded, i, n) /\ coded[n].type \in RadlTypes
    BY <1>2, <1>5 DEF LeadingTypes
  <2>2. k # i
    BY <1>3, <1>6
  <2>3. ~(k > i)
    <3> SUFFICES ASSUME k > i PROVE FALSE
      OBVIOUS
    <3>1. q.irap \in Int /\ q.irap = pilot.irap
      BY <1>8, <1>9
    <3> QED
      BY <3>1
  <2>4. k \in 1..i - 1
    BY <1>1, <1>3, <1>10, <2>2, <2>3
  <2> QED
    BY <1>2, <1>6, <2>1, <2>4 DEF LeadingLaw, n
<1>13. pilot.type \in LeadingTypes => q.poc <= pilot.irap
  <2> SUFFICES ASSUME pilot.type \in LeadingTypes, k > i PROVE q.poc <= pilot.irap
    BY <1>1, <1>3, <1>6, <1>7, <1>10
  <2>1. LeadingLaw(coded, i, n) /\ IsLatest(Iraps(coded), i, k - 1) /\ OrderLaw(coded, k)
    BY <1>1, <1>2, <1>5, <1>8, <1>9
  <2>2. coded[k].type \in LeadingTypes
    BY <1>1, <1>3, <2>1 DEF LeadingLaw, n
  <2>3. i \in 1..k - 1
    BY <1>1, <1>3
  <2>4. coded[k].poc < coded[i].poc
    BY <2>1, <2>2, <2>3 DEF OrderLaw, LeadingLaw
  <2>5. i \in 1..n
    BY <1>1, <1>3
  <2> QED
    BY <1>1, <1>3, <1>6, <2>4, <2>5
<1>14. pilot.type \in RaslTypes /\ q.type \in RadlTypes /\ pilot.irap = q.irap => q.poc > pilot.poc
  <2> SUFFICES ASSUME pilot.type \in RaslTypes, q.type \in RadlTypes, pilot.irap = q.irap
               PROVE  q.poc > pilot.poc
    OBVIOUS
  <2>1. LeadingLaw(coded, i, n) /\ coded[n].type \in RaslTypes
    BY <1>2, <1>5 DEF LeadingTypes
  <2>2. k \notin Iraps(coded)
    BY <1>6 DEF Iraps, RadlTypes, RapTypes, IdrTypes, BlaTypes
  <2>3. ~(k < i)
    <3> SUFFICES ASSUME k < i PROVE FALSE
      OBVIOUS
    <3>1. q.irap \in Int /\ q.irap < pilot.irap
      BY <1>9, <2>2
    <3> QED
      BY <3>1
  <2>4. k # i
    BY <1>4, <2>2
  <2>5. k \in i + 1..n - 1
    BY <1>1, <1>3, <1>10, <2>3, <2>4 DEF n
  <2>6. coded[n].poc < coded[k].poc
    BY <1>6, <2>1, <2>5 DEF LeadingLaw
  <2> QED
    BY <1>1, <1>2, <1>6, <2>6
<1>15. pilot.type \in RaslTypes /\ q.type \in RapTypes /\ q.poc0 < pilot.irap => pilot.poc > q.poc0
  <2> SUFFICES ASSUME pilot.type \in RaslTypes, q.type \in RapTypes, q.poc0 < pilot.irap
               PROVE  pilot.poc > q.poc0
    OBVIOUS
  <2>1. LeadingLaw(coded, i, n) /\ coded[n].type \in RaslTypes
    BY <1>2, <1>5 DEF LeadingTypes
  <2>2. k \in Iraps(coded)
    BY <1>1, <1>6 DEF Iraps, n
  <2>3. k # i
    BY <1>1, <1>3, <1>6
  <2>4. k \in 1..i - 1
    BY <1>1, <1>3, <1>8, <1>10, <2>2, <2>3
  <2>5. coded[k].poc < coded[n].poc
    BY <1>6, <2>1, <2>4 DEF LeadingLaw, n
  <2> QED
    BY <1>1, <1>2, <1>6, <2>5
<1> QED
  BY <1>11, <1>12, <1>13, <1>14, <1>15 DEF OrderIsLegal

(* applyReferencePictureSet() leaves everything of a picture but its marks *)
(* as a reference picture.                                                 *)
SameButMarks(p, q) ==
  /\ q.ids = p.ids /\ q.poc = p.poc /\ q.poc0 = p.poc0 /\ q.tid = p.tid /\ q.type = p.type
  /\ q.pof = p.pof /\ q.irap = p.irap /\ q.recon = p.recon /\ q.out = p.out

LEMMA MarksOnly ==
  ASSUME NEW d \in List, NEW p, NEW s \in Slots
  PROVE  SameButMarks(d[s], ApplyRps(d, p)[s])
<1> DEFINE entries == {r \in p.rps : d[s].poc0 = p.poc + r.delta}
           used == \E r \in entries : r.used
<1>1. d[s] \in Picture
  BY DEF List
<1>2. ApplyRps(d, p)[s] =
        IF s \notin Held(d) \/ ~d[s].ref THEN d[s]
        ELSE IF entries # {} THEN [d[s] EXCEPT !.used = used]
        ELSE IF d[s].poc0 # p.poc THEN [d[s] EXCEPT !.ref = FALSE, !.used = FALSE]
        ELSE d[s]
  BY DEF ApplyRps
<1> HIDE DEF entries, used
<1>3. \/ ApplyRps(d, p)[s] = d[s]
      \/ ApplyRps(d, p)[s] = [d[s] EXCEPT !.used = used]
      \/ ApplyRps(d, p)[s] = [d[s] EXCEPT !.ref = FALSE, !.used = FALSE]
  BY <1>2
<1> HIDE DEF Picture
<1>4. \A q \in Picture : SameButMarks(q, q)
  BY DEF SameButMarks
<1>5. \A q \in Picture : \A u : SameButMarks(q, [q EXCEPT !.used = u])
  BY DEF SameButMarks, Picture
<1>6. \A q \in Picture : SameButMarks(q, [q EXCEPT !.ref = FALSE, !.used = FALSE])
  BY DEF SameButMarks, Picture
<1> QED
  BY <1>1, <1>3, <1>4, <1>5, <1>6

(* It keeps the pictures of the reference picture set, and takes those for *)
(* used that are.                                                          *)
LEMMA MarksOfPicture ==
  ASSUME IInv, phase = "conceal", firstSliceInPicture, NEW used, RpsIs(used),
         NEW s \in Held(dpb), NEW k \in 1..Len(coded) - 1, Shows(dpb[s], coded, k),
         SameSequence(coded, k, Len(coded))
  PROVE  /\ ApplyRps(dpb, pilot)[s].ref <=> dpb[s].ref /\ k \in references
         /\ ApplyRps(dpb, pilot)[s].ref => (ApplyRps(dpb, pilot)[s].used <=> k \in used)
<1> DEFINE n == Len(coded)
           entries == {r \in pilot.rps : dpb[s].poc0 = pilot.poc + r.delta}
           anyUsed == \E r \in entries : r.used
           m == ApplyRps(dpb, pilot)[s]
<1>1. n \in Nat /\ n > 0 /\ SameSequence(coded, n, n)
  BY FirstSliceIsAhead, SequenceGoesOn
<1>2. /\ \A j \in references \ {n} : j \in 1..n - 1 /\ SameSequence(coded, j, n)
      /\ pilot.poc = coded[n].poc
  BY DEF RpsIs
<1>3. dpb[s].poc0 = coded[k].poc
  BY DEF Shows
<1>4. \A r \in pilot.rps : \E j \in references \ {n} :
        pilot.poc + r.delta = coded[j].poc /\ r.used = (j \in used)
  BY RpsPocs
<1>5. \A j \in references \ {n} : \E r \in pilot.rps :
        pilot.poc + r.delta = coded[j].poc /\ r.used = (j \in used)
  BY RpsPocs
<1>6. \A j \in references \ {n} : coded[j].poc = coded[k].poc => j = k
  <2> SUFFICES ASSUME NEW j \in references \ {n}, coded[j].poc = coded[k].poc PROVE j = k
    OBVIOUS
  <2>1. j \in 1..n /\ k \in 1..n /\ SameSequence(coded, j, n) /\ n <= Len(coded)
    BY <1>1, <1>2
  <2> QED
    BY <1>1, <2>1, PocsDiffer
<1>7. coded[k].poc # coded[n].poc
  <2>1. k \in 1..n /\ n \in 1..n /\ n <= Len(coded) /\ k # n
    BY <1>1
  <2> QED
    BY <1>1, <2>1, PocsDiffer
<1>8. dpb[s] \in Picture /\ s \in Slots
  BY DEF IInv, Inv, TypeOK, ObjectsOK, Held
<1>9. m = IF ~dpb[s].ref THEN dpb[s]
          ELSE IF entries # {} THEN [dpb[s] EXCEPT !.used = anyUsed]
          ELSE [dpb[s] EXCEPT !.ref = FALSE, !.used = FALSE]
  BY <1>2, <1>3, <1>7, <1>8 DEF ApplyRps
<1>10. \A r \in entries : k \in references \ {n} /\ r.used = (k \in used)
  <2> SUFFICES ASSUME NEW r \in entries PROVE k \in references \ {n} /\ r.used = (k \in used)
    OBVIOUS
  <2>1. PICK j \in references \ {n} : pilot.poc + r.delta = coded[j].poc /\ r.used = (j \in used)
    BY <1>4
  <2>2. j = k
    BY <1>3, <1>6, <2>1
  <2> QED
    BY <2>1, <2>2
<1>11. k \in references => entries # {}
  <2> SUFFICES ASSUME k \in references PROVE entries # {}
    OBVIOUS
  <2>1. k \in references \ {n}
    BY <1>1
  <2>2. PICK r \in pilot.rps : pilot.poc + r.delta = coded[k].poc
    BY <1>5, <2>1
  <2>3. r \in entries
    BY <1>3, <2>2
  <2> QED
    BY <2>3
<1>12. entries # {} <=> k \in references
  BY <1>10, <1>11
<1>13. entries # {} => (anyUsed <=> k \in used)
  BY <1>10
<1>14. anyUsed \in BOOLEAN /\ dpb[s].ref \in BOOLEAN
  BY <1>8 DEF Picture
<1> HIDE DEF entries, anyUsed, m, n
<1>15. CASE ~dpb[s].ref
  <2>1. m = dpb[s]
    BY <1>9, <1>15
  <2> QED
    BY <1>15, <2>1 DEF m
<1>16. CASE dpb[s].ref /\ entries # {}
  <2>1. m = [dpb[s] EXCEPT !.used = anyUsed]
    BY <1>9, <1>16
  <2>2. m.ref = dpb[s].ref /\ m.used = anyUsed
    BY <1>8, <2>1 DEF Picture
  <2> QED
    BY <1>12, <1>13, <1>16, <2>2 DEF m
<1>17. CASE dpb[s].ref /\ entries = {}
  <2>1. m = [dpb[s] EXCEPT !.ref = FALSE, !.used = FALSE]
    BY <1>9, <1>17
  <2>2. m.ref = FALSE
    BY <1>8, <2>1 DEF Picture
  <2> QED
    BY <1>12, <1>17, <2>2 DEF m
<1> QED
  BY <1>15, <1>16, <1>17

(* Its asserts on the reference pictures hold.                             *)
LEMMA MarkedRpsIsLegal ==
  ASSUME IInv, phase = "conceal", firstSliceInPicture
  PROVE  RpsIsLegal(ApplyRps(dpb, pilot), pilot)
<1> DEFINE n == Len(coded)
           marked == ApplyRps(dpb, pilot)
<1>1. PICK used : RpsIs(used)
  BY PilotReferences
<1>2. RpsLaw(coded, references, used) /\ used \subseteq references \ {n}
  BY <1>1 DEF RpsIs
<1>3. pilot.tid = coded[n].tid /\ pilot.type = coded[n].type
  BY DEF IInv, DecoderInv, PilotInv
<1>4. dpb \in List /\ pilot \in Header
  BY DEF IInv, Inv, TypeOK, ObjectsOK, List
<1>5. Held(marked) = Held(dpb) /\ Held(dpb) \subseteq Slots
  BY <1>4, ApplyRpsType DEF Held
<1> SUFFICES ASSUME NEW s \in Held(dpb), marked[s].ref
             PROVE  /\ marked[s].used => marked[s].tid <= pilot.tid
                    /\ pilot.type \in TsaTypes => marked[s].tid < pilot.tid
                    /\ marked[s].tid = pilot.tid /\ marked[s].used
                         => marked[s].type \notin NonReferenceTypes
  BY <1>5 DEF RpsIsLegal
<1>6. PICK k \in 1..n - 1 : Shows(dpb[s], coded, k) /\ SameSequence(coded, k, n)
  BY FirstSliceIsAhead
<1>7. SameButMarks(dpb[s], marked[s])
  BY <1>4, <1>5, MarksOnly
<1>8. marked[s].tid = coded[k].tid /\ marked[s].type = coded[k].type
  BY <1>6, <1>7 DEF SameButMarks, Shows
<1>9. /\ marked[s].ref <=> dpb[s].ref /\ k \in references
      /\ marked[s].ref => (marked[s].used <=> k \in used)
  BY <1>1, <1>6, MarksOfPicture
<1> HIDE DEF marked
<1>10. k \in references \ {n} /\ (marked[s].used => k \in used)
  <2>1. n \in Nat
    BY FirstSliceIsAhead
  <2> QED
    BY <1>6, <1>9, <2>1
<1>11. /\ k \in used => coded[k].tid <= coded[n].tid
       /\ k \in used /\ coded[k].tid = coded[n].tid => coded[k].type \notin NonReferenceTypes
       /\ coded[n].type \in TsaTypes => coded[k].tid < coded[n].tid
  BY <1>2, <1>10 DEF RpsLaw
<1> HIDE DEF n
<1> QED
  BY <1>3, <1>8, <1>10, <1>11

(* The asserts of checkCRA() hold.                                         *)
LEMMA PilotFollowsCra ==
  ASSUME IInv, phase = "conceal"
  PROVE  RefsFollowCra(pilot)
<1> DEFINE n == Len(coded)
           kept == references \ {n}
<1>1. PICK used : RpsIs(used)
  BY PilotReferences
<1>2. /\ RpsLaw(coded, references, used) /\ pilot.poc = coded[n].poc
      /\ coded[n].starts => references = {n}
      /\ \A k \in kept : k \in 1..n - 1
  BY <1>1 DEF RpsIs
<1>3. \A r \in pilot.rps : \E k \in kept : pilot.poc + r.delta = coded[k].poc
  BY <1>1, RpsPocs
<1>4. /\ n \in Nat /\ n > 0 /\ n \in 1..n /\ \A k \in 1..n : coded[k].poc \in Int
      /\ OrderLaw(coded, n) /\ Reached \in {n - 1, n}
      /\ Iraps(coded) \subseteq 1..n /\ LatestLaw(coded, n)
      /\ \A k \in 1..n : StartLaw(coded, k) /\ LatestLaw(coded, k)
  <2>1. nal.kind = "slice"
    BY DEF IInv, DecoderInv, PilotInv
  <2> QED
    BY <2>1, Basics, SliceFacts DEF CodedPicture
<1>5. IrapInv
  BY DEF IInv, DecoderInv
<1> SUFFICES ASSUME pilot.poc > pocCRA
             PROVE  \A r \in pilot.rps : pilot.poc + r.delta >= pocCRA
  BY DEF RefsFollowCra
<1>6. CASE coded[n].starts
  <2>1. kept = {}
    BY <1>2, <1>6
  <2> QED
    BY <1>3, <2>1
<1>7. CASE ~coded[n].starts
  <2>1. n # 1
    BY <1>4, <1>7 DEF StartLaw
  <2>2. Reached \in 1..n
    <3> HIDE DEF n
    <3>1. n \in Nat /\ n > 0 /\ (Reached = n - 1 \/ Reached = n)
      BY <1>4
    <3> QED
      BY <2>1, <3>1
  <2>3. PICK i \in 1..Reached : IsLatest(Iraps(coded), i, Reached)
    BY <1>4, <2>2 DEF LatestLaw
  <2>4. i \in Iraps(coded) /\ i \in 1..n /\ i <= Reached
        /\ \A m \in Iraps(coded) : m <= Reached => m <= i
    BY <1>4, <2>3 DEF IsLatest
  <2>5. pocCRA = coded[i].poc
    BY <1>5, <2>3, <2>4 DEF IrapInv
  <2>6. i # n
    BY <1>2, <1>4, <2>5
  <2>7. i \in 1..n - 1 /\ IsLatest(Iraps(coded), i, n - 1)
    <3>1. i <= n - 1 /\ i \in 1..n - 1
      BY <1>4, <2>4, <2>6
    <3>2. \A m \in Iraps(coded) : m <= n - 1 => m <= i
      BY <1>4, <2>4
    <3> QED
      BY <2>4, <3>1, <3>2 DEF IsLatest
  <2>8. coded[n].type \notin LeadingTypes
    <3> SUFFICES ASSUME coded[n].type \in LeadingTypes PROVE FALSE
      OBVIOUS
    <3>1. coded[n].poc < coded[i].poc
      BY <1>4, <2>7 DEF OrderLaw, LeadingLaw
    <3> QED
      BY <1>2, <1>4, <2>4, <2>5, <3>1
  <2>9. coded[n].type \in TrailingTypes \cup {"CRA"}
    <3>1. n \notin Starts(coded)
      BY <1>7 DEF Starts
    <3> QED
      BY <1>4, <2>8, <3>1, GoesOnTypes
  <2>10. \A k \in kept : coded[k].poc >= coded[i].poc
    BY <1>2, <2>7, <2>9 DEF RpsLaw
  <2> QED
    BY <1>3, <2>5, <2>10
<1> QED
  BY <1>6, <1>7

(* The first slice of a picture is given one.                              *)
LEMMA FirstSliceIsLegal ==
  ASSUME IInv, phase = "conceal", firstSliceInPicture
  PROVE  /\ LeadingPicturesAreLegal(dpb, pilot)
         /\ RpsIsLegal(ApplyRps(dpb, pilot), pilot)
         /\ RefsFollowCra(pilot)
<1>1. ASSUME NEW s \in Held(dpb) PROVE OrderIsLegal(pilot, dpb[s])
  <2>1. PICK k \in 1..Len(coded) - 1 :
           Shows(dpb[s], coded, k) /\ SameSequence(coded, k, Len(coded))
    BY FirstSliceIsAhead
  <2>2. Len(coded) \notin Starts(coded)
    BY FirstSliceIsAhead
  <2> QED
    BY <2>1, <2>2, OrderOfPictures
<1>2. LeadingPicturesAreLegal(dpb, pilot)
  BY <1>1, TypeIsLegal DEF LeadingPicturesAreLegal
<1> QED
  BY <1>2, MarkedRpsIsLegal, PilotFollowsCra

LEMMA FirstSliceIsStored ==
  ASSUME IInv, phase = "conceal", firstSliceInPicture, ActivateFirstSlice
  PROVE  \E s \in Slots :
           /\ IsNewPicBuffer(ApplyRps(dpb, pilot), pilot.tid, s)
           /\ curPic' = s /\ SliceActivated(pilot)
           /\ Held(dpb') = Held(dpb) \cup {s}
           /\ Shows(dpb'[s], coded, Len(coded))
           /\ dpb'[s].ref /\ ~dpb'[s].recon /\ ~dpb'[s].out /\ dpb'[s].slices = 1
           /\ \A t \in Held(dpb) : t # s => dpb'[t] = ApplyRps(dpb, pilot)[t]
<1> DEFINE n == Len(coded)
           marked == ApplyRps(dpb, pilot)
           record(s) == [Recreated(marked, s) EXCEPT !.poc0 = pilot.poc,
                           !.poc = pilot.poc, !.ref = TRUE, !.tid = pilot.tid,
                           !.pof = pilot.pof, !.type = pilot.type,
                           !.irap = pilot.irap, !.ids = {pilot.id}]
<1>1. PICK s \in Slots :
         /\ IsNewPicBuffer(marked, pilot.tid, s)
         /\ dpb' = [marked EXCEPT ![s] = record(s)]
         /\ curPic' = s /\ SliceActivated(pilot)
  BY FirstSliceIsLegal DEF ActivateFirstSlice
<1>2. pilot \in Header /\ dpb \in List
  BY DEF IInv, Inv, TypeOK, ObjectsOK, List
<1>3. marked \in List /\ Held(marked) = Held(dpb) /\ Held(dpb) \subseteq Slots
  BY <1>2, ApplyRpsType DEF Held
<1>4. Recreated(marked, s) \in Picture /\ Recreated(marked, s).pos > 0
  BY <1>3, RecreatedType
<1>5. /\ Recreated(marked, s).recon = FALSE /\ Recreated(marked, s).out = FALSE
      /\ Recreated(marked, s).slices = 1
  <2>1. \A x, y : /\ [NewPicture EXCEPT !.pos = x, !.tid = y].recon = FALSE
                  /\ [NewPicture EXCEPT !.pos = x, !.tid = y].out = FALSE
                  /\ [NewPicture EXCEPT !.pos = x, !.tid = y].slices = 1
                  /\ [NewPicture EXCEPT !.pos = x].recon = FALSE
                  /\ [NewPicture EXCEPT !.pos = x].out = FALSE
                  /\ [NewPicture EXCEPT !.pos = x].slices = 1
    BY DEF NewPicture
  <2> QED
    BY <2>1 DEF Recreated
<1>6. \A pic \in Picture :
        LET rec == [pic EXCEPT !.poc0 = pilot.poc, !.poc = pilot.poc, !.ref = TRUE,
                       !.tid = pilot.tid, !.pof = pilot.pof, !.type = pilot.type,
                       !.irap = pilot.irap, !.ids = {pilot.id}]
        IN /\ rec.poc0 = pilot.poc /\ rec.poc = pilot.poc /\ rec.ref = TRUE
           /\ rec.tid = pilot.tid /\ rec.pof = pilot.pof /\ rec.type = pilot.type
           /\ rec.irap = pilot.irap /\ rec.ids = {pilot.id}
           /\ rec.recon = pic.recon /\ rec.out = pic.out /\ rec.slices = pic.slices
  BY DEF Picture
<1>7. record(s) \in Picture /\ record(s).pos > 0
  BY <1>2, <1>4, FirstSliceType
<1>8. /\ record(s).poc0 = pilot.poc /\ record(s).poc = pilot.poc /\ record(s).ref = TRUE
      /\ record(s).tid = pilot.tid /\ record(s).pof = pilot.pof /\ record(s).type = pilot.type
      /\ record(s).irap = pilot.irap /\ record(s).ids = {pilot.id}
      /\ record(s).recon = FALSE /\ record(s).out = FALSE /\ record(s).slices = 1
  BY <1>4, <1>5, <1>6
<1> HIDE DEF record, marked
<1>9. Held(dpb') = Held(dpb) \cup {s}
  BY <1>1, <1>3, <1>7, StoredType
<1>10. dpb'[s] = record(s) /\ \A t \in Slots : t # s => dpb'[t] = marked[t]
  BY <1>1, <1>3 DEF List
<1>11. Shows(dpb'[s], coded, n)
  <2>1. /\ pilot.poc = coded[n].poc /\ pilot.type = coded[n].type /\ pilot.tid = coded[n].tid
        /\ pilot.pof = coded[n].pof /\ pilot.id = n /\ pilot.irap = pocCRA
    BY DEF IInv, DecoderInv, PilotInv
  <2>2. \A i \in Iraps(coded) : IsLatest(Iraps(coded), i, n - 1) => pilot.irap = coded[i].poc
    BY <2>1, FirstSliceIsAhead DEF IInv, DecoderInv, IrapInv
  <2> HIDE DEF n
  <2> QED
    BY <1>8, <1>10, <2>1, <2>2 DEF Shows
<1>12. IsNewPicBuffer(ApplyRps(dpb, pilot), pilot.tid, s) /\ curPic' = s /\ SliceActivated(pilot)
  BY <1>1 DEF marked
<1>13. \A t \in Held(dpb) : t # s => dpb'[t] = ApplyRps(dpb, pilot)[t]
  BY <1>10, HeldIsSlot DEF marked
<1>14. dpb'[s].ref /\ ~dpb'[s].recon /\ ~dpb'[s].out /\ dpb'[s].slices = 1
  BY <1>8, <1>10
<1> QED
  BY <1>3, <1>9, <1>11, <1>12, <1>13, <1>14

(* The picture decoded before it is filtered.                              *)
LEMMA OldPictureIsFiltered ==
  ASSUME IInv, phase = "conceal", firstSliceInPicture, curPic \in Held(dpb)
  PROVE  dpb[curPic].recon
<1>1. MemoryInv /\ OpenInv /\ HandedBackInv
  BY DEF IInv, DecoderInv
<1>2. CASE newPicture
  BY <1>1, <1>2 DEF HandedBackInv
<1>3. CASE ~newPicture
  <2>1. ~(Reached > 0)
    BY <1>1, <1>3 DEF OpenInv, OpenPhases, Ended
  <2>2. Reached = 0
    BY <2>1, Basics
  <2> QED
    BY <1>1, <2>2 DEF MemoryInv
<1> QED
  BY <1>2, <1>3

(* The buffer it takes holds nothing that is still needed.                 *)
LEMMA TakenBuffer ==
  ASSUME IInv, phase = "conceal", firstSliceInPicture,
         NEW s \in Held(dpb), IsNewPicBuffer(ApplyRps(dpb, pilot), pilot.tid, s)
  PROVE  ~dpb[s].out /\ ~ApplyRps(dpb, pilot)[s].ref
<1> DEFINE marked == ApplyRps(dpb, pilot)
<1>1. pilot \in Header /\ dpb \in List
  BY DEF IInv, Inv, TypeOK, ObjectsOK, List
<1>2. marked \in List /\ Held(marked) = Held(dpb) /\ s \in Slots
  BY <1>1, ApplyRpsType DEF Held
<1>3. s \in {t \in Held(marked) : Reusable(marked[t])}
  <2> HIDE DEF marked
  <2>1. s \notin Slots \ Held(marked)
    BY <1>2
  <2> QED
    BY <2>1 DEF IsNewPicBuffer, IsFirst, marked
<1>4. SameButMarks(dpb[s], marked[s])
  BY <1>1, <1>2, MarksOnly
<1>5. marked[s].ref => dpb[s].ref
  <2>1. PICK k \in 1..Len(coded) - 1 :
           Shows(dpb[s], coded, k) /\ SameSequence(coded, k, Len(coded))
    BY FirstSliceIsAhead
  <2>2. PICK used : RpsIs(used)
    BY PilotReferences
  <2> QED
    BY <2>1, <2>2, MarksOfPicture
<1>6. dpb[s].ref => dpb[s].recon
  BY FirstSliceIsAhead
<1> HIDE DEF marked
<1>7. ~marked[s].out /\ (~marked[s].recon \/ ~marked[s].ref)
  BY <1>3 DEF Reusable
<1>8. marked[s].out = dpb[s].out /\ marked[s].recon = dpb[s].recon
  BY <1>4 DEF SameButMarks
<1> QED
  BY <1>5, <1>6, <1>7, <1>8 DEF marked

LEMMA ActivateFirstSliceKeeps ==
  ASSUME IInv, UNCHANGED <<streamVars, appVars>>, ActivateFirstSlice
  PROVE  DecoderInv'
<1> DEFINE n == Len(coded)
           marked == ApplyRps(dpb, pilot)
<1>1. phase = "conceal" /\ firstSliceInPicture
  BY DEF ActivateFirstSlice
<1>2. PICK s \in Slots :
           /\ IsNewPicBuffer(marked, pilot.tid, s)
           /\ curPic' = s /\ SliceActivated(pilot)
           /\ Held(dpb') = Held(dpb) \cup {s}
           /\ Shows(dpb'[s], coded, n)
           /\ dpb'[s].ref /\ ~dpb'[s].recon /\ ~dpb'[s].out /\ dpb'[s].slices = 1
           /\ \A t \in Held(dpb) : t # s => dpb'[t] = marked[t]
  BY <1>1, FirstSliceIsStored
<1>3. /\ Ahead /\ nal.first /\ ~pilot.dep /\ n \in Nat /\ n > 0 /\ Reached = n - 1
      /\ sliceIdx = 0 /\ nal.kind = "slice"
      /\ \A t \in Held(dpb) : \E k \in 1..n - 1 :
           Shows(dpb[t], coded, k) /\ SameSequence(coded, k, n)
      /\ \A t \in Held(dpb) : dpb[t].ref => dpb[t].recon
  BY <1>1, FirstSliceIsAhead DEF Ahead
<1>4. /\ UNCHANGED <<nal, last, coded, references, refPics, prevTid0POC, craNoRaslOutputFlag,
                     isNoOutputPriorPics, prevSliceSkipped, skippedPOC, iSkipFrame,
                     pocRandomAccess, listSet, loopFiltered, written>>
      /\ phase' = "lists" /\ prevPOC' = pilot.poc /\ firstSliceInSequence' = FALSE
      /\ firstSliceInPicture' = TRUE /\ sliceIdx' = 0 /\ pilot' = pilot
      /\ newPicture' = FALSE /\ prefixSEIs' = 0
      /\ CheckCRA(pilot)
  BY <1>1, <1>2, <1>3 DEF SliceActivated, streamVars
<1>5. /\ MemoryInv /\ IrapInv /\ AnchorInv /\ ListInv /\ PilotInv /\ RefPicsInv
      /\ WrittenInv /\ (AllOutput => VanishInv)
  BY DEF IInv, DecoderInv
<1>6. /\ refPics = {} /\ ~prevSliceSkipped /\ pocRandomAccess = -MaxInt
      /\ pilot.poc = coded[n].poc /\ pilot.type = coded[n].type
      /\ ~Undecodable(coded, n) /\ ~IsNotDecoded(nal)
      /\ n \in Anchors(coded) => prevTid0POC = coded[n].poc
  BY <1>1, <1>5 DEF PilotInv
<1>7. ~Ahead' /\ Reached' = n
  BY <1>4 DEF Ahead, Reached
<1>8. /\ n \in 1..n /\ StartLaw(coded, n) /\ Iraps(coded) \subseteq 1..n
      /\ Anchors(coded) \subseteq 1..n /\ SameSequence(coded, n, n)
  BY <1>3, Basics, SequenceGoesOn
<1>9. PICK used : RpsIs(used)
  BY <1>1, PilotReferences
<1>10. \A t \in Held(dpb) : SameButMarks(dpb[t], marked[t])
  <2>1. dpb \in List
    BY DEF IInv, Inv, TypeOK, ObjectsOK, List
  <2> QED
    BY <2>1, MarksOnly DEF Held
<1>11. \A t \in Held(dpb) : \A k \in 1..n - 1 :
         Shows(dpb[t], coded, k) /\ SameSequence(coded, k, n) =>
           (marked[t].ref <=> dpb[t].ref /\ k \in references)
  BY <1>1, <1>9, MarksOfPicture
<1>12. s \in Held(dpb) => ~dpb[s].out /\ ~marked[s].ref
  BY <1>1, <1>2, TakenBuffer
<1>13. phase' \notin {"aborted", "crashed"}
  BY <1>4
<1>14. curPic \in Held(dpb) => dpb[curPic].recon
  BY <1>1, OldPictureIsFiltered
<1> HIDE DEF n, marked
<1>15. dpb'[s].ids = {n}
  BY <1>2 DEF Shows
<1>16. \A t \in Held(dpb') : t = s \/ (t \in Held(dpb) /\ t # s /\ SameButMarks(dpb[t], dpb'[t]))
  BY <1>2, <1>10
<1>17. MemoryInv'
  BY <1>3, <1>4, <1>5, <1>6, <1>7, <1>8 DEF MemoryInv, StartLaw
<1>18. IrapInv'
  <2> SUFFICES ASSUME NEW i \in Iraps(coded), IsLatest(Iraps(coded), i, n)
               PROVE  pocCRA' = coded[i].poc /\ associatedIRAPType' = coded[i].type
    BY <1>4, <1>7 DEF IrapInv
  <2>1. CASE n \in Iraps(coded)
    <3>1. i = n
      BY <1>3, <1>8, <2>1 DEF IsLatest
    <3>2. coded[n].type \in RapTypes
      BY <2>1 DEF Iraps
    <3> QED
      BY <1>4, <1>6, <3>1, <3>2 DEF CheckCRA
  <2>2. CASE n \notin Iraps(coded)
    <3>1. IsLatest(Iraps(coded), i, n - 1)
      BY <1>3, <1>8, <2>2, LatestBefore
    <3>2. coded[n].type \notin RapTypes
      BY <1>8, <2>2 DEF Iraps, n
    <3>3. pocCRA' = pocCRA /\ associatedIRAPType' = associatedIRAPType
      BY <1>4, <1>6, <3>2 DEF CheckCRA
    <3> QED
      BY <1>3, <1>5, <3>1, <3>3 DEF IrapInv
  <2> QED
    BY <2>1, <2>2
<1>19. AnchorInv'
  <2> SUFFICES ASSUME NEW a \in Anchors(coded), IsLatest(Anchors(coded), a, n)
               PROVE  prevTid0POC = coded[a].poc
    BY <1>4, <1>7 DEF AnchorInv
  <2>1. CASE n \in Anchors(coded)
    <3>1. a = n
      BY <1>3, <1>8, <2>1 DEF IsLatest
    <3> QED
      BY <1>6, <2>1, <3>1
  <2>2. CASE n \notin Anchors(coded)
    <3>1. IsLatest(Anchors(coded), a, n - 1)
      BY <1>3, <1>8, <2>2, LatestBefore
    <3> QED
      BY <1>3, <1>5, <2>2, <3>1 DEF AnchorInv, n
  <2> QED
    BY <2>1, <2>2
<1>20. \A t \in Held(dpb) : t # s => \E k \in 1..n - 1 :
         Shows(dpb'[t], coded, k) /\ SameSequence(coded, k, n)
  BY <1>2, <1>3, <1>10 DEF Shows, SameButMarks
<1>21. ListShows(dpb', coded, n)
  <2> SUFFICES ASSUME NEW t \in Held(dpb')
               PROVE  \E k \in 1..n : Shows(dpb'[t], coded, k) /\ SameSequence(coded, k, n)
    BY DEF ListShows
  <2>1. CASE t = s
    BY <1>2, <1>8, <2>1
  <2>2. CASE t # s
    <3>1. PICK k \in 1..n - 1 : Shows(dpb'[t], coded, k) /\ SameSequence(coded, k, n)
      BY <1>16, <1>20, <2>2
    <3>2. k \in 1..n
      BY <1>3
    <3> QED
      BY <3>1, <3>2
  <2> QED
    BY <2>1, <2>2
<1>22. ListDiffers(dpb')
  <2>1. \A t \in Held(dpb) : t # s => dpb'[t].ids # {n}
    <3> SUFFICES ASSUME NEW t \in Held(dpb), t # s PROVE dpb'[t].ids # {n}
      OBVIOUS
    <3>1. PICK k \in 1..n - 1 : dpb'[t].ids = {k}
      BY <1>20 DEF Shows
    <3>2. k # n
      BY <1>3
    <3> QED
      BY <3>1, <3>2
  <2>2. ListDiffers(dpb)
    BY <1>5 DEF ListInv
  <2> QED
    BY <1>2, <1>15, <1>16, <2>1, <2>2 DEF ListDiffers, SameButMarks
<1>23. ListKeeps(dpb', coded, references, n)
  <2> SUFFICES ASSUME NEW k \in references, coded[k].tid <= MaxTemporalLayer
               PROVE  k <= n /\ InList(dpb', k)
    BY DEF ListKeeps
  <2>1. k \in 1..n
    BY <1>3, <1>8, <1>9 DEF RpsIs, n
  <2>2. CASE k = n
    BY <1>2, <1>3, <1>15, <2>2 DEF InList
  <2>3. CASE k # n
    <3>1. k \in 1..n - 1 /\ k <= Reached
      BY <1>3, <2>1, <2>3
    <3>2. ListKeeps(dpb, coded, references, Reached) /\ ListShows(dpb, coded, Reached)
      BY <1>1, <1>5 DEF ListInv
    <3>3. PICK t \in Held(dpb) : dpb[t].ids = {k} /\ dpb[t].ref
      BY <3>1, <3>2 DEF ListKeeps, InList
    <3>4. Shows(dpb[t], coded, k)
      BY <3>2, <3>3, ShownPicture
    <3>5. SameSequence(coded, k, n)
      BY <1>9, <2>3 DEF RpsIs, n
    <3>6. marked[t].ref
      BY <1>11, <3>1, <3>3, <3>4, <3>5
    <3>7. t # s /\ t \in Held(dpb')
      BY <1>2, <1>12, <3>6
    <3>8. dpb'[t].ref /\ dpb'[t].ids = {k}
      BY <1>2, <1>10, <3>3, <3>6, <3>7 DEF SameButMarks
    <3> QED
      BY <2>1, <3>7, <3>8, <1>3 DEF InList
  <2> QED
    BY <2>2, <2>3
<1>24. \A t \in Held(dpb') : IF t = s THEN dpb'[t].ref ELSE dpb'[t].ref => dpb'[t].recon
  <2> SUFFICES ASSUME NEW t \in Held(dpb'), t # s, dpb'[t].ref PROVE dpb'[t].recon
    BY <1>2
  <2>1. t \in Held(dpb) /\ marked[t].ref /\ dpb'[t] = marked[t]
    BY <1>2, <1>16
  <2>2. dpb[t].ref
    BY <1>3, <1>11, <2>1
  <2> QED
    BY <1>3, <1>10, <2>1, <2>2 DEF SameButMarks
<1>25. ListInv'
  BY <1>2, <1>4, <1>7, <1>21, <1>22, <1>23, <1>24 DEF ListInv
<1>26. \A i \in DOMAIN written : written[i].ids # {n}
  <2> SUFFICES ASSUME NEW i \in DOMAIN written PROVE written[i].ids # {n}
    OBVIOUS
  <2>1. PICK k \in 1..Reached : written[i].ids = {k}
    BY <1>5 DEF WrittenInv
  <2>2. k # n
    BY <1>3
  <2> QED
    BY <2>1, <2>2
<1>27. OpenInv'
  <2>1. Unfiltered(dpb', s, written)
    BY <1>2, <1>15, <1>26 DEF Unfiltered
  <2>2. sliceIdx' + 1 = dpb'[s].slices
    BY <1>2, <1>4
  <2> QED
    BY <1>2, <1>4, <2>1, <2>2 DEF OpenInv, OpenPhases
<1>28. HandedBackInv'
  BY <1>4 DEF HandedBackInv
<1>29. CurrentInv'
  BY <1>2, <1>4, <1>6, <1>15 DEF CurrentInv, n
<1>30. PilotInv'
  <2>1. IsNotDecoded(nal)' <=> IsNotDecoded(nal)
    BY <1>4 DEF IsNotDecoded
  <2> QED
    BY <1>1, <1>4, <1>5, <2>1 DEF PilotInv
<1>31. RefPicsInv'
  BY <1>4, <1>6 DEF RefPicsInv
<1>32. WrittenInv'
  <2>1. /\ written \in Seq([ids : SUBSET Nat, poc : Int])
        /\ \A i \in DOMAIN written : \E k \in 1..Reached : written[i].ids = {k}
        /\ \A i, j \in DOMAIN written : written[i].ids = written[j].ids => i = j
        /\ \A t \in Held(dpb), i \in DOMAIN written : dpb[t].ids = written[i].ids => ~dpb[t].out
    BY <1>5 DEF WrittenInv
  <2>2. \A i \in DOMAIN written : \E k \in 1..n : written[i].ids = {k}
    <3>1. 1..Reached \subseteq 1..n
      BY <1>3
    <3> QED
      BY <2>1, <3>1
  <2>3. \A t \in Held(dpb'), i \in DOMAIN written : dpb'[t].ids = written[i].ids => ~dpb'[t].out
    BY <1>2, <1>16, <2>1, SMTT(20) DEF SameButMarks
  <2> QED
    BY <1>4, <1>7, <2>1, <2>2, <2>3 DEF WrittenInv
<1>33. LastInv'
  BY <1>4 DEF LastInv, Ended
<1>34. AllOutput => VanishInv'
  <2> SUFFICES ASSUME AllOutput PROVE VanishInv'
    OBVIOUS
  <2>1. /\ ~isNoOutputPriorPics
        /\ \A t \in Held(dpb) : \/ dpb[t].out
                                \/ \E i \in DOMAIN written : written[i].ids = dpb[t].ids
                                \/ t = curPic /\ ~dpb[t].recon
    BY <1>5 DEF VanishInv
  <2>2. \A t \in Held(dpb') : \/ dpb'[t].out
                              \/ \E i \in DOMAIN written : written[i].ids = dpb'[t].ids
                              \/ t = s /\ ~dpb'[t].recon
    <3> SUFFICES ASSUME NEW t \in Held(dpb'), t # s
                 PROVE  dpb'[t].out \/ \E i \in DOMAIN written : written[i].ids = dpb'[t].ids
      BY <1>2
    <3>1. t \in Held(dpb) /\ dpb'[t].out = dpb[t].out /\ dpb'[t].ids = dpb[t].ids
      BY <1>16 DEF SameButMarks
    <3> QED
      BY <1>14, <2>1, <3>1
  <2> QED
    BY <1>2, <1>4, <2>1, <2>2 DEF VanishInv
<1> QED
  BY <1>13, <1>17, <1>18, <1>19, <1>25, <1>27, <1>28, <1>29, <1>30, <1>31, <1>32, <1>33, <1>34
  DEF DecoderInv

(* A further slice goes to the open picture, which shows its picture.      *)
LEMMA NextSliceIsStored ==
  ASSUME IInv, phase = "conceal", ~firstSliceInPicture, ActivateNextSlice
  PROVE  /\ curPic \in Held(dpb) /\ curPic' = curPic /\ SliceActivated(pilot)
         /\ dpb[curPic].ids = {Len(coded)} /\ Unfiltered(dpb, curPic, written)
         /\ sliceIdx = dpb[curPic].slices /\ sliceIdx \in Nat
         /\ ~newPicture /\ ~nal.first
         /\ Held(dpb') = Held(dpb) /\ dpb'[curPic].slices = dpb[curPic].slices + 1
         /\ \A t \in Held(dpb) :
              /\ SameButMarks(dpb[t], dpb'[t]) /\ dpb'[t].ref = dpb[t].ref
<1> DEFINE n == Len(coded)
           new == [dpb[curPic] EXCEPT !.slices = @ + 1, !.poc = pilot.poc, !.tid = pilot.tid,
                                      !.ids = @ \cup {pilot.id}]
<1>1. MemoryInv /\ ListInv /\ OpenInv /\ HandedBackInv /\ CurrentInv /\ PilotInv
  BY DEF IInv, DecoderInv
<1>2. /\ nal.kind = "slice" /\ ~IsNotDecoded(nal) /\ ~Undecodable(coded, n)
      /\ pilot.id = n /\ pilot.poc = coded[n].poc /\ pilot.tid = coded[n].tid
  BY <1>1 DEF PilotInv
<1>3. /\ ~nal.first /\ Unfiltered(dpb, curPic, written) /\ sliceIdx = dpb[curPic].slices
  BY <1>1 DEF OpenInv, OpenPhases, Ended
<1>4. ~newPicture
  BY <1>1, <1>3 DEF HandedBackInv
<1>5. ~Ahead /\ n > 0 /\ coded[n].tid <= MaxTemporalLayer
  BY <1>2, <1>3, SliceFacts DEF Ahead
<1>6. curPic \in Held(dpb) /\ dpb[curPic].ids = {n}
  BY <1>1, <1>2, <1>5 DEF CurrentInv
<1>7. Shows(dpb[curPic], coded, n)
  BY <1>1, <1>6, ShownPicture DEF ListInv
<1>8. dpb[curPic] \in Picture /\ curPic \in Slots /\ dpb \in List
  BY <1>6 DEF IInv, Inv, TypeOK, ObjectsOK, Held, List
<1>9. dpb[curPic].slices \in Nat
  BY <1>8 DEF Picture
<1>10. /\ dpb' = [dpb EXCEPT ![curPic] = new]
       /\ curPic' = curPic /\ SliceActivated(pilot)
  BY <1>3, <1>6, <1>9, PilotFollowsCra DEF ActivateNextSlice
<1>11. \A p \in Picture : \A u, v :
         LET q == [p EXCEPT !.slices = @ + 1, !.poc = u, !.tid = v, !.ids = @ \cup {pilot.id}]
         IN /\ q.poc = u /\ q.tid = v /\ q.ids = p.ids \cup {pilot.id} /\ q.slices = p.slices + 1
            /\ q.pos = p.pos /\ q.poc0 = p.poc0 /\ q.type = p.type /\ q.pof = p.pof
            /\ q.irap = p.irap /\ q.recon = p.recon /\ q.out = p.out /\ q.ref = p.ref
  BY DEF Picture
<1>12. /\ new.poc = pilot.poc /\ new.tid = pilot.tid /\ new.ids = dpb[curPic].ids \cup {pilot.id}
       /\ new.slices = dpb[curPic].slices + 1 /\ new.pos = dpb[curPic].pos
       /\ new.poc0 = dpb[curPic].poc0 /\ new.type = dpb[curPic].type
       /\ new.pof = dpb[curPic].pof /\ new.irap = dpb[curPic].irap
       /\ new.recon = dpb[curPic].recon /\ new.out = dpb[curPic].out
       /\ new.ref = dpb[curPic].ref
  BY <1>8, <1>11
<1> HIDE DEF new, n
<1>13. dpb'[curPic] = new /\ \A t \in Slots : t # curPic => dpb'[t] = dpb[t]
  BY <1>8, <1>10 DEF List
<1>14. Held(dpb') = Held(dpb)
  BY <1>12, <1>13 DEF Held
<1>15. SameButMarks(dpb[curPic], dpb'[curPic]) /\ dpb'[curPic].ref = dpb[curPic].ref
  BY <1>2, <1>6, <1>7, <1>12, <1>13 DEF SameButMarks, Shows
<1>16. \A t \in Held(dpb) : SameButMarks(dpb[t], dpb'[t]) /\ dpb'[t].ref = dpb[t].ref
  BY <1>13, <1>15 DEF SameButMarks, Held
<1> QED
  BY <1>3, <1>4, <1>6, <1>9, <1>10, <1>12, <1>13, <1>14, <1>16 DEF n

(* Such a list shows the same.                                             *)
LEMMA SameMarksKeep ==
  ASSUME NEW d, NEW e, Held(e) = Held(d),
         \A t \in Held(d) : SameButMarks(d[t], e[t]) /\ e[t].ref = d[t].ref,
         NEW c, NEW refs, NEW n
  PROVE  /\ ListShows(d, c, n) => ListShows(e, c, n)
         /\ ListDiffers(d) => ListDiffers(e)
         /\ ListKeeps(d, c, refs, n) => ListKeeps(e, c, refs, n)
<1>1. \A t \in Held(d) : \A k : Shows(d[t], c, k) => Shows(e[t], c, k)
  BY DEF SameButMarks, Shows
<1>2. \A k : InList(d, k) => InList(e, k)
  BY DEF SameButMarks, InList
<1>3. ListShows(d, c, n) => ListShows(e, c, n)
  BY <1>1 DEF ListShows
<1>4. ListDiffers(d) => ListDiffers(e)
  BY DEF SameButMarks, ListDiffers
<1>5. ListKeeps(d, c, refs, n) => ListKeeps(e, c, refs, n)
  BY <1>2 DEF ListKeeps
<1> QED
  BY <1>3, <1>4, <1>5

LEMMA ActivateNextSliceKeeps ==
  ASSUME IInv, UNCHANGED <<streamVars, appVars>>, ActivateNextSlice
  PROVE  DecoderInv'
<1> DEFINE n == Len(coded)
<1>1. phase = "conceal" /\ ~firstSliceInPicture
  BY DEF ActivateNextSlice
<1>2. /\ curPic \in Held(dpb) /\ curPic' = curPic /\ SliceActivated(pilot)
      /\ dpb[curPic].ids = {n} /\ Unfiltered(dpb, curPic, written)
      /\ sliceIdx = dpb[curPic].slices /\ sliceIdx \in Nat
      /\ ~newPicture /\ ~nal.first
      /\ Held(dpb') = Held(dpb) /\ dpb'[curPic].slices = dpb[curPic].slices + 1
      /\ \A t \in Held(dpb) : SameButMarks(dpb[t], dpb'[t]) /\ dpb'[t].ref = dpb[t].ref
  BY <1>1, NextSliceIsStored
<1>3. /\ UNCHANGED <<nal, last, coded, references, refPics, prevTid0POC, craNoRaslOutputFlag,
                     isNoOutputPriorPics, prevSliceSkipped, skippedPOC, iSkipFrame,
                     pocRandomAccess, listSet, loopFiltered, written>>
      /\ newPicture' = FALSE /\ prefixSEIs' = 0
      /\ firstSliceInPicture' = FALSE /\ firstSliceInSequence' = FALSE
  BY <1>1, <1>2 DEF SliceActivated, streamVars
<1>4. \/ /\ phase' = "returned" /\ sliceIdx' = sliceIdx + 1 /\ prevPOC' = prevPOC
         /\ UNCHANGED irapVars
      \/ /\ phase' = "lists" /\ sliceIdx' = sliceIdx /\ prevPOC' = pilot.poc /\ pilot' = pilot
         /\ CheckCRA(pilot)
  BY <1>2 DEF SliceActivated
<1>5. /\ MemoryInv /\ IrapInv /\ AnchorInv /\ ListInv /\ PilotInv /\ RefPicsInv
      /\ WrittenInv /\ (AllOutput => VanishInv)
  BY DEF IInv, DecoderInv
<1>6. /\ refPics = {} /\ ~prevSliceSkipped /\ pocRandomAccess = -MaxInt
      /\ pilot.poc = coded[n].poc /\ pilot.type = coded[n].type
      /\ nal.kind = "slice" /\ ~Undecodable(coded, n) /\ ~IsNotDecoded(nal)
  BY <1>1, <1>5 DEF PilotInv
<1>7. ~Ahead /\ ~Ahead' /\ Reached = n /\ Reached' = n
  BY <1>2, <1>3 DEF Ahead, Reached
<1>8. /\ n \in Nat /\ n > 0 /\ n \in 1..n /\ StartLaw(coded, n) /\ Iraps(coded) \subseteq 1..n
  BY <1>6, Basics, SliceFacts
<1>9. phase' \in {"lists", "returned"}
  BY <1>4
<1> HIDE DEF n
<1>10. MemoryInv'
  <2>1. prevPOC' >= -MaxInt
    BY <1>4, <1>5, <1>6, <1>8 DEF MemoryInv, StartLaw
  <2> QED
    BY <1>3, <1>5, <1>6, <1>7, <1>8, <1>9, <2>1 DEF MemoryInv
<1>11. IrapInv'
  <2> SUFFICES ASSUME NEW i \in Iraps(coded), IsLatest(Iraps(coded), i, n)
               PROVE  pocCRA' = coded[i].poc /\ associatedIRAPType' = coded[i].type
    BY <1>3, <1>7 DEF IrapInv
  <2>1. pocCRA = coded[i].poc /\ associatedIRAPType = coded[i].type
    BY <1>5, <1>7 DEF IrapInv
  <2>2. CASE n \in Iraps(coded)
    <3>1. i = n
      BY <1>8, <2>2 DEF IsLatest
    <3> QED
      BY <1>4, <1>6, <2>1, <3>1 DEF CheckCRA
  <2>3. CASE n \notin Iraps(coded)
    <3>1. coded[n].type \notin RapTypes
      BY <1>8, <2>3 DEF Iraps, n
    <3> QED
      BY <1>4, <1>6, <2>1, <3>1 DEF CheckCRA
  <2> QED
    BY <2>2, <2>3
<1>12. AnchorInv'
  BY <1>3, <1>5, <1>7 DEF AnchorInv
<1>13. ListInv'
  <2>1. ListShows(dpb, coded, n) /\ ListDiffers(dpb) /\ ListKeeps(dpb, coded, references, n)
        /\ \A t \in Held(dpb) : IF t = curPic THEN dpb[t].ref ELSE dpb[t].ref => dpb[t].recon
    BY <1>1, <1>5, <1>7 DEF ListInv
  <2>2. ListShows(dpb', coded, n) /\ ListDiffers(dpb') /\ ListKeeps(dpb', coded, references, n)
    BY <1>2, <2>1, SameMarksKeep
  <2>3. \A t \in Held(dpb') : IF t = curPic THEN dpb'[t].ref ELSE dpb'[t].ref => dpb'[t].recon
    BY <1>2, <2>1 DEF SameButMarks
  <2> QED
    BY <1>2, <1>3, <1>7, <2>2, <2>3 DEF ListInv
<1>14. OpenInv'
  <2>1. Unfiltered(dpb', curPic, written)
    BY <1>2 DEF Unfiltered, SameButMarks
  <2>2. phase' = "returned" => sliceIdx' = dpb'[curPic].slices
    BY <1>2, <1>4
  <2>3. phase' = "lists" => sliceIdx' + 1 = dpb'[curPic].slices
    BY <1>2, <1>4
  <2> QED
    BY <1>2, <1>3, <1>9, <2>1, <2>2, <2>3 DEF OpenInv, OpenPhases
<1>15. HandedBackInv'
  BY <1>3, <1>9 DEF HandedBackInv
<1>16. CurrentInv'
  BY <1>2, <1>3, <1>6 DEF CurrentInv, SameButMarks, n
<1>17. PilotInv'
  <2>1. IsNotDecoded(nal)' <=> IsNotDecoded(nal)
    BY <1>3 DEF IsNotDecoded
  <2> QED
    BY <1>1, <1>3, <1>4, <1>5, <1>9, <2>1 DEF PilotInv
<1>18. RefPicsInv'
  BY <1>3, <1>6 DEF RefPicsInv
<1>19. WrittenInv'
  <2>1. /\ written' = written /\ Reached' = Reached
        /\ \A t \in Held(dpb') : t \in Held(dpb) /\ dpb'[t].ids = dpb[t].ids
                                 /\ (dpb'[t].out <=> dpb[t].out)
    BY <1>2, <1>3, <1>7 DEF SameButMarks
  <2>2. WrittenInv
    BY <1>5
  <2> QED
    BY <2>1, <2>2 DEF WrittenInv
<1>20. LastInv'
  BY <1>9 DEF LastInv, Ended
<1>21. AllOutput => VanishInv'
  BY <1>2, <1>3, <1>5 DEF VanishInv, SameButMarks
<1> QED
  BY <1>9, <1>10, <1>11, <1>12, <1>13, <1>14, <1>15, <1>16, <1>17, <1>18, <1>19, <1>20, <1>21
  DEF DecoderInv

(* setRefPicList() finds the pictures the header uses, and no others.      *)
LEMMA RefPicsAreFound ==
  ASSUME IInv, phase = "lists", NEW poc \in UsedPocs(pilot)
  PROVE  /\ \E s \in Slots : IsRefPic(dpb, s, poc)
         /\ \A s \in Slots : IsRefPic(dpb, s, poc) =>
              dpb[s].ref /\ \E k \in 1..Len(coded) :
                SameSequence(coded, k, Len(coded)) /\ dpb[s].ids = {k} /\ dpb[s].poc = coded[k].poc
<1> DEFINE n == Len(coded)
<1>1. OpenInv /\ ListInv /\ PilotInv
  BY DEF IInv, DecoderInv
<1>2. ~Ahead /\ Reached = n /\ n \in Nat
  BY <1>1, Basics DEF Ahead, OpenInv
<1>3. PICK used : RpsIs(used)
  BY PilotReferences
<1>4. PICK k \in used : poc = coded[k].poc
  BY <1>3, RpsPocs
<1>5. /\ k \in 1..n /\ SameSequence(coded, k, n)
  BY <1>2, <1>3 DEF RpsIs
<1>6. PICK s \in Held(dpb) : dpb[s].ref /\ Shows(dpb[s], coded, k)
  BY <1>3 DEF RpsIs
<1>7. ASSUME NEW t \in Held(dpb), dpb[t].poc = poc PROVE t = s
  <2>1. PICK j \in 1..n : Shows(dpb[t], coded, j) /\ SameSequence(coded, j, n)
    BY <1>1, <1>2 DEF ListInv, ListShows
  <2>2. coded[j].poc = coded[k].poc
    BY <1>4, <1>7, <2>1 DEF Shows
  <2>3. j = k
    BY <1>2, <1>5, <2>1, <2>2, PocsDiffer
  <2>4. dpb[t].ids = dpb[s].ids
    BY <1>6, <2>1, <2>3 DEF Shows
  <2> QED
    BY <1>1, <2>4 DEF ListInv, ListDiffers
<1>8. dpb[s].poc = poc /\ dpb[s].ids = {k} /\ s \in Slots /\ dpb[s].pos \in Nat
  BY <1>4, <1>6 DEF Shows, Held, IInv, Inv, TypeOK, ObjectsOK, Picture
<1>9. {t \in Held(dpb) : dpb[t].poc = poc} = {s}
  BY <1>7, <1>8
<1>10. IsRefPic(dpb, s, poc)
  BY <1>8, <1>9 DEF IsRefPic, IsFirst
<1>11. \A t \in Slots : IsRefPic(dpb, t, poc) => t = s
  BY <1>9 DEF IsRefPic, IsFirst
<1> QED
  BY <1>4, <1>5, <1>6, <1>8, <1>10, <1>11

LEMMA SetRefPicListKeeps ==
  ASSUME IInv, UNCHANGED <<streamVars, appVars>>, SetRefPicList
  PROVE  DecoderInv'
<1> DEFINE n == Len(coded)
<1>1. phase = "lists"
  BY DEF SetRefPicList
<1>2. \A poc \in UsedPocs(pilot) : \E s \in Slots : IsRefPic(dpb, s, poc)
  BY <1>1, RefPicsAreFound
<1>3. /\ refPics' = {[poc |-> dpb[s].poc, ids |-> dpb[s].ids, ref |-> dpb[s].ref] :
                       s \in {t \in Slots : \E poc \in UsedPocs(pilot) : IsRefPic(dpb, t, poc)}}
      /\ firstSliceInPicture' = FALSE /\ sliceIdx' = sliceIdx + 1
      /\ phase' = "returned" /\ newPicture' = FALSE
      /\ UNCHANGED <<dpb, curPic, headerVars, skipVars, irapVars, firstSliceInSequence,
                     prevPOC, pocRandomAccess, prefixSEIs>>
      /\ UNCHANGED <<nal, last, coded, references, listSet, loopFiltered, written>>
  BY <1>1, <1>2 DEF SetRefPicList, Return, streamVars
<1>4. /\ UNCHANGED <<dpb, curPic, prevTid0POC, craNoRaslOutputFlag, isNoOutputPriorPics,
                     prevSliceSkipped, skippedPOC, iSkipFrame, pocCRA, associatedIRAPType>>
  BY <1>3
<1>5. /\ MemoryInv /\ IrapInv /\ AnchorInv /\ ListInv /\ OpenInv /\ CurrentInv /\ PilotInv
      /\ WrittenInv /\ (AllOutput => VanishInv)
  BY DEF IInv, DecoderInv
<1>6. ~newPicture /\ Unfiltered(dpb, curPic, written) /\ sliceIdx + 1 = dpb[curPic].slices
  BY <1>1, <1>5 DEF OpenInv
<1>7. ~Ahead /\ ~Ahead' /\ Reached = n /\ Reached' = n /\ n \in Nat /\ n > 0
  <2>1. n \in Nat /\ n > 0
    BY <1>1, <1>5, Basics, SliceFacts DEF PilotInv
  <2> QED
    BY <1>1, <1>3, <1>6, <2>1 DEF Ahead, Reached
<1> HIDE DEF n
<1>8. MemoryInv'
  BY <1>3, <1>4, <1>5, <1>6, <1>7 DEF MemoryInv
<1>9. IrapInv'
  BY <1>3, <1>4, <1>5, <1>7 DEF IrapInv
<1>10. AnchorInv'
  BY <1>3, <1>4, <1>5, <1>7 DEF AnchorInv
<1>11. ListInv'
  BY <1>1, <1>3, <1>4, <1>5, <1>7 DEF ListInv
<1>12. OpenInv'
  <2>1. Unfiltered(dpb', curPic', written') /\ sliceIdx' = dpb'[curPic'].slices
    BY <1>3, <1>4, <1>6
  <2> QED
    BY <1>3, <2>1 DEF OpenInv, OpenPhases
<1>13. HandedBackInv'
  BY <1>3 DEF HandedBackInv
<1>14. CurrentInv'
  BY <1>1, <1>3, <1>4, <1>5, <1>7 DEF CurrentInv
<1>15. PilotInv'
  BY <1>3 DEF PilotInv
<1>16. RefPicsInv'
  <2> SUFFICES ASSUME NEW r \in refPics'
               PROVE  r.ref /\ \E k \in 1..n : SameSequence(coded, k, n) /\ r.ids = {k} /\ r.poc = coded[k].poc
    BY <1>3, <1>7 DEF RefPicsInv
  <2>1. PICK s \in Slots, poc \in UsedPocs(pilot) :
          IsRefPic(dpb, s, poc) /\ r = [poc |-> dpb[s].poc, ids |-> dpb[s].ids, ref |-> dpb[s].ref]
    BY <1>3
  <2>2. r.poc = dpb[s].poc /\ r.ids = dpb[s].ids /\ r.ref = dpb[s].ref
    BY <2>1
  <2> QED
    BY <1>1, <2>1, <2>2, RefPicsAreFound DEF n
<1>17. WrittenInv'
  BY <1>3, <1>4, <1>5, <1>7 DEF WrittenInv
<1>18. LastInv'
  BY <1>3 DEF LastInv, Ended
<1>19. AllOutput => VanishInv'
  BY <1>3, <1>4, <1>5 DEF VanishInv
<1>20. phase' \notin {"aborted", "crashed"}
  BY <1>3
<1> QED
  BY <1>8, <1>9, <1>10, <1>11, <1>12, <1>13, <1>14, <1>15, <1>16, <1>17, <1>18, <1>19, <1>20
  DEF DecoderInv

-----------------------------------------------------------------------------
(* Reading leaves what is known of the pictures coded before.              *)
LEMMA ReadFacts ==
  ASSUME IInv, ReadNal
  PROVE  LET n == Len(coded)
         IN /\ n \in Nat /\ Reached = n /\ Reached' = n /\ ~Ahead
            /\ phase = "read" /\ phase' \in {"read", "decode"}
            /\ ~newPicture /\ ~newPicture'
            /\ \A k \in 1..n : coded'[k] = coded[k]
            /\ \A k \in 0..n : \A j :
                 /\ IsLatest(Iraps(coded'), j, k) <=> IsLatest(Iraps(coded), j, k)
                 /\ IsLatest(Anchors(coded'), j, k) <=> IsLatest(Anchors(coded), j, k)
                 /\ SameSequence(coded', j, k) <=> SameSequence(coded, j, k)
            /\ \A k \in references' : k \in references \/ k = n + 1
            /\ Ahead' \/ (coded' = coded /\ references' = references)
<1> DEFINE n == Len(coded)
<1>1. /\ phase = "read" /\ phase' = (IF nal' = NoNal THEN "read" ELSE "decode")
      /\ Send /\ newPicture' = FALSE
  BY DEF ReadNal
<1>2. ~newPicture
  BY <1>1 DEF IInv, Inv, DependentInv
<1>3. n \in Nat /\ coded \in Seq(CodedPicture) /\ references \subseteq 1..n
  BY Basics DEF IInv, Inv, TypeOK, StreamTypeOK
<1>4. AddsNoPicture \/ \E c \in CodedPicture : AddsPicture(c)
  BY <1>1, SendKeepsSourceInv DEF IInv, Inv, TypeOK
<1>5. ~Ahead /\ Reached = n
  BY <1>1, <1>2 DEF Ahead, Reached
<1>6. phase' \in {"read", "decode"}
  BY <1>1
<1>7. CASE AddsNoPicture
  <2>1. ~Ahead' /\ coded' = coded /\ references' = references
    BY <1>7 DEF AddsNoPicture, Ahead
  <2>2. Reached' = n
    BY <2>1 DEF Reached
  <2> QED
    BY <1>1, <1>2, <1>3, <1>5, <1>6, <2>1, <2>2
<1>8. ASSUME NEW c \in CodedPicture, AddsPicture(c)
      PROVE  /\ Ahead' /\ Reached' = n
             /\ \A k \in 1..n : coded'[k] = coded[k]
             /\ \A k \in 0..n : \A j :
                 /\ IsLatest(Iraps(coded'), j, k) <=> IsLatest(Iraps(coded), j, k)
                 /\ IsLatest(Anchors(coded'), j, k) <=> IsLatest(Anchors(coded), j, k)
                 /\ SameSequence(coded', j, k) <=> SameSequence(coded, j, k)
             /\ \A k \in references' : k \in references \/ k = n + 1
  <2>1. coded' = Append(coded, c)
    BY <1>8 DEF AddsPicture
  <2>2. nal'.kind = "slice" /\ nal'.first /\ nal' # NoNal
    BY <1>8 DEF AddsPicture, NoNal
  <2>3. Len(coded') = n + 1 /\ \A k \in 1..n : coded'[k] = coded[k]
    BY <1>3, <2>1, PrefixSets
  <2>4. Ahead'
    BY <1>1, <2>2 DEF Ahead
  <2>5. Reached' = n
    BY <1>3, <2>3, <2>4 DEF Reached
  <2>6. \A k \in 0..n : \A j :
          /\ IsLatest(Iraps(coded'), j, k) <=> IsLatest(Iraps(coded), j, k)
          /\ IsLatest(Anchors(coded'), j, k) <=> IsLatest(Anchors(coded), j, k)
          /\ SameSequence(coded', j, k) <=> SameSequence(coded, j, k)
    BY <1>3, <2>1, PrefixStructure
  <2>7. \A k \in references' : k \in references \/ k = n + 1
    BY <1>8 DEF AddsPicture
  <2> QED
    BY <2>3, <2>4, <2>5, <2>6, <2>7
<1> QED
  <2>1. CASE \E c \in CodedPicture : AddsPicture(c)
    BY <1>1, <1>2, <1>3, <1>5, <1>6, <1>8, <2>1
  <2> QED
    BY <1>4, <1>7, <2>1

LEMMA ReadNalKeeps ==
  ASSUME IInv, ReadNal
  PROVE  DecoderInv'
<1> DEFINE n == Len(coded)
<1>1. /\ n \in Nat /\ Reached = n /\ Reached' = n /\ ~Ahead
      /\ phase = "read" /\ phase' \in {"read", "decode"}
      /\ ~newPicture /\ ~newPicture'
      /\ \A k \in 1..n : coded'[k] = coded[k]
      /\ \A k \in 0..n : \A j :
           /\ IsLatest(Iraps(coded'), j, k) <=> IsLatest(Iraps(coded), j, k)
           /\ IsLatest(Anchors(coded'), j, k) <=> IsLatest(Anchors(coded), j, k)
           /\ SameSequence(coded', j, k) <=> SameSequence(coded, j, k)
      /\ \A k \in references' : k \in references \/ k = n + 1
      /\ Ahead' \/ (coded' = coded /\ references' = references)
  BY ReadFacts
<1>2. /\ UNCHANGED <<pilot, refPics, prevTid0POC, craNoRaslOutputFlag, isNoOutputPriorPics,
                     prevSliceSkipped, skippedPOC, iSkipFrame, pocCRA, associatedIRAPType,
                     prevPOC, pocRandomAccess, prefixSEIs, curPic, sliceIdx, dpb,
                     firstSliceInPicture, firstSliceInSequence, listSet, loopFiltered, written>>
  BY DEF ReadNal
<1>3. /\ MemoryInv /\ IrapInv /\ AnchorInv /\ ListInv /\ OpenInv /\ CurrentInv
      /\ RefPicsInv /\ WrittenInv /\ (AllOutput => VanishInv)
  BY DEF IInv, DecoderInv
<1>4. /\ Iraps(coded) \subseteq 1..n /\ Anchors(coded) \subseteq 1..n /\ n \in 0..n
      /\ references \subseteq 1..n
  BY <1>1, Basics DEF IInv, Inv, TypeOK, StreamTypeOK
<1> HIDE DEF n
<1>5. MemoryInv'
  BY <1>1, <1>2, <1>3 DEF MemoryInv
<1>6. IrapInv'
  <2> SUFFICES ASSUME NEW i \in Iraps(coded'), IsLatest(Iraps(coded'), i, n)
               PROVE  pocCRA = coded'[i].poc /\ associatedIRAPType = coded'[i].type
    BY <1>1, <1>2 DEF IrapInv
  <2>1. IsLatest(Iraps(coded), i, n)
    BY <1>1, <1>4
  <2>2. i \in Iraps(coded) /\ i \in 1..n
    BY <1>4, <2>1 DEF IsLatest
  <2> QED
    BY <1>1, <1>3, <2>1, <2>2 DEF IrapInv
<1>7. AnchorInv'
  <2> SUFFICES ASSUME NEW a \in Anchors(coded'), IsLatest(Anchors(coded'), a, n)
               PROVE  prevTid0POC = coded'[a].poc
    BY <1>1, <1>2 DEF AnchorInv
  <2>1. IsLatest(Anchors(coded), a, n)
    BY <1>1, <1>4
  <2>2. a \in Anchors(coded) /\ a \in 1..n
    BY <1>4, <2>1 DEF IsLatest
  <2> QED
    BY <1>1, <1>3, <2>1, <2>2 DEF AnchorInv
<1>8. \A k \in 1..n : SameSequence(coded', k, n) <=> SameSequence(coded, k, n)
  BY <1>1, <1>4
<1>9. ASSUME NEW s \in Held(dpb), NEW k \in 1..n, Shows(dpb[s], coded, k)
      PROVE  Shows(dpb[s], coded', k)
  <2>1. coded'[k] = coded[k] /\ k - 1 \in 0..n
    BY <1>1
  <2>2. ASSUME NEW i \in Iraps(coded'), IsLatest(Iraps(coded'), i, k - 1)
        PROVE  IsLatest(Iraps(coded), i, k - 1) /\ i \in Iraps(coded) /\ coded'[i] = coded[i]
    <3>1. IsLatest(Iraps(coded), i, k - 1)
      BY <1>1, <2>1, <2>2
    <3>2. i \in Iraps(coded)
      BY <3>1 DEF IsLatest
    <3> QED
      BY <1>1, <1>4, <3>1, <3>2
  <2> QED
    BY <1>9, <2>1, <2>2 DEF Shows
<1>10. ListInv'
  <2>1. ListShows(dpb, coded, n) /\ ListDiffers(dpb) /\ ListKeeps(dpb, coded, references, n)
        /\ \A s \in Held(dpb) : IF s = curPic THEN dpb[s].ref ELSE dpb[s].ref => dpb[s].recon
    BY <1>1, <1>3 DEF ListInv
  <2>2. ListShows(dpb, coded', n)
    BY <1>8, <1>9, <2>1 DEF ListShows
  <2>3. ASSUME NEW k \in references', k <= n, coded'[k].tid <= MaxTemporalLayer
        PROVE  InList(dpb, k)
    <3>1. k # n + 1
      BY <1>1, <2>3
    <3>2. k \in references /\ k \in 1..n
      BY <1>1, <1>4, <3>1
    <3> QED
      BY <1>1, <2>1, <2>3, <3>2 DEF ListKeeps
  <2> QED
    BY <1>1, <1>2, <2>1, <2>2, <2>3 DEF ListInv, ListKeeps
<1>11. OpenInv'
  BY <1>1, <1>2, <1>3 DEF OpenInv, OpenPhases, Ended
<1>12. HandedBackInv'
  BY <1>1 DEF HandedBackInv
<1>13. CurrentInv'
  BY <1>1, <1>2, <1>3 DEF CurrentInv
<1>14. PilotInv'
  BY <1>1 DEF PilotInv
<1>15. RefPicsInv'
  BY <1>1, <1>2, <1>3, <1>8 DEF RefPicsInv
<1>16. WrittenInv'
  BY <1>1, <1>2, <1>3 DEF WrittenInv
<1>17. LastInv'
  BY <1>1 DEF LastInv, Ended
<1>18. AllOutput => VanishInv'
  BY <1>1, <1>2, <1>3 DEF VanishInv
<1> QED
  BY <1>1, <1>5, <1>6, <1>7, <1>10, <1>11, <1>12, <1>13, <1>14, <1>15, <1>16, <1>17, <1>18
  DEF DecoderInv

-----------------------------------------------------------------------------
(* The invariant.                                                          *)

LEMMA InitIInv == Intact /\ Init => IInv
<1> SUFFICES ASSUME Intact, Init PROVE IInv
  OBVIOUS
<1>1. Inv /\ SourceInv
  BY InitInv, InitSourceInv DEF Init
<1>2. /\ phase = "read" /\ newPicture = FALSE /\ dpb = EmptyDpb /\ refPics = {}
      /\ firstSliceInPicture = TRUE /\ firstSliceInSequence = TRUE /\ prevPOC = MaxInt
      /\ pocRandomAccess = MaxInt /\ craNoRaslOutputFlag = FALSE /\ prefixSEIs = 0
      /\ iSkipFrame = 0 /\ loopFiltered = FALSE /\ written = << >> /\ coded = << >>
      /\ references = {} /\ isNoOutputPriorPics = FALSE
  BY DEF Init, AppInit, DecInit, StreamInit, Intact
<1>3. Held(dpb) = {}
  BY <1>2, NewPictureType DEF Held, EmptyDpb
<1>4. ~Ahead /\ Reached = 0 /\ Len(coded) = 0
  BY <1>2 DEF Ahead, Reached
<1>5. Iraps(coded) = {} /\ Anchors(coded) = {}
  BY <1>4 DEF Iraps, Anchors
<1>6. MaxInt \in Int /\ MaxInt > 0
  BY MaxIntAssumption DEF Intact
<1>7. MemoryInv
  BY <1>2, <1>3, <1>4, <1>6 DEF MemoryInv
<1>8. IrapInv /\ AnchorInv
  BY <1>5 DEF IrapInv, AnchorInv
<1>9. ListInv
  BY <1>2, <1>3, <1>4 DEF ListInv, ListShows, ListDiffers, ListKeeps
<1>10. OpenInv
  BY <1>2, <1>4 DEF OpenInv, OpenPhases
<1>11. HandedBackInv /\ CurrentInv /\ PilotInv /\ RefPicsInv
  BY <1>2, <1>4 DEF HandedBackInv, CurrentInv, PilotInv, RefPicsInv
<1>12. WrittenInv
  <2>1. written \in Seq([ids : SUBSET Nat, poc : Int]) /\ DOMAIN written = {}
    BY <1>2
  <2> QED
    BY <2>1 DEF WrittenInv
<1>13. LastInv /\ VanishInv
  BY <1>2, <1>3 DEF LastInv, Ended, VanishInv
<1>14. DecoderInv
  BY <1>2, <1>7, <1>8, <1>9, <1>10, <1>11, <1>12, <1>13 DEF DecoderInv
<1> QED
  BY <1>1, <1>14 DEF IInv

LEMMA StutterKeeps ==
  ASSUME IInv, UNCHANGED vars
  PROVE  DecoderInv'
<1>1. UNCHANGED <<streamVars, decVars, appVars>>
  BY DEF vars
<1>2. /\ UNCHANGED <<phase, newPicture, pilot, dpb, curPic, sliceIdx, refPics, prevTid0POC>>
      /\ UNCHANGED <<craNoRaslOutputFlag, isNoOutputPriorPics, prevSliceSkipped, skippedPOC>>
      /\ UNCHANGED <<iSkipFrame, pocCRA, associatedIRAPType, firstSliceInPicture>>
      /\ UNCHANGED <<firstSliceInSequence, prevPOC, pocRandomAccess, prefixSEIs>>
  BY <1>1 DEF decVars
<1>3. UNCHANGED <<listSet, loopFiltered, written, nal, last, coded, references>>
  BY <1>1 DEF streamVars
<1>4. (Ahead' <=> Ahead) /\ Reached' = Reached
  BY <1>2, <1>3 DEF Ahead, Reached
<1>5. IsNotDecoded(nal)' <=> IsNotDecoded(nal)
  BY <1>3 DEF IsNotDecoded
<1>6. /\ MemoryInv /\ IrapInv /\ AnchorInv /\ ListInv /\ OpenInv /\ HandedBackInv /\ CurrentInv
      /\ PilotInv /\ RefPicsInv /\ WrittenInv /\ LastInv /\ (AllOutput => VanishInv)
      /\ phase \notin {"aborted", "crashed"}
  BY DEF IInv, DecoderInv
<1>7. MemoryInv' /\ IrapInv' /\ AnchorInv'
  BY <1>2, <1>3, <1>4, <1>6 DEF MemoryInv, IrapInv, AnchorInv
<1>8. ListInv'
  BY <1>2, <1>3, <1>4, <1>6 DEF ListInv
<1>9. OpenInv'
  BY <1>2, <1>3, <1>4, <1>6 DEF OpenInv, Ended
<1>10. HandedBackInv' /\ CurrentInv' /\ PilotInv'
  BY <1>2, <1>3, <1>4, <1>5, <1>6 DEF HandedBackInv, CurrentInv, PilotInv
<1>11. RefPicsInv' /\ WrittenInv'
  BY <1>2, <1>3, <1>4, <1>6 DEF RefPicsInv, WrittenInv
<1>12. LastInv' /\ (AllOutput => VanishInv')
  BY <1>2, <1>3, <1>6 DEF LastInv, Ended, VanishInv
<1> QED
  BY <1>2, <1>6, <1>7, <1>8, <1>9, <1>10, <1>11, <1>12 DEF DecoderInv

LEMMA NextIInv == IInv /\ [Next]_vars => IInv'
<1> SUFFICES ASSUME IInv, [Next]_vars PROVE IInv'
  OBVIOUS
<1>1. Inv'
  BY NextInv DEF IInv
<1>2. Intact'
  BY DEF IInv, Intact
<1>3. UNCHANGED streamVars => SourceInv'
  <2> SUFFICES ASSUME UNCHANGED streamVars PROVE SourceInv'
    OBVIOUS
  <2>1. UNCHANGED <<nal, coded, references, sequenceEnd, moreSlices>>
    BY DEF streamVars
  <2> QED
    BY <2>1 DEF IInv, SourceInv, NalLaw
<1>4. ASSUME SourceInv', DecoderInv' PROVE IInv'
  BY <1>1, <1>2, <1>4 DEF IInv
<1>5. CASE UNCHANGED vars
  BY <1>3, <1>4, <1>5, StutterKeeps DEF vars
<1>6. CASE ReadNal
  <2>1. SourceInv'
    BY <1>6, SendKeepsSourceInv DEF ReadNal, IInv, Inv, TypeOK
  <2> QED
    BY <1>4, <1>6, <2>1, ReadNalKeeps
<1>7. ASSUME UNCHANGED streamVars, IgnoreLayer(nal) PROVE IInv'
  BY <1>3, <1>4, <1>7, IgnoreLayerKeeps
<1>8. ASSUME UNCHANGED streamVars, Decode(nal) PROVE IInv'
  <2>1. ~IsNotDecoded(nal) /\ DecNext(nal) /\ UNCHANGED <<streamVars, appVars>> /\ SourceInv'
    BY <1>3, <1>8 DEF Decode
  <2>2. CASE SkipSlice(nal)
    BY <1>4, <2>1, <2>2, SkipSliceKeeps
  <2>3. CASE BeginSlice(nal)
    BY <1>4, <2>1, <2>3, BeginSliceKeeps
  <2>4. ~CreateLostPicture
    BY CreateLostPictureIsImpossible
  <2>5. CASE ActivateFirstSlice
    BY <1>4, <2>1, <2>5, ActivateFirstSliceKeeps
  <2>6. CASE ActivateNextSlice
    BY <1>4, <2>1, <2>6, ActivateNextSliceKeeps
  <2>7. CASE SetRefPicList
    BY <1>4, <2>1, <2>7, SetRefPicListKeeps
  <2>8. CASE EndOfSequence(nal) \/ PrefixSEI(nal) \/ ReservedVcl(nal) \/ OtherNal(nal)
    BY <1>4, <2>1, <2>8, OtherNalUnitKeeps
  <2> QED
    BY <2>1, <2>2, <2>3, <2>4, <2>5, <2>6, <2>7, <2>8 DEF DecNext
<1>9. ASSUME UNCHANGED streamVars, FinishPicture(nal, last) PROVE IInv'
  BY <1>3, <1>4, <1>9, FinishPictureKeeps
<1>10. ASSUME UNCHANGED streamVars, Bump PROVE IInv'
  BY <1>3, <1>4, <1>10, BumpKeeps
<1>11. ASSUME UNCHANGED streamVars, EndBump(last) \/ EndFlush \/ BeginSecondOutput(nal, last)
       PROVE IInv'
  BY <1>3, <1>4, <1>11, IdleStepsKeep
<1>12. ASSUME UNCHANGED streamVars, CheckNoOutputPriorPics(nal) PROVE IInv'
  BY <1>3, <1>4, <1>12, CheckNoOutputPriorPicsKeeps
<1>13. ASSUME UNCHANGED streamVars, FlushPicture PROVE IInv'
  BY <1>3, <1>4, <1>13, FlushPictureKeeps
<1>14. CASE DecoderStep
  BY <1>7, <1>8, <1>9, <1>10, <1>11, <1>12, <1>13, <1>14 DEF DecoderStep, AppNext
<1> QED
  BY <1>5, <1>6, <1>14 DEF Next

-----------------------------------------------------------------------------
(* What follows.                                                           *)

LEMMA InvariantHolds == Intact /\ Spec => []IInv
<1>1. Intact /\ Init => IInv
  BY InitIInv
<1>2. IInv /\ [Next]_vars => IInv'
  BY NextIInv
<1> QED
  BY <1>1, <1>2, PTL DEF Spec

(* The decoder gives every picture the picture order count the encoder     *)
(* gave it: xDecodeSlice() and parseSliceHeader() recover it from the      *)
(* LSBs and m_prevTid0POC through every wrap-around, sequence and dropped  *)
(* temporal layer, and for a dependent slice segment from the open picture.*)
THEOREM IntactPocs == Intact /\ Spec => []PocIsRight
<1>1. ASSUME IInv PROVE PocIsRight
  <2>1. ListShows(dpb, coded, Reached) /\ PilotInv
    BY <1>1 DEF IInv, DecoderInv, ListInv
  <2>2. \A s \in Held(dpb) : \A id \in dpb[s].ids \ {Fill} : dpb[s].poc = Poc(id)
    BY <2>1 DEF ListShows, Shows, Poc
  <2>3. phase = "conceal" => pilot.poc = Poc(pilot.id)
    BY <2>1 DEF PilotInv, Poc
  <2> QED
    BY <2>2, <2>3 DEF PocIsRight
<1> QED
  BY <1>1, InvariantHolds, PTL

(* No buffer receives slices of two pictures: m_bFirstSliceInPicture and   *)
(* the slice that is handed back keep pictures apart without their POCs.   *)
THEOREM IntactSlices == Intact /\ Spec => []SlicesStayTogether
<1>1. ASSUME IInv PROVE SlicesStayTogether
  <2>1. ListShows(dpb, coded, Reached)
    BY <1>1 DEF IInv, DecoderInv, ListInv
  <2>2. \A k : Cardinality({k}) = 1
    BY FS_Singleton
  <2>3. \A s \in Held(dpb) : \E k : dpb[s].ids = {k}
    BY <2>1 DEF ListShows, Shows
  <2>4. \A s \in Held(dpb) : Cardinality(dpb[s].ids) = 1
    BY <2>2, <2>3
  <2>5. 1 <= 1
    OBVIOUS
  <2> QED
    BY <2>4, <2>5 DEF SlicesStayTogether
<1> QED
  BY <1>1, InvariantHolds, PTL

(* xCreateLostPicture() is never called: every picture a slice uses is     *)
(* still in the list as a reference picture when it arrives, so that       *)
(* xGetNewPicBuffer() has overwritten none of them.                        *)
THEOREM IntactList == Intact /\ Spec => []NothingConcealed
<1>1. ASSUME IInv PROVE NothingConcealed
  <2>1. ListShows(dpb, coded, Reached)
    BY <1>1 DEF IInv, DecoderInv, ListInv
  <2>2. \A s \in Held(dpb) : \E k \in 1..Reached : dpb[s].ids = {k}
    BY <2>1 DEF ListShows, Shows
  <2>3. \A k \in 1..Reached : k # Fill
    BY <1>1, Basics DEF Fill
  <2> QED
    BY <2>2, <2>3 DEF NothingConcealed
<1> QED
  BY <1>1, InvariantHolds, PTL

(* The reference pictures setRefPicList() finds are the ones the encoder   *)
(* referred to, still marked as reference pictures, of the same sequence.  *)
THEOREM IntactReferences == Intact /\ Spec => []RefPicsAreRight
<1>1. ASSUME IInv PROVE RefPicsAreRight
  <2> SUFFICES ASSUME phase = "returned", NEW r \in refPics
               PROVE  r.ref /\ \E id \in SequenceIds : r.ids = {id} /\ Poc(id) = r.poc
    BY DEF RefPicsAreRight
  <2>1. RefPicsInv /\ HandedBackInv /\ Lawful(coded)
    BY <1>1 DEF IInv, DecoderInv, SourceInv
  <2>2. ~Ahead
    BY <2>1 DEF HandedBackInv, Ahead
  <2>3. Reached = Len(coded) /\ coded \in Seq(CodedPicture) /\ Len(coded) \in Nat
    BY <1>1, <2>2, Basics
  <2>4. PICK k \in 1..Len(coded) :
           SameSequence(coded, k, Len(coded)) /\ r.ids = {k} /\ r.poc = coded[k].poc
    BY <2>1, <2>3 DEF RefPicsInv
  <2>5. Len(coded) > 0
    BY <2>3, <2>4
  <2>6. k \in SequenceIds
    BY <2>1, <2>3, <2>4, <2>5, CurrentStructure
  <2>7. r.ref
    BY <2>1 DEF RefPicsInv
  <2> QED
    BY <2>4, <2>6, <2>7 DEF Poc
<1> QED
  BY <1>1, InvariantHolds, PTL

(* Between the NAL units of a sequence m_pcPic is an open picture that     *)
(* executeLoopFilters() has not seen and nothing has written.              *)
THEOREM IntactOpenPicture == Intact /\ Spec => []OpenPictureIsUnfiltered
<1>1. ASSUME IInv PROVE OpenPictureIsUnfiltered
  <2> SUFFICES ASSUME phase \in {"read", "returned"}, ~firstSliceInSequence
               PROVE  curPic \in Held(dpb) /\ ~dpb[curPic].recon /\ ~dpb[curPic].out
    BY DEF OpenPictureIsUnfiltered
  <2>1. MemoryInv /\ OpenInv
    BY <1>1 DEF IInv, DecoderInv
  <2>2. Reached > 0
    <3>1. Reached # 0 /\ Reached \in Nat
      BY <1>1, <2>1, Basics DEF MemoryInv
    <3> QED
      BY <3>1
  <2>3. phase = "read" => ~newPicture
    BY <1>1 DEF IInv, Inv, DependentInv
  <2>4. ~firstSliceInPicture
    BY <2>1, <2>2, <2>3 DEF OpenInv, OpenPhases, Ended
  <2> QED
    BY <2>1, <2>4 DEF OpenInv, OpenPhases, Ended, Unfiltered
<1> QED
  BY <1>1, InvariantHolds, PTL

(* A dependent slice segment copies the header of a slice of its own       *)
(* picture, or is skipped as the slice before it was.                      *)
THEOREM IntactDependents == Intact /\ Spec => []DependentsContinue
<1>1. ASSUME IInv PROVE DependentsContinue
  <2> SUFFICES ASSUME phase = "decode", nal.kind = "slice", nal.dep, ~IsNotDecoded(nal),
                      ~prevSliceSkipped
               PROVE  curPic \in Held(dpb) /\ nal.id \in dpb[curPic].ids
    BY DEF DependentsContinue
  <2>1. /\ Len(coded) > 0 /\ nal.id = Len(coded) /\ ~nal.first
        /\ coded[Len(coded)].tid <= MaxTemporalLayer
    BY <1>1, SliceFacts
  <2>2. ~Ahead
    BY <2>1 DEF Ahead
  <2>3. CurrentInv
    BY <1>1 DEF IInv, DecoderInv
  <2> QED
    BY <2>1, <2>2, <2>3 DEF CurrentInv
<1> QED
  BY <1>1, InvariantHolds, PTL

(* No assert of applyReferencePictureSet(), checkCRA(),                    *)
(* checkLeadingPictureRestrictions() or xActivateParameterSets() fails,    *)
(* and setRefPicList() runs beyond no list.                                *)
THEOREM IntactRuns == Intact /\ Spec => []NoFailure
<1>1. ASSUME IInv PROVE NoFailure
  BY <1>1 DEF IInv, DecoderInv, NoFailure, NoAbort, NoCrash
<1> QED
  BY <1>1, InvariantHolds, PTL

(* xWriteOutput() and xFlushOutput() between them write no picture twice.  *)
THEOREM IntactOutput == Intact /\ Spec => []OutputOnce
<1>1. ASSUME IInv PROVE OutputOnce
  <2> SUFFICES ASSUME NEW i \in DOMAIN written, NEW j \in DOMAIN written, i # j
               PROVE  written[i].ids \cap written[j].ids = {}
    BY DEF OutputOnce
  <2>1. WrittenInv
    BY <1>1 DEF IInv, DecoderInv
  <2>2. PICK k : written[i].ids = {k}
    BY <2>1 DEF WrittenInv
  <2>3. PICK l : written[j].ids = {l}
    BY <2>1 DEF WrittenInv
  <2>4. written[i].ids # written[j].ids
    BY <2>1 DEF WrittenInv
  <2> QED
    BY <2>2, <2>3, <2>4
<1> QED
  BY <1>1, InvariantHolds, PTL

-----------------------------------------------------------------------------
(* Where every picture is to be output, none leaves the list unwritten.    *)
PicturesStay ==
  \A s \in Held(dpb) : \A id \in dpb[s].ids :
    \/ \E t \in Held(dpb') : id \in dpb'[t].ids
    \/ \E i \in DOMAIN written' : id \in written'[i].ids

(* A picture that is not marked for output has been written or is open.    *)
LEMMA UnmarkedPictures ==
  ASSUME IInv, AllOutput, NEW s \in Held(dpb), ~dpb[s].out,
         s = curPic => dpb[s].recon, NEW id \in dpb[s].ids
  PROVE  \E i \in DOMAIN written : id \in written[i].ids
<1>1. \E i \in DOMAIN written : written[i].ids = dpb[s].ids
  BY DEF IInv, DecoderInv, VanishInv
<1> QED
  BY <1>1

LEMMA FlushPictureShows ==
  ASSUME IInv, AllOutput, FlushPicture
  PROVE  PicturesStay
<1>1. PICK s \in Slots :
        /\ IsFirst(dpb, s, Held(dpb))
        /\ written' = IF dpb[s].out THEN Append(written, Shown(dpb[s])) ELSE written
        /\ dpb' = [dpb EXCEPT ![s] = NewPicture]
  BY DEF FlushPicture
<1>2. dpb \in [Slots -> Picture] /\ s \in Held(dpb)
  BY <1>1 DEF IInv, Inv, TypeOK, ObjectsOK, IsFirst
<1>3. \A t \in Held(dpb) : t # s => t \in Held(dpb') /\ dpb'[t].ids = dpb[t].ids
  BY <1>1, <1>2 DEF Held
<1>4. s = curPic => dpb[s].recon
  <2>1. phase \in {"flush", "final"} /\ HandedBackInv /\ LastInv
    BY DEF FlushPicture, IInv, DecoderInv
  <2>2. phase = "flush" => newPicture
    BY <2>1 DEF HandedBackInv
  <2> QED
    BY <1>2, <2>1, <2>2 DEF HandedBackInv, LastInv
<1>5. ASSUME NEW id \in dpb[s].ids PROVE \E i \in DOMAIN written' : id \in written'[i].ids
  <2>1. CASE dpb[s].out
    <3>1. written \in Seq([ids : SUBSET Nat, poc : Int])
      BY DEF IInv, DecoderInv, WrittenInv
    <3>2. Shown(dpb[s]).ids = dpb[s].ids
      BY DEF Shown
    <3> DEFINE x == Shown(dpb[s])
    <3>3. x \in [ids : SUBSET Nat, poc : Int]
      <4>1. dpb[s] \in Picture
        BY <1>2 DEF Held
      <4> QED
        BY <4>1 DEF Shown, Picture
    <3> HIDE DEF x
    <3>4. /\ Len(written) + 1 \in DOMAIN Append(written, x)
          /\ Append(written, x)[Len(written) + 1] = x
      BY <3>1, <3>3
    <3>5. written' = Append(written, x)
      BY <1>1, <2>1 DEF x
    <3> QED
      BY <1>5, <3>2, <3>4, <3>5 DEF x
  <2>2. CASE ~dpb[s].out
    BY <1>1, <1>2, <1>4, <1>5, <2>2, UnmarkedPictures
  <2> QED
    BY <2>1, <2>2
<1> QED
  BY <1>3, <1>5 DEF PicturesStay

LEMMA ActivateFirstSliceShows ==
  ASSUME IInv, AllOutput, UNCHANGED appVars, ActivateFirstSlice
  PROVE  PicturesStay
<1>1. phase = "conceal" /\ firstSliceInPicture
  BY DEF ActivateFirstSlice
<1>2. PICK s \in Slots :
           /\ IsNewPicBuffer(ApplyRps(dpb, pilot), pilot.tid, s)
           /\ Held(dpb') = Held(dpb) \cup {s}
           /\ \A t \in Held(dpb) : t # s => dpb'[t] = ApplyRps(dpb, pilot)[t]
  BY <1>1, FirstSliceIsStored
<1>3. \A t \in Held(dpb) : t # s => dpb'[t].ids = dpb[t].ids
  <2>1. dpb \in List
    BY DEF IInv, Inv, TypeOK, ObjectsOK, List
  <2> QED
    BY <1>2, <2>1, MarksOnly, HeldIsSlot DEF SameButMarks
<1>4. ASSUME s \in Held(dpb), NEW id \in dpb[s].ids
      PROVE  \E i \in DOMAIN written' : id \in written'[i].ids
  <2>1. ~dpb[s].out
    BY <1>1, <1>2, <1>4, TakenBuffer
  <2>2. s = curPic => dpb[s].recon
    BY <1>1, <1>4, OldPictureIsFiltered
  <2>3. written' = written
    OBVIOUS
  <2> QED
    BY <1>4, <2>1, <2>2, <2>3, UnmarkedPictures
<1> QED
  BY <1>2, <1>3, <1>4 DEF PicturesStay

(* The same ids in the same places. *)
LEMMA SameIdsStay ==
  ASSUME Held(dpb) \subseteq Held(dpb'), \A s \in Held(dpb) : dpb'[s].ids = dpb[s].ids
  PROVE  PicturesStay
  BY DEF PicturesStay

LEMMA DecodeShows ==
  ASSUME IInv, AllOutput, UNCHANGED streamVars, Decode(nal)
  PROVE  PicturesStay
<1>1. DecNext(nal) /\ UNCHANGED <<streamVars, appVars>>
  BY DEF Decode
<1>2. CASE dpb' = dpb
  BY <1>2, SameIdsStay
<1>3. SkipSlice(nal) \/ BeginSlice(nal) => dpb' = dpb
  BY DEF SkipSlice, BeginSlice
<1>4. EndOfSequence(nal) \/ PrefixSEI(nal) \/ ReservedVcl(nal) \/ OtherNal(nal) => dpb' = dpb
  BY DEF EndOfSequence, PrefixSEI, ReservedVcl, OtherNal, Crash
<1>5. SetRefPicList => dpb' = dpb
  BY DEF SetRefPicList, Crash
<1>6. CASE ActivateFirstSlice
  BY <1>1, <1>6, ActivateFirstSliceShows
<1>7. CASE ActivateNextSlice
  <2>1. phase = "conceal" /\ ~firstSliceInPicture
    BY <1>7 DEF ActivateNextSlice
  <2>2. /\ Held(dpb') = Held(dpb)
        /\ \A t \in Held(dpb) : SameButMarks(dpb[t], dpb'[t])
    BY <1>7, <2>1, NextSliceIsStored
  <2> QED
    BY <2>2, SameIdsStay DEF SameButMarks
<1> QED
  BY <1>1, <1>2, <1>3, <1>4, <1>5, <1>6, <1>7, CreateLostPictureIsImpossible DEF DecNext

LEMMA FinishPictureShows ==
  ASSUME IInv, FinishPicture(nal, last)
  PROVE  PicturesStay
<1>1. dpb' = (IF Filters(nal, last) THEN Filtered ELSE dpb) /\ phase = "returned"
  BY DEF FinishPicture
<1>2. CASE ~Filters(nal, last)
  BY <1>1, <1>2, SameIdsStay
<1>3. CASE Filters(nal, last)
  <2>1. MemoryInv /\ OpenInv /\ Reached \in Nat
    BY Basics DEF IInv, DecoderInv
  <2>2. Reached > 0
    <3>1. Reached # 0
      BY <1>3, <2>1 DEF Filters, MemoryInv
    <3> QED
      BY <2>1, <3>1
  <2>3. curPic \in Held(dpb)
    BY <1>1, <2>1, <2>2 DEF OpenInv, OpenPhases, Ended, Unfiltered
  <2> QED
    BY <1>1, <1>3, <2>3, FilteredKeeps, SameIdsStay DEF SamePicture
<1> QED
  BY <1>2, <1>3

LEMMA OtherStepsShow ==
  ASSUME IInv, AllOutput,
         ReadNal \/ IgnoreLayer(nal) \/ EndBump(last) \/ CheckNoOutputPriorPics(nal)
         \/ EndFlush \/ BeginSecondOutput(nal, last) \/ UNCHANGED vars
  PROVE  PicturesStay
<1>1. ~isNoOutputPriorPics
  BY DEF IInv, DecoderInv, VanishInv
<1>2. CheckNoOutputPriorPics(nal) => dpb' = dpb
  BY <1>1 DEF CheckNoOutputPriorPics
<1>3. ReadNal \/ IgnoreLayer(nal) \/ EndBump(last) \/ EndFlush => dpb' = dpb
  BY DEF ReadNal, IgnoreLayer, EndBump, EndFlush
<1>4. BeginSecondOutput(nal, last) \/ UNCHANGED vars => dpb' = dpb
  BY DEF BeginSecondOutput, vars, decVars
<1>5. dpb' = dpb
  BY <1>2, <1>3, <1>4
<1> QED
  BY <1>5, SameIdsStay

LEMMA BumpShows ==
  ASSUME IInv, Bump
  PROVE  PicturesStay
<1>1. PICK s \in Slots : dpb' = [dpb EXCEPT ![s] = Displayed(@)]
  BY DEF Bump
<1>2. dpb \in [Slots -> Picture]
  BY DEF IInv, Inv, TypeOK, ObjectsOK
<1>3. \A p \in Picture : Displayed(p).ids = p.ids /\ Displayed(p).pos = p.pos
  BY DEF Displayed, Picture
<1>4. \A t \in Slots : dpb'[t].ids = dpb[t].ids /\ dpb'[t].pos = dpb[t].pos
  BY <1>1, <1>2, <1>3
<1> QED
  BY <1>4, SameIdsStay DEF Held

(* A picture that has received slices leaves the list only once it has     *)
(* been written: neither xGetNewPicBuffer() nor xFlushOutput() drops one,  *)
(* where every picture is to be output.                                    *)
THEOREM IntactPicturesShown == Intact /\ AllOutput /\ Spec => NoPictureVanishes
<1>1. ASSUME IInv, AllOutput, [Next]_vars PROVE [PicturesStay]_vars
  <2> SUFFICES ASSUME Next PROVE PicturesStay
    BY <1>1
  <2>1. CASE UNCHANGED streamVars /\ AppNext(nal, last)
    BY <1>1, <2>1, DecodeShows, FinishPictureShows, OtherStepsShow, BumpShows,
       FlushPictureShows DEF AppNext
  <2>2. DecoderStep => PicturesStay
    BY <2>1 DEF DecoderStep
  <2>3. ReadNal => PicturesStay
    BY <1>1, OtherStepsShow
  <2>4. UNCHANGED vars => PicturesStay
    BY <1>1, OtherStepsShow
  <2> QED
    BY <2>2, <2>3, <2>4 DEF Next
<1>2. AllOutput => AllOutput'
  BY DEF AllOutput
<1>3. Intact /\ AllOutput /\ Spec => [][PicturesStay]_vars
  BY <1>1, <1>2, InvariantHolds, PTL DEF Spec
<1> QED
  BY <1>3 DEF NoPictureVanishes, PicturesStay
=============================================================================
