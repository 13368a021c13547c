--------------------------------- MODULE Dpb ---------------------------------
(***************************************************************************)
(* The decoded picture buffer: m_cListPic, a list of TComPic objects, and  *)
(* the operations of TDecTop and TComSlice on it.  The list is a function  *)
(* from Slots, the objects that may ever be allocated, to picture records; *)
(* pos is the picture's place in the list, 0 for an object not in it.      *)
(* A slice header is a record p with the picture order count, the type,    *)
(* the temporal layer and rps, a set of [delta, used] records.             *)
(***************************************************************************)
EXTENDS FiniteSets, Config

CONSTANT Slots   \* the picture objects

ASSUME SlotsAssumption == Slots \subseteq Nat /\ IsFiniteSet(Slots)

(* The identity of a picture made up for a lost one; coded pictures are    *)
(* numbered from 1.                                                        *)
Fill == 0

Picture ==
  [pos    : Nat,                        \* place in the list
   poc0   : Int,                        \* POC of slice 0
   poc    : Int,                        \* getPOC(): POC of the current slice
   ref    : BOOLEAN,                    \* isReferenced() of slice 0
   recon  : BOOLEAN,                    \* getReconMark()
   out    : BOOLEAN,                    \* getOutputMark()
   used   : BOOLEAN,                    \* getUsedByCurr()
   tid    : Tids,                       \* getTLayer()
   pof    : BOOLEAN,                    \* getPicOutputFlag() of slice 0
   type   : SliceTypes,                 \* getNalUnitType() of slice 0
   irap   : Int,                        \* getAssociatedIRAPPOC() of slice 0
   slices : Nat,                        \* getNumAllocatedSlice()
   ids    : SUBSET Nat]                 \* ghost: whose slices it has received

(* A slice header, with what the decoder knows of the associated IRAP      *)
(* picture.                                                                *)
Header ==
  [id : Nat, first : BOOLEAN, dep : BOOLEAN, type : SliceTypes, tid : Tids,
   poc : Int, pof : BOOLEAN, rps : RpsSet, irap : Int,
   irapType : RapTypes \cup {NoType}, noOutputPriorPics : BOOLEAN]

(* A TComPic after its constructor and create(), with one new TComSlice.   *)
NewPicture ==
  [pos |-> 0, poc0 |-> 0, poc |-> 0, ref |-> FALSE, recon |-> FALSE, out |-> FALSE,
   used |-> FALSE, tid |-> 0, pof |-> TRUE, type |-> "IDR_W_RADL", irap |-> 0,
   slices |-> 1, ids |-> {}]

EmptyDpb == [s \in Slots |-> NewPicture]

Held(dpb) == {s \in Slots : dpb[s].pos > 0}

Size(dpb) == Cardinality(Held(dpb))

(* s is the first of S in the order of the list. *)
IsFirst(dpb, s, S) == s \in S /\ \A t \in S : dpb[s].pos <= dpb[t].pos

-----------------------------------------------------------------------------
(* xGetNewPicBuffer().                                                     *)

(* Mutant: a picture that has not been output may be overwritten. *)
Reusable_IgnoresOutput(pic) == ~pic.recon \/ ~pic.ref

(* Mutant: a reference picture may be overwritten. *)
Reusable_IgnoresReference(pic) == ~pic.out

(* A picture whose buffer may be taken: not to be output, and either not   *)
(* reconstructed or no longer referenced.                                  *)
Reusable(pic) == ~pic.out /\ (~pic.recon \/ ~pic.ref)

(* s is the object the next picture gets: a new one while the list is      *)
(* shorter than the limit, else the first reusable one, else a new one,    *)
(* which extends the list beyond the limit.                                *)
IsNewPicBuffer(dpb, tid, s) ==
  LET reusable == {t \in Held(dpb) : Reusable(dpb[t])}
      free     == Slots \ Held(dpb)
  IN IF Size(dpb) < MaxDecPicBuf[tid] \/ reusable = {}
       THEN s \in free /\ \A t \in free : s <= t
       ELSE IsFirst(dpb, s, reusable)

(* The object after destroy() and create(): a recycled one keeps its place *)
(* and its temporal layer.                                                 *)
Recreated(dpb, s) ==
  IF s \in Held(dpb)
    THEN [NewPicture EXCEPT !.pos = dpb[s].pos, !.tid = dpb[s].tid]
    ELSE [NewPicture EXCEPT !.pos = Size(dpb) + 1]

-----------------------------------------------------------------------------
(* sortPicList(): insertion sort, each picture in front of the first one   *)
(* whose POC is not smaller.  It resets the current slice of the pictures  *)
(* it compares, which are all of them when there are two.                  *)

Sorted(dpb) ==
  LET precedes(s, t) == \/ dpb[s].poc0 < dpb[t].poc0
                        \/ dpb[s].poc0 = dpb[t].poc0 /\ dpb[s].pos >= dpb[t].pos
  IN IF Size(dpb) < 2 THEN dpb
     ELSE [t \in Slots |->
             IF t \in Held(dpb)
               THEN [dpb[t] EXCEPT
                       !.pos = Cardinality({s \in Held(dpb) : precedes(s, t)}),
                       !.poc = dpb[t].poc0]
               ELSE dpb[t]]

-----------------------------------------------------------------------------
(* Reference picture sets.                                                 *)

(* checkThatAllRefPicsAreAvailable(): the POCs of pictures the current one *)
(* uses that are not in the list as reference pictures, unless they come   *)
(* before the random access point.                                         *)
LostPocs(dpb, p, pocRandomAccess) ==
  {p.poc + r.delta : r \in
    {e \in p.rps : /\ e.used
                   /\ p.poc + e.delta >= pocRandomAccess
                   /\ \A s \in Held(dpb) : ~(dpb[s].ref /\ dpb[s].poc0 = p.poc + e.delta)}}

(* The one it reports: the last in the order of the set, which lists the   *)
(* preceding pictures from the closest to the farthest, then the following. *)
IsReportedLost(lost, poc, curPoc) ==
  /\ poc \in lost
  /\ IF \E q \in lost : q > curPoc THEN \A q \in lost : q <= poc
                                   ELSE \A q \in lost : q >= poc

(* Mutant: only pictures the current one uses are kept. *)
ApplyRps_KeepsOnlyUsed(dpb, p) ==
  [s \in Slots |->
    IF dpb[s].poc0 = p.poc \/ \E r \in p.rps : r.used /\ dpb[s].poc0 = p.poc + r.delta
      THEN dpb[s] ELSE [dpb[s] EXCEPT !.ref = FALSE]]

(* applyReferencePictureSet(): reference pictures that are not in the set  *)
(* are no longer references; the others are used by the current picture or *)
(* kept for later ones.                                                    *)
ApplyRps(dpb, p) ==
  [s \in Slots |->
    LET entries == {r \in p.rps : dpb[s].poc0 = p.poc + r.delta}
    IN IF s \notin Held(dpb) \/ ~dpb[s].ref THEN dpb[s]
       ELSE IF entries # {}
         THEN [dpb[s] EXCEPT !.used = \E r \in entries : r.used]
       ELSE IF dpb[s].poc0 # p.poc
         THEN [dpb[s] EXCEPT !.ref = FALSE, !.used = FALSE]
       ELSE dpb[s]]

(* Its asserts on the pictures that are still referenced: nothing of a     *)
(* higher temporal layer is used, a TSA picture keeps nothing of its own   *)
(* layer or a higher one, a sub-layer non-reference picture is not used.   *)
RpsIsLegal(dpb, p) ==
  \A s \in Held(dpb) : dpb[s].ref =>
    /\ dpb[s].used => dpb[s].tid <= p.tid
    /\ p.type \in TsaTypes => dpb[s].tid < p.tid
    /\ dpb[s].poc0 # p.poc /\ dpb[s].tid = p.tid /\ dpb[s].used
         => dpb[s].type \notin NonReferenceTypes

(* checkLeadingPictureRestrictions(), on the associated IRAP picture.      *)
LeadingTypeIsLegal(p) ==
  /\ p.irap > p.poc /\ p.type \notin RapTypes => p.type \in LeadingTypes
  /\ p.irap < p.poc => p.type \notin LeadingTypes
  /\ p.type \in RaslTypes => p.irapType \notin {"BLA_W_RADL", "BLA_N_LP"} \cup IdrTypes
  /\ p.type \in RadlTypes => p.irapType \notin {"BLA_N_LP", "IDR_N_LP"}

(* checkLeadingPictureRestrictions(), on a reconstructed picture q.        *)
OrderIsLegal(p, q) ==
  /\ q.pof /\ p.type \in RapTypes /\ ~p.noOutputPriorPics => q.poc < p.poc
  /\ q.pof /\ p.type \in RadlTypes /\ p.irap > q.irap /\ p.irap # q.poc => q.poc < p.poc
  /\ p.type \in LeadingTypes /\ q.irap = p.irap => q.poc <= p.irap
  /\ /\ p.type \in RaslTypes /\ q.type \in RadlTypes
     /\ p.irapType \in BlaTypes \cup {"CRA"} /\ p.irap = q.irap
     => q.poc > p.poc
  /\ /\ p.type \in RaslTypes /\ p.irapType = "CRA"
     /\ q.type \in RapTypes /\ q.poc0 < p.irap
     => p.poc > q.poc0

LeadingPicturesAreLegal(dpb, p) ==
  /\ LeadingTypeIsLegal(p)
  /\ \A s \in Held(dpb) :
       dpb[s].recon /\ dpb[s].poc # p.poc => OrderIsLegal(p, dpb[s])

(* The POCs setRefPicList() looks up. *)
UsedPocs(p) == {p.poc + r.delta : r \in {e \in p.rps : e.used}}

(* xGetRefPic(): the first picture of the list with that POC, referenced   *)
(* or not.                                                                 *)
IsRefPic(dpb, s, poc) == IsFirst(dpb, s, {t \in Held(dpb) : dpb[t].poc = poc})
=============================================================================
