------------------------------ MODULE TAppDecTop ------------------------------
(***************************************************************************)
(* The application around the decoder: the main loop of                    *)
(* TAppDecTop::decode(), which feeds NAL units to TDecTop::decode(),       *)
(* finishes a picture when the next one begins, and writes pictures to the *)
(* reconstruction file in output order (xWriteOutput, xFlushOutput).       *)
(* One iteration runs through the phases "decode" .. "returned" of TDecTop *)
(* and then, once a picture has been finished, "bump1", "prior", "flush",  *)
(* "output2" and "bump2"; a NAL unit that began a new picture is decoded   *)
(* again.                                                                  *)
(***************************************************************************)
EXTENDS TDecTop, Sequences

VARIABLES
  listSet,                 \* pcListPic is not NULL
  loopFiltered,
  iPOCLastDisplay,         \* m_iPOCLastDisplay
  numPicsNotYetDisplayed,  \* locals of xWriteOutput()
  dpbFullness,
  written                  \* ghost: [ids, poc] of the pictures written, in order

counterVars == <<numPicsNotYetDisplayed, dpbFullness>>

appVars == <<listSet, loopFiltered, iPOCLastDisplay, counterVars, written>>

AppInit ==
  /\ DecInit
  /\ listSet = FALSE
  /\ loopFiltered = FALSE
  /\ iPOCLastDisplay = -MaxInt + iSkipFrame
  /\ numPicsNotYetDisplayed = 0
  /\ dpbFullness = 0
  /\ written = << >>

(* Everything but the picture buffer that the steps below leave alone. *)
headerAndSkipVars == <<pilot, refPics, headerVars, skipVars, irapVars, prevPOC,
                       pocRandomAccess, prefixSEIs, curPic, sliceIdx>>

-----------------------------------------------------------------------------
(* xWriteOutput(): bumping, one picture per step.                          *)

ToDisplay(d) == {s \in Held(d) : d[s].out /\ d[s].poc > iPOCLastDisplay}

(* The counts xWriteOutput() begins with, for the list d.                  *)
CountPictures(d) ==
  /\ numPicsNotYetDisplayed' = Cardinality(ToDisplay(d))
  /\ dpbFullness' = Cardinality(ToDisplay(d) \cup {s \in Held(d) : d[s].ref})

(* Mutant: one picture fewer may wait. *)
MustBump_TooEarly == \/ numPicsNotYetDisplayed >= NumReorderPics[MaxTemporalLayer]
                     \/ dpbFullness > MaxDecPicBuf[MaxTemporalLayer]

MustBump == \/ numPicsNotYetDisplayed > NumReorderPics[MaxTemporalLayer]
            \/ dpbFullness > MaxDecPicBuf[MaxTemporalLayer]

(* Mutant: the picture remains marked for output. *)
Displayed_StaysMarked(pic) == [pic EXCEPT !.recon = pic.ref /\ pic.recon]

(* The record of a picture once it has been written: no longer to be       *)
(* output, and, if it is not referenced, no longer reconstructed.          *)
Displayed(pic) == [pic EXCEPT !.out = FALSE, !.recon = pic.ref /\ pic.recon]

Shown(pic) == [ids |-> pic.ids, poc |-> pic.poc]

Bump ==
  /\ phase \in {"bump1", "bump2"} /\ MustBump
  /\ \E s \in Slots :
       /\ IsFirst(dpb, s, ToDisplay(dpb))
       /\ written' = Append(written, Shown(dpb[s]))
       /\ iPOCLastDisplay' = dpb[s].poc
       /\ dpb' = [dpb EXCEPT ![s] = Displayed(@)]
       /\ numPicsNotYetDisplayed' = numPicsNotYetDisplayed - 1
       /\ dpbFullness' = IF dpb[s].ref THEN dpbFullness ELSE dpbFullness - 1
  /\ UNCHANGED <<phase, newPicture, headerAndSkipVars, firstVars, listSet, loopFiltered>>

(* The iteration is over: the NAL unit is decoded again, the next one is   *)
(* read, or the file has ended and the rest is flushed.                    *)
NextPhase(eof) == IF newPicture THEN "decode" ELSE IF eof THEN "final" ELSE "read"

EndBump(eof) ==
  /\ phase \in {"bump1", "bump2"} /\ (~MustBump \/ ToDisplay(dpb) = {})
  /\ phase' = IF phase = "bump1" THEN "prior" ELSE NextPhase(eof)
  /\ numPicsNotYetDisplayed' = 0 /\ dpbFullness' = 0
  /\ UNCHANGED <<newPicture, dpb, headerAndSkipVars, firstVars, listSet, loopFiltered,
                 iPOCLastDisplay, written>>

-----------------------------------------------------------------------------
(* The call of TDecTop::decode(), and what follows it in the iteration.    *)

(* A temporal layer above the one to be decoded is not handed on.          *)
IsNotDecoded(n) == n.tid > MaxTemporalLayer

IgnoreLayer(n) ==
  /\ phase = "decode" /\ IsNotDecoded(n)
  /\ Return(FALSE)
  /\ UNCHANGED <<headerAndSkipVars, dpb, firstVars, appVars>>

Decode(n) ==
  /\ ~IsNotDecoded(n)
  /\ DecNext(n)
  /\ UNCHANGED appVars

(* The file is usable again after a new picture: the NAL unit is reread.   *)
FileIsGood(eof) == ~eof \/ newPicture

(* Mutant: the picture remains open when a new one begins. *)
IsOver_NotByNewPicture(n, eof) == (eof /\ ~newPicture) \/ n.kind = "EOS"

(* Mutant: the picture is over at any NAL unit that is no slice. *)
IsOver_ByOtherNal(n, eof) == newPicture \/ ~FileIsGood(eof) \/ n.kind \in {"EOS", "OTHER"}

(* The picture is over: a new one begins, the file or the sequence ends.   *)
IsOver(n, eof) == newPicture \/ ~FileIsGood(eof) \/ n.kind = "EOS"

(* Mutant: nothing is filtered after an end of sequence. *)
Filters_NotAfterEos(n, eof) == IsOver(n, eof) /\ ~firstSliceInSequence /\ ~loopFiltered

(* executeLoopFilters() is called. *)
Filters(n, eof) ==
  IsOver(n, eof) /\ ~firstSliceInSequence /\ (~loopFiltered \/ FileIsGood(eof))

(* A picture that is over is filtered, and output begins.                  *)
FinishPicture(n, eof) ==
  /\ phase = "returned"
  /\ LET over     == IsOver(n, eof)
         filters  == Filters(n, eof)
         list     == IF filters THEN Filtered ELSE dpb
     IN /\ dpb' = list
        /\ listSet' = (listSet \/ filters)
        /\ firstSliceInPicture' =
             IF filters \/ (over /\ firstSliceInSequence) THEN TRUE ELSE firstSliceInPicture
        /\ loopFiltered' =
             IF over /\ ~firstSliceInSequence THEN n.kind = "EOS" ELSE loopFiltered
        /\ firstSliceInSequence' = (firstSliceInSequence \/ (over /\ n.kind = "EOS"))
        /\ IF newPicture /\ listSet' THEN CountPictures(list) ELSE UNCHANGED counterVars
  /\ phase' = IF ~listSet' THEN NextPhase(eof) ELSE IF newPicture THEN "bump1" ELSE "prior"
  /\ UNCHANGED <<newPicture, headerAndSkipVars, firstSliceInBitstream, iPOCLastDisplay,
                 written>>

-----------------------------------------------------------------------------
(* Prior pictures that are not to be output, and xFlushOutput().           *)

IsSlice(n) == n.kind = "slice"

(* Mutant: a BLA picture does not clear the list. *)
FlushesList_OnlyIdr(n) == newPicture /\ n.type \in IdrTypes

(* Mutant: every slice of an IDR or BLA picture clears the list. *)
FlushesList_AtAnySlice(n) == IsSlice(n) /\ n.type \in IdrTypes \cup BlaTypes

(* An IDR or BLA picture begins: what precedes it is written and deleted.  *)
FlushesList(n) == newPicture /\ n.type \in IdrTypes \cup BlaTypes

CheckNoOutputPriorPics(n) ==
  /\ phase = "prior"
  /\ LET applies == /\ newPicture \/ (IsSlice(n) /\ n.type = "CRA")
                    /\ isNoOutputPriorPics
     IN /\ dpb' = IF applies THEN WithoutPriorPics ELSE dpb
        /\ isNoOutputPriorPics' = (isNoOutputPriorPics /\ ~applies)
  /\ phase' = IF FlushesList(n) THEN "flush" ELSE "output2"
  /\ UNCHANGED <<newPicture, pilot, refPics, prevTid0POC, craNoRaslOutputFlag,
                 lastPOCNoOutputPriorPics, skipVars, irapVars, prevPOC, pocRandomAccess,
                 prefixSEIs, curPic, sliceIdx, firstVars, appVars>>

(* The next picture of the list is written, if it is to be, and deleted;   *)
(* the display order starts anew once the list has been cleared.           *)
FlushPicture ==
  /\ phase \in {"flush", "final"} /\ listSet
  /\ \E s \in Slots :
       /\ IsFirst(dpb, s, Held(dpb))
       /\ written' = IF dpb[s].out THEN Append(written, Shown(dpb[s])) ELSE written
       /\ iPOCLastDisplay' = IF Held(dpb) = {s} THEN -MaxInt
                             ELSE IF dpb[s].out THEN dpb[s].poc ELSE iPOCLastDisplay
       /\ dpb' = [dpb EXCEPT ![s] = NewPicture]
  /\ UNCHANGED <<phase, newPicture, headerAndSkipVars, firstVars, listSet, loopFiltered,
                 counterVars>>

EndFlush ==
  /\ phase \in {"flush", "final"} /\ (Held(dpb) = {} \/ ~listSet)
  /\ phase' = IF phase = "flush" THEN "output2" ELSE "done"
  /\ UNCHANGED <<newPicture, dpb, headerAndSkipVars, firstVars, appVars>>

(* The output after an end of sequence and the additional bumping after a  *)
(* NAL unit of slice data; the end of sequence leaves no picture begun.    *)
BeginSecondOutput(n, eof) ==
  /\ phase = "output2"
  /\ IF n.kind = "EOS" \/ (~newPicture /\ n.kind \in {"slice", "RSV"})
       THEN phase' = "bump2" /\ CountPictures(dpb)
       ELSE phase' = NextPhase(eof) /\ UNCHANGED counterVars
  /\ firstSliceInPicture' = IF n.kind = "EOS" THEN FALSE ELSE firstSliceInPicture
  /\ UNCHANGED <<newPicture, dpb, headerAndSkipVars, firstSliceInSequence,
                 firstSliceInBitstream, listSet, loopFiltered, iPOCLastDisplay, written>>

AppNext(n, eof) ==
  \/ IgnoreLayer(n) \/ Decode(n) \/ FinishPicture(n, eof)
  \/ Bump \/ EndBump(eof)
  \/ CheckNoOutputPriorPics(n)
  \/ FlushPicture \/ EndFlush
  \/ BeginSecondOutput(n, eof)
=============================================================================
