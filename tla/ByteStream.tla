------------------------------ MODULE ByteStream ------------------------------
(***************************************************************************)
(* The bitstream file: writeAnnexB() puts NAL units into it, behind start  *)
(* codes; _byteStreamNALUnit() takes them out again, looking ahead by up   *)
(* to four bytes through InputByteStream, and TAppDecTop::decode() seeks   *)
(* back when a NAL unit has to be read a second time.  One action per      *)
(* iteration of a loop.                                                    *)
(***************************************************************************)
EXTENDS Integers, Sequences

CONSTANTS
  Bodies,     \* the NAL units, as byte strings, header included
  MaxUnits,   \* bound on the NAL units in the file
  MaxZeros    \* bound on the zero bytes between two of them

Byte == 0..255

(* What NALwrite.cpp leaves in a NAL unit: a header whose second byte is   *)
(* not 0, no start code inside, no zero at the end.                        *)
ASSUME BodiesAssumption ==
  \A b \in Bodies :
    /\ b \in Seq(Byte) /\ Len(b) >= 2 /\ b[2] # 0 /\ b[Len(b)] # 0
    /\ \A i \in 1..Len(b) - 2 : b[i] = 0 /\ b[i + 1] = 0 => b[i + 2] > 2

ASSUME BoundsAssumption == MaxUnits \in Nat /\ MaxZeros \in Nat

VARIABLES
  phase,      \* "write", "loop", "leading", "body", "trailing", "returned", "end"
  file,       \* the bytes of the file
  units,      \* ghost: the NAL units written
  starts,     \* ghost: how many bytes of the file precede each of them
  pos,        \* m_Input.tellg(): bytes taken from the file
  future,     \* m_NumFutureBytes: those of them not yet consumed
  eof,        \* !bitstreamFile: a byte beyond the end was asked for
  unit,       \* nalUnit: the bytes read so far
  location,   \* the main loop's location
  index,      \* ghost: which unit has been read
  again       \* it has been read before

vars == <<phase, file, units, starts, pos, future, eof, unit, location, index, again>>
streamVars == <<pos, future, eof>>

Init ==
  /\ phase = "write"
  /\ file = << >> /\ units = << >> /\ starts = << >>
  /\ pos = 0 /\ future = 0 /\ eof = FALSE
  /\ unit = << >> /\ location = 0 /\ index = 0 /\ again = FALSE

Zeros(n) == [i \in 1..n |-> 0]

StartCode == <<0, 0, 1>>

(* writeAnnexB(): the start code has a zero_byte in front in the first NAL *)
(* unit of an access unit and in parameter sets.  Other writers may leave  *)
(* further zero bytes behind a NAL unit.                                   *)
WriteUnit ==
  /\ phase = "write" /\ Len(units) < MaxUnits
  /\ \E body \in Bodies, zeroByte \in {0, 1}, padding \in 0..MaxZeros :
       /\ units = << >> => zeroByte = 1
       /\ file' = file \o Zeros(padding + zeroByte) \o StartCode \o body
       /\ units' = Append(units, body)
       /\ starts' = Append(starts, Len(file) + padding + zeroByte + Len(StartCode))
  /\ UNCHANGED <<phase, streamVars, unit, location, index, again>>

(* The file ends, with as many zero bytes as its writer likes. *)
CloseFile ==
  /\ phase = "write"
  /\ phase' = "loop"
  /\ \E padding \in 0..MaxZeros : file' = file \o Zeros(padding)
  /\ UNCHANGED <<units, starts, streamVars, unit, location, index, again>>

-----------------------------------------------------------------------------
(* InputByteStream.                                                        *)

Consumed == pos - future

(* eofBeforeNBytes(n) *)
EofBefore(n) == Consumed + n > Len(file)

(* peekBytes(n) *)
PeekBytes(n) == SubSeq(file, Consumed + 1, Consumed + n)

(* Mutant: the loop that fills the buffer runs once too often. *)
BufferedBy_OneMore(n) == IF future >= n THEN future
                         ELSE IF EofBefore(n + 1) THEN Len(file) - Consumed ELSE n + 1

(* Its side effect: the bytes looked at are buffered, up to the end of the *)
(* file; the stream fails there.                                           *)
BufferedBy(n) == IF future >= n THEN future
                 ELSE IF EofBefore(n) THEN Len(file) - Consumed ELSE n

(* n bytes have been looked at and k of them are consumed.                 *)
LookAndRead(n, k) ==
  /\ pos' = IF BufferedBy(n) > k THEN Consumed + BufferedBy(n) ELSE Consumed + k
  /\ future' = IF BufferedBy(n) > k THEN BufferedBy(n) - k ELSE 0
  /\ eof' = (eof \/ EofBefore(n))

NothingLeft == Consumed = Len(file)

(* readByte() throws; byteStreamNALUnit() catches and returns.             *)
EndOfFile ==
  /\ phase' = "returned"
  /\ pos' = Len(file) /\ future' = 0 /\ eof' = TRUE
  /\ index' = IF unit = << >> THEN index ELSE index + 1
  /\ UNCHANGED <<file, units, starts, unit, location, again>>

NextByte == file[Consumed + 1]

-----------------------------------------------------------------------------
(* _byteStreamNALUnit().                                                   *)

AtStartCode3 == ~EofBefore(3) /\ PeekBytes(3) = StartCode
AtStartCode4 == ~EofBefore(4) /\ PeekBytes(4) = <<0>> \o StartCode

(* The fourth byte is looked at only when the first three do not suffice.  *)
Lookahead == IF AtStartCode3 THEN 3 ELSE 4

(* A zero byte in front of a start code or behind a NAL unit is dropped;   *)
(* any other byte there fails an assert.                                   *)
DropZero ==
  \/ NothingLeft /\ EndOfFile
  \/ /\ ~NothingLeft /\ NextByte = 0
     /\ LookAndRead(4, 1)
     /\ UNCHANGED <<phase, file, units, starts, unit, location, index, again>>
  \/ /\ ~NothingLeft /\ NextByte # 0
     /\ phase' = "aborted"
     /\ UNCHANGED <<file, units, starts, streamVars, unit, location, index, again>>

(* Step 1 and 2: leading zero bytes, then the start code. *)
LeadingZero == phase = "leading" /\ ~AtStartCode3 /\ ~AtStartCode4 /\ DropZero

ReadStartCode ==
  /\ phase = "leading" /\ (AtStartCode3 \/ AtStartCode4)
  /\ LookAndRead(Lookahead, Lookahead)
  /\ phase' = "body"
  /\ UNCHANGED <<file, units, starts, unit, location, index, again>>

(* Mutant: 00 00 02 does not end a NAL unit, and neither does 00 00 01. *)
EndsUnit_OnlyZeros(s) == s = <<0, 0, 0>>

(* peekBytes(24/8) > 2 is false. *)
EndsUnit(s) == s[1] = 0 /\ s[2] = 0 /\ s[3] <= 2

AtUnitEnd == ~EofBefore(3) /\ EndsUnit(PeekBytes(3))

(* Step 3 and 4: the bytes of the NAL unit. *)
ReadByte ==
  /\ phase = "body" /\ ~AtUnitEnd
  /\ \/ NothingLeft /\ EndOfFile
     \/ /\ ~NothingLeft
        /\ unit' = Append(unit, NextByte)
        /\ LookAndRead(3, 1)
        /\ UNCHANGED <<phase, file, units, starts, location, index, again>>

EndUnit ==
  /\ phase = "body" /\ AtUnitEnd
  /\ LookAndRead(3, 0)
  /\ phase' = "trailing"
  /\ UNCHANGED <<file, units, starts, unit, location, index, again>>

(* Step 5: zero bytes up to the next start code. *)
TrailingZero == phase = "trailing" /\ ~AtStartCode3 /\ ~AtStartCode4 /\ DropZero

FoundStartCode ==
  /\ phase = "trailing" /\ (AtStartCode3 \/ AtStartCode4)
  /\ LookAndRead(Lookahead, 0)
  /\ phase' = "returned"
  /\ index' = index + 1
  /\ UNCHANGED <<file, units, starts, unit, location, again>>

-----------------------------------------------------------------------------
(* The main loop of TAppDecTop::decode().                                  *)

(* The loop ends once the stream has failed; else it notes where it is.    *)
BeginIteration ==
  /\ phase = "loop"
  /\ IF eof THEN phase' = "end" /\ UNCHANGED <<unit, location>>
     ELSE phase' = "leading" /\ unit' = << >> /\ location' = pos
  /\ UNCHANGED <<file, units, starts, streamVars, index, again>>

(* Mutant: the position of the file is taken for that of the reader. *)
SeekTarget_IgnoresLookahead == location

(* location - streamoff(3) *)
SeekTarget == location - 3

(* The NAL unit begins a new picture: clear(), seekg() and reset().  A     *)
(* picture is open then, so the unit is not the first one; and it is       *)
(* finished before the unit is read again (RetrySucceeds).                 *)
SeekBack ==
  /\ phase = "returned" /\ unit # << >> /\ index > 1 /\ ~again
  /\ phase' = "loop"
  /\ pos' = SeekTarget /\ future' = 0 /\ eof' = FALSE
  /\ index' = index - 1
  /\ again' = TRUE
  /\ UNCHANGED <<file, units, starts, unit, location>>

(* Otherwise the loop goes on, or ends. *)
GoOn ==
  /\ phase = "returned"
  /\ phase' = "loop"
  /\ again' = FALSE
  /\ UNCHANGED <<file, units, starts, streamVars, unit, location, index>>

Finished == phase \in {"end", "aborted"} /\ UNCHANGED vars

Next == \/ WriteUnit \/ CloseFile
        \/ BeginIteration \/ SeekBack \/ GoOn
        \/ LeadingZero \/ ReadStartCode \/ ReadByte
        \/ EndUnit \/ TrailingZero \/ FoundStartCode
        \/ Finished

Spec == Init /\ [][Next]_vars

(* The program reads on while it can.                                      *)
FairSpec == Spec /\ WF_vars(Next)

-----------------------------------------------------------------------------
TypeOK ==
  /\ phase \in {"write", "loop", "leading", "body", "trailing", "returned", "end", "aborted"}
  /\ file \in Seq(Byte) /\ unit \in Seq(Byte) /\ units \in Seq(Bodies)
  /\ starts \in [1..Len(units) -> 0..Len(file)]
  /\ pos \in 0..Len(file) /\ future \in 0..4 /\ future <= pos
  /\ location \in 0..Len(file) /\ index \in 0..Len(units)
  /\ eof \in BOOLEAN /\ again \in BOOLEAN

(* The comment in decode(): location points to the payload of the current  *)
(* NAL unit, because the reader has read ahead by exactly its start code,  *)
(* except for the first unit (and for one that is read again): seeking to  *)
(* location - 3 finds the start code.                                      *)
LocationIsPayload ==
  phase = "returned" /\ index > 1 /\ ~again =>
    SubSeq(file, location - 2, location) = StartCode

(* The one or two zero bytes a file may end with. *)
FileTail ==
  LET last == {i \in DOMAIN file : file[i] # 0}
      tail == IF phase = "write" \/ last = {} THEN 0
              ELSE Len(file) - CHOOSE i \in last : \A j \in last : j <= i
  IN IF tail < 3 THEN tail ELSE 0

(* The reader hands out the NAL units that were written, in order, each    *)
(* complete and without the zeros around it (but the last one with up to   *)
(* two of them), notices the end of the file exactly with the last one,    *)
(* and repeats the unit it has been asked to.                              *)
Turn == CASE phase = "write" -> "file"
          [] phase = "end" -> "end"
          [] phase = "aborted" -> "aborted"
          [] phase = "returned" /\ unit # << >> -> "have"
          [] OTHER -> "fetch"

Source == INSTANCE UnitSource WITH
            Units <- Bodies, turn <- Turn,
            handed <- IF Turn = "have" THEN unit ELSE << >>,
            isLast <- Turn = "have" /\ eof,
            tail <- FileTail

ImplementsUnitSource == Source!Spec

(* Every file is read to its end. *)
ReadsToEnd == <>(phase = "end")
=============================================================================
