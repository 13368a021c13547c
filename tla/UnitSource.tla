------------------------------ MODULE UnitSource ------------------------------
(***************************************************************************)
(* What the decoder's main loop expects of the bitstream file: the NAL     *)
(* units that were written into it, one after the other, and the same one  *)
(* again when decode() has found that it begins a new picture.  The        *)
(* abstract specification of ByteStream, and what Decoding takes for       *)
(* granted when it decodes a NAL unit twice.                               *)
(***************************************************************************)
EXTENDS Naturals, Sequences

CONSTANTS
  Units,     \* the NAL units there may be
  MaxUnits   \* bound on the number of units in the file

VARIABLES
  units,     \* the units in the file
  turn,      \* "file": it is being written; "fetch", "have": reading; "end"
  index,     \* how many of the units have been handed out
  handed,    \* the unit the caller has
  isLast,    \* whether the file ended while that unit was read
  again,     \* whether it has been read before
  tail       \* the zero bytes behind the last unit that are taken for its end

vars == <<units, turn, index, handed, isLast, again, tail>>

NoUnit == << >>

Init ==
  /\ units = << >> /\ turn = "file" /\ index = 0
  /\ handed = NoUnit /\ isLast = FALSE /\ again = FALSE /\ tail = 0

Add ==
  /\ turn = "file" /\ Len(units) < MaxUnits
  /\ \E u \in Units : units' = Append(units, u)
  /\ UNCHANGED <<turn, index, handed, isLast, again, tail>>

Close ==
  /\ turn = "file" /\ turn' = "fetch"
  /\ tail' \in (IF units = << >> THEN {0} ELSE 0..2)
  /\ UNCHANGED <<units, index, handed, isLast, again>>

(* The next unit; the end of the file is met with the last one.            *)
Hand ==
  /\ turn = "fetch" /\ index < Len(units)
  /\ turn' = "have"
  /\ index' = index + 1
  /\ isLast' = (index + 1 = Len(units))
  /\ handed' = units[index + 1] \o [i \in 1..(IF isLast' THEN tail ELSE 0) |-> 0]
  /\ UNCHANGED <<units, again, tail>>

(* The caller is done with it. *)
Take ==
  /\ turn = "have" /\ turn' = "fetch"
  /\ handed' = NoUnit /\ isLast' = FALSE /\ again' = FALSE
  /\ UNCHANGED <<units, index, tail>>

(* The caller wants it once more: not the first one, and only once. *)
GiveBack ==
  /\ turn = "have" /\ index > 1 /\ ~again
  /\ turn' = "fetch"
  /\ index' = index - 1
  /\ handed' = NoUnit /\ isLast' = FALSE /\ again' = TRUE
  /\ UNCHANGED <<units, tail>>

Finish ==
  /\ turn = "fetch" /\ index = Len(units)
  /\ turn' = "end"
  /\ UNCHANGED <<units, index, handed, isLast, again, tail>>

Next == Add \/ Close \/ Hand \/ Take \/ GiveBack \/ Finish

Spec == Init /\ [][Next]_vars
=============================================================================
