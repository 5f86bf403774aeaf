------------------------------- MODULE Editor -------------------------------
(***************************************************************************)
(* What the line editor promises: one line of text with a cursor in it.    *)
(* Characters go in at the cursor and backspace takes out the one before   *)
(* it, wherever it stands; Enter hands the line over and starts an empty   *)
(* one.  A line that is full takes no more.                                *)
(*                                                                         *)
(* A key may also change nothing: that a line with room takes every        *)
(* character is not promised, nor which character a key with Shift gives.  *)
(***************************************************************************)
EXTENDS Naturals, Sequences

CONSTANTS
  Char,       (* characters                                                *)
  MaxLength   (* of a line                                                 *)

VARIABLES
  line,       (* the text                                                  *)
  at          (* how much of it is before the cursor                       *)

Before == SubSeq(line, 1, at)
Behind == SubSeq(line, at + 1, Len(line))

Init == line = <<>> /\ at = 0

Type(ch) ==
  /\ Len(line) < MaxLength
  /\ line' = Before \o <<ch>> \o Behind
  /\ at' = at + 1

Erase ==
  /\ at > 0
  /\ line' = SubSeq(line, 1, at - 1) \o Behind
  /\ at' = at - 1

Left  == at > 0 /\ at' = at - 1 /\ UNCHANGED line
Right == at < Len(line) /\ at' = at + 1 /\ UNCHANGED line

Submit == line' = <<>> /\ at' = 0

Next == Erase \/ Left \/ Right \/ Submit \/ \E ch \in Char : Type(ch)

Spec == Init /\ [][Next]_<<line, at>>

=============================================================================
