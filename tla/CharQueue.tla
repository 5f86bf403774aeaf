----------------------------- MODULE CharQueue -----------------------------
(***************************************************************************)
(* What the keyboard queue promises: keys are accepted in the order in     *)
(* which they are pressed.  The character a key types goes to the end of   *)
(* the queue, unless the queue is full: only then it is dropped.           *)
(* Characters come out in the order they went in, each once.               *)
(***************************************************************************)
EXTENDS Naturals, Sequences

CONSTANTS
  Char,       (* keys that type a character, and the characters            *)
  Other,      (* keys that type none                                       *)
  NoChar,     (* not a character                                           *)
  Capacity    (* how many it holds                                         *)

VARIABLES
  pressed,    (* keys pressed and not accepted yet, oldest first           *)
  chars,      (* what is in the queue, oldest first                        *)
  taken       (* what came out last                                        *)

Init ==
  /\ pressed = <<>>
  /\ chars = <<>>
  /\ taken = NoChar

Press(k) ==
  /\ pressed' = Append(pressed, k)
  /\ UNCHANGED <<chars, taken>>

HasRoom == Len(chars) < Capacity

(* the key pressed first is accepted                                       *)
Accept ==
  /\ pressed # <<>>
  /\ pressed' = Tail(pressed)
  /\ chars' = IF Head(pressed) \in Char /\ HasRoom
              THEN Append(chars, Head(pressed)) ELSE chars
  /\ UNCHANGED taken

Take ==
  /\ chars # <<>>
  /\ taken' = Head(chars)
  /\ chars' = Tail(chars)
  /\ UNCHANGED pressed

Next ==
  \/ \E k \in Char \cup Other : Press(k)
  \/ Accept
  \/ Take

Spec == Init /\ [][Next]_<<pressed, chars, taken>>

=============================================================================
