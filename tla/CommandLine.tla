---------------------------- MODULE CommandLine ----------------------------
(***************************************************************************)
(* How shell_execute cuts a line into arguments (shell.c:267-295): in      *)
(* place, in one pass over a copy of the line, each argument a pointer     *)
(* into the copy and ended by a zero written over the space behind it.     *)
(* One action is one turn of a loop.                                       *)
(***************************************************************************)
EXTENDS Integers, Sequences

CONSTANTS
  Space,
  Line,      (* what may be typed: sequences of characters and spaces,     *)
             (* shorter than INPUT_BUFFER_SIZE                             *)
  Nul,
  MaxArgs    (* places in argv: 16                                         *)

Character == UNION {{l[k] : k \in 1 .. Len(l)} : l \in Line}

ASSUME CommandLineAssumption ==
  /\ Line \subseteq Seq(Character)
  /\ Nul \notin Character \cup {Space}
  /\ MaxArgs \in Nat

VARIABLES
  cmd,       (* the line                                                   *)
  buffer,    (* the copy: characters by index, and the zero at the end     *)
  token,     (* index into buffer                                          *)
  argv,      (* indices into buffer; argc is its length                    *)
  pc         (* the loop that is running, or "done"                        *)

line_vars == <<cmd, buffer, token, argv, pc>>

(* strcpy                                                                  *)
StartLine(l) ==
  /\ cmd' = l
  /\ buffer' = [i \in 0 .. Len(l) |-> IF i = Len(l) THEN Nul ELSE l[i + 1]]
  /\ token' = 0
  /\ argv' = <<>>
  /\ pc' = "argument"

argc == Len(argv)

NextArgument ==
  /\ pc = "argument"
  /\ pc' = IF buffer[token] # Nul /\ argc < MaxArgs THEN "spaces" ELSE "done"
  /\ UNCHANGED <<cmd, buffer, token, argv>>

(* Mutant: the spaces before a word are looked at for ever.                *)
SkipSpaceStays ==
  /\ pc = "spaces" /\ buffer[token] = Space
  /\ UNCHANGED line_vars

SkipSpace ==
  /\ pc = "spaces" /\ buffer[token] = Space
  /\ token' = token + 1
  /\ UNCHANGED <<cmd, buffer, argv, pc>>

(* Mutant: spaces at the end of the line make an empty argument.           *)
StartArgumentAlways ==
  /\ pc = "spaces" /\ buffer[token] # Space
  /\ argv' = Append(argv, token)
  /\ pc' = "word"
  /\ UNCHANGED <<cmd, buffer, token>>

StartArgument ==
  /\ pc = "spaces" /\ buffer[token] # Space
  /\ IF buffer[token] = Nul
     THEN pc' = "done" /\ UNCHANGED argv
     ELSE pc' = "word" /\ argv' = Append(argv, token)
  /\ UNCHANGED <<cmd, buffer, token>>

SkipLetter ==
  /\ pc = "word" /\ buffer[token] \notin {Nul, Space}
  /\ token' = token + 1
  /\ UNCHANGED <<cmd, buffer, argv, pc>>

EndArgument ==
  /\ pc = "word" /\ buffer[token] = Space
  /\ buffer' = [buffer EXCEPT ![token] = Nul]
  /\ token' = token + 1
  /\ pc' = "argument"
  /\ UNCHANGED <<cmd, argv>>

EndLine ==
  /\ pc = "word" /\ buffer[token] = Nul
  /\ pc' = "done"
  /\ UNCHANGED <<cmd, buffer, token, argv>>

(* one step of the pass over the line                                      *)
CutLine ==
  \/ NextArgument \/ SkipSpace \/ StartArgument
  \/ SkipLetter \/ EndArgument \/ EndLine

(* argv[n - 1]: the string from its place in the copy to the next zero     *)
Argument(n) ==
  LET end == CHOOSE j \in argv[n] .. Len(cmd) :
               buffer[j] = Nul /\ \A k \in argv[n] .. j - 1 : buffer[k] # Nul
  IN  [k \in 1 .. end - argv[n] |-> buffer[argv[n] + k - 1]]

=============================================================================
