------------------------------ MODULE Notebook ------------------------------
(***************************************************************************)
(* What the shell promises to its user: a line is a command with words     *)
(* behind it, and the files are notes one can create, write, show and      *)
(* remove.  A command that succeeds does what it says; one that fails      *)
(* leaves everything alone, but for a note that was being overwritten:     *)
(* that may show the beginning of the new text.  Of mkfs less is promised: *)
(* it always answers that it is done, and what notes are left, if the disk *)
(* did not take all it wrote, are as they were.                            *)
(***************************************************************************)
EXTENDS Words

CONSTANTS
  Line,       (* what the user may type                                    *)
  Named,      (* the words the commands are called by                      *)
  MaxArgs     (* words of a line that count                                *)

VARIABLES
  notes,      (* the notes by their names                                  *)
  line,       (* the line that is being executed                           *)
  busy,       (* whether there is one                                      *)
  reply       (* what the last line has been answered                      *)

vars == <<notes, line, busy, reply>>

Says(what)  == [says |-> what, text |-> <<>>]
Shows(text) == [says |-> "text", text |-> text]

Unwritten == [written |-> FALSE, text |-> <<>>]
Note(t)   == [written |-> TRUE, text |-> t]
NoNotes   == [n \in {} |-> Unwritten]

Init ==
  /\ notes = NoNotes
  /\ line = <<>> /\ ~ busy
  /\ reply = Says("nothing")

Type(l) ==
  /\ ~ busy
  /\ busy' = TRUE /\ line' = l
  /\ reply' = Says("nothing")
  /\ UNCHANGED notes

Args == LET w == WordsOf(line)
        IN  SubSeq(w, 1, IF Len(w) > MaxArgs THEN MaxArgs ELSE Len(w))

Command(c) == busy /\ Args # <<>> /\ Args[1] = Named[c]

Answer(r) == busy' = FALSE /\ line' = <<>> /\ reply' = r

(* a word too few, or the file system refuses                              *)
Complain(c, n) ==
  /\ Command(c)
  /\ Answer(Says(IF Len(Args) < n THEN "usage" ELSE "failed"))
  /\ UNCHANGED notes

Echo ==
  /\ Command("echo")
  /\ Answer(Shows(Joined(Tail(Args))))
  /\ UNCHANGED notes

Touch ==
  /\ Command("touch") /\ Len(Args) >= 2
  /\ Args[2] \notin DOMAIN notes
  /\ notes' = [n \in DOMAIN notes \cup {Args[2]} |->
                IF n = Args[2] THEN Unwritten ELSE notes[n]]
  /\ Answer(Says("done"))

Forget ==
  /\ Command("rm") /\ Len(Args) >= 2
  /\ Args[2] \in DOMAIN notes
  /\ notes' = [n \in DOMAIN notes \ {Args[2]} |-> notes[n]]
  /\ Answer(Says("done"))

Show ==
  /\ Command("cat") /\ Len(Args) >= 2
  /\ Args[2] \in DOMAIN notes /\ notes[Args[2]].written
  /\ Answer(Shows(notes[Args[2]].text))
  /\ UNCHANGED notes

Text == Joined(SubSeq(Args, 3, Len(Args)))

Write ==
  /\ Command("write") /\ Len(Args) >= 3
  /\ Args[2] \in DOMAIN notes
  /\ notes' = [notes EXCEPT ![Args[2]] = Note(Text)]
  /\ Answer(Says("done"))

WriteHalf ==
  /\ Command("write") /\ Len(Args) >= 3
  /\ Args[2] \in DOMAIN notes /\ notes[Args[2]].written
  /\ \E k \in 0 .. Len(Text) :
       notes' = [notes EXCEPT ![Args[2]] = Note(SubSeq(Text, 1, k))]
  /\ Answer(Says("failed"))

Format ==
  /\ Command("mkfs")
  /\ \E left \in SUBSET DOMAIN notes : notes' = [n \in left |-> notes[n]]
  /\ Answer(Says("done"))

Chat ==
  /\ Command("print")
  /\ Answer(Says("print"))
  /\ UNCHANGED notes

Nothing ==
  /\ busy /\ Args = <<>>
  /\ Answer(Says("nothing"))
  /\ UNCHANGED notes

Unknown ==
  /\ busy /\ Args # <<>>
  /\ \A c \in DOMAIN Named : Args[1] # Named[c]
  /\ Answer(Says("unknown"))
  /\ UNCHANGED notes

Next ==
  \/ \E l \in Line : Type(l)
  \/ Complain("touch", 2) \/ Complain("rm", 2) \/ Complain("cat", 2)
  \/ Complain("write", 3)
  \/ Echo \/ Touch \/ Forget \/ Show \/ Write \/ WriteHalf \/ Format
  \/ Chat \/ Nothing \/ Unknown

Spec == Init /\ [][Next]_vars

=============================================================================
