-------------------------------- MODULE Shell --------------------------------
(***************************************************************************)
(* The shell: shell_execute as keyboard_handler calls it for every line,   *)
(* with the commands that change or show files.  The file system below is  *)
(* what simplefs.c does with names and with texts shorter than a sector,   *)
(* call by call, as FileStore says: any call may fail, and mkfs, which     *)
(* does not look at what became of its writes, may leave files.            *)
(***************************************************************************)
EXTENDS CommandLine, FiniteSets

CONSTANTS
  SIMPLEFS_MAX_NAME,   (* bytes for a name in an entry, with its zero: 32  *)
  Named,     (* the names in commands[]; "print" stands for those of the   *)
             (* commands that only print: help, version, ls, ...           *)
  MaxFiles   (* entries of the file table: 128                             *)

W == INSTANCE Words

(* simplefs_create copies a name into its entry without looking at its     *)
(* length (simplefs.c:135); only names that fit there are considered.      *)
NamesFit ==
  \A l \in Line :
    LET w == W!WordsOf(l)
    IN  Len(w) >= 2 /\ w[1] = Named["touch"] => Len(w[2]) < SIMPLEFS_MAX_NAME

ASSUME ShellAssumption ==
  /\ {"echo", "touch", "cat", "write", "rm", "mkfs", "print"} = DOMAIN Named
  /\ \A c, d \in DOMAIN Named : Named[c] = Named[d] => c = d
  /\ MaxFiles \in Nat
  /\ SIMPLEFS_MAX_NAME \in Nat
  /\ NamesFit

VARIABLES
  files,     (* the table: by name, the size and the text in the sector    *)
  text,      (* what cmd_write has put together, or cmd_echo printed       *)
  i,         (* the loop variable of either                                *)
  out        (* what the command of the last line has printed              *)

vars == <<line_vars, files, text, i, out>>

Says(what) == [says |-> what, text |-> <<>>]

(* start_sector = 0: created, but never written                            *)
NoSector == [start |-> FALSE, size |-> 0, sector |-> <<>>]
NoFiles  == [n \in {} |-> NoSector]

Init ==
  /\ cmd = <<>> /\ buffer = <<>> /\ token = 0 /\ argv = <<>>
  /\ pc = "prompt"
  /\ files = NoFiles
  /\ text = <<>> /\ i = 0
  /\ out = Says("nothing")

(* Enter: shell_execute is called with the line                            *)
Enter(l) ==
  /\ pc = "prompt"
  /\ StartLine(l)
  /\ out' = Says("nothing")
  /\ UNCHANGED <<files, text, i>>

(* back in keyboard_handler the line is empty and there is a new prompt    *)
Prompt(r) ==
  /\ pc' = "prompt"
  /\ cmd' = <<>> /\ buffer' = <<>> /\ token' = 0 /\ argv' = <<>>
  /\ text' = <<>> /\ i' = 0
  /\ out' = r

NoCommand ==
  /\ pc = "done" /\ argc = 0
  /\ Prompt(Says("nothing"))
  /\ UNCHANGED files

(* strcmp finds the name of the command                                    *)
Runs(c) == pc = "done" /\ argc > 0 /\ Argument(1) = Named[c]

UnknownCommand ==
  /\ pc = "done" /\ argc > 0
  /\ \A c \in DOMAIN Named : Argument(1) # Named[c]
  /\ Prompt(Says("unknown"))
  /\ UNCHANGED files

Usage(c, n) ==
  /\ Runs(c) /\ argc < n
  /\ Prompt(Says("usage"))
  /\ UNCHANGED files

Exists == Argument(2) \in DOMAIN files

cmd_touch ==
  /\ Runs("touch") /\ argc >= 2
  /\ \/ /\ Prompt(Says("failed"))
        /\ UNCHANGED files
     \/ /\ ~ Exists /\ Cardinality(DOMAIN files) < MaxFiles
        /\ files' = [n \in DOMAIN files \cup {Argument(2)} |->
                       IF n = Argument(2) THEN NoSector ELSE files[n]]
        /\ Prompt(Says("done"))

cmd_rm ==
  /\ Runs("rm") /\ argc >= 2
  /\ \/ /\ Prompt(Says("failed"))
        /\ UNCHANGED files
     \/ /\ Exists
        /\ files' = [n \in DOMAIN files \ {Argument(2)} |-> files[n]]
        /\ Prompt(Says("done"))

(* printk stops at the first zero, which the sector has behind its text    *)
Printed(f) == SubSeq(f.sector, 1, IF f.size < Len(f.sector) THEN f.size
                                  ELSE Len(f.sector))

(* Mutant: cat shows the sector to its end.                                *)
PrintedToTheEnd(f) == f.sector

cmd_cat ==
  /\ Runs("cat") /\ argc >= 2
  /\ \/ Prompt(Says("failed"))
     \/ /\ Exists /\ files[Argument(2)].start
        /\ Prompt([says |-> "text", text |-> Printed(files[Argument(2)])])
  /\ UNCHANGED files

(* simplefs_format ignores the writes that fail, so the files of sectors   *)
(* of the table that could not be written are left; the message is the     *)
(* same                                                                    *)
cmd_mkfs ==
  /\ Runs("mkfs")
  /\ \E left \in SUBSET DOMAIN files : files' = [n \in left |-> files[n]]
  /\ Prompt(Says("done"))

OtherCommand ==
  /\ Runs("print")
  /\ Prompt(Says("print"))
  /\ UNCHANGED files

(* cmd_write and cmd_echo start with an empty text and go through the      *)
(* arguments from the one given; echo without any is an empty line         *)
StartText(c, first, least) ==
  /\ Runs(c) /\ argc >= least
  /\ pc' = "text" /\ i' = first
  /\ UNCHANGED <<cmd, buffer, token, argv, files, text, out>>

(* Mutant: a space also behind the last argument.                          *)
AddArgumentSpaced ==
  /\ pc = "text" /\ i <= argc
  /\ text' = text \o Argument(i) \o <<Space>>
  /\ i' = i + 1
  /\ UNCHANGED <<line_vars, files, out>>

(* one turn of the loop: an argument, and a space behind all but the last  *)
AddArgument ==
  /\ pc = "text" /\ i <= argc
  /\ text' = text \o Argument(i) \o (IF i # argc THEN <<Space>> ELSE <<>>)
  /\ i' = i + 1
  /\ UNCHANGED <<line_vars, files, out>>

IsText(c) == pc = "text" /\ i = argc + 1 /\ Argument(1) = Named[c]

cmd_echo ==
  /\ IsText("echo")
  /\ Prompt([says |-> "text", text |-> text])
  /\ UNCHANGED files

(* vfs_write: the sector, then the entry with the new size; an error after *)
(* the sector leaves the old entry, which shows only if the file keeps its *)
(* sector                                                                  *)
cmd_write ==
  /\ IsText("write")
  /\ \/ /\ Prompt(Says("failed"))
        /\ UNCHANGED files
     \/ /\ Exists
        /\ \/ /\ files' = [files EXCEPT ![Argument(2)] =
                             [start |-> TRUE, size |-> Len(text), sector |-> text]]
              /\ Prompt(Says("done"))
           \/ /\ files[Argument(2)].start
              /\ files' = [files EXCEPT ![Argument(2)].sector = text]
              /\ Prompt(Says("failed"))

Execute ==
  \/ CutLine /\ UNCHANGED <<files, text, i, out>>
  \/ NoCommand \/ UnknownCommand
  \/ Usage("touch", 2) \/ Usage("rm", 2) \/ Usage("cat", 2) \/ Usage("write", 3)
  \/ cmd_touch \/ cmd_rm \/ cmd_cat \/ cmd_mkfs \/ OtherCommand
  \/ StartText("echo", 2, 1) \/ StartText("write", 3, 3)
  \/ AddArgument
  \/ cmd_echo \/ cmd_write

Next == (\E l \in Line : Enter(l)) \/ Execute

Spec == Init /\ [][Next]_vars

(* Commands run to their end: interrupts wait.                             *)
FairSpec == Spec /\ WF_vars(Execute)

-----------------------------------------------------------------------------
(* Properties.                                                             *)

(* Every line, whatever is in it, brings back the prompt.                  *)
PromptComesBack == pc # "prompt" ~> pc = "prompt"

(* Each command gets the words of its line, in order and whole, up to the  *)
(* number argv holds, and does with them what Notebook says.               *)
Book == INSTANCE Notebook
          WITH notes <- [n \in DOMAIN files |->
                           [written |-> files[n].start,
                            text |-> Printed(files[n])]],
               line <- cmd, busy <- pc # "prompt", reply <- out

ImplementsNotebook == Book!Spec

=============================================================================
