------------------------------ MODULE FileStore ------------------------------
(***************************************************************************)
(* What the file system promises to the shell: a map from names to files,  *)
(* changed by one call at a time.  A call to create, delete, read or write *)
(* that succeeds did all of what it says, one that fails did nothing; only *)
(* a write over sectors the file already has may stop half way, and then   *)
(* the file is a prefix of the new data followed by the rest of the old.   *)
(*                                                                         *)
(* Of format less is promised.  It always says that it is done.  All files *)
(* are gone then if the disk took every write; if it missed one, any of    *)
(* the files may still be there, as they were.                             *)
(*                                                                         *)
(* The power may go at any time.  It may take back the last step of the    *)
(* last call, also one that was reported done, and nothing before it.      *)
(***************************************************************************)
EXTENDS Naturals, Sequences

CONSTANTS
  Name,       (* file names                                                *)
  NoName,     (* not a name                                                *)
  Content,    (* what a write may store: sequences of sectors              *)
  Room,       (* sizes of the buffers files are read into                  *)
  MayMiss     (* whether the disk may miss a write                         *)

VARIABLES
  files,      (* what every name holds                                     *)
  safe,       (* what every name holds if the power goes at once           *)
  pending,    (* the call that is being carried out, if it takes steps     *)
  reply       (* what the last call returned                               *)

vars == <<files, safe, pending, reply>>

NoFile  == [there |-> FALSE, readable |-> FALSE, data |-> <<>>]
NewFile == [there |-> TRUE, readable |-> FALSE, data |-> <<>>]
File(c) == [there |-> TRUE, readable |-> TRUE, data |-> c]

Nothing == [op |-> "none", name |-> NoName, data |-> <<>>, done |-> 0,
            missed |-> "none"]
NoReply == [op |-> "none", ok |-> FALSE, data |-> <<>>]
Says(op, ok) == [op |-> op, ok |-> ok, data |-> <<>>]

Init ==
  /\ files = [f \in Name |-> NoFile]
  /\ safe = files
  /\ pending = Nothing
  /\ reply = NoReply

Idle == pending = Nothing

Fail(op) ==
  /\ Idle
  /\ reply' = Says(op, FALSE)
  /\ UNCHANGED <<files, pending>>

Create(f) ==
  /\ Idle
  /\ ~ files[f].there
  /\ files' = [files EXCEPT ![f] = NewFile]
  /\ reply' = Says("create", TRUE)
  /\ UNCHANGED pending

Delete(f) ==
  /\ Idle
  /\ files[f].there
  /\ files' = [files EXCEPT ![f] = NoFile]
  /\ reply' = Says("delete", TRUE)
  /\ UNCHANGED pending

(* a read fails only for a file without content or a buffer too small      *)
Read(f, room) ==
  /\ Idle
  /\ reply' = IF files[f].readable /\ Len(files[f].data) <= room
              THEN [op |-> "read", ok |-> TRUE, data |-> files[f].data]
              ELSE Says("read", FALSE)
  /\ UNCHANGED <<files, pending>>

WriteBegin(f, c) ==
  /\ Idle
  /\ files[f].there
  /\ pending' = [op |-> "write", name |-> f, data |-> c, done |-> 0,
                 missed |-> "none"]
  /\ reply' = NoReply
  /\ UNCHANGED files

(* one more sector of a file that is overwritten where it lies             *)
Overwrite ==
  LET f == pending.name
      k == pending.done + 1
  IN  /\ pending.op = "write"
      /\ k <= Len(pending.data)
      /\ Len(pending.data) <= Len(files[f].data)
      /\ files' = [files EXCEPT ![f].data[k] = pending.data[k]]
      /\ pending' = [pending EXCEPT !.done = k]
      /\ UNCHANGED reply

WriteDone ==
  /\ pending.op = "write"
  /\ files' = [files EXCEPT ![pending.name] = File(pending.data)]
  /\ pending' = Nothing
  /\ reply' = Says("write", TRUE)

WriteFailed ==
  /\ pending.op = "write"
  /\ pending' = Nothing
  /\ reply' = Says("write", FALSE)
  /\ UNCHANGED files

FormatBegin ==
  /\ Idle
  /\ pending' = [Nothing EXCEPT !.op = "format"]
  /\ reply' = NoReply
  /\ UNCHANGED files

(* files go in any order; the disk may miss some                           *)
Erase(S) ==
  /\ pending.op = "format"
  /\ files' = [f \in Name |-> IF f \in S THEN NoFile ELSE files[f]]
  /\ \/ UNCHANGED pending
     \/ MayMiss /\ pending' = [pending EXCEPT !.missed = "some"]
  /\ UNCHANGED reply

FormatDone ==
  /\ pending.op = "format"
  /\ pending.missed = "some" \/ \A f \in Name : ~ files[f].there
  /\ pending' = Nothing
  /\ reply' = Says("format", TRUE)
  /\ UNCHANGED <<files, safe>>

Call ==
  \/ \E op \in {"create", "delete", "write"} : Fail(op)
  \/ \E f \in Name :
       \/ Create(f) \/ Delete(f)
       \/ \E room \in Room : Read(f, room)
       \/ \E c \in Content : WriteBegin(f, c)
  \/ Overwrite \/ WriteDone \/ WriteFailed
  \/ FormatBegin
  \/ \E S \in SUBSET Name : Erase(S)
  \/ UNCHANGED <<files, pending, reply>>

PowerLoss ==
  /\ files' \in {files, safe}
  /\ safe' = files'
  /\ pending' = Nothing
  /\ reply' = NoReply

(* the step before is safe once the next is taken                          *)
Next ==
  \/ Call /\ safe' = files
  \/ FormatDone
  \/ PowerLoss

Spec == Init /\ [][Next]_vars

=============================================================================
