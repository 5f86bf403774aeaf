--------------------------------- MODULE Ata ---------------------------------
(***************************************************************************)
(* The disk driver, ata.c, and the drive it talks to, each with a program  *)
(* of its own; between them are only the registers of the primary channel. *)
(* The driver polls: no interrupt of the drive is used, and no second call *)
(* runs while one is in progress.  The drive is not part of the source; it *)
(* is modelled by what ata.c relies on:                                    *)
(*   - it takes a while to raise BSY, and until then the status is that    *)
(*     from before, an old ERR included: after a command 400 ns, which the *)
(*     four reads of ata_delay outlast, and after the last word it is sent *)
(*     one access to a port, so that one read of the status may be stale;  *)
(*   - a busy drive shows none of ERR, DF and DRQ: ata_wait_drq looks at   *)
(*     the first two before it looks at BSY.                               *)
(***************************************************************************)
EXTENDS Integers

CONSTANTS
  Byte,      (* values of a register: 256                                  *)
  Nibble,    (* values of the address bits in the drive register: 16       *)
  Words,     (* 16-bit words in a sector: 256                              *)
  Word,      (* values of a word                                           *)
  Zero,      (* one of them                                                *)
  Asked,     (* addresses the file system uses                             *)
  Faults     (* what the drive may do wrong: "read", "write", "lost"       *)

Lba == 0 .. Byte * Byte * Byte * Nibble - 1

ASSUME AtaAssumption ==
  /\ Byte \in Nat \ {0} /\ Nibble \in Nat \ {0}
  /\ Words \in Nat \ {0}
  /\ Zero \in Word
  /\ Asked \subseteq Lba
  /\ Faults \subseteq {"read", "write", "lost"}

Sector == [0 .. Words - 1 -> Word]
Zeroes == [w \in 0 .. Words - 1 |-> Zero]

VARIABLES
  pc,        (* where the driver is; "idle" between calls                  *)
  call,      (* the arguments: op, lba, and buf, written to by a read      *)
  i,         (* the loop variable of the transfer, also of ata_delay       *)
  reply,     (* what the last call returned, and its buffer                *)
  regs,      (* the registers the driver has written                       *)
  dev,       (* what the drive is doing                                    *)
  error,     (* "ERR", "DF" or "none"                                      *)
  sector,    (* the drive's buffer                                         *)
  at,        (* the word of it that the data port stands for               *)
  left,      (* sectors of the command that are still to be transferred    *)
  disk

driver_vars == <<pc, call, i, reply>>
drive_vars  == <<dev, error, sector, at, left>>
vars        == <<driver_vars, regs, drive_vars, disk>>

NoCall  == [op |-> "none", lba |-> 0, buf |-> Zeroes]
NoReply == [op |-> "none", ok |-> FALSE, data |-> Zeroes]
NoRegs  == [drive |-> 0, count |-> 0, low |-> 0, mid |-> 0, high |-> 0,
            command |-> "none"]

Init ==
  /\ pc = "idle" /\ call = NoCall /\ i = 0 /\ reply = NoReply
  /\ regs = NoRegs
  /\ dev = "idle" /\ error = "none" /\ sector = Zeroes /\ at = 0 /\ left = 0
  /\ disk = [a \in Lba |-> Zeroes]

(* the status register                                                     *)
BSY == dev \in {"busy", "storing"}
DRQ == dev \in {"sending", "receiving"}

-----------------------------------------------------------------------------
(* The driver.                                                             *)

Goto(p) == pc' = p

Call(op, a, d) ==
  /\ pc = "idle"
  /\ call' = [op |-> op, lba |-> a, buf |-> d]
  /\ Goto("wait")
  /\ i' = 0
  /\ reply' = NoReply
  /\ UNCHANGED <<regs, drive_vars, disk>>

Return(ok) ==
  /\ pc' = "idle"
  /\ reply' = [op |-> call.op, ok |-> ok,
               data |-> IF ok /\ call.op = "read" THEN call.buf ELSE Zeroes]
  /\ call' = NoCall
  /\ i' = 0
  /\ UNCHANGED <<regs, drive_vars, disk>>

(* the last turn of ata_wait_busy; its status is not stale, as the one     *)
(* read in WriteReturns may be                                             *)
ata_wait_busy ==
  /\ pc = "wait" /\ dev # "taken" /\ ~ BSY
  /\ Goto("select")
  /\ UNCHANGED <<call, i, reply, regs, drive_vars, disk>>

(* Mutant: the middle byte of the address taken for the high one too.      *)
SelectMid ==
  /\ pc = "select"
  /\ regs' = [regs EXCEPT
                !.drive = (call.lba \div (Byte * Byte * Byte)) % Nibble,
                !.count = 1,
                !.low   = call.lba % Byte,
                !.mid   = (call.lba \div Byte) % Byte,
                !.high  = (call.lba \div Byte) % Byte]
  /\ Goto("command")
  /\ UNCHANGED <<call, i, reply, drive_vars, disk>>

(* the drive, the count and the address                                    *)
Select ==
  /\ pc = "select"
  /\ regs' = [regs EXCEPT
                !.drive = (call.lba \div (Byte * Byte * Byte)) % Nibble,
                !.count = 1,
                !.low   = call.lba % Byte,
                !.mid   = (call.lba \div Byte) % Byte,
                !.high  = (call.lba \div (Byte * Byte)) % Byte]
  /\ Goto("command")
  /\ UNCHANGED <<call, i, reply, drive_vars, disk>>

Command ==
  /\ pc = "command"
  /\ regs' = [regs EXCEPT !.command = call.op]
  /\ dev' = "addressed"
  /\ Goto("delay")
  /\ UNCHANGED <<call, i, reply, error, sector, at, left, disk>>

(* Mutant: the status is looked at before the drive can have raised BSY.   *)
ata_delayNone ==
  /\ pc = "delay"
  /\ Goto("poll")
  /\ UNCHANGED <<call, i, reply, regs, drive_vars, disk>>

(* one of four reads of the status; the last comes after BSY was raised    *)
ata_delay ==
  /\ pc = "delay"
  /\ i = 3 => dev # "addressed"
  /\ IF i < 3 THEN i' = i + 1 /\ UNCHANGED pc
              ELSE i' = 0 /\ Goto("poll")
  /\ UNCHANGED <<call, reply, regs, drive_vars, disk>>

(* Mutant: only ERR ends the wait.                                         *)
WaitFailsOnErr ==
  /\ pc = "poll" /\ error = "ERR"
  /\ Return(FALSE)

(* the last turn of ata_wait_drq                                           *)
WaitFails ==
  /\ pc = "poll" /\ error # "none"
  /\ Return(FALSE)

WaitEnds ==
  /\ pc = "poll" /\ error = "none"
  /\ ~ BSY /\ DRQ
  /\ Goto("words")
  /\ UNCHANGED <<call, i, reply, regs, drive_vars, disk>>

(* the data port has been read or written: the drive goes on               *)
NextWord(last) ==
  IF at + 1 < Words
  THEN at' = at + 1 /\ UNCHANGED dev
  ELSE at' = 0 /\ dev' = last

inw ==
  /\ pc = "words" /\ call.op = "read" /\ i < Words
  /\ call' = [call EXCEPT !.buf[i] = sector[at]]
  /\ i' = i + 1
  /\ NextWord(IF left = 1 THEN "idle" ELSE "busy")
  /\ left' = IF at + 1 = Words THEN left - 1 ELSE left
  /\ UNCHANGED <<pc, reply, regs, error, sector, disk>>

outw ==
  /\ pc = "words" /\ call.op = "write" /\ i < Words
  /\ sector' = [sector EXCEPT ![at] = call.buf[i]]
  /\ i' = i + 1
  /\ \/ NextWord("taken")
     \/ NextWord("storing")
  /\ UNCHANGED <<pc, call, reply, regs, error, left, disk>>

ReadReturns ==
  /\ pc = "words" /\ call.op = "read" /\ i = Words
  /\ Return(TRUE)

(* the last turn of ata_wait_busy behind the loop; BSY may not show yet    *)
WriteReturns ==
  /\ pc = "words" /\ call.op = "write" /\ i = Words
  /\ ~ BSY
  /\ Return(TRUE)

Driver ==
  \/ ata_wait_busy \/ Select \/ Command \/ ata_delay
  \/ WaitFails \/ WaitEnds \/ inw \/ outw \/ ReadReturns \/ WriteReturns

-----------------------------------------------------------------------------
(* The drive.                                                              *)

Addressed ==
  regs.low + Byte * regs.mid + Byte * Byte * regs.high
    + Byte * Byte * Byte * regs.drive + regs.count - left

DriveDoes(d) == dev' = d /\ UNCHANGED <<driver_vars, regs, at>>

Accept ==
  /\ dev = "addressed"
  /\ DriveDoes("busy")
  /\ error' = "none"
  /\ left' = regs.count
  /\ UNCHANGED <<sector, disk>>

SendSector ==
  /\ dev = "busy" /\ regs.command = "read"
  /\ DriveDoes("sending")
  /\ sector' = disk[Addressed]
  /\ UNCHANGED <<error, left, disk>>

ReceiveSector ==
  /\ dev = "busy" /\ regs.command = "write"
  /\ DriveDoes("receiving")
  /\ UNCHANGED <<error, sector, left, disk>>

Refuse ==
  /\ dev = "busy" /\ regs.command \in Faults
  /\ DriveDoes("idle")
  /\ error' \in {"ERR", "DF"}
  /\ UNCHANGED <<sector, left, disk>>

RaiseBusy ==
  /\ dev = "taken"
  /\ DriveDoes("storing")
  /\ UNCHANGED <<error, sector, left, disk>>

Store ==
  /\ dev = "storing"
  /\ DriveDoes(IF left = 1 THEN "idle" ELSE "busy")
  /\ left' = left - 1
  /\ disk' = [disk EXCEPT ![Addressed] = sector]
  /\ UNCHANGED <<error, sector>>

Lose ==
  /\ dev = "storing" /\ "lost" \in Faults
  /\ DriveDoes("idle")
  /\ error' \in {"ERR", "DF"}
  /\ UNCHANGED <<sector, left, disk>>

Drive ==
  \/ Accept \/ SendSector \/ ReceiveSector \/ Refuse
  \/ RaiseBusy \/ Store \/ Lose

-----------------------------------------------------------------------------
(* Driver and drive start anew; a sector is stored wholly or not at all.   *)
PowerLoss ==
  /\ pc' = "idle" /\ call' = NoCall /\ i' = 0 /\ reply' = NoReply
  /\ regs' = NoRegs
  /\ dev' = "idle" /\ error' = "none" /\ sector' = Zeroes /\ at' = 0 /\ left' = 0
  /\ UNCHANGED disk

Next ==
  \/ \E a \in Asked : Call("read", a, Zeroes)
  \/ \E a \in Asked, d \in Sector : Call("write", a, d)
  \/ Driver
  \/ Drive
  \/ PowerLoss

Spec == Init /\ [][Next]_vars

(* The driver goes on as long as the machine runs; and a drive that was    *)
(* given something to do does it: ata.c has no limit for its patience.     *)
FairSpec == Spec /\ WF_vars(Driver) /\ WF_vars(Drive)

-----------------------------------------------------------------------------
(* Properties.                                                             *)

(* Driver and drive agree on what comes next: the data port is only used   *)
(* while the drive offers or wants a word, the same one the driver means,  *)
(* and a command is only written to a drive that has nothing left to do,   *)
(* whatever became of the call before.                                     *)
InPhase ==
  /\ pc = "words" /\ i < Words =>
       /\ dev = IF call.op = "read" THEN "sending" ELSE "receiving"
       /\ at = i
  /\ pc = "command" => dev = "idle"

(* Every call returns, ERR and DF and lost sectors included.               *)
CallsReturn == pc # "idle" ~> pc = "idle"

-----------------------------------------------------------------------------
(* Refinement: a call is the drive's from the last word on.                *)

Given == pc = "words" /\ call.op = "write" /\ i = Words

CallOf == [op |-> call.op, lba |-> call.lba, given |-> Given,
           data |-> IF call.op = "write" THEN call.buf ELSE Zeroes]

Taken == IF dev \in {"taken", "storing"}
         THEN {[lba |-> Addressed, data |-> sector]} ELSE {}

IO == INSTANCE SectorIO WITH call <- CallOf, drive <- Taken

(* Seen from the file system the driver transfers whole sectors to the     *)
(* addresses it was given, and reports every failure up to the transfer.   *)
ImplementsIO == IO!Spec

=============================================================================
