------------------------------ MODULE SectorIO ------------------------------
(***************************************************************************)
(* What the disk driver promises to the file system: calls that read or    *)
(* write one whole sector, one after the other.  A sector never holds a    *)
(* mixture.  A write that is reported done has been given to the drive,    *)
(* which puts it on the disk before any later call reads or writes,        *)
(* unless it fails or loses power first; nobody is told of that.           *)
(***************************************************************************)
EXTENDS FiniteSets

CONSTANTS
  Lba,        (* sector addresses                                          *)
  Sector,     (* what a sector may hold                                    *)
  Zeroes,     (* one of them                                               *)
  Faults      (* what the drive may do wrong: "read", "write", "lost"      *)

VARIABLES
  disk,       (* what every sector holds                                   *)
  call,       (* the call in progress                                      *)
  drive,      (* the write the drive has taken and not stored yet, if any  *)
  reply       (* what the last call returned                               *)

vars == <<disk, call, drive, reply>>

NoCall  == [op |-> "none", lba |-> 0, data |-> Zeroes, given |-> FALSE]
NoReply == [op |-> "none", ok |-> FALSE, data |-> Zeroes]

Init ==
  /\ disk = [a \in Lba |-> Zeroes]
  /\ call = NoCall
  /\ drive = {}
  /\ reply = NoReply

Ask(op, a, d) ==
  /\ call = NoCall
  /\ call' = [op |-> op, lba |-> a, data |-> d, given |-> FALSE]
  /\ reply' = NoReply
  /\ UNCHANGED <<disk, drive>>

Answer(ok, d) ==
  /\ call' = NoCall
  /\ reply' = [op |-> call.op, ok |-> ok, data |-> d]
  /\ UNCHANGED <<disk, drive>>

ReadDone ==
  /\ call.op = "read"
  /\ drive = {}
  /\ Answer(TRUE, disk[call.lba])

(* the drive has the whole sector                                          *)
Give ==
  /\ call.op = "write" /\ ~ call.given
  /\ drive = {}
  /\ drive' = {[lba |-> call.lba, data |-> call.data]}
  /\ call' = [call EXCEPT !.given = TRUE]
  /\ UNCHANGED <<disk, reply>>

WriteDone ==
  /\ call.op = "write" /\ call.given
  /\ Answer(TRUE, Zeroes)

(* a failure is reported only if nothing was transferred                   *)
Fail ==
  /\ call.op \in Faults /\ ~ call.given
  /\ Answer(FALSE, Zeroes)

Store ==
  /\ \E w \in drive : disk' = [disk EXCEPT ![w.lba] = w.data]
  /\ drive' = {}
  /\ UNCHANGED <<call, reply>>

Lose ==
  /\ "lost" \in Faults /\ drive # {}
  /\ drive' = {}
  /\ UNCHANGED <<disk, call, reply>>

PowerLoss ==
  /\ call' = NoCall
  /\ drive' = {}
  /\ reply' = NoReply
  /\ UNCHANGED disk

Next ==
  \/ \E a \in Lba, d \in Sector : Ask("read", a, Zeroes) \/ Ask("write", a, d)
  \/ ReadDone \/ Give \/ WriteDone \/ Fail
  \/ Store \/ Lose
  \/ PowerLoss

Spec == Init /\ [][Next]_vars

=============================================================================
