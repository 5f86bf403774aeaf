----------------------------- MODULE AtaProofs -----------------------------
(***************************************************************************)
(* Proofs about Ata, for registers, sectors and addresses of any size and  *)
(* any faults of the drive.                                                *)
(*                                                                         *)
(* The argument: at each point of the driver the drive can only be in the  *)
(* few states that the command and the words so far have brought it to.    *)
(* An error is only shown by a drive that has given up, so a driver that   *)
(* sees one leaves nothing behind; and a sector that is on its way is the  *)
(* one the registers name, since nobody writes to them while the drive is  *)
(* busy with it.                                                           *)
(***************************************************************************)
EXTENDS Ata, TLAPS

(***************************************************************************)
(* Quotients                                                               *)
(***************************************************************************)
LEMMA Division ==
  ASSUME NEW a \in Nat, NEW b \in Nat \ {0}
  PROVE  /\ a \div b \in Nat /\ a % b \in Nat /\ a % b < b
         /\ a = b * (a \div b) + (a % b)
OBVIOUS

LEMMA ProductGrows ==
  ASSUME NEW m \in Nat \ {0}, NEW q \in Nat, NEW p \in Nat, q < p
  PROVE  m * q + m <= m * p
<1>1. p - q - 1 \in Nat
  OBVIOUS
<1>2. m * (p - q - 1) \in Nat
  BY <1>1
<1>3. m * p = m * (p - q - 1) + m * q + m
  BY <1>1
<1> QED
  BY <1>2, <1>3

(* Quotient and rest are unique.                                           *)
LEMMA QuotientIs ==
  ASSUME NEW a \in Nat, NEW m \in Nat \ {0}, NEW q \in Nat, NEW r \in Nat, r < m,
         a = m * q + r
  PROVE  a \div m = q /\ a % m = r
<1> DEFINE p == a \div m
<1>1. p \in Nat /\ a % m \in Nat /\ a % m < m /\ a = m * p + (a % m)
  BY Division
<1> HIDE DEF p
<1>2. m * p \in Nat /\ m * q \in Nat
  BY <1>1
<1>3. ~ (p < q)
  BY <1>1, <1>2, ProductGrows
<1>4. ~ (q < p)
  BY <1>1, <1>2, ProductGrows
<1>5. p = q
  BY <1>1, <1>3, <1>4
<1> QED
  BY <1>1, <1>2, <1>5 DEF p

LEMMA QuotientOfQuotient ==
  \A a \in Nat : \A b, c \in Nat \ {0} : a \div (b * c) = (a \div b) \div c
<1> SUFFICES ASSUME NEW a \in Nat, NEW b \in Nat \ {0}, NEW c \in Nat \ {0}
             PROVE  a \div (b * c) = (a \div b) \div c
  OBVIOUS
<1> DEFINE q == a \div b
           p == q \div c
           s == q % c
           t == a % b
<1>1. q \in Nat /\ t \in Nat /\ t < b /\ a = b * q + t
  BY Division
<1> HIDE DEF q, t
<1>2. p \in Nat /\ s \in Nat /\ s < c /\ q = c * p + s
  BY <1>1, Division
<1> HIDE DEF p, s
<1>3. b * s \in Nat /\ b * s + b <= b * c
  BY <1>1, <1>2, ProductGrows
<1>4. b * s + t \in Nat /\ b * s + t < b * c /\ b * c \in Nat \ {0}
  BY <1>1, <1>3
<1>5. b * q = b * (c * p) + b * s /\ b * (c * p) = (b * c) * p
  BY <1>1, <1>2
<1>6. a = (b * c) * p + (b * s + t)
  BY <1>1, <1>2, <1>3, <1>5
<1>7. a \div (b * c) = p
  BY <1>2, <1>4, <1>6, QuotientIs
<1> QED
  BY <1>7 DEF p, q

(***************************************************************************)
(* The address in the registers                                            *)
(***************************************************************************)
Named(r) ==
  r.low + Byte * r.mid + Byte * Byte * r.high + Byte * Byte * Byte * r.drive

Registers(a) ==
  [drive |-> (a \div (Byte * Byte * Byte)) % Nibble,
   low   |-> a % Byte,
   mid   |-> (a \div Byte) % Byte,
   high  |-> (a \div (Byte * Byte)) % Byte]

(* The four registers that Select writes name the sector asked for.        *)
LEMMA RegistersNameAddress ==
  ASSUME NEW a \in Lba
  PROVE  /\ Named(Registers(a)) = a
         /\ Registers(a) \in [drive : Nat, low : Nat, mid : Nat, high : Nat]
<1> DEFINE B2 == Byte * Byte
           B3 == B2 * Byte
           q1 == a \div Byte
           q2 == q1 \div Byte
           q3 == q2 \div Byte
<1>1. Byte \in Nat \ {0} /\ Nibble \in Nat \ {0}
  BY AtaAssumption
<1>2. B2 \in Nat \ {0} /\ B3 \in Nat \ {0}
  BY <1>1
<1>3. a \in Nat /\ a < B3 * Nibble
  BY <1>1, <1>2 DEF Lba
<1>4. q1 \in Nat /\ a % Byte \in Nat /\ a = Byte * q1 + (a % Byte)
  BY <1>1, <1>3, Division
<1>5. q2 \in Nat /\ q1 % Byte \in Nat /\ q1 = Byte * q2 + (q1 % Byte)
  BY <1>1, <1>4, Division
<1>6. q3 \in Nat /\ q2 % Byte \in Nat /\ q2 = Byte * q3 + (q2 % Byte)
  BY <1>1, <1>5, Division
<1>7. \A b, c \in Nat \ {0} : a \div (b * c) = (a \div b) \div c
  <2>1. a \in Nat
    BY <1>3
  <2> QED
    BY <2>1, QuotientOfQuotient, Zenon
<1>8. a \div B2 = q2 /\ a \div B3 = q3
  BY <1>1, <1>2, <1>7
<1> DEFINE low == a % Byte
           mid == q1 % Byte
           high == q2 % Byte
<1>9. Registers(a) = [drive |-> q3 % Nibble, low |-> low, mid |-> mid, high |-> high]
  BY <1>7, <1>8 DEF Registers
<1> HIDE DEF q1, q2, q3, low, mid, high
<1>10. low \in Nat /\ mid \in Nat /\ high \in Nat
  BY <1>4, <1>5, <1>6 DEF low, mid, high
<1>11. a = low + Byte * mid + B2 * high + B3 * q3
  <2>1. q1 = Byte * q2 + mid /\ q2 = Byte * q3 + high /\ a = Byte * q1 + low
    BY <1>4, <1>5, <1>6 DEF low, mid, high
  <2>2. Byte * q2 = Byte * (Byte * q3) + Byte * high
    BY <1>1, <1>6, <1>10, <2>1
  <2>3. Byte * q1 = Byte * (Byte * (Byte * q3)) + Byte * (Byte * high) + Byte * mid
    BY <1>1, <1>5, <1>6, <1>10, <2>1, <2>2
  <2>4. Byte * (Byte * (Byte * q3)) = B3 * q3 /\ Byte * (Byte * high) = B2 * high
    BY <1>1, <1>6, <1>10
  <2>5. Byte * mid \in Nat /\ B2 * high \in Nat /\ B3 * q3 \in Nat
    BY <1>1, <1>2, <1>6, <1>10
  <2> QED
    BY <1>10, <2>1, <2>3, <2>4, <2>5
<1>12. q3 < Nibble
  <2>1. SUFFICES ASSUME Nibble <= q3 PROVE FALSE
    BY <1>1, <1>6
  <2>2. B3 * Nibble <= B3 * q3
    <3>1. CASE Nibble = q3
      BY <1>2, <1>6, <3>1
    <3>2. CASE Nibble < q3
      BY <1>1, <1>2, <1>6, <3>2, ProductGrows
    <3> QED
      BY <1>1, <1>6, <2>1, <3>1, <3>2
  <2>3. Byte * mid \in Nat /\ B2 * high \in Nat /\ B3 * q3 \in Nat /\ B3 * Nibble \in Nat
    BY <1>1, <1>2, <1>6, <1>10
  <2> QED
    BY <1>3, <1>10, <1>11, <2>2, <2>3
<1>13. q3 % Nibble = q3
  <2>1. q3 = Nibble * 0 + q3
    BY <1>1, <1>6
  <2> QED
    BY <1>1, <1>6, <1>12, <2>1, QuotientIs
<1>14. Registers(a) = [drive |-> q3, low |-> low, mid |-> mid, high |-> high]
  BY <1>9, <1>13
<1> QED
  BY <1>6, <1>10, <1>11, <1>14 DEF Named

(***************************************************************************)
(* The inductive invariant                                                 *)
(***************************************************************************)
Types ==
  /\ pc \in {"idle", "wait", "select", "command", "delay", "poll", "words"}
  /\ call \in [op : {"none", "read", "write"}, lba : Lba, buf : Sector]
  /\ i \in Nat
  /\ regs \in [drive : Nat, count : Nat, low : Nat, mid : Nat, high : Nat,
               command : {"none", "read", "write"}]
  /\ dev \in {"idle", "addressed", "busy", "sending", "receiving",
              "taken", "storing"}
  /\ sector \in Sector
  /\ at \in 0 .. Words - 1
  /\ left \in {0, 1}
  /\ disk \in [Lba -> Sector]

(* what the drive offers when it has accepted the command of the call      *)
Ready == IF call.op = "read" THEN "sending" ELSE "receiving"

(* what the drive may be doing at each point of the driver                 *)
DevPart ==
  /\ pc \in {"idle", "wait"} => dev \in {"idle", "taken", "storing"}
  /\ pc \in {"select", "command"} => dev = "idle"
  /\ pc = "delay" => dev \in {"addressed", "busy", "idle", Ready}
  /\ pc = "poll" => dev \in {"busy", "idle", Ready}
  /\ pc = "words" /\ i < Words => dev = Ready /\ at = i
  /\ pc = "words" /\ i = Words =>
       dev \in IF call.op = "read" THEN {"idle"} ELSE {"idle", "taken", "storing"}
  /\ pc # "words" \/ i = Words => at = 0

(* the loop variables, and the call while there is one                     *)
CallPart ==
  /\ pc = "idle" <=> call.op = "none"
  /\ pc = "idle" => call = NoCall
  /\ pc \notin {"delay", "words"} => i = 0
  /\ pc = "delay" => i \in 0 .. 3
  /\ pc = "words" => i \in 0 .. Words

(* the drive is busy with one sector and shows no error                    *)
BusyPart ==
  dev \in {"busy", "sending", "receiving", "taken", "storing"} =>
    error = "none" /\ left = 1 /\ regs.count = 1

(* the registers belong to the call, and an error does too                 *)
CommandPart ==
  /\ pc \in {"command", "delay", "poll", "words"} =>
       regs.count = 1 /\ Named(regs) = call.lba
  /\ pc \in {"delay", "poll", "words"} => regs.command = call.op
  /\ pc \in {"delay", "poll"} /\ dev = "idle" =>
       error # "none" /\ call.op \in Faults

(* the words that have gone from one side to the other                     *)
DataPart ==
  /\ dev = "sending" => sector = disk[call.lba]
  /\ pc = "words" /\ call.op = "read" =>
       \A w \in 0 .. i - 1 : call.buf[w] = disk[call.lba][w]
  /\ pc = "words" /\ call.op = "write" =>
       \A w \in 0 .. i - 1 : sector[w] = call.buf[w]

IInv ==
  Types /\ DevPart /\ CallPart /\ BusyPart /\ CommandPart /\ DataPart


(***************************************************************************)
(* Every step keeps the invariant                                          *)
(***************************************************************************)
LEMMA Constants ==
  /\ 0 \in Lba /\ Asked \subseteq Lba
  /\ Zeroes \in Sector
  /\ Words \in Nat \ {0} /\ 0 \in 0 .. Words - 1
<1>1. Byte \in Nat \ {0} /\ Nibble \in Nat \ {0}
  BY AtaAssumption
<1>2. Byte * Byte * Byte * Nibble \in Nat \ {0}
  BY <1>1
<1> QED
  BY <1>2, AtaAssumption DEF Lba, Zeroes, Sector

LEMMA InitIInv == Init => IInv
BY Constants
   DEF Init, IInv, Types, DevPart, CallPart, BusyPart, CommandPart, DataPart,
       NoCall, NoRegs, Lba

LEMMA CallStep ==
  ASSUME IInv, NEW op \in {"read", "write"}, NEW a \in Lba, NEW d \in Sector,
         Call(op, a, d)
  PROVE  IInv'
BY Constants
   DEF IInv, Types, DevPart, CallPart, BusyPart, CommandPart, DataPart, Ready,
       Named, Call, Goto,
       driver_vars, drive_vars

LEMMA ata_wait_busyStep == IInv /\ ata_wait_busy => IInv'
BY Constants
   DEF IInv, Types, DevPart, CallPart, BusyPart, CommandPart, DataPart, Ready,
       Named, ata_wait_busy, BSY, Goto,
       driver_vars, drive_vars

LEMMA SelectStep == IInv /\ Select => IInv'
<1> SUFFICES ASSUME IInv, Select PROVE IInv'
  OBVIOUS
<1> DEFINE r == Registers(call.lba)
<1>1. /\ pc = "select" /\ pc' = "command"
      /\ UNCHANGED <<call, i, reply, dev, error, sector, at, left, disk>>
  BY DEF Select, Goto, drive_vars
<1>2. Named(r) = call.lba /\ r \in [drive : Nat, low : Nat, mid : Nat, high : Nat]
  BY RegistersNameAddress DEF IInv, Types
<1>3. /\ regs' \in [drive : Nat, count : Nat, low : Nat, mid : Nat, high : Nat,
                    command : {"none", "read", "write"}]
      /\ regs'.count = 1
      /\ regs'.drive = r.drive /\ regs'.low = r.low
      /\ regs'.mid = r.mid /\ regs'.high = r.high
  BY <1>2 DEF Select, Registers, IInv, Types
<1>4. Named(regs)' = call.lba
  BY <1>2, <1>3 DEF Named
<1>5. dev = "idle"
  BY <1>1 DEF IInv, DevPart
<1> QED
  BY <1>1, <1>3, <1>4, <1>5
     DEF IInv, Types, DevPart, CallPart, BusyPart, CommandPart, DataPart, Ready

LEMMA CommandStep == IInv /\ Command => IInv'
BY Constants
   DEF IInv, Types, DevPart, CallPart, BusyPart, CommandPart, DataPart, Ready,
       Named, Command, Goto,
       driver_vars, drive_vars

LEMMA ata_delayStep == IInv /\ ata_delay => IInv'
BY Constants
   DEF IInv, Types, DevPart, CallPart, BusyPart, CommandPart, DataPart, Ready,
       Named, ata_delay, Goto,
       driver_vars, drive_vars

LEMMA WaitFailsStep == IInv /\ WaitFails => IInv'
BY Constants
   DEF IInv, Types, DevPart, CallPart, BusyPart, CommandPart, DataPart, Ready,
       Named, WaitFails, Return, NoCall,
       driver_vars, drive_vars

LEMMA WaitEndsStep == IInv /\ WaitEnds => IInv'
BY Constants
   DEF IInv, Types, DevPart, CallPart, BusyPart, CommandPart, DataPart, Ready,
       Named, WaitEnds, BSY, DRQ, Goto,
       driver_vars, drive_vars

LEMMA inwStep == IInv /\ inw => IInv'
<1> SUFFICES ASSUME IInv, inw PROVE IInv'
  OBVIOUS
<1> USE Constants
<1>1. /\ pc = "words" /\ call.op = "read" /\ i < Words /\ at = i
      /\ dev = "sending" /\ error = "none" /\ left = 1
      /\ sector = disk[call.lba]
      /\ i \in 0 .. Words - 1 /\ i' = i + 1
      /\ call \in [op : {"none", "read", "write"}, lba : Lba, buf : Sector]
      /\ call' = [call EXCEPT !.buf[i] = sector[i]]
      /\ UNCHANGED <<pc, regs, error, sector, disk>>
  BY DEF inw, IInv, Types, DevPart, CallPart, BusyPart, DataPart, Ready
<1>2. /\ call' \in [op : {"none", "read", "write"}, lba : Lba, buf : Sector]
      /\ call'.op = "read" /\ call'.lba = call.lba
      /\ \A w \in 0 .. Words - 1 :
           call'.buf[w] = IF w = i THEN sector[i] ELSE call.buf[w]
  <2>1. sector \in Sector /\ sector[i] \in Word
    BY <1>1 DEF IInv, Types, Sector
  <2> QED
    BY <1>1, <2>1 DEF Sector
<1>3. \/ i + 1 < Words /\ at' = i + 1 /\ dev' = "sending" /\ left' = 1
      \/ i + 1 = Words /\ at' = 0 /\ dev' = "idle" /\ left' = 0
  BY <1>1 DEF inw, NextWord
<1>4. Types'
  BY <1>1, <1>2, <1>3 DEF IInv, Types
<1>5. DevPart' /\ CallPart' /\ BusyPart' /\ CommandPart'
  BY <1>1, <1>2, <1>3
     DEF IInv, DevPart, CallPart, BusyPart, CommandPart, Ready, Named
<1>6. DataPart'
  <2>1. \A w \in 0 .. i - 1 : call.buf[w] = disk[call.lba][w]
    BY <1>1 DEF IInv, DataPart
  <2>2. \A w \in 0 .. i : call'.buf[w] = disk[call.lba][w]
    BY <1>1, <1>2, <2>1
  <2> QED
    BY <1>1, <1>2, <2>2 DEF DataPart
<1> QED
  BY <1>4, <1>5, <1>6 DEF IInv

LEMMA outwStep == IInv /\ outw => IInv'
<1> SUFFICES ASSUME IInv, outw PROVE IInv'
  OBVIOUS
<1> USE Constants
<1>1. /\ pc = "words" /\ call.op = "write" /\ i < Words /\ at = i
      /\ dev = "receiving" /\ error = "none" /\ left = 1 /\ regs.count = 1
      /\ i \in 0 .. Words - 1 /\ i' = i + 1
      /\ call.buf \in Sector /\ sector \in Sector
      /\ sector' = [sector EXCEPT ![i] = call.buf[i]]
      /\ UNCHANGED <<pc, call, regs, error, left, disk>>
  BY DEF outw, IInv, Types, DevPart, CallPart, BusyPart, Ready
<1>2. /\ sector' \in Sector
      /\ \A w \in 0 .. Words - 1 :
           sector'[w] = IF w = i THEN call.buf[i] ELSE sector[w]
  BY <1>1 DEF Sector
<1>3. \/ i + 1 < Words /\ at' = i + 1 /\ dev' = "receiving"
      \/ i + 1 = Words /\ at' = 0 /\ dev' \in {"taken", "storing"}
  BY <1>1 DEF outw, NextWord
<1>4. Types'
  BY <1>1, <1>2, <1>3 DEF IInv, Types
<1>5. DevPart' /\ CallPart' /\ BusyPart' /\ CommandPart'
  BY <1>1, <1>3
     DEF IInv, DevPart, CallPart, BusyPart, CommandPart, Ready, Named
<1>6. DataPart'
  <2>1. \A w \in 0 .. i - 1 : sector[w] = call.buf[w]
    BY <1>1 DEF IInv, DataPart
  <2>2. \A w \in 0 .. i : sector'[w] = call.buf[w]
    BY <1>1, <1>2, <2>1
  <2> QED
    BY <1>1, <1>3, <2>2 DEF DataPart
<1> QED
  BY <1>4, <1>5, <1>6 DEF IInv

LEMMA ReadReturnsStep == IInv /\ ReadReturns => IInv'
<1> SUFFICES ASSUME IInv, ReadReturns PROVE IInv'
  OBVIOUS
<1> USE Constants
<1>1. /\ pc = "words" /\ call.op = "read" /\ i = Words /\ at \in 0 .. Words - 1
      /\ dev \in {"idle", "taken", "storing"}
      /\ pc' = "idle" /\ call' = NoCall /\ i' = 0
      /\ UNCHANGED <<regs, dev, error, sector, at, left, disk>>
  BY DEF ReadReturns, Return, drive_vars, IInv, Types, DevPart
<1>2. at = 0
  BY <1>1 DEF IInv, DevPart
<1>3. NoCall \in [op : {"none", "read", "write"}, lba : Lba, buf : Sector]
      /\ NoCall.op = "none"
  BY DEF NoCall
<1>4. Types'
  BY <1>1, <1>3 DEF IInv, Types
<1>5. DevPart' /\ CallPart'
  BY <1>1, <1>2, <1>3 DEF DevPart, CallPart
<1>6. BusyPart' /\ CommandPart' /\ DataPart'
  BY <1>1 DEF IInv, BusyPart, CommandPart, DataPart
<1> QED
  BY <1>4, <1>5, <1>6 DEF IInv

LEMMA WriteReturnsStep == IInv /\ WriteReturns => IInv'
<1> SUFFICES ASSUME IInv, WriteReturns PROVE IInv'
  OBVIOUS
<1> USE Constants
<1>1. /\ pc = "words" /\ call.op = "write" /\ i = Words /\ at \in 0 .. Words - 1
      /\ dev \in {"idle", "taken", "storing"}
      /\ pc' = "idle" /\ call' = NoCall /\ i' = 0
      /\ UNCHANGED <<regs, dev, error, sector, at, left, disk>>
  BY DEF WriteReturns, Return, drive_vars, IInv, Types, DevPart
<1>2. at = 0
  BY <1>1 DEF IInv, DevPart
<1>3. NoCall \in [op : {"none", "read", "write"}, lba : Lba, buf : Sector]
      /\ NoCall.op = "none"
  BY DEF NoCall
<1>4. Types'
  BY <1>1, <1>3 DEF IInv, Types
<1>5. DevPart' /\ CallPart'
  BY <1>1, <1>2, <1>3 DEF DevPart, CallPart
<1>6. BusyPart' /\ CommandPart' /\ DataPart'
  BY <1>1 DEF IInv, BusyPart, CommandPart, DataPart
<1> QED
  BY <1>4, <1>5, <1>6 DEF IInv

LEMMA AcceptStep == IInv /\ Accept => IInv'
BY Constants
   DEF IInv, Types, DevPart, CallPart, BusyPart, CommandPart, DataPart, Ready,
       Named, Accept, DriveDoes,
       driver_vars, drive_vars

(* A drive that works on a sector works on the one that the registers name.*)
LEMMA AddressedIs ==
  ASSUME IInv, left = 1, regs.count = 1
  PROVE  Addressed = Named(regs)
<1>1. Byte \in Nat /\ regs \in [drive : Nat, count : Nat, low : Nat, mid : Nat,
                             high : Nat, command : {"none", "read", "write"}]
  BY AtaAssumption DEF IInv, Types
<1>2. Byte * regs.mid \in Nat /\ Byte * Byte * regs.high \in Nat
      /\ Byte * Byte * Byte * regs.drive \in Nat
  BY <1>1
<1> QED
  BY <1>1, <1>2 DEF Addressed, Named

(* Where the driver is while the drive is busy.                            *)
LEMMA WhereDriverIs ==
  ASSUME IInv
  PROVE  /\ dev = "busy" => pc \in {"delay", "poll"}
         /\ dev \in {"taken", "storing"} =>
              pc \in {"idle", "wait"} \/ (pc = "words" /\ i = Words /\ call.op # "read")
<1>1. Ready \in {"sending", "receiving"}
  BY DEF Ready
<1>2. /\ pc = "words" => i \in 0 .. Words
      /\ pc \in {"idle", "wait", "select", "command", "delay", "poll", "words"}
  BY DEF IInv, Types, CallPart
<1>3. pc = "words" /\ i # Words => dev = Ready
  BY <1>2, Constants DEF IInv, DevPart
<1>4. pc = "words" /\ i = Words =>
        dev \in {"idle", "taken", "storing"} /\ (call.op = "read" => dev = "idle")
  BY DEF IInv, DevPart
<1>5. /\ pc \in {"idle", "wait"} => dev \in {"idle", "taken", "storing"}
      /\ pc \in {"select", "command"} => dev = "idle"
      /\ pc = "delay" => dev \in {"addressed", "busy", "idle", Ready}
      /\ pc = "poll" => dev \in {"busy", "idle", Ready}
  BY DEF IInv, DevPart
<1> QED
  BY <1>1, <1>2, <1>3, <1>4, <1>5

LEMMA SendSectorStep == IInv /\ SendSector => IInv'
<1> SUFFICES ASSUME IInv, SendSector PROVE IInv'
  OBVIOUS
<1> USE Constants
<1>1. /\ dev = "busy" /\ dev' = "sending" /\ regs.command = "read"
      /\ sector' = disk[Addressed]
      /\ UNCHANGED <<pc, call, i, reply, regs, error, at, left, disk>>
  BY DEF SendSector, DriveDoes, driver_vars
<1>2. pc \in {"delay", "poll"} /\ call.op = "read" /\ Named(regs) = call.lba
      /\ left = 1 /\ regs.count = 1 /\ call.lba \in Lba /\ disk \in [Lba -> Sector]
  BY <1>1, WhereDriverIs DEF IInv, Types, BusyPart, CommandPart
<1>3. Addressed = call.lba
  BY <1>2, AddressedIs
<1>4. sector' = disk[call.lba] /\ sector' \in Sector
  BY <1>1, <1>2, <1>3
<1>5. Types'
  BY <1>1, <1>4 DEF IInv, Types
<1>6. DevPart' /\ CallPart' /\ BusyPart'
  BY <1>1, <1>2 DEF IInv, DevPart, CallPart, BusyPart, Ready
<1>7. CommandPart'
  BY <1>1, <1>2 DEF IInv, CommandPart, Named
<1>8. DataPart'
  BY <1>1, <1>2, <1>4 DEF DataPart
<1> QED
  BY <1>5, <1>6, <1>7, <1>8 DEF IInv

LEMMA ReceiveSectorStep == IInv /\ ReceiveSector => IInv'
BY Constants
   DEF IInv, Types, DevPart, CallPart, BusyPart, CommandPart, DataPart, Ready,
       Named, ReceiveSector, DriveDoes,
       driver_vars, drive_vars

LEMMA RefuseStep == IInv /\ Refuse => IInv'
BY Constants
   DEF IInv, Types, DevPart, CallPart, BusyPart, CommandPart, DataPart, Ready,
       Named, Refuse, DriveDoes,
       driver_vars, drive_vars

LEMMA RaiseBusyStep == IInv /\ RaiseBusy => IInv'
BY Constants
   DEF IInv, Types, DevPart, CallPart, BusyPart, CommandPart, DataPart, Ready,
       Named, RaiseBusy, DriveDoes,
       driver_vars, drive_vars

LEMMA StoreStep == IInv /\ Store => IInv'
<1> SUFFICES ASSUME IInv, Store PROVE IInv'
  OBVIOUS
<1> USE Constants
<1>1. /\ dev = "storing" /\ left = 1
      /\ dev' = "idle" /\ left' = 0
      /\ disk' = [disk EXCEPT ![Addressed] = sector]
      /\ UNCHANGED <<pc, call, i, reply, regs, error, sector, at>>
  BY DEF Store, DriveDoes, driver_vars, IInv, BusyPart
<1>2. pc \in {"idle", "wait"} \/ (pc = "words" /\ i = Words /\ call.op # "read")
  BY <1>1, WhereDriverIs
<1>3. Types'
  BY <1>1 DEF IInv, Types
<1>4. DevPart'
  BY <1>1, <1>2 DEF IInv, DevPart, Ready
<1>5. CallPart' /\ BusyPart'
  BY <1>1, <1>2 DEF IInv, CallPart, BusyPart
<1>6. CommandPart'
  BY <1>1, <1>2 DEF IInv, CommandPart, Named
<1>7. DataPart'
  BY <1>1, <1>2 DEF IInv, DataPart
<1> QED
  BY <1>3, <1>4, <1>5, <1>6, <1>7 DEF IInv

LEMMA LoseStep == IInv /\ Lose => IInv'
BY Constants
   DEF IInv, Types, DevPart, CallPart, BusyPart, CommandPart, DataPart, Ready,
       Named, Lose, DriveDoes,
       driver_vars, drive_vars

LEMMA PowerLossStep == IInv /\ PowerLoss => IInv'
BY Constants
   DEF IInv, Types, DevPart, CallPart, BusyPart, CommandPart, DataPart, Ready,
       Named, PowerLoss, NoCall, NoRegs,
       driver_vars, drive_vars


LEMMA StutterStep == IInv /\ UNCHANGED vars => IInv'
BY DEF vars, driver_vars, drive_vars, IInv, Types, DevPart, CallPart, BusyPart,
       CommandPart, DataPart, Ready, Named

LEMMA NextIInv == IInv /\ [Next]_vars => IInv'
<1> SUFFICES ASSUME IInv, [Next]_vars PROVE IInv'
  OBVIOUS
<1>1. CASE \E a \in Asked : Call("read", a, Zeroes)
  BY <1>1, CallStep, Constants
<1>2. CASE \E a \in Asked, d \in Sector : Call("write", a, d)
  BY <1>2, CallStep, Constants
<1>3. CASE Driver
  BY <1>3, ata_wait_busyStep, SelectStep, CommandStep, ata_delayStep,
     WaitFailsStep, WaitEndsStep, inwStep, outwStep, ReadReturnsStep,
     WriteReturnsStep DEF Driver
<1>4. CASE Drive
  BY <1>4, AcceptStep, SendSectorStep, ReceiveSectorStep, RefuseStep,
     RaiseBusyStep, StoreStep, LoseStep DEF Drive
<1>5. CASE PowerLoss
  BY <1>5, PowerLossStep
<1>6. CASE UNCHANGED vars
  BY <1>6, StutterStep
<1> QED
  BY <1>1, <1>2, <1>3, <1>4, <1>5, <1>6 DEF Next

(* Driver and drive never lose step: the data port is used only while the  *)
(* drive stands at the word that the driver means, and a command is only   *)
(* given to a drive that has nothing left to do (ata.c:66-86, 93-115).     *)
THEOREM StayInPhase == Spec => []InPhase
<1>1. IInv => InPhase
  BY DEF IInv, Types, DevPart, InPhase, Ready
<1> QED
  BY <1>1, InitIInv, NextIInv, PTL DEF Spec

(***************************************************************************)
(* Refinement                                                              *)
(***************************************************************************)
(* What the mapping says of a state, without its conditions.               *)
LEMMA MappingIs ==
  ASSUME IInv
  PROVE  /\ CallOf = [op |-> call.op, lba |-> call.lba, given |-> Given,
                     data |-> IF call.op = "write" THEN call.buf ELSE Zeroes]
         /\ dev \notin {"taken", "storing"} => Taken = {}
         /\ dev \in {"taken", "storing"} =>
              Taken = {[lba |-> Named(regs), data |-> sector]}
         /\ pc # "words" => ~ Given
         /\ call.op # "write" => ~ Given
<1>1. dev \in {"taken", "storing"} => Addressed = Named(regs)
  BY AddressedIs DEF IInv, BusyPart
<1> QED
  BY <1>1 DEF CallOf, Taken, Given

LEMMA InitImplements == Init => IO!Init
<1> SUFFICES ASSUME Init PROVE IO!Init
  OBVIOUS
<1>1. CallOf = IO!NoCall
  BY DEF Init, CallOf, Given, NoCall, IO!NoCall
<1>2. Taken = {}
  BY DEF Init, Taken
<1>3. disk = [a \in Lba |-> Zeroes] /\ reply = IO!NoReply
  BY DEF Init, NoReply, IO!NoReply
<1> QED
  BY <1>1, <1>2, <1>3 DEF IO!Init

LEMMA CallImplements ==
  ASSUME IInv, NEW op \in {"read", "write"}, NEW a \in Lba, NEW d \in Sector,
         op = "read" => d = Zeroes,
         Call(op, a, d)
  PROVE  IO!Ask(op, a, d)
<1>1. /\ pc = "idle" /\ call = NoCall
      /\ call' = [op |-> op, lba |-> a, buf |-> d] /\ pc' = "wait"
      /\ reply' = NoReply
      /\ UNCHANGED <<disk, regs, dev, sector, left>>
  BY DEF Call, Goto, drive_vars, IInv, CallPart
<1>2. Taken' = Taken
  BY <1>1 DEF Taken, Addressed
<1>3. CallOf = IO!NoCall
  BY <1>1 DEF CallOf, Given, NoCall, IO!NoCall
<1>4. CallOf' = [op |-> op, lba |-> a, data |-> d, given |-> FALSE]
  BY <1>1 DEF CallOf, Given
<1> QED
  BY <1>1, <1>2, <1>3, <1>4 DEF IO!Ask, NoReply, IO!NoReply


(* Steps that the file system does not see.                                *)
LEMMA QuietImplements ==
  ASSUME IInv,
         \/ ata_wait_busy \/ Select \/ Command \/ ata_delay \/ WaitEnds \/ inw
         \/ Accept \/ SendSector \/ ReceiveSector \/ Refuse \/ RaiseBusy
  PROVE  UNCHANGED <<disk, CallOf, Taken, reply>>
<1>1. CASE ata_wait_busy
  BY <1>1 DEF ata_wait_busy, Goto, drive_vars, CallOf, Given, Taken, Addressed
<1>2. CASE Select
  <2>1. dev = "idle" /\ dev' = "idle"
    BY <1>2 DEF Select, drive_vars, IInv, DevPart
  <2> QED
    BY <1>2, <2>1 DEF Select, Goto, CallOf, Given, Taken
<1>3. CASE Command
  <2>1. dev = "idle" /\ dev' = "addressed"
    BY <1>3 DEF Command, IInv, DevPart
  <2> QED
    BY <1>3, <2>1 DEF Command, Goto, CallOf, Given, Taken
<1>4. CASE ata_delay
  BY <1>4 DEF ata_delay, Goto, drive_vars, CallOf, Given, Taken, Addressed
<1>5. CASE WaitEnds
  <2>1. Given = FALSE /\ Given' = FALSE
    BY <1>5, Constants DEF WaitEnds, Goto, Given, IInv, CallPart
  <2> QED
    BY <1>5, <2>1 DEF WaitEnds, drive_vars, CallOf, Taken, Addressed
<1>6. CASE inw
  <2>1. /\ pc = "words" /\ call.op = "read" /\ dev = "sending"
        /\ call'.op = "read" /\ call'.lba = call.lba
        /\ dev' \in {"sending", "idle", "busy"}
        /\ UNCHANGED <<disk, reply>>
    BY <1>6, Constants DEF inw, NextWord, IInv, Types, DevPart, CallPart, Ready
  <2> QED
    BY <2>1 DEF CallOf, Given, Taken
<1>7. CASE Accept
  BY <1>7 DEF Accept, DriveDoes, driver_vars, CallOf, Given, Taken
<1>8. CASE SendSector
  BY <1>8 DEF SendSector, DriveDoes, driver_vars, CallOf, Given, Taken
<1>9. CASE ReceiveSector
  BY <1>9 DEF ReceiveSector, DriveDoes, driver_vars, CallOf, Given, Taken
<1>10. CASE Refuse
  BY <1>10 DEF Refuse, DriveDoes, driver_vars, CallOf, Given, Taken
<1>11. CASE RaiseBusy
  BY <1>11 DEF RaiseBusy, DriveDoes, driver_vars, CallOf, Given, Taken, Addressed
<1> QED
  BY <1>1, <1>2, <1>3, <1>4, <1>5, <1>6, <1>7, <1>8, <1>9, <1>10, <1>11

LEMMA SameSector ==
  ASSUME NEW f \in Sector, NEW g \in Sector, \A w \in 0 .. Words - 1 : f[w] = g[w]
  PROVE  f = g
<1>1. f = [w \in 0 .. Words - 1 |-> f[w]] /\ g = [w \in 0 .. Words - 1 |-> g[w]]
  BY DEF Sector
<1>2. [w \in 0 .. Words - 1 |-> f[w]] = [w \in 0 .. Words - 1 |-> g[w]]
  OBVIOUS
<1> QED
  BY <1>1, <1>2, Zenon

(* The last word of a write gives the sector to the drive.                 *)
LEMMA outwImplements ==
  ASSUME IInv, outw
  PROVE  IO!Give \/ UNCHANGED <<disk, CallOf, Taken, reply>>
<1> USE Constants
<1>1. /\ pc = "words" /\ call.op = "write" /\ i \in 0 .. Words - 1
      /\ dev = "receiving" /\ at = i /\ left = 1 /\ regs.count = 1
      /\ Named(regs) = call.lba /\ i' = i + 1
      /\ UNCHANGED <<pc, call, reply, regs, left, disk>>
  BY DEF outw, IInv, Types, DevPart, CallPart, BusyPart, CommandPart, Ready
<1>2. Given = FALSE /\ Taken = {}
  BY <1>1 DEF Given, Taken
<1>3. CASE i + 1 < Words
  <2>1. dev' = "receiving" /\ Given' = FALSE
    BY <1>1, <1>3 DEF outw, NextWord, Given
  <2> QED
    BY <1>1, <1>2, <2>1 DEF CallOf, Taken
<1>4. CASE i + 1 = Words
  <2>1. dev' \in {"taken", "storing"} /\ Given' = TRUE
    BY <1>1, <1>4 DEF outw, NextWord, Given
  <2>2. IInv'
    BY outwStep
  <2>3. sector' = call.buf
    <3>1. sector' \in Sector /\ call.buf \in Sector
      BY <1>1, <2>2 DEF IInv, Types
    <3>2. \A w \in 0 .. Words - 1 : sector'[w] = call.buf[w]
      BY <1>1, <1>4, <2>2 DEF IInv, DataPart
    <3> QED
      BY <3>1, <3>2, SameSector
  <2>4. Addressed' = call.lba
    BY <1>1, AddressedIs DEF Addressed
  <2>5. Taken' = {[lba |-> call.lba, data |-> call.buf]}
    BY <2>1, <2>3, <2>4 DEF Taken
  <2>6. CallOf = [op |-> "write", lba |-> call.lba, given |-> FALSE, data |-> call.buf]
    BY <1>1, <1>2 DEF CallOf
  <2>7. CallOf' = [op |-> "write", lba |-> call.lba, given |-> TRUE, data |-> call.buf]
    BY <1>1, <2>1 DEF CallOf
  <2>8. /\ CallOf.op = "write" /\ ~ CallOf.given
        /\ CallOf.lba = call.lba /\ CallOf.data = call.buf
    BY <2>6
  <2>9. CallOf' = [CallOf EXCEPT !.given = TRUE]
    <3> DEFINE old == FALSE
               new == TRUE
    <3>1. CallOf = [op |-> "write", lba |-> call.lba, given |-> old, data |-> call.buf]
      BY <2>6
    <3>2. CallOf' = [op |-> "write", lba |-> call.lba, given |-> new, data |-> call.buf]
      BY <2>7
    <3> HIDE DEF old, new
    <3>3. CallOf' = [CallOf EXCEPT !.given = new]
      BY <3>1, <3>2
    <3> QED
      BY <3>3, Zenon DEF new
  <2> QED
    BY <1>1, <1>2, <2>5, <2>8, <2>9 DEF IO!Give
<1> QED
  BY <1>1, <1>3, <1>4

(* Returning is answering.                                                 *)
LEMMA ReturnImplements ==
  ASSUME IInv, NEW ok \in BOOLEAN, NEW d, Return(ok),
         d = IF ok /\ call.op = "read" THEN call.buf ELSE Zeroes
  PROVE  IO!Answer(ok, d)
<1>1. CallOf' = IO!NoCall
  BY DEF Return, CallOf, Given, NoCall, IO!NoCall
<1>2. Taken' = Taken
  BY DEF Return, drive_vars, Taken, Addressed
<1>3. CallOf.op = call.op
  BY DEF CallOf
<1> QED
  BY <1>1, <1>2, <1>3 DEF Return, IO!Answer

LEMMA WaitFailsImplements == IInv /\ WaitFails => IO!Fail
<1> SUFFICES ASSUME IInv, WaitFails PROVE IO!Fail
  OBVIOUS
<1>1. pc = "poll" /\ error # "none" /\ Return(FALSE)
  BY DEF WaitFails
<1>2. dev = "idle"
  BY <1>1 DEF IInv, DevPart, BusyPart, Ready
<1>3. call.op \in Faults
  BY <1>1, <1>2 DEF IInv, CommandPart
<1>4. CallOf.op = call.op /\ ~ CallOf.given
  BY <1>1 DEF CallOf, Given
<1>5. IO!Answer(FALSE, Zeroes)
  BY <1>1, ReturnImplements
<1> QED
  BY <1>3, <1>4, <1>5 DEF IO!Fail

LEMMA ReadReturnsImplements == IInv /\ ReadReturns => IO!ReadDone
<1> SUFFICES ASSUME IInv, ReadReturns PROVE IO!ReadDone
  OBVIOUS
<1>1. pc = "words" /\ call.op = "read" /\ i = Words /\ Return(TRUE)
  BY DEF ReadReturns
<1>2. dev = "idle" /\ Taken = {}
  BY <1>1 DEF IInv, DevPart, Taken
<1>3. call.buf = disk[call.lba]
  <2>1. call.buf \in Sector /\ disk[call.lba] \in Sector
    BY DEF IInv, Types
  <2>2. \A w \in 0 .. Words - 1 : call.buf[w] = disk[call.lba][w]
    BY <1>1 DEF IInv, DataPart
  <2> QED
    BY <2>1, <2>2, SameSector
<1>4. CallOf.op = "read" /\ CallOf.lba = call.lba
  BY <1>1 DEF CallOf
<1>5. IO!Answer(TRUE, call.buf)
  BY <1>1, ReturnImplements
<1> QED
  BY <1>2, <1>3, <1>4, <1>5 DEF IO!ReadDone

LEMMA WriteReturnsImplements == IInv /\ WriteReturns => IO!WriteDone
<1> SUFFICES ASSUME IInv, WriteReturns PROVE IO!WriteDone
  OBVIOUS
<1>1. pc = "words" /\ call.op = "write" /\ i = Words /\ Return(TRUE)
  BY DEF WriteReturns
<1>2. CallOf.op = "write" /\ CallOf.given
  BY <1>1 DEF CallOf, Given
<1>3. IO!Answer(TRUE, Zeroes)
  BY <1>1, ReturnImplements
<1> QED
  BY <1>2, <1>3 DEF IO!WriteDone

LEMMA StoreImplements == IInv /\ Store => IO!Store
<1> SUFFICES ASSUME IInv, Store PROVE IO!Store
  OBVIOUS
<1>1. /\ dev = "storing" /\ left = 1 /\ regs.count = 1 /\ dev' = "idle"
      /\ disk' = [disk EXCEPT ![Addressed] = sector]
      /\ UNCHANGED <<pc, call, i, reply>>
  BY DEF Store, DriveDoes, driver_vars, IInv, BusyPart
<1>2. Taken = {[lba |-> Addressed, data |-> sector]} /\ Taken' = {}
  BY <1>1 DEF Taken
<1>3. CallOf' = CallOf
  BY <1>1 DEF CallOf, Given
<1> QED
  BY <1>1, <1>2, <1>3 DEF IO!Store

LEMMA LoseImplements == IInv /\ Lose => IO!Lose
<1> SUFFICES ASSUME IInv, Lose PROVE IO!Lose
  OBVIOUS
<1>1. /\ dev = "storing" /\ dev' = "idle" /\ "lost" \in Faults
      /\ UNCHANGED <<pc, call, i, reply, disk>>
  BY DEF Lose, DriveDoes, driver_vars
<1>2. Taken # {} /\ Taken' = {}
  BY <1>1 DEF Taken
<1>3. CallOf' = CallOf
  BY <1>1 DEF CallOf, Given
<1> QED
  BY <1>1, <1>2, <1>3 DEF IO!Lose

LEMMA PowerLossImplements == PowerLoss => IO!PowerLoss
<1> SUFFICES ASSUME PowerLoss PROVE IO!PowerLoss
  OBVIOUS
<1>1. CallOf' = IO!NoCall
  BY DEF PowerLoss, CallOf, Given, NoCall, IO!NoCall
<1>2. Taken' = {} /\ reply' = IO!NoReply /\ disk' = disk
  BY DEF PowerLoss, Taken, NoReply, IO!NoReply
<1> QED
  BY <1>1, <1>2 DEF IO!PowerLoss

LEMMA StepImplements == IInv /\ [Next]_vars => [IO!Next]_(IO!vars)
<1> SUFFICES ASSUME IInv, [Next]_vars PROVE IO!Next \/ UNCHANGED IO!vars
  OBVIOUS
<1> USE DEF IO!vars
<1>1. CASE \E a \in Asked : Call("read", a, Zeroes)
  BY <1>1, CallImplements, Constants DEF IO!Next
<1>2. CASE \E a \in Asked, d \in Sector : Call("write", a, d)
  BY <1>2, CallImplements, Constants DEF IO!Next
<1>3. CASE Driver
  BY <1>3, QuietImplements, outwImplements, WaitFailsImplements,
     ReadReturnsImplements, WriteReturnsImplements DEF Driver, IO!Next
<1>4. CASE Drive
  BY <1>4, QuietImplements, StoreImplements, LoseImplements DEF Drive, IO!Next
<1>5. CASE PowerLoss
  BY <1>5, PowerLossImplements DEF IO!Next
<1>6. CASE UNCHANGED vars
  BY <1>6 DEF vars, driver_vars, drive_vars, CallOf, Given, Taken, Addressed
<1> QED
  BY <1>1, <1>2, <1>3, <1>4, <1>5, <1>6 DEF Next

(* Seen from the file system, ata.c transfers whole sectors to and from    *)
(* the addresses it is given, whatever the drive does meanwhile.           *)
THEOREM Refinement == Spec => ImplementsIO
BY InitImplements, InitIInv, NextIInv, StepImplements, PTL
   DEF Spec, ImplementsIO, IO!Spec

=============================================================================
