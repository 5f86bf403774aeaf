------------------------------ MODULE SimpleFS ------------------------------
(***************************************************************************)
(* The file system: simplefs.c behind vfs.c, on a disk reached through     *)
(* ata.c.  Calls come one at a time (all of them are made from inside the  *)
(* keyboard interrupt or from the program it runs), so a call that changes *)
(* at most one sector is one action, and the two that change more, write   *)
(* and format, take one step per sector; the power may fail between any    *)
(* two, and then the sector written last may not be on the disk although   *)
(* it was reported done (Ata, WriteReturns).  RAM holds nothing between    *)
(* calls: the handle of simplefs_find is filled anew by each.              *)
(*                                                                         *)
(* Sizes are counted in sectors and a sector holds one value.  So the      *)
(* (size + 511) / 512 of allocation and of the loops is what a size is     *)
(* here; the bytes that simplefs_read compares and copies (lines 312 to    *)
(* 334) and how a part of a sector is filled up are not told apart.  The   *)
(* superblock is written but never read and is left out.                   *)
(***************************************************************************)
EXTENDS Integers, Sequences, FiniteSets

CONSTANTS
  Name,          (* file names, shorter than SIMPLEFS_MAX_NAME             *)
  NoName,        (* the name in an unused entry                            *)
  Data,          (* what a sector may hold                                 *)
  EntryCount,    (* entries of the table: 16 * 8                           *)
  PerSector,     (* entries in one sector of it: 8                         *)
  DataSectors,   (* sizeof(used) in simplefs_alloc_sector: 1024            *)
  MaxLen,        (* bound on the sectors of one write                      *)
  Faults         (* what the disk may do wrong, out of FaultKind           *)

(***************************************************************************)
(* "read", "write": ata_wait_drq sees ERR or DF, the call returns -1 and   *)
(* no sector is transferred.  "lost": the device fails after it took the   *)
(* data; ata_write_sector no longer looks at the status and returns 0.     *)
(***************************************************************************)
FaultKind == {"read", "write", "lost"}

ASSUME SimpleFSAssumption ==
  /\ NoName \notin Name
  /\ EntryCount \in Nat \ {0}
  /\ PerSector \in Nat \ {0}
  /\ DataSectors \in Nat
  /\ MaxLen \in Nat
  /\ Faults \subseteq FaultKind

Slot    == 0 .. EntryCount - 1
Sector  == 1 .. DataSectors     \* data sectors; 0 stands for "none"
Content == UNION {[1 .. n -> Data] : n \in 0 .. MaxLen}
Room    == 0 .. MaxLen

VARIABLES
  table,     (* the file table, as the drive has it                        *)
  data,      (* the data sectors, as the drive has them                    *)
  safe,      (* both, without what the drive was given last: what is left  *)
             (* when the power goes before it has stored that              *)
  job,       (* the call in progress: locals of simplefs_write or _format  *)
  reply      (* what the last call returned                                *)

vars == <<table, data, safe, job, reply>>

Disk == [table |-> table, data |-> data]

Entry == [name : Name \cup {NoName}, start : 0 .. DataSectors,
          size : 0 .. MaxLen]
Unused == [name |-> NoName, start |-> 0, size |-> 0]

(* missed is history: the sectors of the table this format did not write   *)
NoJob == [op |-> "none", slot |-> 0, start |-> 0, data |-> <<>>, i |-> 0,
          missed |-> "none"]
Job   == [op : {"none", "write", "format"}, slot : Slot,
          start : 0 .. DataSectors, data : Content,
          i : 0 .. MaxLen + EntryCount + PerSector,
          missed : {"none", "some"}]

NoReply == [op |-> "none", ok |-> FALSE, data |-> <<>>]
Says(op, ok) == [op |-> op, ok |-> ok, data |-> <<>>]

(* A blank disk, which is what a formatted one looks like.                 *)
Init ==
  /\ table = [k \in Slot |-> Unused]
  /\ data \in [Sector -> Data]
  /\ safe = Disk
  /\ job = NoJob
  /\ reply = NoReply

Idle == job.op = "none"

-----------------------------------------------------------------------------
(* The disk.                                                               *)

ReadFails == "read" \in Faults

(* the outcomes of ata_write_sector: what it returns, what it did          *)
Written == [ok |-> TRUE, landed |-> TRUE]
ata_write_sector ==
  {Written}
    \cup {w \in {[ok |-> FALSE, landed |-> FALSE]} : "write" \in Faults}
    \cup {w \in {[ok |-> TRUE, landed |-> FALSE]} : "lost" \in Faults}

PutEntry(k, e, w) == table' = IF w.landed THEN [table EXCEPT ![k] = e] ELSE table

-----------------------------------------------------------------------------
(* Looking into the table.                                                 *)

InUse(k) == table[k].name # NoName

First(S) == {k \in S : \A j \in S : k <= j}

(* Mutant: the search stops before the last entry.                         *)
simplefs_findShort(f) ==
  {First({k \in Slot : k + 1 < EntryCount /\ table[k].name = f})}
    \cup {S \in {{}} : ReadFails}

(* the results simplefs_find may have, as a set of at most one slot; a     *)
(* sector that cannot be read makes it return NULL                         *)
simplefs_find(f) ==
  {First({k \in Slot : table[k].name = f})}
    \cup {S \in {{}} : ReadFails}

(* the data sectors that belong to an entry                                *)
Extent(e) == IF e.start = 0 THEN {} ELSE e.start .. e.start + e.size - 1

(* Mutant: an entry takes one sector less than its size.                   *)
UsedShort == UNION {IF table[k].start = 0 THEN {}
                    ELSE table[k].start .. table[k].start + table[k].size - 2 :
                      k \in Slot}

Used == UNION {Extent(table[k]) : k \in {j \in Slot : InUse(j)}}

(* Mutant: the count of free sectors is one ahead.                         *)
RunEndsAhead(n) == {i \in Sector : n <= i /\ (i - n + 2 .. i) \cap Used = {}}

(* where free_count reaches n: n free sectors in a row end here            *)
RunEnds(n) == {i \in Sector : n <= i /\ (i - n + 1 .. i) \cap Used = {}}

(* simplefs_alloc_sector goes to the first such place and computes from it *)
(* where the run began; none for n = 0, as free_count is never 0 there.    *)
(* It returns 0 also when the table cannot be read.                        *)
simplefs_alloc_sector(n) ==
  {i - n + 1 : i \in First(IF n = 0 THEN {} ELSE RunEnds(n))}

-----------------------------------------------------------------------------
(* simplefs_create: refuse a name that is found; take the first free entry *)
(***************************************************************************)

FreeSlot == First({k \in Slot : ~ InUse(k)})

simplefs_create(f) ==
  /\ Idle
  /\ \E found \in simplefs_find(f) :
       \/ /\ found # {} \/ FreeSlot = {} \/ ReadFails
          /\ reply' = Says("create", FALSE)
          /\ UNCHANGED table
       \/ /\ found = {}
          /\ \E k \in FreeSlot, w \in ata_write_sector :
               /\ PutEntry(k, [name |-> f, start |-> 0, size |-> 0], w)
               /\ reply' = Says("create", w.ok)
  /\ UNCHANGED <<data, job>>

(* simplefs_delete: find the entry and clear it                            *)
simplefs_delete(f) ==
  /\ Idle
  /\ \E found \in simplefs_find(f) :
       \/ /\ found = {} \/ ReadFails
          /\ reply' = Says("delete", FALSE)
          /\ UNCHANGED table
       \/ \E k \in found, w \in ata_write_sector :
            /\ PutEntry(k, Unused, w)
            /\ reply' = Says("delete", w.ok)
  /\ UNCHANGED <<data, job>>

Stored(e) == [j \in 1 .. e.size |-> data[e.start + j - 1]]

(* simplefs_read into a buffer with room for so many sectors               *)
simplefs_read(f, room) ==
  /\ Idle
  /\ \E found \in simplefs_find(f) :
       \/ /\ \/ found = {} \/ ReadFails
             \/ \E k \in found : table[k].start = 0 \/ room < table[k].size
          /\ reply' = Says("read", FALSE)
       \/ \E k \in found :
            /\ table[k].start # 0
            /\ room >= table[k].size
            /\ reply' = [op |-> "read", ok |-> TRUE, data |-> Stored(table[k])]
  /\ UNCHANGED <<table, data, job>>

-----------------------------------------------------------------------------
(* simplefs_write, in as many steps as it writes sectors.                  *)

(* Mutant: a longer file is written over what follows the old sectors.     *)
FitsAlways(e, n) == e.start # 0

(* the sectors the file has are enough                                     *)
Fits(e, n) == e.start # 0 /\ n <= e.size

(* find the file, keep its sectors or allocate new ones                    *)
WriteBegin(f, c) ==
  /\ Idle
  /\ \E found \in simplefs_find(f) :
       \/ /\ \/ found = {} \/ ReadFails
             \/ \E k \in found : /\ ~ Fits(table[k], Len(c))
                                 /\ simplefs_alloc_sector(Len(c)) = {}
          /\ reply' = Says("write", FALSE)
          /\ UNCHANGED job
       \/ \E k \in found :
          \E s \in IF Fits(table[k], Len(c)) THEN {table[k].start}
                   ELSE simplefs_alloc_sector(Len(c)) :
            /\ job' = [op |-> "write", slot |-> k, start |-> s, data |-> c,
                       i |-> 0, missed |-> "none"]
            /\ reply' = NoReply
  /\ UNCHANGED <<table, data>>

WriteGivesUp ==
  /\ job' = NoJob
  /\ reply' = Says("write", FALSE)

(* Mutant: the result of ata_write_sector is not looked at.                *)
WriteSectorUnchecked ==
  /\ job.op = "write"
  /\ job.i < Len(job.data)
  /\ \E w \in ata_write_sector :
       data' = IF w.landed
               THEN [data EXCEPT ![job.start + job.i] = job.data[job.i + 1]]
               ELSE data
  /\ job' = [job EXCEPT !.i = @ + 1]
  /\ UNCHANGED <<table, reply>>

(* one turn of the loop over the data                                      *)
WriteSector ==
  /\ job.op = "write"
  /\ job.i < Len(job.data)
  /\ \E w \in ata_write_sector :
       /\ data' = IF w.landed
                  THEN [data EXCEPT ![job.start + job.i] = job.data[job.i + 1]]
                  ELSE data
       /\ IF w.ok THEN job' = [job EXCEPT !.i = @ + 1] /\ UNCHANGED reply
                  ELSE WriteGivesUp
  /\ UNCHANGED table

(* the new entry, and the end of the call                                  *)
WriteEntry ==
  /\ job.op = "write"
  /\ job.i = Len(job.data)
  /\ \/ \E w \in ata_write_sector :
          /\ PutEntry(job.slot, [table[job.slot] EXCEPT !.start = job.start,
                                                 !.size = Len(job.data)], w)
          /\ job' = NoJob
          /\ reply' = Says("write", w.ok)
     \/ ReadFails /\ WriteGivesUp /\ UNCHANGED table
  /\ UNCHANGED data

-----------------------------------------------------------------------------
(* simplefs_format, called by cmd_mkfs: the superblock, then the table     *)
(* sector by sector, errors ignored; i is the first entry of the next      *)
(* sector.  The shell says "SimpleFS formatted." in any case.              *)

FormatBegin ==
  /\ Idle
  /\ job' = [NoJob EXCEPT !.op = "format"]
  /\ reply' = NoReply
  /\ UNCHANGED <<table, data>>

FormatSector ==
  /\ job.op = "format"
  /\ job.i < EntryCount
  /\ \E w \in ata_write_sector :
       /\ table' = [k \in Slot |->
                      IF w.landed /\ k \in job.i .. job.i + PerSector - 1
                      THEN Unused ELSE table[k]]
       /\ job' = [job EXCEPT !.i = @ + PerSector,
                             !.missed = IF w.landed THEN @ ELSE "some"]
  /\ UNCHANGED <<data, reply>>

(* back in cmd_mkfs, which prints its message                              *)
FormatDone ==
  /\ job.op = "format"
  /\ job.i >= EntryCount
  /\ job' = NoJob
  /\ reply' = Says("format", TRUE)
  /\ UNCHANGED <<table, data, safe>>

-----------------------------------------------------------------------------
(* Each of the steps above but the last begins with a command, which       *)
(* ata_wait_busy (ata.c:64, 91) holds back until the drive has stored what *)
(* it was given before.                                                    *)
DriveStores == safe' = Disk

(* The machine is switched off, or reset, between two sector writes: the   *)
(* drive has stored the last one, or has not.                              *)
PowerLoss ==
  /\ \/ UNCHANGED <<table, data>>
     \/ table' = safe.table /\ data' = safe.data
  /\ safe' = Disk'
  /\ job' = NoJob
  /\ reply' = NoReply

Step ==
  \/ \E f \in Name :
       \/ simplefs_create(f)
       \/ simplefs_delete(f)
       \/ \E room \in Room : simplefs_read(f, room)
       \/ \E c \in Content : WriteBegin(f, c)
  \/ WriteSector
  \/ WriteEntry
  \/ FormatBegin
  \/ FormatSector

Next ==
  \/ Step /\ DriveStores
  \/ FormatDone
  \/ PowerLoss

Spec == Init /\ [][Next]_vars

-----------------------------------------------------------------------------
(* Properties.                                                             *)

(* Two files never share a sector of the disk, and none reaches beyond the *)
(* data area, whatever fails and wherever the power goes:                  *)
(* simplefs_alloc_sector sees every entry that owns sectors, also while a  *)
(* growing file has its old and its new ones.                              *)
NoSharedSectors ==
  \A k \in Slot : InUse(k) =>
    /\ Extent(table[k]) \subseteq Sector
    /\ \A j \in Slot \ {k} :
         InUse(j) => Extent(table[j]) \cap Extent(table[k]) = {}

(* No name stands in the table twice, unless simplefs_find was told by a   *)
(* failing read that a name is not there.                                  *)
UniqueNames ==
  \A j, k \in Slot : InUse(j) /\ table[j].name = table[k].name => j = k

(* An entry keeps what it holds while the file of another entry is         *)
(* written, sector by sector and across a loss of power.                   *)
OthersUntouched ==
  [][job.op = "write" =>
       \A k \in Slot \ {job.slot} :
         InUse(k) => table'[k] = table[k] /\ Stored(table[k])' = Stored(table[k])]_vars

(* A file that outgrows its sectors is moved: until the new entry is on    *)
(* the disk the old contents are all there.                                *)
GrowthKeepsOld ==
  [][\A k \in Slot :
       (job.op = "write" /\ job.slot = k /\ Len(job.data) > table[k].size)
         => \/ table'[k] # table[k]
            \/ Stored(table[k])' = Stored(table[k])]_vars

(* The message "SimpleFS formatted." of cmd_mkfs: the table is empty.      *)
FormattedIsEmpty ==
  reply = Says("format", TRUE) => \A k \in Slot : ~ InUse(k)

-----------------------------------------------------------------------------
(* Refinement.  A name holds what its first entry says; a call that moves  *)
(* a file shows nothing before its last step.                              *)

FileIn(disk, f) ==
  LET S == First({k \in Slot : disk.table[k].name = f})
  IN  IF S = {} THEN [there |-> FALSE, readable |-> FALSE, data |-> <<>>]
      ELSE LET e == disk.table[CHOOSE k \in S : TRUE]
           IN  [there |-> TRUE, readable |-> e.start # 0,
                data |-> IF e.start = 0 THEN <<>>
                         ELSE [j \in 1 .. e.size |-> disk.data[e.start + j - 1]]]

FilesIn(disk) == [f \in Name |-> FileIn(disk, f)]

Pending ==
  [op   |-> job.op,
   name |-> IF job.op = "write" THEN table[job.slot].name ELSE NoName,
   data |-> job.data,
   done |-> IF job.op = "write" /\ Fits(table[job.slot], Len(job.data))
            THEN job.i ELSE 0,
   missed |-> job.missed]

Store == INSTANCE FileStore
           WITH MayMiss <- Faults \cap {"write", "lost"} # {},
                files <- FilesIn(Disk), safe <- FilesIn(safe), pending <- Pending

(* As long as the disk reports its errors and reads do not fail, the file  *)
(* system keeps the promise of FileStore: a call does all it says or       *)
(* nothing (but for an overwrite in place, and for a format of which some  *)
(* sector failed), and a loss of power takes back the last step at most.   *)
ImplementsStore == Store!Spec

=============================================================================
