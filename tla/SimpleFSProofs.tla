--------------------------- MODULE SimpleFSProofs ---------------------------
(***************************************************************************)
(* Proofs about SimpleFS, for any number of entries and sectors, and any   *)
(* faults of the disk unless a theorem says otherwise.                     *)
(*                                                                         *)
(* The argument: a write that is on its way either stays inside the        *)
(* sectors of its own file, or fills sectors that were free when it began. *)
(* Nothing else happens while it lasts, so they are still free when its    *)
(* entry takes them.  What a loss of power may leave, "safe", is the disk  *)
(* of one step ago: it has the same invariant, and while a write is on its *)
(* way it differs from the disk only in sectors of that write.             *)
(***************************************************************************)
EXTENDS SimpleFS, WellFoundedInduction, TLAPS

(***************************************************************************)
(* What the operators return                                               *)
(***************************************************************************)
LEMMA ContentIs ==
  \A c \in Content :
    /\ c \in Seq(Data) /\ Len(c) \in 0 .. MaxLen
    /\ \A j \in 1 .. Len(c) : c[j] \in Data
BY SimpleFSAssumption DEF Content

LEMMA EmptyIsContent == <<>> \in Content /\ Len(<<>>) = 0
<1>1. <<>> \in [1 .. 0 -> Data]
  OBVIOUS
<1>2. 0 \in 0 .. MaxLen
  BY SimpleFSAssumption
<1> QED
  BY <1>1, <1>2 DEF Content

LEMMA Constants ==
  /\ 0 \in Slot /\ 0 \in 0 .. MaxLen /\ 0 \in 0 .. DataSectors
  /\ Slot \subseteq Nat /\ Sector \subseteq Nat \ {0} /\ 0 \notin Sector
  /\ Sector \subseteq 0 .. DataSectors
BY SimpleFSAssumption DEF Slot, Sector

LEMMA UnusedIsEntry == Unused \in Entry /\ Unused.name = NoName
BY Constants DEF Unused, Entry

LEMMA NoJobIsJob == NoJob \in Job /\ NoJob.op = "none"
BY SimpleFSAssumption, Constants, EmptyIsContent DEF NoJob, Job

(* A slot that was found carries the name.                                 *)
LEMMA FoundHasName ==
  ASSUME NEW f \in Name, NEW found \in simplefs_find(f), NEW k \in found
  PROVE  k \in Slot /\ table[k].name = f /\ InUse(k)
BY SimpleFSAssumption DEF simplefs_find, First, InUse

LEMMA FreeIsUnused ==
  ASSUME NEW k \in FreeSlot
  PROVE  k \in Slot /\ ~ InUse(k)
BY DEF FreeSlot, First

LEMMA ExtentIs ==
  \A e \in Entry : \A x :
    x \in Extent(e) <=> x \in Nat /\ e.start # 0 /\ e.start <= x /\ x < e.start + e.size
<1> SUFFICES ASSUME NEW e \in Entry, NEW x
             PROVE  x \in Extent(e) <=> x \in Nat /\ e.start # 0 /\ e.start <= x
                                          /\ x < e.start + e.size
  OBVIOUS
<1>1. e.start \in Nat /\ e.size \in Nat
  BY SimpleFSAssumption DEF Entry
<1> QED
  BY <1>1 DEF Extent

(* What simplefs_alloc_sector returns is free, for the whole length.       *)
LEMMA AllocatedIsFree ==
  ASSUME NEW n \in 0 .. MaxLen, NEW s \in simplefs_alloc_sector(n)
  PROVE  /\ n # 0 /\ s \in Sector /\ s + n - 1 <= DataSectors
         /\ (s .. s + n - 1) \cap Used = {}
<1>1. n # 0 /\ \E i \in RunEnds(n) : s = i - n + 1
  BY DEF simplefs_alloc_sector, First
<1>2. PICK i \in RunEnds(n) : s = i - n + 1
  BY <1>1
<1>3. n \in Nat /\ DataSectors \in Nat
  BY SimpleFSAssumption
<1>4. i \in 1 .. DataSectors /\ n <= i /\ (i - n + 1 .. i) \cap Used = {}
  BY DEF RunEnds, Sector
<1>5. s + n - 1 = i /\ s \in 1 .. DataSectors
  BY <1>1, <1>2, <1>3, <1>4
<1> QED
  BY <1>1, <1>2, <1>4, <1>5 DEF Sector

LEMMA UsedIs ==
  \A x : x \in Used <=> \E k \in Slot : InUse(k) /\ x \in Extent(table[k])
BY DEF Used

(***************************************************************************)
(* The invariant                                                           *)
(***************************************************************************)
Types ==
  /\ table \in [Slot -> Entry]
  /\ data \in [Sector -> Data]
  /\ job \in Job

(* an entry without a place has no size                                    *)
SizePart == \A k \in Slot : table[k].start = 0 => table[k].size = 0

(* the write stays in the sectors of its file                              *)
InPlace ==
  /\ Fits(table[job.slot], Len(job.data))
  /\ job.start = table[job.slot].start

(* the write goes to sectors that belong to nobody                         *)
Elsewhere ==
  /\ ~ Fits(table[job.slot], Len(job.data))
  /\ Len(job.data) > 0
  /\ job.start \in Sector
  /\ job.start + Len(job.data) - 1 <= DataSectors
  /\ (job.start .. job.start + Len(job.data) - 1) \cap Used = {}

WritePart ==
  job.op = "write" =>
    /\ InUse(job.slot)
    /\ job.i <= Len(job.data)
    /\ InPlace \/ Elsewhere

IInv == Types /\ SizePart /\ NoSharedSectors /\ WritePart

-----------------------------------------------------------------------------
(* If one entry changes, and what it now has was its own or nobody's, no   *)
(* sector is shared.                                                       *)
LEMMA OneEntryChanges ==
  ASSUME Types, NoSharedSectors,
         NEW k \in Slot, NEW e \in Entry,
         table' = [table EXCEPT ![k] = e],
         e.name # NoName => Extent(e) \subseteq Sector,
         e.name # NoName =>
           \A j \in Slot \ {k} : InUse(j) => Extent(table[j]) \cap Extent(e) = {}
  PROVE  NoSharedSectors'
<1>1. table'[k] = e /\ \A j \in Slot \ {k} : table'[j] = table[j]
  BY DEF Types
<1>2. \A j \in Slot \ {k} : InUse(j)' <=> InUse(j)
  BY <1>1 DEF InUse
<1>3. InUse(k)' <=> e.name # NoName
  BY <1>1 DEF InUse
<1> SUFFICES ASSUME NEW l \in Slot, InUse(l)'
             PROVE  /\ Extent(table'[l]) \subseteq Sector
                    /\ \A j \in Slot \ {l} :
                         InUse(j)' => Extent(table'[j]) \cap Extent(table'[l]) = {}
  BY DEF NoSharedSectors, InUse, Extent
<1>4. CASE l = k
  BY <1>1, <1>2, <1>3, <1>4
<1>5. CASE l # k
  <2>1. InUse(l) /\ table'[l] = table[l]
    BY <1>1, <1>2, <1>5
  <2>2. Extent(table[l]) \subseteq Sector
    BY <2>1 DEF NoSharedSectors
  <2>3. ASSUME NEW j \in Slot \ {l}, InUse(j)'
        PROVE  Extent(table'[j]) \cap Extent(table[l]) = {}
    <3>1. CASE j = k
      BY <1>1, <1>3, <1>5, <2>1, <2>3, <3>1
    <3>2. CASE j # k
      BY <1>1, <1>2, <2>1, <2>3, <3>2 DEF NoSharedSectors
    <3> QED
      BY <3>1, <3>2
  <2> QED
    BY <2>1, <2>2, <2>3
<1> QED
  BY <1>4, <1>5

LEMMA InitIInv == Init => IInv
<1> SUFFICES ASSUME Init PROVE IInv
  OBVIOUS
<1>1. Types
  BY UnusedIsEntry, NoJobIsJob DEF Init, Types
<1>2. \A k \in Slot : table[k] = Unused
  BY DEF Init
<1>3. SizePart
  BY <1>2 DEF SizePart, Unused
<1>4. NoSharedSectors
  BY <1>2, UnusedIsEntry DEF NoSharedSectors, InUse
<1>5. WritePart
  BY NoJobIsJob DEF Init, WritePart
<1> QED
  BY <1>1, <1>3, <1>4, <1>5 DEF IInv

(* A step that sets one entry, of a call that leaves nothing pending.      *)
LEMMA EntryStep ==
  ASSUME IInv, NEW k \in Slot, NEW e \in Entry, NEW w \in ata_write_sector,
         PutEntry(k, e, w), UNCHANGED data, job' \in Job, job'.op # "write",
         e.start = 0 => e.size = 0,
         e.name # NoName => Extent(e) \subseteq Sector,
         e.name # NoName =>
           \A j \in Slot \ {k} : InUse(j) => Extent(table[j]) \cap Extent(e) = {}
  PROVE  IInv'
<1>1. CASE ~ w.landed
  <2>1. UNCHANGED table
    BY <1>1 DEF PutEntry
  <2> QED
    BY <2>1 DEF IInv, Types, SizePart, NoSharedSectors, WritePart, InUse, Extent
<1>2. CASE w.landed
  <2>1. table' = [table EXCEPT ![k] = e]
    BY <1>2 DEF PutEntry
  <2>2. Types'
    BY <2>1 DEF IInv, Types
  <2>3. SizePart'
    BY <2>1 DEF IInv, Types, SizePart
  <2>4. NoSharedSectors'
    BY <2>1, OneEntryChanges DEF IInv
  <2>5. WritePart'
    BY DEF WritePart
  <2> QED
    BY <2>2, <2>3, <2>4, <2>5 DEF IInv
<1> QED
  BY <1>1, <1>2

(* A step that changes neither the table nor the data.                     *)
LEMMA QuietStep ==
  ASSUME IInv, UNCHANGED <<table, data>>, job' \in Job, WritePart'
  PROVE  IInv'
BY DEF IInv, Types, SizePart, NoSharedSectors, InUse, Extent

LEMMA CreateIInv ==
  ASSUME IInv, NEW f \in Name, simplefs_create(f)
  PROVE  IInv'
<1>1. job' = job /\ data' = data /\ job.op # "write" /\ job \in Job
  BY DEF simplefs_create, Idle, IInv, Types
<1>2. CASE UNCHANGED table
  BY <1>1, <1>2, QuietStep DEF WritePart
<1>3. ASSUME NEW k \in FreeSlot, NEW w \in ata_write_sector,
             PutEntry(k, [name |-> f, start |-> 0, size |-> 0], w)
      PROVE  IInv'
  <2> DEFINE e == [name |-> f, start |-> 0, size |-> 0]
  <2>1. e \in Entry /\ Extent(e) = {} /\ k \in Slot /\ e.size = 0
    BY Constants, FreeIsUnused DEF Entry, Extent
  <2>2. PutEntry(k, e, w)
    BY <1>3
  <2> HIDE DEF e
  <2> QED
    BY <1>1, <2>1, <2>2, EntryStep
<1> QED
  BY <1>2, <1>3 DEF simplefs_create

LEMMA DeleteIInv ==
  ASSUME IInv, NEW f \in Name, simplefs_delete(f)
  PROVE  IInv'
<1>1. job' = job /\ data' = data /\ job.op # "write" /\ job \in Job
  BY DEF simplefs_delete, Idle, IInv, Types
<1>2. CASE UNCHANGED table
  BY <1>1, <1>2, QuietStep DEF WritePart
<1>3. ASSUME NEW found \in simplefs_find(f), NEW k \in found,
             NEW w \in ata_write_sector, PutEntry(k, Unused, w)
      PROVE  IInv'
  <2>1. k \in Slot /\ Unused.size = 0
    BY FoundHasName DEF Unused
  <2> QED
    BY <1>1, <1>3, <2>1, UnusedIsEntry, EntryStep
<1> QED
  BY <1>2, <1>3 DEF simplefs_delete

LEMMA ReadIInv ==
  ASSUME IInv, NEW f \in Name, NEW room \in Room, simplefs_read(f, room)
  PROVE  IInv'
<1>1. UNCHANGED <<table, data, job>> /\ job.op # "write" /\ job \in Job
  BY DEF simplefs_read, Idle, IInv, Types
<1> QED
  BY <1>1, QuietStep DEF WritePart

(* a write that has found its place                                        *)
Begun(k, s, c) ==
  [op |-> "write", slot |-> k, start |-> s, data |-> c, i |-> 0, missed |-> "none"]

LEMMA WriteBeginSets ==
  ASSUME NEW f \in Name, NEW c \in Content, WriteBegin(f, c)
  PROVE  /\ UNCHANGED <<table, data>>
         /\ \/ UNCHANGED job /\ reply' = Says("write", FALSE)
            \/ \E found \in simplefs_find(f) : \E k \in found :
               \E s \in IF Fits(table[k], Len(c)) THEN {table[k].start}
                        ELSE simplefs_alloc_sector(Len(c)) :
                 /\ job' = Begun(k, s, c)
                 /\ reply' = NoReply
BY Zenon DEF WriteBegin, Begun

LEMMA WriteBeginJob ==
  ASSUME NEW f \in Name, NEW c \in Content, WriteBegin(f, c)
  PROVE  /\ UNCHANGED <<table, data>>
         /\ UNCHANGED job \/ \E k, s : job' = Begun(k, s, c)
BY Zenon DEF WriteBegin, Begun

LEMMA WriteBeginIInv ==
  ASSUME IInv, NEW f \in Name, NEW c \in Content, WriteBegin(f, c)
  PROVE  IInv'
<1>1. UNCHANGED <<table, data>> /\ job.op # "write" /\ job \in Job
  BY DEF WriteBegin, Idle, IInv, Types
<1>2. CASE UNCHANGED job
  BY <1>1, <1>2, QuietStep DEF WritePart
<1>3. ASSUME NEW found \in simplefs_find(f), NEW k \in found,
             NEW s \in IF Fits(table[k], Len(c)) THEN {table[k].start}
                       ELSE simplefs_alloc_sector(Len(c)),
             job' = Begun(k, s, c)
      PROVE  IInv'
  <2>1. k \in Slot /\ InUse(k) /\ Len(c) \in 0 .. MaxLen /\ 0 <= Len(c)
    BY FoundHasName, ContentIs, SimpleFSAssumption
  <2>2. \/ Fits(table[k], Len(c)) /\ s = table[k].start
        \/ /\ ~ Fits(table[k], Len(c))
           /\ Len(c) # 0 /\ s \in Sector /\ s + Len(c) - 1 <= DataSectors
           /\ (s .. s + Len(c) - 1) \cap Used = {}
    BY <1>3, <2>1, AllocatedIsFree
  <2>3. s \in 0 .. DataSectors
    <3>1. table[k].start \in 0 .. DataSectors
      BY <2>1 DEF IInv, Types, Entry
    <3> QED
      BY <2>2, <3>1, Constants
  <2>4. 0 \in 0 .. MaxLen + EntryCount + PerSector
    BY SimpleFSAssumption
  <2>5. job' \in Job
    BY <1>3, <2>1, <2>3, <2>4 DEF Job, Begun
  <2>6. job'.slot = k /\ job'.start = s /\ job'.data = c /\ job'.i = 0
    BY <1>3 DEF Begun
  <2>7. table' = table /\ Used' = Used
    BY <1>1 DEF Used, InUse, Extent
  <2>8. InPlace' \/ Elsewhere'
    <3>1. CASE Fits(table[k], Len(c)) /\ s = table[k].start
      BY <2>6, <2>7, <3>1 DEF InPlace, Fits
    <3>2. CASE /\ ~ Fits(table[k], Len(c))
               /\ Len(c) # 0 /\ s \in Sector /\ s + Len(c) - 1 <= DataSectors
               /\ (s .. s + Len(c) - 1) \cap Used = {}
      <4>1. Len(c) > 0
        BY <2>1, <3>2, SimpleFSAssumption
      <4> QED
        BY <2>6, <2>7, <3>2, <4>1 DEF Elsewhere, Sector, Fits
    <3> QED
      BY <2>2, <3>1, <3>2
  <2>9. WritePart'
    BY <2>1, <2>6, <2>7, <2>8 DEF WritePart, InUse
  <2> QED
    BY <1>1, <2>5, <2>9, QuietStep
<1> QED
  BY <1>1, <1>2, <1>3, WriteBeginSets

LEMMA WriteGivesUpIInv ==
  ASSUME IInv, WriteGivesUp \/ job' = NoJob, UNCHANGED <<table, data>>
  PROVE  IInv'
<1>1. job' \in Job /\ job'.op # "write"
  BY NoJobIsJob DEF WriteGivesUp
<1> QED
  BY <1>1, QuietStep DEF WritePart

(* The sector written next is one of a range that is the file's own, or    *)
(* nobody's.                                                               *)
LEMMA NextSectorIs ==
  ASSUME IInv, job.op = "write", job.i < Len(job.data)
  PROVE  /\ job.slot \in Slot /\ job.i \in Nat /\ job.start + job.i \in Sector
         /\ \A k \in Slot \ {job.slot} :
              InUse(k) => job.start + job.i \notin Extent(table[k])
         /\ ~ Fits(table[job.slot], Len(job.data)) =>
              job.start + job.i \notin Extent(table[job.slot])
<1>1. /\ job.slot \in Slot /\ job.i \in Nat /\ job.start \in Nat
      /\ Len(job.data) \in Nat /\ table[job.slot] \in Entry
      /\ DataSectors \in Nat
  BY ContentIs, SimpleFSAssumption DEF IInv, Types, Job
<1>2. InUse(job.slot)
  BY DEF IInv, WritePart
<1>3. CASE InPlace
  <2>1. /\ job.start = table[job.slot].start /\ job.start # 0
        /\ Len(job.data) <= table[job.slot].size
    BY <1>3 DEF InPlace, Fits
  <2>2. table[job.slot].size \in Nat
    BY <1>1, SimpleFSAssumption DEF Entry
  <2>3. job.start + job.i \in Extent(table[job.slot])
    BY <1>1, <2>1, <2>2, ExtentIs
  <2>4. job.start + job.i \in Sector
    BY <1>1, <1>2, <2>3 DEF IInv, NoSharedSectors
  <2>5. \A k \in Slot \ {job.slot} :
          InUse(k) => Extent(table[job.slot]) \cap Extent(table[k]) = {}
    BY <1>1, <1>2 DEF IInv, NoSharedSectors
  <2> QED
    BY <1>1, <1>3, <2>3, <2>4, <2>5 DEF InPlace
<1>4. CASE Elsewhere
  <2>1. /\ job.start # 0 /\ job.start + Len(job.data) - 1 <= DataSectors
        /\ (job.start .. job.start + Len(job.data) - 1) \cap Used = {}
    BY <1>1, <1>4, Constants DEF Elsewhere
  <2>2. job.start + job.i \in job.start .. job.start + Len(job.data) - 1
    BY <1>1
  <2>3. job.start + job.i \notin Used
    BY <2>1, <2>2
  <2>4. job.start + job.i \in Sector
    BY <1>1, <2>1 DEF Sector
  <2> QED
    BY <1>1, <1>2, <2>3, <2>4, UsedIs
<1> QED
  BY <1>3, <1>4 DEF IInv, WritePart

LEMMA WriteSectorIInv ==
  ASSUME IInv, WriteSector
  PROVE  IInv'
<1>1. /\ job.op = "write" /\ job.i < Len(job.data) /\ UNCHANGED table
  BY DEF WriteSector
<1>2. /\ job \in Job /\ Len(job.data) \in 0 .. MaxLen /\ job.i \in Nat
      /\ job.start + job.i \in Sector
      /\ job.data[job.i + 1] \in Data
  <2>1. job \in Job /\ job.i \in Nat /\ job.start + job.i \in Sector
    BY <1>1, NextSectorIs DEF IInv, Types
  <2>2. job.data \in Content
    BY <2>1 DEF Job
  <2>3. Len(job.data) \in Nat
    BY <2>2, ContentIs, SimpleFSAssumption
  <2>4. job.i + 1 \in 1 .. Len(job.data)
    BY <1>1, <2>1, <2>3
  <2> QED
    BY <2>1, <2>2, <2>4, ContentIs
<1>3. data' \in [Sector -> Data]
  <2>1. data \in [Sector -> Data]
    BY DEF IInv, Types
  <2>2. \/ data' = data
        \/ data' = [data EXCEPT ![job.start + job.i] = job.data[job.i + 1]]
    BY DEF WriteSector
  <2> QED
    BY <1>2, <2>1, <2>2
<1>4. \/ job' = [job EXCEPT !.i = job.i + 1]
      \/ job' = NoJob
  BY DEF WriteSector, WriteGivesUp
<1>5. job' \in Job
  <2>1. CASE job' = [job EXCEPT !.i = job.i + 1]
    <3>1. job.i + 1 \in 0 .. MaxLen + EntryCount + PerSector
      BY <1>1, <1>2, SimpleFSAssumption
    <3> QED
      BY <1>2, <2>1, <3>1 DEF Job
  <2> QED
    BY <1>4, <2>1, NoJobIsJob
<1>6. WritePart'
  <2>1. CASE job' = [job EXCEPT !.i = job.i + 1]
    <3>1. /\ job'.slot = job.slot /\ job'.start = job.start /\ job'.data = job.data
          /\ job'.i = job.i + 1 /\ Used' = Used
      BY <1>1, <1>2, <2>1 DEF Job, Used, InUse, Extent
    <3>2. InUse(job.slot) /\ (InPlace \/ Elsewhere)
      BY <1>1 DEF IInv, WritePart
    <3>3. job.i + 1 <= Len(job.data)
      BY <1>1, <1>2, SimpleFSAssumption
    <3>4. InPlace' \/ Elsewhere'
      BY <1>1, <3>1, <3>2 DEF InPlace, Elsewhere, Fits, Sector
    <3> QED
      BY <1>1, <3>1, <3>2, <3>3, <3>4 DEF WritePart, InUse
  <2>2. CASE job' = NoJob
    BY <2>2, NoJobIsJob DEF WritePart
  <2> QED
    BY <1>4, <2>1, <2>2
<1> QED
  BY <1>1, <1>3, <1>5, <1>6
     DEF IInv, Types, SizePart, NoSharedSectors, InUse, Extent

(* The sectors the write has filled, as the entry will have them.          *)
NewEntry == [table[job.slot] EXCEPT !.start = job.start, !.size = Len(job.data)]

LEMMA NewEntryIs ==
  ASSUME IInv, job.op = "write", job.i = Len(job.data)
  PROVE  /\ job.slot \in Slot /\ InUse(job.slot)
         /\ NewEntry \in Entry /\ NewEntry.name = table[job.slot].name
         /\ NewEntry.start = job.start /\ NewEntry.size = Len(job.data)
         /\ NewEntry.start # 0
         /\ Extent(NewEntry) \subseteq Sector
         /\ \A j \in Slot \ {job.slot} :
              InUse(j) => Extent(table[j]) \cap Extent(NewEntry) = {}
<1>1. /\ job.slot \in Slot /\ job.start \in 0 .. DataSectors
      /\ Len(job.data) \in 0 .. MaxLen /\ table[job.slot] \in Entry
      /\ InUse(job.slot) /\ (InPlace \/ Elsewhere)
  BY ContentIs DEF IInv, Types, Job, WritePart
<1>2. /\ NewEntry \in Entry /\ NewEntry.name = table[job.slot].name
      /\ NewEntry.start = job.start /\ NewEntry.size = Len(job.data)
  BY <1>1 DEF NewEntry, Entry
<1>3. job.start \in Nat /\ Len(job.data) \in Nat /\ DataSectors \in Nat
  BY <1>1, SimpleFSAssumption
<1>4. CASE InPlace
  <2>1. /\ job.start = table[job.slot].start /\ job.start # 0
        /\ Len(job.data) <= table[job.slot].size
    BY <1>4 DEF InPlace, Fits
  <2>2. table[job.slot].size \in Nat
    BY <1>1, SimpleFSAssumption DEF Entry
  <2>3. Extent(NewEntry) \subseteq Extent(table[job.slot])
    BY <1>1, <1>2, <1>3, <2>1, <2>2, ExtentIs
  <2>4. /\ Extent(table[job.slot]) \subseteq Sector
        /\ \A j \in Slot \ {job.slot} :
             InUse(j) => Extent(table[j]) \cap Extent(table[job.slot]) = {}
    BY <1>1 DEF IInv, NoSharedSectors
  <2> QED
    BY <1>1, <1>2, <2>1, <2>3, <2>4
<1>5. CASE Elsewhere
  <2>1. /\ job.start # 0 /\ job.start + Len(job.data) - 1 <= DataSectors
        /\ (job.start .. job.start + Len(job.data) - 1) \cap Used = {}
    BY <1>5, Constants DEF Elsewhere
  <2>2. \A x \in Extent(NewEntry) : x \in job.start .. job.start + Len(job.data) - 1
    BY <1>2, <1>3, ExtentIs
  <2>3. \A x \in Extent(NewEntry) : x \in Sector /\ x \notin Used
    BY <1>3, <2>1, <2>2 DEF Sector
  <2>4. \A j \in Slot \ {job.slot} :
          InUse(j) => Extent(table[j]) \cap Extent(NewEntry) = {}
    BY <2>3, UsedIs
  <2> QED
    BY <1>1, <1>2, <2>1, <2>3, <2>4
<1> QED
  BY <1>1, <1>4, <1>5

LEMMA WriteEntryIInv ==
  ASSUME IInv, WriteEntry
  PROVE  IInv'
<1>1. job.op = "write" /\ job.i = Len(job.data) /\ UNCHANGED data
  BY DEF WriteEntry
<1>2. ASSUME NEW w \in ata_write_sector, PutEntry(job.slot, NewEntry, w), job' = NoJob
      PROVE  IInv'
  BY <1>1, <1>2, NewEntryIs, NoJobIsJob, EntryStep
<1>3. CASE WriteGivesUp /\ UNCHANGED table
  BY <1>1, <1>3, WriteGivesUpIInv
<1> QED
  BY <1>2, <1>3 DEF WriteEntry, NewEntry

LEMMA FormatBeginIInv ==
  ASSUME IInv, FormatBegin
  PROVE  IInv'
<1>1. job' = [NoJob EXCEPT !.op = "format"] /\ UNCHANGED <<table, data>>
  BY DEF FormatBegin
<1>2. job' \in Job /\ job'.op = "format"
  BY <1>1, NoJobIsJob DEF Job
<1> QED
  BY <1>1, <1>2, QuietStep DEF WritePart

LEMMA FormatSectorIInv ==
  ASSUME IInv, FormatSector
  PROVE  IInv'
<1>1. job.op = "format" /\ data' = data /\ job \in Job
  BY DEF FormatSector, IInv, Types
<1>2. PICK w \in ata_write_sector :
        table' = [k \in Slot |->
                    IF w.landed /\ k \in job.i .. job.i + PerSector - 1
                    THEN Unused ELSE table[k]]
  BY DEF FormatSector
<1>3. \A k \in Slot : table'[k] \in {Unused, table[k]}
  BY <1>2
<1>4. table' \in [Slot -> Entry]
  BY <1>2, UnusedIsEntry DEF IInv, Types
<1>5. job' \in Job /\ job'.op # "write"
  <2>1. /\ job' = [job EXCEPT !.i = job.i + PerSector, !.missed = job'.missed]
        /\ job'.missed \in {"none", "some"}
    BY <1>1 DEF FormatSector, Job
  <2>2. job.i + PerSector \in 0 .. MaxLen + EntryCount + PerSector
    BY <1>1, SimpleFSAssumption DEF FormatSector, Job
  <2> QED
    BY <1>1, <2>1, <2>2 DEF Job
<1>6. \A k \in Slot : InUse(k)' => InUse(k) /\ table'[k] = table[k]
  BY <1>3, UnusedIsEntry DEF InUse
<1>7. NoSharedSectors'
  BY <1>6 DEF IInv, NoSharedSectors, InUse, Extent
<1>8. SizePart'
  BY <1>3 DEF IInv, SizePart, Unused
<1> QED
  BY <1>1, <1>4, <1>5, <1>7, <1>8 DEF IInv, Types, WritePart

LEMMA StepIInv == IInv /\ (Step \/ FormatDone) => IInv'
<1> SUFFICES ASSUME IInv, Step \/ FormatDone PROVE IInv'
  OBVIOUS
<1>1. ASSUME NEW f \in Name, simplefs_create(f) PROVE IInv'
  BY <1>1, CreateIInv
<1>2. ASSUME NEW f \in Name, simplefs_delete(f) PROVE IInv'
  BY <1>2, DeleteIInv
<1>3. ASSUME NEW f \in Name, NEW room \in Room, simplefs_read(f, room) PROVE IInv'
  BY <1>3, ReadIInv
<1>4. ASSUME NEW f \in Name, NEW c \in Content, WriteBegin(f, c) PROVE IInv'
  BY <1>4, WriteBeginIInv
<1>5. CASE WriteSector
  BY <1>5, WriteSectorIInv
<1>6. CASE WriteEntry
  BY <1>6, WriteEntryIInv
<1>7. CASE FormatBegin
  BY <1>7, FormatBeginIInv
<1>8. CASE FormatSector
  BY <1>8, FormatSectorIInv
<1>9. CASE FormatDone
  BY <1>9, WriteGivesUpIInv DEF FormatDone
<1> QED
  BY <1>1, <1>2, <1>3, <1>4, <1>5, <1>6, <1>7, <1>8, <1>9 DEF Step

-----------------------------------------------------------------------------
(* The disk without the sector written last.                               *)

GoodDisk(d) ==
  /\ d.table \in [Slot -> Entry]
  /\ d.data \in [Sector -> Data]
  /\ \A k \in Slot : d.table[k].start = 0 => d.table[k].size = 0
  /\ \A k \in Slot : d.table[k].name # NoName =>
       /\ Extent(d.table[k]) \subseteq Sector
       /\ \A j \in Slot \ {k} : d.table[j].name # NoName =>
            Extent(d.table[j]) \cap Extent(d.table[k]) = {}

(* While a write is on its way the entries are the same, and so are the    *)
(* sectors of each but the one that is overwritten in place.               *)
SafePart ==
  /\ GoodDisk(safe)
  /\ job.op = "write" =>
       /\ safe.table = table
       /\ \A k \in Slot :
            (InUse(k) /\ (k = job.slot => ~ Fits(table[k], Len(job.data))))
              => \A x \in Extent(table[k]) : safe.data[x] = data[x]

Inv == IInv /\ SafePart

LEMMA DiskIsGood ==
  ASSUME IInv
  PROVE  GoodDisk(Disk) /\ Disk.table = table /\ Disk.data = data
BY DEF IInv, Types, SizePart, NoSharedSectors, InUse, GoodDisk, Disk

LEMMA PowerLossIInv ==
  ASSUME Inv, PowerLoss
  PROVE  IInv' /\ GoodDisk(safe')
<1>1. Disk' \in {Disk, safe} \/ (table' = safe.table /\ data' = safe.data)
  BY DEF PowerLoss, Disk
<1>2. Disk'.table = table' /\ Disk'.data = data' /\ safe' = Disk'
  BY DEF PowerLoss, Disk
<1>3. GoodDisk(Disk')
  BY <1>1, <1>2, DiskIsGood DEF PowerLoss, Inv, SafePart, GoodDisk, Disk
<1>4. /\ table' \in [Slot -> Entry] /\ data' \in [Sector -> Data]
      /\ SizePart' /\ NoSharedSectors'
  BY <1>2, <1>3 DEF GoodDisk, SizePart, NoSharedSectors, InUse, Extent
<1>5. job' = NoJob
  BY DEF PowerLoss
<1> QED
  BY <1>2, <1>3, <1>4, <1>5, NoJobIsJob DEF IInv, Types, WritePart

LEMMA StepSafe ==
  ASSUME Inv, Step, DriveStores
  PROVE  SafePart'
<1>1. safe' = Disk /\ GoodDisk(safe') /\ safe'.table = table /\ safe'.data = data
  BY DiskIsGood DEF DriveStores, Inv
<1>2. CASE job'.op # "write"
  BY <1>1, <1>2 DEF SafePart, GoodDisk
<1>3. CASE UNCHANGED <<table, data>>
  BY <1>1, <1>3 DEF SafePart, GoodDisk, Extent
<1>4. CASE WriteSector /\ job'.op = "write"
  <2>1. /\ IInv /\ job.op = "write" /\ job.i < Len(job.data) /\ table' = table
        /\ job \in Job /\ job.slot \in Slot
    BY <1>4 DEF WriteSector, Inv, IInv, Types, Job
  <2>2. job' = [job EXCEPT !.i = job.i + 1]
    BY <1>4, NoJobIsJob DEF WriteSector, WriteGivesUp
  <2>3. job'.slot = job.slot /\ job'.data = job.data
    BY <2>1, <2>2 DEF Job
  <2>4. \A x \in Sector : x # job.start + job.i => data'[x] = data[x]
    BY <1>4, <2>1 DEF WriteSector, IInv, Types
  <2>5. ASSUME NEW k \in Slot, InUse(k)',
               k = job'.slot => ~ Fits(table'[k], Len(job'.data))
        PROVE  \A x \in Extent(table[k]) : data[x] = data'[x]
    <3>1. InUse(k) /\ Extent(table[k]) \subseteq Sector
      BY <2>1, <2>5 DEF InUse, IInv, NoSharedSectors
    <3>2. job.start + job.i \notin Extent(table[k])
      BY <2>1, <2>3, <2>5, <3>1, NextSectorIs
    <3> QED
      BY <2>4, <3>1, <3>2
  <2>6. \A k \in Slot :
          (InUse(k)' /\ (k = job'.slot => ~ Fits(table'[k], Len(job'.data))))
            => \A x \in Extent(table'[k]) : safe'.data[x] = data'[x]
    BY <1>1, <2>1, <2>5
  <2> QED
    BY <1>1, <2>1, <2>6 DEF SafePart, GoodDisk, Fits, Extent, InUse
<1>5. ASSUME WriteEntry \/ FormatSector PROVE job'.op # "write"
  BY <1>5, NoJobIsJob DEF WriteEntry, WriteGivesUp, FormatSector, Inv, IInv, Types, Job
<1>6. ASSUME NEW f \in Name, simplefs_create(f) \/ simplefs_delete(f)
      PROVE  job'.op # "write"
  BY <1>6 DEF simplefs_create, simplefs_delete, Idle
<1> QED
  BY <1>2, <1>3, <1>4, <1>5, <1>6 DEF Step, simplefs_read, WriteBegin, FormatBegin

LEMMA InitInv == Init => Inv
<1> SUFFICES ASSUME Init PROVE Inv
  OBVIOUS
<1>1. IInv /\ safe = Disk /\ job.op # "write"
  BY InitIInv, NoJobIsJob DEF Init
<1> QED
  BY <1>1, DiskIsGood DEF Inv, SafePart

LEMMA NextInv == Inv /\ [Next]_vars => Inv'
<1> SUFFICES ASSUME Inv, [Next]_vars PROVE Inv'
  OBVIOUS
<1>1. CASE Step /\ DriveStores
  BY <1>1, StepIInv, StepSafe DEF Inv
<1>2. CASE FormatDone
  <2>1. safe' = safe /\ job'.op # "write"
    BY <1>2, NoJobIsJob DEF FormatDone
  <2> QED
    BY <1>2, <2>1, StepIInv DEF Inv, SafePart, GoodDisk
<1>3. CASE PowerLoss
  <2>1. job'.op # "write"
    BY <1>3, NoJobIsJob DEF PowerLoss
  <2> QED
    BY <1>3, <2>1, PowerLossIInv DEF Inv, SafePart, GoodDisk
<1>4. CASE UNCHANGED vars
  <2>1. UNCHANGED <<table, data, job, safe>>
    BY <1>4 DEF vars
  <2> QED
    BY <2>1 DEF Inv, IInv, Types, SizePart, NoSharedSectors, WritePart, InPlace,
                Elsewhere, Fits, Used, InUse, Extent, SafePart, GoodDisk
<1> QED
  BY <1>1, <1>2, <1>3, <1>4 DEF Next

(* Files share no sector and stay inside the data area, for every disk,    *)
(* every table and all faults at once.                                     *)
THEOREM NothingIsShared == Spec => []NoSharedSectors
<1>1. Inv => NoSharedSectors
  BY DEF Inv, IInv
<1> QED
  BY <1>1, InitInv, NextInv, PTL DEF Spec

(***************************************************************************)
(* What a step may not do                                                  *)
(***************************************************************************)

(* An entry holds the same if its sectors do.                              *)
LEMMA SameSectorsSameContent ==
  ASSUME NEW e \in Entry, e.start = 0 => e.size = 0,
         \A x \in Extent(e) : data'[x] = data[x]
  PROVE  [j \in 1 .. e.size |-> data'[e.start + j - 1]] = Stored(e)
<1>1. e.start \in Nat /\ e.size \in Nat
  BY SimpleFSAssumption DEF Entry
<1>2. \A j \in 1 .. e.size : e.start + j - 1 \in Extent(e)
  BY <1>1, ExtentIs
<1> QED
  BY <1>2 DEF Stored

(* A step of a write changes at most the sector it is at.                  *)
LEMMA WriteSectorTouches ==
  ASSUME IInv, WriteSector
  PROVE  /\ UNCHANGED table
         /\ \A x \in Sector : x # job.start + job.i => data'[x] = data[x]
BY DEF WriteSector, IInv, Types

LEMMA EntryKept ==
  ASSUME IInv, NEW k \in Slot, InUse(k), table'[k] = table[k],
         \A x \in Extent(table[k]) : data'[x] = data[x]
  PROVE  Stored(table[k])' = Stored(table[k])
<1>1. table[k] \in Entry /\ (table[k].start = 0 => table[k].size = 0)
  BY DEF IInv, Types, SizePart
<1>2. Stored(table[k])'
        = [j \in 1 .. table[k].size |-> data'[table[k].start + j - 1]]
  BY DEF Stored
<1> QED
  BY <1>1, <1>2, SameSectorsSameContent

(* What can happen while a write is on its way.                            *)
LEMMA StepsOfWrite ==
  ASSUME Inv, [Next]_vars, job.op = "write"
  PROVE  \/ WriteSector
         \/ WriteEntry
         \/ UNCHANGED <<table, data>>
         \/ UNCHANGED table /\ data' = safe.data
BY DEF Next, Step, vars, simplefs_create, simplefs_delete, simplefs_read, WriteBegin,
       FormatBegin, FormatSector, FormatDone, PowerLoss, Idle, Inv, SafePart

(* Writing a file leaves the entries and contents of all others alone.     *)
THEOREM OthersKeepTheirs == Spec => OthersUntouched
<1>1. ASSUME Inv, [Next]_vars, job.op = "write", NEW k \in Slot \ {job.slot}, InUse(k)
      PROVE  table'[k] = table[k] /\ Stored(table[k])' = Stored(table[k])
  <2>0. IInv
    BY <1>1 DEF Inv
  <2>1. CASE WriteSector
    <3>1. job.start + job.i \notin Extent(table[k]) /\ Extent(table[k]) \subseteq Sector
      BY <1>1, <2>0, <2>1, NextSectorIs DEF WriteSector, IInv, NoSharedSectors
    <3>2. table' = table /\ \A x \in Extent(table[k]) : data'[x] = data[x]
      BY <1>1, <2>0, <2>1, <3>1, WriteSectorTouches
    <3> QED
      BY <1>1, <2>0, <3>2, EntryKept
  <2>2. CASE WriteEntry
    <3>1. table'[k] = table[k] /\ data' = data
      BY <1>1, <2>0, <2>2 DEF WriteEntry, PutEntry, IInv, Types
    <3> QED
      BY <1>1, <2>0, <3>1, EntryKept
  <2>3. CASE UNCHANGED <<table, data>>
    BY <1>1, <2>0, <2>3, EntryKept
  <2>4. CASE UNCHANGED table /\ data' = safe.data
    <3>1. \A x \in Extent(table[k]) : data'[x] = data[x]
      BY <1>1, <2>4 DEF Inv, SafePart
    <3> QED
      BY <1>1, <2>0, <2>4, <3>1, EntryKept
  <2> QED
    BY <1>1, <2>1, <2>2, <2>3, <2>4, StepsOfWrite
<1>2. Inv /\ [Next]_vars =>
        [job.op = "write" =>
           \A k \in Slot \ {job.slot} :
             InUse(k) => table'[k] = table[k]
                         /\ Stored(table[k])' = Stored(table[k])]_vars
  BY <1>1
<1> QED
  BY <1>2, InitInv, NextInv, PTL DEF Spec, OthersUntouched

(* A file that outgrows its sectors keeps its old contents until the step  *)
(* that writes its new entry.                                              *)
THEOREM OldContentsStay == Spec => GrowthKeepsOld
<1>1. ASSUME Inv, [Next]_vars, NEW k \in Slot,
             job.op = "write", job.slot = k, Len(job.data) > table[k].size
      PROVE  \/ table'[k] # table[k]
             \/ Stored(table[k])' = Stored(table[k])
  <2>0. IInv
    BY <1>1 DEF Inv
  <2>1. InUse(k)
    BY <1>1, <2>0 DEF IInv, WritePart
  <2>2. ~ Fits(table[k], Len(job.data))
    <3>1. table[k].size \in Nat /\ Len(job.data) \in Nat
      BY <1>1, <2>0, ContentIs, SimpleFSAssumption DEF IInv, Types, Job, Entry
    <3> QED
      BY <1>1, <3>1 DEF Fits
  <2>3. CASE WriteSector
    <3>1. job.start + job.i \notin Extent(table[k]) /\ Extent(table[k]) \subseteq Sector
      BY <1>1, <2>0, <2>1, <2>2, <2>3, NextSectorIs
         DEF WriteSector, IInv, NoSharedSectors
    <3>2. table' = table /\ \A x \in Extent(table[k]) : data'[x] = data[x]
      BY <1>1, <2>0, <2>3, <3>1, WriteSectorTouches
    <3> QED
      BY <1>1, <2>0, <2>1, <3>2, EntryKept
  <2>4. CASE WriteEntry \/ UNCHANGED <<table, data>>
    <3>1. data' = data
      BY <2>4 DEF WriteEntry
    <3> QED
      BY <1>1, <2>0, <2>1, <3>1, EntryKept
  <2>5. CASE UNCHANGED table /\ data' = safe.data
    <3>1. \A x \in Extent(table[k]) : data'[x] = data[x]
      BY <1>1, <2>1, <2>2, <2>5 DEF Inv, SafePart
    <3> QED
      BY <1>1, <2>0, <2>1, <2>5, <3>1, EntryKept
  <2> QED
    BY <1>1, <2>3, <2>4, <2>5, StepsOfWrite
<1>2. Inv /\ [Next]_vars =>
        [\A k \in Slot :
           (job.op = "write" /\ job.slot = k /\ Len(job.data) > table[k].size)
             => \/ table'[k] # table[k]
                \/ Stored(table[k])' = Stored(table[k])]_vars
  BY <1>1
<1> QED
  BY <1>2, InitInv, NextInv, PTL DEF Spec, GrowthKeepsOld

(***************************************************************************)
(* Names                                                                   *)
(***************************************************************************)
LEMMA LeastNumber ==
  ASSUME NEW S \in SUBSET Nat, S # {}
  PROVE  \E n \in S : \A m \in S : n <= m
<1> DEFINE R == OpToRel(<, Nat)
<1>1. IsWellFoundedOn(R, Nat)
  BY NatLessThanWellFounded
<1>2. \A x, y \in Nat : x < y => <<x, y>> \in R
  BY DEF OpToRel
<1> HIDE DEF R
<1>3. PICK n \in S : \A m \in S : ~ (<<m, n>> \in R)
  BY <1>1, WFMin, Zenon
<1>4. \A m \in S : ~ (m < n)
  BY <1>2, <1>3, Zenon
<1>5. \A m \in S : n <= m
  BY <1>4
<1> QED
  BY <1>5

LEMMA FirstIs ==
  ASSUME NEW S \in SUBSET Slot, S # {}
  PROVE  First(S) # {}
BY LeastNumber, Constants DEF First

LEMMA FirstOfOne ==
  ASSUME NEW k \in Slot
  PROVE  First({k}) = {k}
BY Constants DEF First

(* When the table can be read, a name that is not found is not there.      *)
LEMMA NotFoundIsNotThere ==
  ASSUME "read" \notin Faults, NEW f \in Name, {} \in simplefs_find(f)
  PROVE  \A k \in Slot : table[k].name # f
<1>1. First({k \in Slot : table[k].name = f}) = {}
  BY DEF simplefs_find, ReadFails
<1> QED
  BY <1>1, FirstIs

LEMMA NamesOnlyGo ==
  ASSUME UniqueNames, \A k \in Slot : table'[k].name \in {NoName, table[k].name}
  PROVE  UniqueNames'
BY DEF UniqueNames, InUse

LEMMA NewName ==
  ASSUME UniqueNames, NEW f \in Name, \A k \in Slot : table[k].name # f,
         NEW i \in Slot, table'[i].name = f,
         \A k \in Slot \ {i} : table'[k] = table[k]
  PROVE  UniqueNames'
BY DEF UniqueNames, InUse

LEMMA StepUniqueNames ==
  ASSUME "read" \notin Faults, IInv, UniqueNames, Step \/ FormatDone
  PROVE  UniqueNames'
<1>1. ASSUME NEW f \in Name, simplefs_create(f) PROVE UniqueNames'
  <2>1. CASE UNCHANGED table
    BY <2>1, NamesOnlyGo
  <2>2. ASSUME NEW k \in FreeSlot, NEW w \in ata_write_sector,
               {} \in simplefs_find(f),
               PutEntry(k, [name |-> f, start |-> 0, size |-> 0], w)
        PROVE  UniqueNames'
    <3> DEFINE e == [name |-> f, start |-> 0, size |-> 0]
    <3>1. k \in Slot /\ \A j \in Slot : table[j].name # f
      BY <2>2, FreeIsUnused, NotFoundIsNotThere
    <3>2. CASE table' = [table EXCEPT ![k] = e]
      <4>1. table'[k].name = f /\ \A j \in Slot \ {k} : table'[j] = table[j]
        BY <3>1, <3>2 DEF IInv, Types
      <4> QED
        BY <3>1, <4>1, NewName
    <3> QED
      BY <2>1, <2>2, <3>2 DEF PutEntry
  <2> QED
    BY <1>1, <2>1, <2>2 DEF simplefs_create
<1>2. ASSUME NEW k \in Slot, NEW e, NEW w \in ata_write_sector, PutEntry(k, e, w),
             e.name \in {NoName, table[k].name}
      PROVE  UniqueNames'
  <2>1. \A j \in Slot : table'[j].name \in {NoName, table[j].name}
    BY <1>2 DEF PutEntry, IInv, Types
  <2> QED
    BY <2>1, NamesOnlyGo
<1>3. ASSUME NEW f \in Name, simplefs_delete(f) PROVE UniqueNames'
  <2>1. CASE UNCHANGED table
    BY <2>1, NamesOnlyGo
  <2>2. ASSUME NEW found \in simplefs_find(f), NEW k \in found,
               NEW w \in ata_write_sector, PutEntry(k, Unused, w)
        PROVE  UniqueNames'
    BY <1>2, <2>2, FoundHasName, UnusedIsEntry
  <2> QED
    BY <1>3, <2>1, <2>2 DEF simplefs_delete
<1>4. CASE WriteEntry
  <2>1. CASE UNCHANGED table
    BY <2>1, NamesOnlyGo
  <2>2. ASSUME NEW w \in ata_write_sector, PutEntry(job.slot, NewEntry, w)
        PROVE  UniqueNames'
    BY <1>2, <1>4, <2>2, NewEntryIs DEF WriteEntry
  <2> QED
    BY <1>4, <2>1, <2>2 DEF WriteEntry, NewEntry
<1>5. CASE FormatSector
  <2>1. \A k \in Slot : table'[k] \in {Unused, table[k]}
    BY <1>5 DEF FormatSector
  <2> QED
    BY <2>1, UnusedIsEntry, NamesOnlyGo
<1>6. CASE UNCHANGED table
  BY <1>6, NamesOnlyGo
<1> QED
  BY <1>1, <1>3, <1>4, <1>5, <1>6
     DEF Step, simplefs_read, WriteBegin, WriteSector, FormatBegin, FormatDone

(* no name is there twice, on the disk and on what is safe of it           *)
SafeNames ==
  \A j, k \in Slot :
    safe.table[j].name # NoName /\ safe.table[k].name = safe.table[j].name => j = k

Names == UniqueNames /\ SafeNames

LEMMA NextNames ==
  ASSUME "read" \notin Faults, Inv, Names, [Next]_vars
  PROVE  Names'
<1>1. CASE Step /\ DriveStores
  <2>1. safe'.table = table
    BY <1>1 DEF DriveStores, Disk
  <2>2. SafeNames'
    BY <2>1 DEF Names, UniqueNames, SafeNames, InUse
  <2> QED
    BY <1>1, <2>2, StepUniqueNames DEF Names, Inv
<1>2. CASE FormatDone
  <2>1. UNCHANGED <<table, safe>>
    BY <1>2 DEF FormatDone
  <2> QED
    BY <2>1 DEF Names, UniqueNames, SafeNames, InUse
<1>3. CASE PowerLoss
  <2>1. table' \in {table, safe.table} /\ safe'.table = table'
    BY <1>3 DEF PowerLoss, Disk
  <2> QED
    BY <2>1 DEF Names, UniqueNames, SafeNames, InUse
<1>4. CASE UNCHANGED vars
  BY <1>4 DEF vars, Names, UniqueNames, SafeNames, InUse
<1> QED
  BY <1>1, <1>2, <1>3, <1>4 DEF Next

LEMMA InitNames == Init => Names
BY UnusedIsEntry DEF Init, Names, UniqueNames, SafeNames, InUse, Disk

(* As long as the table can be read, no name is ever in it twice.          *)
THEOREM NamesAreUnique ==
  ASSUME "read" \notin Faults
  PROVE  Spec => []UniqueNames
<1>1. Inv /\ Names /\ [Next]_vars => Names'
  BY NextNames
<1>2. Names => UniqueNames
  BY DEF Names
<1> QED
  BY <1>1, <1>2, InitInv, NextInv, InitNames, PTL DEF Spec

(***************************************************************************)
(* Refinement of FileStore                                                 *)
(***************************************************************************)

(* the sectors written so far hold what they should                        *)
Copied ==
  job.op = "write" => \A j \in 0 .. job.i - 1 : data[job.start + j] = job.data[j + 1]

(* nothing is left of the call before                                      *)
NoLeftovers ==
  /\ job.op # "write" => job.data = <<>>
  /\ job.op # "format" => job.missed = "none"

(* a format that missed no sector has emptied the table so far             *)
Emptied ==
  (job.op = "format" /\ job.missed = "none") =>
    \A k \in Slot : k < job.i => table[k].name = NoName

StoreInv == IInv /\ UniqueNames /\ Copied /\ NoLeftovers /\ Emptied

(* A disk whose reads work and which reports the writes that fail.         *)
LEMMA HonestDisk ==
  ASSUME Faults \subseteq {"write"}
  PROVE  /\ "read" \notin Faults /\ ~ ReadFails
         /\ \A w \in ata_write_sector : \/ w.landed /\ w.ok = TRUE
                                        \/ ~ w.landed /\ w.ok = FALSE
<1> DEFINE refused == [ok |-> FALSE, landed |-> FALSE]
           lost == [ok |-> TRUE, landed |-> FALSE]
<1>1. "read" \notin Faults /\ "lost" \notin Faults
  OBVIOUS
<1>2. \A w \in ata_write_sector : w = Written \/ w = refused
  BY <1>1, Zenon DEF ata_write_sector
<1>3. /\ Written.ok = TRUE /\ Written.landed
      /\ refused.ok = FALSE /\ ~ refused.landed
  BY DEF Written
<1> HIDE DEF refused
<1> QED
  BY <1>1, <1>2, <1>3 DEF ReadFails

LEMMA WholeContent ==
  ASSUME NEW c \in Content
  PROVE  [j \in 1 .. Len(c) |-> c[j]] = c
<1>1. PICK n \in 0 .. MaxLen : c \in [1 .. n -> Data]
  BY DEF Content
<1>2. n \in Nat /\ Len(c) = n
  BY <1>1, SimpleFSAssumption
<1> QED
  BY <1>1, <1>2

LEMMA InitStoreInv == Init => StoreInv
BY InitIInv, InitNames DEF Init, StoreInv, Names, Copied, NoLeftovers, Emptied, NoJob

LEMMA NextNoLeftovers ==
  ASSUME IInv, NoLeftovers, [Next]_vars
  PROVE  NoLeftovers'
<1>1. CASE UNCHANGED job
  BY <1>1 DEF NoLeftovers
<1>2. CASE job' = NoJob
  BY <1>2 DEF NoLeftovers, NoJob
<1>3. CASE WriteSector
  BY <1>2, <1>3 DEF WriteSector, WriteGivesUp, NoLeftovers, IInv, Types, Job
<1>4. CASE FormatBegin
  BY <1>4 DEF FormatBegin, NoLeftovers, NoJob
<1>5. CASE FormatSector
  BY <1>5 DEF FormatSector, NoLeftovers, IInv, Types, Job
<1>6. ASSUME NEW f \in Name, NEW c \in Content, WriteBegin(f, c) PROVE NoLeftovers'
  BY <1>1, <1>6, WriteBeginJob DEF NoLeftovers, Begun
<1> QED
  BY <1>1, <1>2, <1>3, <1>4, <1>5, <1>6
     DEF Next, Step, vars, simplefs_create, simplefs_delete, simplefs_read,
         WriteEntry, WriteGivesUp, FormatDone, PowerLoss

LEMMA NextCopied ==
  ASSUME Faults \subseteq {"write"}, IInv, Copied, [Next]_vars
  PROVE  Copied'
<1>1. CASE UNCHANGED <<job, data>>
  BY <1>1 DEF Copied
<1>2. CASE job'.op # "write"
  BY <1>2 DEF Copied
<1>3. CASE WriteSector
  <2> DEFINE x == job.start + job.i
  <2>1. job.op = "write" /\ job.i < Len(job.data)
    BY <1>3 DEF WriteSector
  <2>2. x \in Sector /\ job.start \in Nat /\ job.i \in Nat /\ job \in Job
        /\ data \in [Sector -> Data]
    BY <2>1, NextSectorIs, SimpleFSAssumption DEF IInv, Types, Job
  <2>3. CASE job' = NoJob
    BY <1>2, <2>3, NoJobIsJob
  <2>4. CASE /\ data' = [data EXCEPT ![x] = job.data[job.i + 1]]
             /\ job' = [job EXCEPT !.i = job.i + 1]
    <3>1. /\ job'.i = job.i + 1 /\ job'.start = job.start /\ job'.data = job.data
      BY <2>2, <2>4 DEF Job
    <3>2. ASSUME NEW j \in 0 .. job'.i - 1
          PROVE  data'[job'.start + j] = job'.data[j + 1]
      <4>1. CASE j = job.i
        BY <2>2, <2>4, <3>1, <4>1
      <4>2. CASE j # job.i
        <5>1. j \in 0 .. job.i - 1 /\ job.start + j # x
          BY <2>2, <3>1, <3>2, <4>2
        <5>2. data[job.start + j] = job.data[j + 1]
          BY <2>1, <5>1 DEF Copied
        <5> QED
          BY <2>2, <2>4, <3>1, <5>1, <5>2
      <4> QED
        BY <4>1, <4>2
    <3> QED
      BY <3>2 DEF Copied
  <2> QED
    BY <1>3, <2>3, <2>4, HonestDisk DEF WriteSector, WriteGivesUp
<1>4. ASSUME NEW f \in Name, NEW c \in Content, WriteBegin(f, c) PROVE Copied'
  <2>1. CASE UNCHANGED job
    BY <1>1, <1>4, <2>1, WriteBeginJob
  <2>2. CASE job'.i = 0
    BY <2>2 DEF Copied
  <2> QED
    BY <1>4, <2>1, <2>2, WriteBeginJob DEF Begun
<1>5. CASE FormatBegin \/ FormatSector
  BY <1>2, <1>5, NoJobIsJob DEF FormatBegin, FormatSector, NoJob, IInv, Types, Job
<1>6. CASE WriteEntry \/ FormatDone \/ PowerLoss
  BY <1>2, <1>6, NoJobIsJob DEF WriteEntry, WriteGivesUp, FormatDone, PowerLoss
<1> QED
  BY <1>1, <1>3, <1>4, <1>5, <1>6
     DEF Next, Step, vars, simplefs_create, simplefs_delete, simplefs_read

LEMMA NextEmptied ==
  ASSUME IInv, Emptied, [Next]_vars
  PROVE  Emptied'
<1>1. CASE UNCHANGED <<job, table>>
  BY <1>1 DEF Emptied
<1>2. CASE job'.op # "format"
  BY <1>2 DEF Emptied
<1>3. CASE FormatBegin
  BY <1>3, Constants DEF FormatBegin, Emptied, NoJob, Slot
<1>4. CASE FormatSector
  <2>1. PICK w \in ata_write_sector :
          /\ table' = [k \in Slot |->
                        IF w.landed /\ k \in job.i .. job.i + PerSector - 1
                        THEN Unused ELSE table[k]]
          /\ job' = [job EXCEPT !.i = @ + PerSector, !.missed = IF w.landed THEN @ ELSE "some"]
    BY <1>4 DEF FormatSector
  <2>2. /\ job.op = "format" /\ job.i \in Nat /\ job \in Job
    BY <1>4, SimpleFSAssumption DEF FormatSector, IInv, Types, Job
  <2>3. /\ job'.i = job.i + PerSector
        /\ w.landed => job'.missed = job.missed
        /\ ~ w.landed => job'.missed = "some"
    BY <2>1, <2>2 DEF Job
  <2>4. ASSUME job'.missed = "none", NEW k \in Slot, k < job'.i
        PROVE  table'[k].name = NoName
    <3>1. w.landed /\ job.missed = "none"
      BY <2>3, <2>4
    <3>2. CASE k < job.i
      BY <2>1, <2>2, <3>1, <3>2, UnusedIsEntry DEF Emptied
    <3>3. CASE ~ (k < job.i)
      <4>1. k \in job.i .. job.i + PerSector - 1
        BY <2>2, <2>3, <2>4, <3>3, Constants, SimpleFSAssumption
      <4> QED
        BY <2>1, <3>1, <4>1, UnusedIsEntry
    <3> QED
      BY <3>2, <3>3
  <2> QED
    BY <2>4 DEF Emptied
<1>5. CASE WriteSector \/ WriteEntry \/ FormatDone \/ PowerLoss
  BY <1>2, <1>5, NoJobIsJob
     DEF WriteSector, WriteEntry, WriteGivesUp, FormatDone, PowerLoss, IInv, Types, Job
<1>6. ASSUME NEW f \in Name, NEW c \in Content, WriteBegin(f, c) PROVE Emptied'
  BY <1>1, <1>2, <1>6, WriteBeginJob DEF Begun
<1>7. ASSUME NEW f \in Name, simplefs_create(f) \/ simplefs_delete(f)
      PROVE  Emptied'
  BY <1>2, <1>7 DEF simplefs_create, simplefs_delete, Idle
<1> QED
  BY <1>1, <1>3, <1>4, <1>5, <1>6, <1>7 DEF Next, Step, vars, simplefs_read

(* the whole invariant of the refinement                                   *)
Held == Inv /\ Names /\ StoreInv

LEMMA NextHeld ==
  ASSUME Faults \subseteq {"write"}, Held, [Next]_vars
  PROVE  Held'
<1>1. Inv' /\ Names'
  BY HonestDisk, NextInv, NextNames DEF Held
<1>2. NoLeftovers' /\ Copied' /\ Emptied'
  BY NextNoLeftovers, NextCopied, NextEmptied DEF Held, StoreInv
<1> QED
  BY <1>1, <1>2 DEF Held, StoreInv, Inv, Names

-----------------------------------------------------------------------------
(* A name's file, now and after a step.                                    *)

FileOf(f) == FileIn(Disk, f)

HeldBy(e, d) ==
  [there |-> TRUE, readable |-> e.start # 0,
   data |-> IF e.start = 0 THEN <<>>
            ELSE [j \in 1 .. e.size |-> d[e.start + j - 1]]]

LEMMA FileNow ==
  ASSUME UniqueNames, NEW f \in Name, NEW k \in Slot, table[k].name = f
  PROVE  FileOf(f) = HeldBy(table[k], data)
<1>1. {j \in Slot : table[j].name = f} = {k}
  BY SimpleFSAssumption DEF UniqueNames, InUse
<1> QED
  BY <1>1, FirstOfOne DEF FileOf, FileIn, Disk, HeldBy

LEMMA FileThen ==
  ASSUME UniqueNames', NEW f \in Name, NEW k \in Slot, table'[k].name = f
  PROVE  FileOf(f)' = HeldBy(table'[k], data')
<1>1. {j \in Slot : table'[j].name = f} = {k}
  BY SimpleFSAssumption DEF UniqueNames, InUse
<1> QED
  BY <1>1, FirstOfOne DEF FileOf, FileIn, Disk, HeldBy

LEMMA NoFileNow ==
  ASSUME NEW f \in Name, \A k \in Slot : table[k].name # f
  PROVE  FileOf(f) = Store!NoFile
<1>1. {j \in Slot : table[j].name = f} = {}
  OBVIOUS
<1>2. First({}) = {}
  BY DEF First
<1> QED
  BY <1>1, <1>2 DEF FileOf, FileIn, Disk, Store!NoFile

LEMMA NoFileThen ==
  ASSUME NEW f \in Name, \A k \in Slot : table'[k].name # f
  PROVE  FileOf(f)' = Store!NoFile
<1>1. {j \in Slot : table'[j].name = f} = {}
  OBVIOUS
<1>2. First({}) = {}
  BY DEF First
<1> QED
  BY <1>1, <1>2 DEF FileOf, FileIn, Disk, Store!NoFile

(* A name whose entry and sectors stay has the file it had.                *)
LEMMA FileStays ==
  ASSUME IInv, UniqueNames, UniqueNames', NEW f \in Name,
         \A k \in Slot : table'[k].name = f <=> table[k].name = f,
         \A k \in Slot : table[k].name = f =>
           /\ table'[k] = table[k]
           /\ \A x \in Extent(table[k]) : data'[x] = data[x]
  PROVE  FileOf(f)' = FileOf(f)
<1>1. CASE \A k \in Slot : table[k].name # f
  BY <1>1, NoFileNow, NoFileThen
<1>2. ASSUME NEW k \in Slot, table[k].name = f
      PROVE  FileOf(f)' = FileOf(f)
  <2>1. InUse(k) /\ table'[k] = table[k]
    BY <1>2, SimpleFSAssumption DEF InUse
  <2>2. Stored(table[k])' = Stored(table[k])
    BY <1>2, <2>1, EntryKept
  <2>3. HeldBy(table'[k], data') = HeldBy(table[k], data)
    BY <2>1, <2>2 DEF HeldBy, Stored
  <2> QED
    BY <1>2, <2>1, <2>3, FileNow, FileThen
<1> QED
  BY <1>1, <1>2

Files == FilesIn(Disk)

LEMMA FilesAre ==
  /\ Files = [f \in Name |-> FileOf(f)]
  /\ Files' = [f \in Name |-> FileOf(f)']
BY DEF Files, FilesIn, FileOf

LEMMA FilesStay ==
  ASSUME UNCHANGED <<table, data>>
  PROVE  UNCHANGED Files
BY DEF Files, FilesIn, FileIn, Disk

(* Only the file of one name changes.                                      *)
LEMMA OneFileChanges ==
  ASSUME NEW f \in Name, NEW v, FileOf(f)' = v,
         \A g \in Name \ {f} : FileOf(g)' = FileOf(g)
  PROVE  Files' = [Files EXCEPT ![f] = v]
BY FilesAre

LEMMA PendingWhenIdle ==
  ASSUME StoreInv, Idle
  PROVE  Pending = Store!Nothing
BY DEF StoreInv, NoLeftovers, Idle, Pending, Store!Nothing

LEMMA PendingWhenDone ==
  ASSUME job' = NoJob
  PROVE  Pending' = Store!Nothing
BY DEF Pending, NoJob, Store!Nothing

(* Each step of a call is a step of a call to the store, or none.          *)
Implemented == Store!Call

LEMMA FailImplemented ==
  ASSUME StoreInv, Idle, UNCHANGED <<table, data, job>>,
         NEW op \in {"create", "delete", "write"}, reply' = Says(op, FALSE)
  PROVE  Implemented
<1>1. Pending = Store!Nothing /\ UNCHANGED <<Files, Pending>>
  BY PendingWhenIdle, FilesStay DEF Pending
<1>2. Store!Fail(op)
  BY <1>1 DEF Store!Fail, Store!Idle, Store!Says, Says, Files
<1> QED
  BY <1>2 DEF Implemented, Store!Call

LEMMA CreateImplemented ==
  ASSUME Faults \subseteq {"write"}, StoreInv, StoreInv',
         NEW f \in Name, simplefs_create(f)
  PROVE  Implemented
<1>1. Idle /\ UNCHANGED <<data, job>> /\ Pending = Store!Nothing
  BY PendingWhenIdle DEF simplefs_create
<1>2. CASE reply' = Says("create", FALSE) /\ UNCHANGED table
  BY <1>1, <1>2, FailImplemented
<1>3. ASSUME NEW k \in FreeSlot, NEW w \in ata_write_sector,
             {} \in simplefs_find(f),
             PutEntry(k, [name |-> f, start |-> 0, size |-> 0], w),
             reply' = Says("create", w.ok)
      PROVE  Implemented
  <2> DEFINE e == [name |-> f, start |-> 0, size |-> 0]
  <2>1. k \in Slot /\ ~ InUse(k) /\ \A j \in Slot : table[j].name # f
    BY <1>3, FreeIsUnused, NotFoundIsNotThere, HonestDisk
  <2>2. CASE ~ w.landed
    <3>1. reply' = Says("create", FALSE) /\ UNCHANGED table
      BY <1>3, <2>2, HonestDisk DEF PutEntry, Says
    <3> QED
      BY <1>2, <3>1
  <2>3. CASE w.landed
    <3>1. reply' = Says("create", TRUE)
      BY <1>3, <2>3, HonestDisk DEF Says
    <3>2. table' = [table EXCEPT ![k] = e]
      BY <1>3, <2>3 DEF PutEntry
    <3>3. table'[k] = e /\ \A j \in Slot \ {k} : table'[j] = table[j]
      BY <2>1, <3>2 DEF StoreInv, IInv, Types
    <3>4. FileOf(f) = Store!NoFile
      BY <2>1, NoFileNow
    <3>5. FileOf(f)' = Store!NewFile
      <4>1. e.start = 0 /\ e.name = f
        OBVIOUS
      <4>2. FileOf(f)' = HeldBy(e, data')
        BY <2>1, <3>3, <4>1, FileThen DEF StoreInv
      <4> HIDE DEF e
      <4> QED
        BY <4>1, <4>2 DEF HeldBy, Store!NewFile
    <3>6. ASSUME NEW g \in Name \ {f} PROVE FileOf(g)' = FileOf(g)
      <4>1. \A j \in Slot : table'[j].name = g <=> table[j].name = g
        <5>1. table[k].name = NoName /\ table'[k].name = f
          BY <2>1, <3>3 DEF InUse
        <5> QED
          BY <3>3, <3>6, <5>1, SimpleFSAssumption
      <4>2. table[k].name # g
        BY <2>1, <3>6, SimpleFSAssumption DEF InUse
      <4> QED
        BY <1>1, <3>3, <4>1, <4>2, FileStays DEF StoreInv
    <3>7. Files' = [Files EXCEPT ![f] = Store!NewFile]
      BY <3>5, <3>6, OneFileChanges
    <3>8. Store!Create(f)
      <4>1. ~ Files[f].there
        BY <3>4, FilesAre DEF Store!NoFile
      <4>2. UNCHANGED Pending
        BY <1>1, PendingWhenIdle DEF Idle, StoreInv, NoLeftovers, Pending
      <4> QED
        BY <1>1, <3>1, <3>7, <4>1, <4>2
           DEF Store!Create, Store!Idle, Store!Says, Says, Files
    <3> QED
      BY <3>8 DEF Implemented, Store!Call
  <2> QED
    BY <2>2, <2>3
<1>4. \/ reply' = Says("create", FALSE) /\ UNCHANGED table
      \/ /\ {} \in simplefs_find(f)
         /\ \E k \in FreeSlot, w \in ata_write_sector :
              /\ PutEntry(k, [name |-> f, start |-> 0, size |-> 0], w)
              /\ reply' = Says("create", w.ok)
  BY DEF simplefs_create
<1> QED
  BY <1>2, <1>3, <1>4

LEMMA DeleteImplemented ==
  ASSUME Faults \subseteq {"write"}, StoreInv, StoreInv',
         NEW f \in Name, simplefs_delete(f)
  PROVE  Implemented
<1>1. Idle /\ UNCHANGED <<data, job>> /\ Pending = Store!Nothing
  BY PendingWhenIdle DEF simplefs_delete
<1>2. CASE reply' = Says("delete", FALSE) /\ UNCHANGED table
  BY <1>1, <1>2, FailImplemented
<1>3. ASSUME NEW found \in simplefs_find(f), NEW k \in found,
             NEW w \in ata_write_sector, PutEntry(k, Unused, w),
             reply' = Says("delete", w.ok)
      PROVE  Implemented
  <2>1. k \in Slot /\ table[k].name = f
    BY <1>3, FoundHasName
  <2>2. CASE ~ w.landed
    <3>1. reply' = Says("delete", FALSE) /\ UNCHANGED table
      BY <1>3, <2>2, HonestDisk DEF PutEntry, Says
    <3> QED
      BY <1>2, <3>1
  <2>3. CASE w.landed
    <3>1. reply' = Says("delete", TRUE)
      BY <1>3, <2>3, HonestDisk DEF Says
    <3>2. table' = [table EXCEPT ![k] = Unused]
      BY <1>3, <2>3 DEF PutEntry
    <3>3. table'[k] = Unused /\ \A j \in Slot \ {k} : table'[j] = table[j]
      BY <2>1, <3>2 DEF StoreInv, IInv, Types
    <3>4. \A j \in Slot \ {k} : table[j].name # f
      BY <2>1, SimpleFSAssumption DEF StoreInv, UniqueNames, InUse
    <3>5. FileOf(f)' = Store!NoFile
      <4>1. \A j \in Slot : table'[j].name # f
        BY <3>3, <3>4, UnusedIsEntry, SimpleFSAssumption
      <4> QED
        BY <4>1, NoFileThen
    <3>6. ASSUME NEW g \in Name \ {f} PROVE FileOf(g)' = FileOf(g)
      <4>1. table[k].name # g /\ table'[k].name # g
        BY <2>1, <3>3, <3>6, UnusedIsEntry, SimpleFSAssumption
      <4> QED
        BY <1>1, <3>3, <4>1, FileStays DEF StoreInv
    <3>7. Files' = [Files EXCEPT ![f] = Store!NoFile]
      BY <3>5, <3>6, OneFileChanges
    <3>8. Store!Delete(f)
      <4>1. Files[f].there
        BY <2>1, FileNow, FilesAre DEF HeldBy, StoreInv
      <4>2. UNCHANGED Pending
        BY <1>1 DEF Idle, Pending
      <4> QED
        BY <1>1, <3>1, <3>7, <4>1, <4>2
           DEF Store!Delete, Store!Idle, Store!Says, Says, Files
    <3> QED
      BY <3>8 DEF Implemented, Store!Call
  <2> QED
    BY <2>2, <2>3
<1>4. \/ reply' = Says("delete", FALSE) /\ UNCHANGED table
      \/ \E found \in simplefs_find(f) : \E k \in found, w \in ata_write_sector :
           PutEntry(k, Unused, w) /\ reply' = Says("delete", w.ok)
  BY DEF simplefs_delete
<1> QED
  BY <1>2, <1>3, <1>4

LEMMA StoredIs ==
  ASSUME NEW e \in Entry, Extent(e) \subseteq Sector, data \in [Sector -> Data],
         e.start # 0
  PROVE  Stored(e) \in [1 .. e.size -> Data] /\ Len(Stored(e)) = e.size
<1>1. e.start \in Nat /\ e.size \in Nat
  BY SimpleFSAssumption DEF Entry
<1>2. \A j \in 1 .. e.size : e.start + j - 1 \in Extent(e)
  BY <1>1, ExtentIs
<1>3. Stored(e) \in [1 .. e.size -> Data]
  BY <1>2 DEF Stored
<1> QED
  BY <1>1, <1>3

(* A file that is there, as its name shows it.                             *)
LEMMA FileHeld ==
  ASSUME StoreInv, NEW f \in Name, NEW k \in Slot, table[k].name = f
  PROVE  /\ Files[f].there
         /\ Files[f].readable <=> table[k].start # 0
         /\ table[k].start # 0 =>
              Files[f].data = Stored(table[k]) /\ Len(Files[f].data) = table[k].size
<1>1. Files[f] = HeldBy(table[k], data)
  BY FileNow, FilesAre DEF StoreInv
<1>2. InUse(k) /\ table[k] \in Entry /\ data \in [Sector -> Data]
  BY SimpleFSAssumption DEF InUse, StoreInv, IInv, Types
<1>3. table[k].start # 0 => Len(Stored(table[k])) = table[k].size
  BY <1>2, StoredIs DEF StoreInv, IInv, NoSharedSectors
<1>4. Files[f].there /\ (Files[f].readable <=> table[k].start # 0)
  <2> DEFINE r == table[k].start # 0
             d == HeldBy(table[k], data).data
  <2>1. Files[f] = [there |-> TRUE, readable |-> r, data |-> d]
    BY <1>1 DEF HeldBy
  <2> HIDE DEF r, d
  <2>2. Files[f].there = TRUE /\ Files[f].readable = r
    BY <2>1
  <2> QED
    BY <2>2, Zenon DEF r
<1>5. table[k].start # 0 => Files[f].data = Stored(table[k])
  BY <1>1 DEF HeldBy, Stored
<1> QED
  BY <1>3, <1>4, <1>5

LEMMA ReadImplemented ==
  ASSUME Faults \subseteq {"write"}, StoreInv,
         NEW f \in Name, NEW room \in Room, simplefs_read(f, room)
  PROVE  Implemented
<1>1. Idle /\ UNCHANGED <<table, data, job>> /\ Pending = Store!Nothing
  BY PendingWhenIdle DEF simplefs_read
<1>2. UNCHANGED <<Files, Pending>>
  BY <1>1, FilesStay DEF Pending
<1>3. room \in Nat
  BY SimpleFSAssumption DEF Room
<1>4. reply' = IF Files[f].readable /\ Len(Files[f].data) <= room
               THEN [op |-> "read", ok |-> TRUE, data |-> Files[f].data]
               ELSE Says("read", FALSE)
  <2>1. CASE {} \in simplefs_find(f) /\ reply' = Says("read", FALSE)
    <3>1. \A k \in Slot : table[k].name # f
      BY <2>1, NotFoundIsNotThere, HonestDisk
    <3>2. ~ Files[f].readable
      BY <3>1, NoFileNow, FilesAre DEF Store!NoFile
    <3> QED
      BY <2>1, <3>2
  <2>2. ASSUME NEW found \in simplefs_find(f), NEW k \in found,
               table[k].start = 0 \/ room < table[k].size,
               reply' = Says("read", FALSE)
        PROVE  reply' = IF Files[f].readable /\ Len(Files[f].data) <= room
                        THEN [op |-> "read", ok |-> TRUE, data |-> Files[f].data]
                        ELSE Says("read", FALSE)
    <3>1. k \in Slot /\ table[k].name = f
      BY FoundHasName
    <3>2. table[k].size \in Nat
      BY <3>1, SimpleFSAssumption DEF StoreInv, IInv, Types, Entry
    <3>3. ~ (Files[f].readable /\ Len(Files[f].data) <= room)
      BY <1>3, <2>2, <3>1, <3>2, FileHeld
    <3> QED
      BY <2>2, <3>3
  <2>3. ASSUME NEW found \in simplefs_find(f), NEW k \in found,
               table[k].start # 0, room >= table[k].size,
               reply' = [op |-> "read", ok |-> TRUE, data |-> Stored(table[k])]
        PROVE  reply' = IF Files[f].readable /\ Len(Files[f].data) <= room
                        THEN [op |-> "read", ok |-> TRUE, data |-> Files[f].data]
                        ELSE Says("read", FALSE)
    <3>1. k \in Slot /\ table[k].name = f
      BY FoundHasName
    <3>2. table[k].size \in Nat
      BY <3>1, SimpleFSAssumption DEF StoreInv, IInv, Types, Entry
    <3>3. /\ Files[f].readable /\ Len(Files[f].data) <= room
          /\ Files[f].data = Stored(table[k])
      BY <1>3, <2>3, <3>1, <3>2, FileHeld
    <3> QED
      BY <2>3, <3>3
  <2>4. \/ {} \in simplefs_find(f) /\ reply' = Says("read", FALSE)
        \/ \E found \in simplefs_find(f) : \E k \in found :
             \/ (table[k].start = 0 \/ room < table[k].size)
                /\ reply' = Says("read", FALSE)
             \/ /\ table[k].start # 0 /\ room >= table[k].size
                /\ reply' = [op |-> "read", ok |-> TRUE, data |-> Stored(table[k])]
    BY HonestDisk DEF simplefs_read
  <2> QED
    BY <2>1, <2>2, <2>3, <2>4
<1>5. Store!Read(f, room)
  BY <1>1, <1>2, <1>4 DEF Store!Read, Store!Idle, Store!Says, Says, Files
<1> QED
  BY <1>5 DEF Implemented, Store!Call

LEMMA WriteBeginImplemented ==
  ASSUME Faults \subseteq {"write"}, StoreInv,
         NEW f \in Name, NEW c \in Content, WriteBegin(f, c)
  PROVE  Implemented
<1>1. Idle /\ UNCHANGED <<table, data>> /\ Pending = Store!Nothing
  BY PendingWhenIdle DEF WriteBegin
<1>2. CASE UNCHANGED job /\ reply' = Says("write", FALSE)
  BY <1>1, <1>2, FailImplemented
<1>3. ASSUME NEW found \in simplefs_find(f), NEW k \in found, NEW s,
             job' = Begun(k, s, c), reply' = NoReply
      PROVE  Implemented
  <2>1. k \in Slot /\ table[k].name = f
    BY FoundHasName
  <2>2. /\ job'.op = "write" /\ job'.slot = k /\ job'.data = c /\ job'.i = 0
        /\ job'.missed = "none" /\ table' = table
    BY <1>1, <1>3 DEF Begun
  <2>3. Pending' = [op |-> "write", name |-> f, data |-> c, done |-> 0,
                    missed |-> "none"]
    BY <2>1, <2>2 DEF Pending
  <2>4. Files[f].there /\ UNCHANGED Files
    BY <1>1, <2>1, FileHeld, FilesStay
  <2>5. Store!WriteBegin(f, c)
    BY <1>1, <1>3, <2>3, <2>4
       DEF Store!WriteBegin, Store!Idle, Store!NoReply, NoReply, Files
  <2> QED
    BY <2>5 DEF Implemented, Store!Call
<1> QED
  BY <1>2, <1>3, WriteBeginSets

(* A write in progress, as the store sees it.                              *)
LEMMA WriteShows ==
  ASSUME StoreInv, job.op = "write"
  PROVE  /\ job.slot \in Slot /\ table[job.slot].name \in Name
         /\ Pending.op = "write" /\ Pending.name = table[job.slot].name
         /\ Pending.data = job.data
         /\ Pending = [op |-> "write", name |-> table[job.slot].name,
                       data |-> job.data,
                       done |-> IF Fits(table[job.slot], Len(job.data))
                                THEN job.i ELSE 0,
                       missed |-> "none"]
<1>1. job.slot \in Slot /\ InUse(job.slot)
  BY DEF StoreInv, IInv, Types, Job, WritePart
<1>2. table[job.slot].name \in Name
  BY <1>1 DEF StoreInv, IInv, Types, Entry, InUse
<1>3. job.missed = "none"
  BY DEF StoreInv, NoLeftovers
<1> QED
  BY <1>1, <1>2, <1>3 DEF Pending

LEMMA WriteGivesUpImplemented ==
  ASSUME StoreInv, job.op = "write", WriteGivesUp, UNCHANGED <<table, data>>
  PROVE  Implemented
<1>1. /\ Pending.op = "write" /\ Pending' = Store!Nothing /\ UNCHANGED Files
      /\ reply' = Says("write", FALSE)
  BY WriteShows, PendingWhenDone, FilesStay DEF WriteGivesUp
<1>2. Store!WriteFailed
  BY <1>1 DEF Store!WriteFailed, Store!Says, Says, Files
<1> QED
  BY <1>2 DEF Implemented, Store!Call

(* The other names do not notice a sector of a write.                      *)
LEMMA OtherNamesStay ==
  ASSUME StoreInv, StoreInv', WriteSector,
         NEW g \in Name \ {table[job.slot].name}
  PROVE  FileOf(g)' = FileOf(g)
<1>1. /\ table' = table
      /\ \A k \in Slot \ {job.slot} : InUse(k) =>
           \A x \in Extent(table[k]) : data'[x] = data[x]
  BY NextSectorIs, WriteSectorTouches
     DEF WriteSector, StoreInv, IInv, NoSharedSectors
<1>2. \A k \in Slot : table[k].name = g => InUse(k) /\ k # job.slot
  BY SimpleFSAssumption DEF InUse
<1> QED
  BY <1>1, <1>2, FileStays DEF StoreInv

LEMMA WriteSectorImplemented ==
  ASSUME Faults \subseteq {"write"}, StoreInv, StoreInv', WriteSector
  PROVE  Implemented
<1> DEFINE x == job.start + job.i
<1>0. PICK k \in Slot, f \in Name : k = job.slot /\ f = table[k].name
  BY WriteShows DEF WriteSector
<1>1. /\ job.op = "write" /\ job.i < Len(job.data) /\ table' = table
      /\ job \in Job /\ Len(job.data) \in Nat
      /\ job.start \in Nat /\ job.i \in Nat /\ x \in Sector
      /\ k = job.slot /\ f = table[k].name /\ table[k] \in Entry
      /\ data \in [Sector -> Data]
  BY <1>0, NextSectorIs, ContentIs, SimpleFSAssumption
     DEF WriteSector, StoreInv, IInv, Types, Job
<1>2. CASE WriteGivesUp /\ UNCHANGED data
  BY <1>1, <1>2, WriteGivesUpImplemented
<1>3. CASE /\ data' = [data EXCEPT ![x] = job.data[job.i + 1]]
           /\ job' = [job EXCEPT !.i = job.i + 1] /\ UNCHANGED reply
  <2>1. /\ job'.op = "write" /\ job'.slot = k /\ job'.data = job.data
        /\ job'.start = job.start /\ job'.i = job.i + 1
        /\ job'.missed = "none"
    BY <1>1, <1>3 DEF Job, StoreInv, NoLeftovers
  <2>2. CASE Fits(table[k], Len(job.data))
    <3> DEFINE n == job.i + 1
               e == table[k]
               v == job.data[n]
    <3>1. /\ e.start # 0 /\ e.start \in Nat /\ e.size \in Nat
          /\ Len(job.data) <= e.size /\ job.start = e.start
      BY <1>1, <2>2, SimpleFSAssumption
         DEF StoreInv, IInv, WritePart, InPlace, Elsewhere, Fits, Entry
    <3>2. FileOf(f) = [there |-> TRUE, readable |-> TRUE, data |-> Stored(e)]
      BY <1>1, <3>1, FileNow DEF StoreInv, HeldBy, Stored
    <3>3. FileOf(f)' = [there |-> TRUE, readable |-> TRUE,
                        data |-> [j \in 1 .. e.size |-> data'[e.start + j - 1]]]
      BY <1>1, <3>1, FileThen DEF StoreInv, HeldBy
    <3>4. [j \in 1 .. e.size |-> data'[e.start + j - 1]] = [Stored(e) EXCEPT ![n] = v]
      <4>1. \A j \in 1 .. e.size :
              /\ e.start + j - 1 \in Sector
              /\ e.start + j - 1 = x <=> j = n
        <5>1. Extent(e) \subseteq Sector
          BY <1>1 DEF StoreInv, IInv, NoSharedSectors, WritePart
        <5>2. \A j \in 1 .. e.size : e.start + j - 1 \in Extent(e)
          BY <1>1, <3>1, ExtentIs
        <5>3. n = job.i + 1 /\ x = job.start + job.i /\ job.start = e.start
          BY <3>1
        <5> HIDE DEF e, v
        <5> QED
          BY <1>1, <3>1, <5>1, <5>2, <5>3
      <4> HIDE DEF v, x, n
      <4>2. \A j \in 1 .. e.size :
              data'[e.start + j - 1] = IF j = n THEN v ELSE data[e.start + j - 1]
        BY <1>1, <1>3, <4>1 DEF v, x, n
      <4> QED
        BY <4>2 DEF Stored
    <3>5. Len(Stored(e)) = e.size
      BY <1>1, <3>1, StoredIs DEF StoreInv, IInv, NoSharedSectors, WritePart
    <3>6. Files' = [Files EXCEPT ![f].data[n] = v]
      <4>1. FileOf(f)' = [FileOf(f) EXCEPT !.data = [Stored(e) EXCEPT ![n] = v]]
        <5> DEFINE new == [Stored(e) EXCEPT ![n] = v]
                   old == Stored(e)
        <5>1. FileOf(f)' = [there |-> TRUE, readable |-> TRUE, data |-> new]
          BY <3>3, <3>4
        <5>2. FileOf(f) = [there |-> TRUE, readable |-> TRUE, data |-> old]
          BY <3>2
        <5> HIDE DEF new, old
        <5>3. FileOf(f)' = [FileOf(f) EXCEPT !.data = new]
          BY <5>1, <5>2
        <5> QED
          BY <5>3 DEF new
      <4>2. Files[f] = FileOf(f) /\ FileOf(f).data = Stored(e)
        BY <1>1, <3>2, FilesAre
      <4>3. Files' = [Files EXCEPT ![f] = [FileOf(f) EXCEPT !.data = [Stored(e) EXCEPT ![n] = v]]]
        BY <1>1, <4>1, OneFileChanges, OtherNamesStay
      <4> HIDE DEF n, v, e
      <4> QED
        BY <4>2, <4>3
    <3>7. /\ Pending = [op |-> "write", name |-> f, data |-> job.data,
                        done |-> job.i, missed |-> "none"]
          /\ Pending' = [op |-> "write", name |-> f, data |-> job.data,
                         done |-> n, missed |-> "none"]
      <4>1. Fits(table[k], Len(job.data))'
        BY <1>1, <2>1, <2>2 DEF Fits
      <4> QED
        BY <1>1, <2>1, <2>2, <4>1, WriteShows DEF Pending
    <3>8. Store!Overwrite
      <4>1. /\ Pending.op = "write" /\ Pending.name = f /\ Pending.data = job.data
            /\ Pending.done + 1 = n /\ Pending' = [Pending EXCEPT !.done = n]
        BY <3>7
      <4>2. Len(Files[f].data) = e.size /\ n <= Len(job.data)
        BY <1>1, <3>2, <3>5, FilesAre
      <4> HIDE DEF n, v, e
      <4> QED
        BY <1>3, <3>1, <3>6, <4>1, <4>2 DEF Store!Overwrite, Files, v
    <3> QED
      BY <3>8 DEF Implemented, Store!Call
  <2>3. CASE ~ Fits(table[k], Len(job.data))
    <3>1. Pending' = Pending
      <4>1. ~ Fits(table[k], Len(job.data))'
        BY <1>1, <2>1, <2>3 DEF Fits
      <4> QED
        BY <1>1, <2>1, <2>3, <4>1, WriteShows DEF Pending
    <3>2. FileOf(f)' = FileOf(f)
      <4>1. x \notin Extent(table[k]) /\ Extent(table[k]) \subseteq Sector
        BY <1>1, <2>3, NextSectorIs DEF StoreInv, IInv, NoSharedSectors, WritePart
      <4>2. \A y \in Extent(table[k]) : data'[y] = data[y]
        BY <1>1, <1>3, <4>1
      <4>3. \A j \in Slot : table[j].name = f => j = k
        BY <1>1, SimpleFSAssumption DEF StoreInv, UniqueNames, InUse
      <4> QED
        BY <1>1, <4>2, <4>3, FileStays DEF StoreInv
    <3>3. Files' = Files
      BY <1>1, <3>2, OtherNamesStay, FilesAre
    <3> QED
      BY <1>3, <3>1, <3>3 DEF Implemented, Store!Call, Files
  <2> QED
    BY <2>2, <2>3
<1> QED
  BY <1>2, <1>3, HonestDisk DEF WriteSector

LEMMA WriteEntryImplemented ==
  ASSUME Faults \subseteq {"write"}, StoreInv, StoreInv', WriteEntry
  PROVE  Implemented
<1>1. job.op = "write" /\ job.i = Len(job.data) /\ data' = data
  BY DEF WriteEntry
<1>2. PICK k \in Slot, f \in Name : k = job.slot /\ f = table[k].name
  BY <1>1, WriteShows
<1>3. CASE WriteGivesUp /\ UNCHANGED table
  BY <1>1, <1>3, WriteGivesUpImplemented
<1>4. ASSUME NEW w \in ata_write_sector, PutEntry(k, NewEntry, w), job' = NoJob,
             reply' = Says("write", w.ok)
      PROVE  Implemented
  <2>1. CASE ~ w.landed
    <3>1. WriteGivesUp /\ UNCHANGED table
      BY <1>4, <2>1, HonestDisk DEF PutEntry, WriteGivesUp, Says
    <3> QED
      BY <1>3, <3>1
  <2>2. CASE w.landed
    <3>1. reply' = Says("write", TRUE)
      BY <1>4, <2>2, HonestDisk DEF Says
    <3>2. table'[k] = NewEntry /\ \A j \in Slot \ {k} : table'[j] = table[j]
      BY <1>4, <2>2 DEF PutEntry, StoreInv, IInv, Types
    <3>3. /\ NewEntry.name = f /\ NewEntry.start = job.start /\ NewEntry.start # 0
          /\ NewEntry.size = Len(job.data)
      BY <1>1, <1>2, NewEntryIs DEF StoreInv
    <3>4. [j \in 1 .. Len(job.data) |-> data[job.start + j - 1]] = job.data
      <4>1. /\ job.data \in Content /\ Len(job.data) \in Nat /\ job.start \in Nat
        BY ContentIs, SimpleFSAssumption DEF StoreInv, IInv, Types, Job
      <4>2. ASSUME NEW j \in 1 .. Len(job.data)
            PROVE  data[job.start + j - 1] = job.data[j]
        <5>1. j - 1 \in 0 .. job.i - 1
          BY <1>1, <4>1
        <5>2. data[job.start + (j - 1)] = job.data[(j - 1) + 1]
          BY <1>1, <5>1 DEF StoreInv, Copied
        <5>3. job.start + (j - 1) = job.start + j - 1 /\ (j - 1) + 1 = j
          BY <4>1
        <5> QED
          BY <5>2, <5>3
      <4>3. [j \in 1 .. Len(job.data) |-> data[job.start + j - 1]]
              = [j \in 1 .. Len(job.data) |-> job.data[j]]
        BY <4>2
      <4> QED
        BY <4>1, <4>3, WholeContent
    <3>5. FileOf(f)' = Store!File(job.data)
      <4>1. FileOf(f)' = HeldBy(NewEntry, data')
        BY <3>2, <3>3, FileThen DEF StoreInv
      <4>2. HeldBy(NewEntry, data') = Store!File(job.data)
        BY <1>1, <3>3, <3>4 DEF HeldBy, Store!File
      <4> QED
        BY <4>1, <4>2
    <3>6. ASSUME NEW g \in Name \ {f} PROVE FileOf(g)' = FileOf(g)
      <4>1. table[k].name # g /\ table'[k].name # g
        BY <1>2, <3>2, <3>3
      <4> QED
        BY <1>1, <3>2, <4>1, FileStays DEF StoreInv
    <3>7. Files' = [Files EXCEPT ![f] = Store!File(job.data)]
      BY <3>5, <3>6, OneFileChanges
    <3>8. /\ Pending.op = "write" /\ Pending.name = f /\ Pending.data = job.data
          /\ Pending' = Store!Nothing
      BY <1>1, <1>2, <1>4, WriteShows, PendingWhenDone
    <3>9. Store!WriteDone
      BY <3>1, <3>7, <3>8 DEF Store!WriteDone, Store!Says, Says, Files
    <3> QED
      BY <3>9 DEF Implemented, Store!Call
  <2> QED
    BY <2>1, <2>2
<1> QED
  BY <1>2, <1>3, <1>4 DEF WriteEntry, NewEntry

LEMMA FormatSectorImplemented ==
  ASSUME Faults \subseteq {"write"}, StoreInv, StoreInv', FormatSector
  PROVE  Implemented
<1> DEFINE S == {f \in Name : \A k \in Slot : table'[k].name # f}
           mayMiss == Faults \cap {"write", "lost"} # {}
<1>1. job.op = "format" /\ data' = data /\ Pending.op = "format"
  BY DEF FormatSector, Pending
<1>2. \A k \in Slot : table'[k] \in {Unused, table[k]}
  BY DEF FormatSector
<1>3. ASSUME NEW f \in S PROVE FileOf(f)' = Store!NoFile
  BY <1>3, NoFileThen
<1>4. ASSUME NEW f \in Name \ S PROVE FileOf(f)' = FileOf(f)
  <2>1. PICK k \in Slot : table'[k].name = f
    BY <1>4
  <2>2. table'[k] = table[k]
    BY <1>2, <2>1, UnusedIsEntry, SimpleFSAssumption
  <2>3. \A j \in Slot : table[j].name = f => j = k
    BY <2>1, <2>2, SimpleFSAssumption DEF StoreInv, UniqueNames, InUse
  <2>4. \A j \in Slot : table'[j].name = f => j = k
    BY <2>1, SimpleFSAssumption DEF StoreInv, UniqueNames, InUse
  <2> QED
    BY <1>1, <2>1, <2>2, <2>3, <2>4, FileStays DEF StoreInv
<1>5. Files' = [f \in Name |-> IF f \in S THEN Store!NoFile ELSE Files[f]]
  BY <1>3, <1>4, FilesAre
<1>6. /\ UNCHANGED reply
      /\ \/ UNCHANGED Pending
         \/ mayMiss /\ Pending' = [Pending EXCEPT !.missed = "some"]
  <2>1. PICK w \in ata_write_sector :
          job' = [job EXCEPT !.i = @ + PerSector,
                             !.missed = IF w.landed THEN @ ELSE "some"]
    BY DEF FormatSector
  <2>2. /\ job'.op = "format" /\ job'.data = job.data
        /\ job'.missed = IF w.landed THEN job.missed ELSE "some"
    BY <1>1, <2>1 DEF StoreInv, IInv, Types, Job
  <2>3. /\ Pending = [op |-> "format", name |-> NoName, data |-> job.data,
                      done |-> 0, missed |-> job.missed]
        /\ Pending' = [op |-> "format", name |-> NoName, data |-> job.data,
                       done |-> 0, missed |-> job'.missed]
    BY <1>1, <2>2 DEF Pending
  <2>4. ~ w.landed => mayMiss
    <3>1. ~ w.landed => "write" \in Faults \/ "lost" \in Faults
      BY DEF ata_write_sector, Written
    <3> QED
      BY <3>1
  <2>5. ~ w.landed => Pending' = [Pending EXCEPT !.missed = "some"]
    BY <2>2, <2>3
  <2>6. w.landed => Pending' = Pending
    BY <2>2, <2>3
  <2> QED
    BY <2>4, <2>5, <2>6 DEF FormatSector
<1> HIDE DEF S
<1>7. S \subseteq Name
  BY DEF S
<1>8. Store!Erase(S)
  BY <1>1, <1>5, <1>6 DEF Store!Erase, Files
<1> QED
  BY <1>7, <1>8 DEF Implemented, Store!Call

LEMMA FormatBeginImplemented ==
  ASSUME StoreInv, FormatBegin
  PROVE  Implemented
<1>1. Pending = Store!Nothing /\ UNCHANGED Files
  BY PendingWhenIdle, FilesStay DEF FormatBegin
<1>2. Pending' = [Store!Nothing EXCEPT !.op = "format"]
  BY DEF FormatBegin, Pending, NoJob, Store!Nothing
<1>3. Store!FormatBegin
  BY <1>1, <1>2 DEF FormatBegin, Store!FormatBegin, Store!Idle, Store!NoReply,
                    NoReply, Files
<1> QED
  BY <1>3 DEF Implemented, Store!Call

(* At the end of a format that missed nothing no entry is in use.          *)
LEMMA FormatDoneImplemented ==
  ASSUME StoreInv, FormatDone
  PROVE  Store!FormatDone
<1>1. /\ job.op = "format" /\ job.i >= EntryCount /\ job' = NoJob
      /\ reply' = Says("format", TRUE) /\ UNCHANGED <<table, data, safe>>
  BY DEF FormatDone
<1>2. Pending.op = "format" /\ Pending.missed = job.missed /\ job.missed \in {"none", "some"}
  BY <1>1 DEF Pending, StoreInv, IInv, Types, Job
<1>3. ASSUME job.missed = "none", NEW f \in Name
      PROVE  ~ Files[f].there
  <2>1. \A k \in Slot : k < job.i
    BY <1>1, SimpleFSAssumption DEF Slot, StoreInv, IInv, Types, Job
  <2>2. \A k \in Slot : table[k].name # f
    BY <1>1, <1>3, <2>1, SimpleFSAssumption DEF StoreInv, Emptied
  <2> QED
    BY <2>2, NoFileNow, FilesAre DEF Store!NoFile
<1>4. Pending' = Store!Nothing /\ UNCHANGED Files /\ UNCHANGED FilesIn(safe)
  BY <1>1, PendingWhenDone, FilesStay DEF FilesIn, FileIn
<1> QED
  BY <1>1, <1>2, <1>3, <1>4 DEF Store!FormatDone, Store!Says, Says, Files

LEMMA PowerLossImplemented ==
  ASSUME PowerLoss
  PROVE  Store!PowerLoss
<1>1. Pending' = Store!Nothing /\ reply' = NoReply
  BY PendingWhenDone DEF PowerLoss
<1>2. FilesIn(safe)' = Files'
  BY DEF PowerLoss, Files, FilesIn, FileIn
<1>3. Files' = Files \/ Files' = FilesIn(safe)
  BY FilesStay DEF PowerLoss, Files, FilesIn, FileIn, Disk
<1> QED
  BY <1>1, <1>2, <1>3 DEF Store!PowerLoss, Store!NoReply, NoReply, Files

LEMMA CallImplements ==
  ASSUME Faults \subseteq {"write"}, StoreInv, StoreInv', Step
  PROVE  Implemented
<1>1. ASSUME NEW f \in Name, simplefs_create(f) PROVE Implemented
  BY <1>1, CreateImplemented
<1>2. ASSUME NEW f \in Name, simplefs_delete(f) PROVE Implemented
  BY <1>2, DeleteImplemented
<1>3. ASSUME NEW f \in Name, NEW room \in Room, simplefs_read(f, room)
      PROVE  Implemented
  BY <1>3, ReadImplemented
<1>4. ASSUME NEW f \in Name, NEW c \in Content, WriteBegin(f, c)
      PROVE  Implemented
  BY <1>4, WriteBeginImplemented
<1>5. CASE WriteSector
  BY <1>5, WriteSectorImplemented
<1>6. CASE WriteEntry
  BY <1>6, WriteEntryImplemented
<1>7. CASE FormatBegin
  BY <1>7, FormatBeginImplemented
<1>8. CASE FormatSector
  BY <1>8, FormatSectorImplemented
<1> QED
  BY <1>1, <1>2, <1>3, <1>4, <1>5, <1>6, <1>7, <1>8 DEF Step

LEMMA StepImplements ==
  ASSUME Faults \subseteq {"write"}, Held, Held', [Next]_vars
  PROVE  [Store!Next]_(Store!vars)
<1>1. CASE Step /\ DriveStores
  <2>1. Store!Call
    BY <1>1, CallImplements DEF Held, Implemented
  <2>2. FilesIn(safe)' = FilesIn(Disk)
    BY <1>1 DEF DriveStores, FilesIn, FileIn
  <2> QED
    BY <2>1, <2>2 DEF Store!Next
<1>2. CASE FormatDone
  BY <1>2, FormatDoneImplemented DEF Held, Store!Next
<1>3. CASE PowerLoss
  BY <1>3, PowerLossImplemented DEF Store!Next
<1>4. CASE UNCHANGED vars
  <2>1. UNCHANGED <<Pending, reply>> /\ UNCHANGED Files /\ UNCHANGED FilesIn(safe)
    BY <1>4, FilesStay DEF vars, Pending, Fits, FilesIn, FileIn
  <2> QED
    BY <2>1 DEF Store!vars, Files
<1> QED
  BY <1>1, <1>2, <1>3, <1>4 DEF Next

(* simplefs.c keeps the promise of FileStore on every disk that can be     *)
(* read and reports the writes that fail: create, delete, read and write   *)
(* do what they say or nothing, but for an overwrite stopped half way;     *)
(* format, which always reports success, leaves no file unless the disk    *)
(* missed a sector of the table; and a loss of power at any time, also     *)
(* before the drive has stored a sector that was reported written, takes   *)
(* back one step at most.                                                  *)
THEOREM Refinement ==
  ASSUME Faults \subseteq {"write"}
  PROVE  Spec => ImplementsStore
<1>1. Init => Held /\ Store!Init
  <2> SUFFICES ASSUME Init PROVE Held /\ Store!Init
    OBVIOUS
  <2>1. Held /\ StoreInv /\ Idle /\ reply = Store!NoReply
    BY InitStoreInv, InitInv, InitNames, NoJobIsJob
       DEF Init, Idle, NoReply, Store!NoReply, Held
  <2>2. ASSUME NEW f \in Name PROVE FileOf(f) = Store!NoFile
    BY UnusedIsEntry, SimpleFSAssumption, NoFileNow DEF Init
  <2>3. Files = [f \in Name |-> Store!NoFile] /\ FilesIn(safe) = Files
    BY <2>2, FilesAre DEF Init, Files
  <2> QED
    BY <2>1, <2>3, PendingWhenIdle DEF Store!Init, Files
<1>2. Held /\ [Next]_vars => Held'
  BY NextHeld
<1>3. Held /\ Held' /\ [Next]_vars => [Store!Next]_(Store!vars)
  BY StepImplements
<1> QED
  BY <1>1, <1>2, <1>3, PTL DEF Spec, ImplementsStore, Store!Spec

=============================================================================
