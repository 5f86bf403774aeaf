-------------------------- MODULE ElfLoaderProofs --------------------------
(***************************************************************************)
(* Proofs about ElfLoader, for every file whose headers can be trusted,    *)
(* every layout of memory with heap and programs apart, and whatever       *)
(* earlier programs have left.                                             *)
(*                                                                         *)
(* The argument: the image lies in the heap and segments go to the area of *)
(* programs, so the headers read in a later turn of the loop are still     *)
(* those of the file.                                                      *)
(***************************************************************************)
EXTENDS ElfLoader, SequenceTheorems, TLAPS

(***************************************************************************)
(* Files                                                                   *)
(***************************************************************************)
LEMMA FileIs ==
  ASSUME NEW f \in File
  PROVE  /\ f \in Seq(Content) /\ Len(f) \in Nat
         /\ \A n \in 1 .. Len(f) : f[n] \in Content
         /\ f # <<>> => Len(f) > 0
BY ElfLoaderAssumption

(* What Sound promises, number by number.                                  *)
LEMMA ExecutableIs ==
  ASSUME NEW f \in File, Executable(f)
  PROVE  /\ Len(f) \in Nat /\ Len(f) > 0
         /\ f[1].phoff \in Nat /\ f[1].phnum \in Nat
         /\ f[1].phoff + f[1].phnum <= Len(f)
         /\ DOMAIN Segments(f) = 0 .. f[1].phnum - 1
         /\ \A k \in 0 .. f[1].phnum - 1 :
              /\ Segments(f)[k] = f[1 + f[1].phoff + k]
              /\ Segments(f)[k] \in Elf32_Phdr
         /\ \A k \in Loads(f) :
              /\ k \in 0 .. f[1].phnum - 1
              /\ Segments(f)[k].offset + Segments(f)[k].filesz <= Len(f)
              /\ Covers(Segments(f)[k]) \subseteq Area
<1>1. f \in Seq(Content) /\ Len(f) \in Nat /\ f # <<>> /\ f[1] \in Elf32_Ehdr
  BY FileIs DEF Executable
<1>2. Len(f) > 0
  BY <1>1
<1>3. f[1].phoff \in Nat /\ f[1].phnum \in Nat
  BY <1>1 DEF Elf32_Ehdr
<1>4. Sound(f)
  BY ElfLoaderAssumption
<1>5. DOMAIN Segments(f) = 0 .. f[1].phnum - 1
  BY DEF Segments
<1>6. \A k \in 0 .. f[1].phnum - 1 : Segments(f)[k] = f[1 + f[1].phoff + k]
  BY DEF Segments
<1>7. Loads(f) \subseteq DOMAIN Segments(f)
  BY DEF Loads
<1> QED
  BY <1>1, <1>2, <1>3, <1>4, <1>5, <1>6, <1>7 DEF Sound

LEMMA CoversIs ==
  \A s \in Elf32_Phdr : \A a \in Nat :
    /\ a \in s.vaddr .. s.vaddr + s.filesz - 1 \/ a \in Zeroed(s) <=> a \in Covers(s)
    /\ a \in Covers(s) => (a < s.vaddr + s.filesz <=> a \in s.vaddr .. s.vaddr + s.filesz - 1)
<1> SUFFICES ASSUME NEW s \in Elf32_Phdr, NEW a \in Nat
             PROVE  /\ (a \in s.vaddr .. s.vaddr + s.filesz - 1 \/ a \in Zeroed(s))
                         <=> a \in Covers(s)
                    /\ a \in Covers(s) =>
                         (a < s.vaddr + s.filesz
                            <=> a \in s.vaddr .. s.vaddr + s.filesz - 1)
  OBVIOUS
<1>1. s.vaddr \in Nat /\ s.filesz \in Nat /\ s.memsz \in Nat
  BY DEF Elf32_Phdr
<1> QED
  BY <1>1 DEF Covers, Zeroed

(***************************************************************************)
(* The invariant                                                           *)
(***************************************************************************)
Types ==
  /\ mem \in [Address -> Content]
  /\ pc \in {"idle", "read", "check", "segments", "program"}
  /\ i \in Nat

(* between calls there is neither file nor buffer; during one the buffer   *)
(* is as long as the file                                                  *)
BufferPart ==
  /\ pc = "idle" => file = <<>> /\ buffer = {} /\ i = 0
  /\ pc # "idle" =>
       /\ file \in File /\ file # <<>>
       /\ \E a \in Heap : buffer = a .. a + Len(file) - 1
       /\ buffer \subseteq Heap

(* the buffer holds the file as long as the loader reads from it           *)
ImagePart ==
  pc \in {"check", "segments"} =>
    \A n \in 1 .. Len(file) : mem[Image + n - 1] = file[n]

LoopPart ==
  /\ pc \in {"read", "check"} => i = 0
  /\ pc \in {"segments", "program"} => Executable(file)
  /\ pc = "segments" => i <= file[1].phnum

(* the segments before the i-th are where they belong, but for what a      *)
(* later one has covered                                                   *)
Loaded(n) ==
  \A k \in Loads(file) : \A a \in Covers(Segments(file)[k]) :
    (k < n /\ \A m \in Loads(file) :
                m > k /\ m < n => a \notin Covers(Segments(file)[m]))
      => mem[a] = Said(file, Segments(file)[k], a)

LoadedPart == pc = "segments" => Loaded(i)

IInv == Types /\ BufferPart /\ ImagePart /\ LoopPart /\ LoadedPart

-----------------------------------------------------------------------------
(* Where the image is.                                                     *)
LEMMA ImageIs ==
  ASSUME BufferPart, pc # "idle"
  PROVE  /\ Image \in Heap /\ Image \in Nat
         /\ buffer = Image .. Image + Len(file) - 1
         /\ buffer \subseteq Heap
<1>1. PICK a \in Heap : buffer = a .. a + Len(file) - 1
  BY DEF BufferPart
<1>2. Len(file) \in Nat /\ Len(file) > 0 /\ a \in Nat
  BY FileIs, ElfLoaderAssumption DEF BufferPart, Address
<1>3. a \in buffer /\ \A b \in buffer : a <= b
  BY <1>1, <1>2
<1>4. \A c \in buffer : (\A b \in buffer : c <= b) => c = a
  BY <1>1, <1>2, <1>3
<1>5. Image = a
  BY <1>3, <1>4 DEF Image
<1> QED
  BY <1>1, <1>2, <1>5 DEF BufferPart

(* What the loader reads in the image is what the file says.               *)
LEMMA ImageRead ==
  ASSUME IInv, pc \in {"check", "segments"}
  PROVE  /\ file \in File /\ ehdr = file[1]
         /\ (pc = "segments" /\ i < file[1].phnum) =>
              segment = Segments(file)[i] /\ i \in 0 .. file[1].phnum - 1
<1>1. file \in File /\ Len(file) \in Nat /\ Len(file) > 0 /\ Image \in Nat
  BY FileIs, ImageIs DEF IInv, BufferPart
<1>2. ehdr = file[1]
  <2>1. 1 \in 1 .. Len(file) /\ Image + 1 - 1 = Image
    BY <1>1
  <2>2. mem[Image + 1 - 1] = file[1]
    BY <2>1 DEF IInv, ImagePart
  <2> QED
    BY <2>1, <2>2 DEF ehdr
<1>3. ASSUME pc = "segments", i < file[1].phnum
      PROVE  segment = Segments(file)[i] /\ i \in 0 .. file[1].phnum - 1
  <2>1. /\ file[1].phoff \in Nat /\ file[1].phnum \in Nat
        /\ file[1].phoff + file[1].phnum <= Len(file)
        /\ \A k \in 0 .. file[1].phnum - 1 :
             Segments(file)[k] = file[1 + file[1].phoff + k]
    BY <1>1, <1>3, ExecutableIs DEF IInv, LoopPart
  <2>2. i \in 0 .. file[1].phnum - 1
    BY <1>3, <2>1 DEF IInv, Types
  <2> DEFINE n == 1 + file[1].phoff + i
  <2>3. n \in 1 .. Len(file) /\ Image + file[1].phoff + i = Image + n - 1
    BY <1>1, <2>1, <2>2
  <2>4. mem[Image + n - 1] = file[n]
    BY <2>3 DEF IInv, ImagePart
  <2> QED
    BY <1>2, <2>1, <2>2, <2>3, <2>4 DEF segment
<1> QED
  BY <1>1, <1>2, <1>3

(***************************************************************************)
(* Every step keeps the invariant                                          *)
(***************************************************************************)
LEMMA ByteIs == \A b \in Byte : Cell(b) \in Content
BY DEF Cell, Content

LEMMA InitIInv == Init => IInv
<1> SUFFICES ASSUME Init PROVE IInv
  OBVIOUS
<1>1. Code \in Byte /\ 0 \in Byte
  BY ElfLoaderAssumption DEF Code
<1>2. mem \in [Address -> Content]
  BY <1>1, ByteIs DEF Init
<1> QED
  BY <1>2 DEF Init, IInv, Types, BufferPart, ImagePart, LoopPart, LoadedPart

LEMMA ReturnIInv ==
  ASSUME NEW r, Return(r), mem' \in [Address -> Content]
  PROVE  IInv'
BY DEF Return, IInv, Types, BufferPart, ImagePart, LoopPart, LoadedPart

LEMMA ExecIInv ==
  ASSUME IInv, NEW f \in File \cup {<<>>}, Exec(f)
  PROVE  IInv'
<1>1. CASE Return(-1) /\ UNCHANGED mem
  BY <1>1, ReturnIInv DEF IInv, Types
<1>2. ASSUME f # <<>>, NEW a \in Heap, buffer' = a .. a + Len(f) - 1,
             buffer' \subseteq Heap, pc' = "read", file' = f,
             UNCHANGED <<mem, i>>, pc = "idle"
      PROVE  IInv'
  BY <1>2 DEF IInv, Types, BufferPart, ImagePart, LoopPart, LoadedPart
<1> QED
  BY <1>1, <1>2 DEF Exec

LEMMA FilledIs ==
  ASSUME IInv, pc = "read", NEW n \in 0 .. Len(file)
  PROVE  /\ Filled(n) \in [Address -> Content]
         /\ \A a \in Address : Filled(n)[a] # mem[a] => a \in buffer
         /\ \A j \in 1 .. n : Filled(n)[Image + j - 1] = file[j]
<1>1. /\ Image \in Nat /\ buffer = Image .. Image + Len(file) - 1
      /\ buffer \subseteq Address
  BY ImageIs DEF IInv, Address
<1>2. Len(file) \in Nat /\ \A j \in 1 .. Len(file) : file[j] \in Content
  BY FileIs DEF IInv, BufferPart
<1>3. \A a \in Address : a \in Nat
  BY ElfLoaderAssumption
<1>4. \A a \in Address :
        a \in Image .. Image + n - 1 => a - Image + 1 \in 1 .. Len(file) /\ a \in buffer
  BY <1>1, <1>2, <1>3
<1>5. \A a \in Address :
        Filled(n)[a] = IF a \in Image .. Image + n - 1 THEN file[a - Image + 1] ELSE mem[a]
  BY DEF Filled
<1>6. Filled(n) \in [Address -> Content]
  BY <1>2, <1>4 DEF Filled, IInv, Types
<1>7. ASSUME NEW j \in 1 .. n PROVE Filled(n)[Image + j - 1] = file[j]
  <2>1. /\ Image + j - 1 \in Image .. Image + n - 1
        /\ (Image + j - 1) - Image + 1 = j /\ Image + j - 1 \in buffer
    BY <1>1, <1>2
  <2> QED
    BY <1>1, <1>5, <2>1
<1> QED
  BY <1>4, <1>5, <1>6, <1>7

LEMMA ReadIInv ==
  ASSUME IInv, ReadFails \/ ReadFile
  PROVE  IInv'
<1>1. CASE ReadFails
  <2>1. PICK n \in 0 .. Len(file) - 1 : mem' = Filled(n)
    BY <1>1 DEF ReadFails
  <2>2. Len(file) \in Nat
    BY <1>1, FileIs DEF IInv, BufferPart, ReadFails
  <2>3. n \in 0 .. Len(file)
    BY <2>2
  <2> QED
    BY <1>1, <2>1, <2>3, FilledIs, ReturnIInv DEF ReadFails
<1>2. CASE ReadFile
  <2>1. pc = "read" /\ mem' = Filled(Len(file)) /\ Len(file) \in Nat
    BY <1>2, FileIs DEF IInv, BufferPart, ReadFile
  <2>2. Len(file) \in 0 .. Len(file)
    BY <2>1
  <2>3. /\ mem' \in [Address -> Content]
        /\ \A j \in 1 .. Len(file) : mem'[Image + j - 1] = file[j]
    BY <2>1, <2>2, FilledIs
  <2>4. Image' = Image
    BY <1>2 DEF ReadFile, Image
  <2> QED
    BY <1>2, <2>3, <2>4
       DEF ReadFile, IInv, Types, BufferPart, ImagePart, LoopPart, LoadedPart
<1> QED
  BY <1>1, <1>2

LEMMA CheckIInv ==
  ASSUME IInv, Refuse \/ Check
  PROVE  IInv'
<1>1. CASE Refuse
  BY <1>1, ReturnIInv DEF Refuse, IInv, Types
<1>2. CASE Check
  <2>1. Executable(file) /\ i = 0
    BY <1>2, ImageRead DEF Check, Accepted, Executable, IInv, BufferPart, LoopPart
  <2>2. file[1].phnum \in Nat /\ Loads(file) \subseteq Nat
    <3>1. /\ file[1].phnum \in Nat
          /\ \A k \in Loads(file) : k \in 0 .. file[1].phnum - 1
      BY <1>2, <2>1, ExecutableIs DEF Check, IInv, BufferPart
    <3> QED
      BY <3>1
  <2>3. Loaded(0)
    BY <2>2 DEF Loaded
  <2>4. Image' = Image /\ UNCHANGED <<mem, file, buffer, i>>
    BY <1>2 DEF Check, Image
  <2>5. Loaded(i)'
    BY <2>1, <2>3, <2>4 DEF Loaded
  <2> QED
    BY <1>2, <2>1, <2>2, <2>4, <2>5
       DEF Check, IInv, Types, BufferPart, ImagePart, LoopPart, LoadedPart
<1> QED
  BY <1>1, <1>2

(* The byte for address a of a segment is the n-th of the file.            *)
LEMMA CopiedFrom ==
  \A vaddr, filesz, offset, size, image, a \in Nat :
    (vaddr <= a /\ a <= vaddr + filesz - 1 /\ offset + filesz <= size) =>
      \E n \in 1 .. size :
        /\ 1 + offset + a - vaddr = n
        /\ image + offset + a - vaddr = image + n - 1
        /\ image + n - 1 \in image .. image + size - 1
<1> SUFFICES ASSUME NEW vaddr \in Nat, NEW filesz \in Nat, NEW offset \in Nat,
                    NEW size \in Nat, NEW image \in Nat, NEW a \in Nat,
                    vaddr <= a, a <= vaddr + filesz - 1, offset + filesz <= size
             PROVE  \E n \in 1 .. size :
                      /\ 1 + offset + a - vaddr = n
                      /\ image + offset + a - vaddr = image + n - 1
                      /\ image + n - 1 \in image .. image + size - 1
  OBVIOUS
<1> DEFINE n == 1 + offset + a - vaddr
<1>1. n \in 1 .. size
  OBVIOUS
<1>2. /\ image + offset + a - vaddr = image + n - 1
      /\ image + n - 1 \in image .. image + size - 1
  BY <1>1
<1> QED
  BY <1>1, <1>2

(* One turn of the loop over the program headers has put this segment in   *)
(* place; the segments before it are where they were, but for what it      *)
(* covers.                                                                 *)
LEMMA LoadSegmentPuts ==
  ASSUME IInv, LoadSegment
  PROVE  LET s == Segments(file)[i]
         IN  /\ i \in Loads(file) /\ Covers(s) \subseteq Area
             /\ mem' \in [Address -> Content]
             /\ \A a \in Covers(s) : mem'[a] = Said(file, s, a)
             /\ \A a \in Address \ Covers(s) : mem'[a] = mem[a]
<1> DEFINE s == Segments(file)[i]
<1>1. /\ pc = "segments" /\ file \in File /\ ehdr = file[1]
      /\ segment = s /\ i \in 0 .. file[1].phnum - 1 /\ Executable(file)
  BY ImageRead DEF LoadSegment, IInv, LoopPart
<1>2. /\ s \in Elf32_Phdr /\ i \in Loads(file)
      /\ s.offset + s.filesz <= Len(file) /\ Covers(s) \subseteq Area
  <2>1. i \in Loads(file)
    BY <1>1, ExecutableIs DEF LoadSegment, Loads
  <2> QED
    BY <1>1, <2>1, ExecutableIs
<1> HIDE DEF s
<1>3. /\ s.vaddr \in Nat /\ s.filesz \in Nat /\ s.memsz \in Nat /\ s.offset \in Nat
      /\ Len(file) \in Nat /\ Image \in Nat
      /\ buffer = Image .. Image + Len(file) - 1 /\ buffer \subseteq Heap
  BY <1>1, <1>2, FileIs, ImageIs DEF Elf32_Phdr, IInv
<1> DEFINE copied == s.vaddr .. s.vaddr + s.filesz - 1
<1>4. mem' = [a \in Address |->
                IF a \in copied THEN mem[Image + s.offset + a - s.vaddr]
                ELSE IF a \in Zeroed(s) THEN Cell(0) ELSE mem[a]]
  BY <1>1 DEF LoadSegment
<1>5. \A a \in copied :
        /\ Image + s.offset + a - s.vaddr \in Address
        /\ mem[Image + s.offset + a - s.vaddr] = file[1 + s.offset + a - s.vaddr]
  <2> TAKE a \in copied
  <2> DEFINE vaddr == s.vaddr
             filesz == s.filesz
             offset == s.offset
  <2>1. /\ vaddr \in Nat /\ filesz \in Nat /\ offset \in Nat
        /\ Len(file) \in Nat /\ Image \in Nat /\ a \in Nat
        /\ vaddr <= a /\ a <= vaddr + filesz - 1
        /\ offset + filesz <= Len(file)
    BY <1>2, <1>3
  <2> HIDE DEF vaddr, filesz, offset
  <2>2. PICK n \in 1 .. Len(file) :
          /\ 1 + offset + a - vaddr = n
          /\ Image + offset + a - vaddr = Image + n - 1
          /\ Image + n - 1 \in Image .. Image + Len(file) - 1
    BY <2>1, CopiedFrom
  <2>3. mem[Image + n - 1] = file[n]
    BY <1>1 DEF IInv, ImagePart
  <2> QED
    BY <1>3, <2>2, <2>3 DEF Address, vaddr, offset
<1>6. mem' \in [Address -> Content]
  <2>1. mem \in [Address -> Content] /\ Cell(0) \in Content
    BY ByteIs, ElfLoaderAssumption DEF IInv, Types
  <2>2. \A a \in copied : mem[Image + s.offset + a - s.vaddr] \in Content
    BY <1>5, <2>1
  <2> HIDE DEF copied
  <2> QED
    BY <1>4, <2>1, <2>2
<1>7. \A a \in Address : a \in Nat
  BY ElfLoaderAssumption
<1>8. ASSUME NEW a \in Covers(s) PROVE mem'[a] = Said(file, s, a)
  <2>1. a \in Address /\ a \in Nat
    BY <1>2, <1>7 DEF Address
  <2>2. (a \in copied \/ a \in Zeroed(s)) /\ (a < s.vaddr + s.filesz <=> a \in copied)
    BY <1>2, <2>1, CoversIs
  <2> HIDE DEF copied
  <2> QED
    BY <1>4, <1>5, <2>1, <2>2 DEF Said
<1>9. ASSUME NEW a \in Address \ Covers(s) PROVE mem'[a] = mem[a]
  <2>1. a \notin copied /\ a \notin Zeroed(s)
    BY <1>2, <1>7, CoversIs
  <2> HIDE DEF copied
  <2> QED
    BY <1>4, <2>1
<1> QED
  BY <1>2, <1>6, <1>8, <1>9 DEF s

LEMMA LoadSegmentIInv ==
  ASSUME IInv, LoadSegment
  PROVE  IInv'
<1> DEFINE s == Segments(file)[i]
<1>1. /\ pc = "segments" /\ pc' = pc /\ i' = i + 1 /\ i \in Nat
      /\ UNCHANGED <<file, buffer>> /\ Image' = Image
  BY DEF LoadSegment, Image, IInv, Types
<1>2. /\ i \in Loads(file) /\ Covers(s) \subseteq Area
      /\ mem' \in [Address -> Content]
      /\ \A a \in Covers(s) : mem'[a] = Said(file, s, a)
      /\ \A a \in Address \ Covers(s) : mem'[a] = mem[a]
  BY LoadSegmentPuts
<1>3. /\ file \in File /\ Executable(file) /\ i < file[1].phnum
      /\ file[1].phnum \in Nat
  BY <1>1, ImageRead, ExecutableIs DEF LoadSegment, IInv, LoopPart
<1>4. \A k \in Loads(file) : k \in Nat /\ Covers(Segments(file)[k]) \subseteq Address
  <2>1. \A k \in Loads(file) : /\ k \in 0 .. file[1].phnum - 1
                               /\ Covers(Segments(file)[k]) \subseteq Area
    BY <1>3, ExecutableIs
  <2> QED
    BY <1>3, <2>1 DEF Address
<1> HIDE DEF s
<1>5. ImagePart'
  <2>1. ASSUME NEW n \in 1 .. Len(file)
        PROVE  mem'[Image + n - 1] = file[n]
    <3>1. /\ Image \in Nat /\ Len(file) \in Nat /\ buffer \subseteq Heap
          /\ buffer = Image .. Image + Len(file) - 1
      BY <1>1, <1>3, FileIs, ImageIs DEF IInv
    <3>2. Image + n - 1 \in buffer
      BY <3>1
    <3>3. Image + n - 1 \in Address \ Covers(s)
      BY <1>2, <3>1, <3>2, ElfLoaderAssumption DEF Address
    <3>4. mem[Image + n - 1] = file[n]
      BY <1>1 DEF IInv, ImagePart
    <3> QED
      BY <1>2, <3>3, <3>4
  <2> QED
    BY <1>1, <2>1 DEF ImagePart
<1>6. LoadedPart'
  <2>1. ASSUME NEW k \in Loads(file), NEW a \in Covers(Segments(file)[k]), k < i + 1,
               \A m \in Loads(file) :
                 m > k /\ m < i + 1 => a \notin Covers(Segments(file)[m])
        PROVE  mem'[a] = Said(file, Segments(file)[k], a)
    <3>1. CASE k = i
      BY <1>2, <3>1 DEF s
    <3>2. CASE k # i
      <4>1. k < i /\ k \in Nat /\ i < i + 1 /\ i > k
        BY <1>1, <1>4, <2>1, <3>2
      <4>2. a \notin Covers(s)
        BY <1>2, <2>1, <4>1 DEF s
      <4>3. \A m \in Loads(file) :
              m > k /\ m < i => a \notin Covers(Segments(file)[m])
        BY <1>1, <1>4, <2>1
      <4>4. mem[a] = Said(file, Segments(file)[k], a)
        BY <1>1, <4>1, <4>3 DEF IInv, LoadedPart, Loaded
      <4> QED
        BY <1>2, <1>4, <4>2, <4>4
    <3> QED
      BY <3>1, <3>2
  <2> QED
    BY <1>1, <2>1 DEF LoadedPart, Loaded
<1> QED
  BY <1>1, <1>2, <1>3, <1>5, <1>6 DEF IInv, Types, BufferPart, LoopPart

LEMMA SkipSegmentIInv ==
  ASSUME IInv, SkipSegment
  PROVE  IInv'
<1>1. /\ pc = "segments" /\ i' = i + 1 /\ i \in Nat
      /\ UNCHANGED <<mem, pc, file, buffer>> /\ Image' = Image
  BY DEF SkipSegment, Image, IInv, Types
<1>2. /\ file \in File /\ Executable(file) /\ i < file[1].phnum
      /\ file[1].phnum \in Nat /\ i \notin Loads(file)
  BY <1>1, ImageRead, ExecutableIs DEF SkipSegment, IInv, LoopPart, Loads
<1>3. \A k \in Loads(file) : k \in Nat
  <2>1. \A k \in Loads(file) : k \in 0 .. file[1].phnum - 1
    BY <1>2, ExecutableIs
  <2> QED
    BY <1>2, <2>1
<1>4. \A k \in Loads(file) : k < i + 1 <=> k < i
  BY <1>1, <1>2, <1>3
<1>5. Loaded(i)'
  <2>1. Loaded(i)
    BY <1>1 DEF IInv, LoadedPart
  <2> QED
    BY <1>1, <1>4, <2>1 DEF Loaded
<1> QED
  BY <1>1, <1>2, <1>5
     DEF IInv, Types, BufferPart, ImagePart, LoopPart, LoadedPart

LEMMA ProgramIInv ==
  ASSUME IInv, CallEntry \/ ProgramWrites \/ ProgramReturns
  PROVE  IInv'
<1>1. CASE CallEntry
  BY <1>1 DEF CallEntry, IInv, Types, BufferPart, ImagePart, LoopPart, LoadedPart
<1>2. CASE ProgramWrites
  <2>1. PICK a \in Own(file), b \in Byte : mem' = [mem EXCEPT ![a] = Cell(b)]
    BY <1>2 DEF ProgramWrites
  <2>2. mem' \in [Address -> Content]
    BY <2>1, ByteIs DEF IInv, Types
  <2> QED
    BY <1>2, <2>2
       DEF ProgramWrites, IInv, Types, BufferPart, ImagePart, LoopPart, LoadedPart
<1>3. CASE ProgramReturns
  BY <1>3, ReturnIInv DEF ProgramReturns, IInv, Types
<1> QED
  BY <1>1, <1>2, <1>3

LEMMA NextIInv == IInv /\ [Next]_vars => IInv'
<1> SUFFICES ASSUME IInv, [Next]_vars PROVE IInv'
  OBVIOUS
<1>1. ASSUME NEW f \in File \cup {<<>>}, Exec(f) PROVE IInv'
  BY <1>1, ExecIInv
<1>2. CASE UNCHANGED vars
  BY <1>2 DEF vars, IInv, Types, BufferPart, ImagePart, LoopPart, LoadedPart,
              Loaded, Image
<1> QED
  BY <1>1, <1>2, ReadIInv, CheckIInv, LoadSegmentIInv, SkipSegmentIInv, ProgramIInv
     DEF Next

(***************************************************************************)
(* The theorems                                                            *)
(***************************************************************************)

(* Whatever is called is an executable, in memory as its headers say, with *)
(* zeroes where they say so.                                               *)
THEOREM ProgramsAreLoaded == Spec => LoadedAsSaid
<1>1. ASSUME IInv, [Next]_vars, pc # "program", pc' = "program"
      PROVE  /\ Executable(file)
             /\ \A k \in Loads(file) : \A a \in Covers(Segments(file)[k]) :
                  (\A m \in Loads(file) : m > k => a \notin Covers(Segments(file)[m]))
                    => mem'[a] = Said(file, Segments(file)[k], a)
  <2>1. CallEntry
    BY <1>1 DEF Next, vars, Exec, Return, ReadFails, ReadFile, Refuse, Check,
                SkipSegment, LoadSegment, ProgramWrites, ProgramReturns
  <2>2. /\ pc = "segments" /\ mem' = mem /\ file \in File /\ Executable(file)
        /\ i = file[1].phnum /\ file[1].phnum \in Nat
    BY <1>1, <2>1, ImageRead, ExecutableIs DEF CallEntry, IInv, LoopPart
  <2>3. Loaded(i)
    BY <1>1, <2>2 DEF IInv, LoadedPart
  <2>4. \A k \in Loads(file) : k < i
    <3>1. \A k \in Loads(file) : k \in 0 .. file[1].phnum - 1
      BY <2>2, ExecutableIs
    <3> QED
      BY <2>2, <3>1
  <2> QED
    BY <2>2, <2>3, <2>4 DEF Loaded
<1>2. IInv /\ [Next]_vars =>
        [(pc # "program" /\ pc' = "program") =>
           /\ Executable(file)
           /\ \A k \in Loads(file) : \A a \in Covers(Segments(file)[k]) :
                (\A m \in Loads(file) : m > k => a \notin Covers(Segments(file)[m]))
                  => mem'[a] = Said(file, Segments(file)[k], a)]_vars
  BY <1>1
<1> QED
  BY <1>2, InitIInv, NextIInv, PTL DEF Spec, LoadedAsSaid

(* Loading and running a program changes its own memory and the buffer,    *)
(* and nothing of the kernel or of the rest of the heap.                   *)
THEOREM NothingElseIsTouched == Spec => KeepsToItsOwn
<1>1. ASSUME IInv, [Next]_vars, NEW a \in Address, mem'[a] # mem[a]
      PROVE  a \in buffer \cup IF Executable(file) THEN Own(file) ELSE {}
  <2>1. CASE ReadFails \/ ReadFile
    <3>1. /\ pc = "read" /\ Len(file) \in Nat
          /\ \E n \in 0 .. Len(file) : mem' = Filled(n)
      <4>1. pc = "read"
        BY <2>1 DEF ReadFails, ReadFile
      <4>2. Len(file) \in Nat
        BY <1>1, <4>1, FileIs DEF IInv, BufferPart
      <4>3. 0 .. Len(file) - 1 \subseteq 0 .. Len(file) /\ Len(file) \in 0 .. Len(file)
        BY <4>2
      <4> QED
        BY <2>1, <4>1, <4>2, <4>3 DEF ReadFails, ReadFile
    <3> QED
      BY <1>1, <3>1, FilledIs
  <2>2. CASE LoadSegment
    <3>1. Executable(file) /\ i \in Loads(file) /\ a \in Covers(Segments(file)[i])
      BY <1>1, <2>2, LoadSegmentPuts DEF LoadSegment, IInv, LoopPart
    <3> QED
      BY <3>1 DEF Own
  <2>3. CASE ProgramWrites
    <3>1. Executable(file)
      BY <1>1, <2>3 DEF ProgramWrites, IInv, LoopPart
    <3>2. PICK c \in Own(file), b \in Byte : mem' = [mem EXCEPT ![c] = Cell(b)]
      BY <2>3 DEF ProgramWrites
    <3>3. a = c
      BY <1>1, <3>2 DEF IInv, Types
    <3> QED
      BY <3>1, <3>2, <3>3
  <2>4. mem' # mem
    BY <1>1
  <2> QED
    BY <1>1, <2>1, <2>2, <2>3, <2>4
       DEF Next, vars, Exec, Refuse, Check, SkipSegment, CallEntry, ProgramReturns
<1>2. IInv /\ [Next]_vars =>
        [\A a \in Address :
           mem'[a] # mem[a] =>
             a \in buffer \cup IF Executable(file) THEN Own(file) ELSE {}]_vars
  BY <1>1
<1> QED
  BY <1>2, InitIInv, NextIInv, PTL DEF Spec, KeepsToItsOwn

=============================================================================
