------------------------------ MODULE ElfLoader ------------------------------
(***************************************************************************)
(* elf_exec and elf_load (elf_loader.c): a file is read into a buffer from *)
(* the heap, its header is checked, its segments are copied to where they  *)
(* say, and its entry point is called.  Kernel, heap and programs share    *)
(* one memory without protection.                                          *)
(*                                                                         *)
(* A cell of memory holds a byte, or a whole ELF header, or a whole        *)
(* program header: e_phoff, p_offset and the sizes count cells.            *)
(***************************************************************************)
EXTENDS Integers, Sequences

CONSTANTS
  Kernel,    (* addresses of the kernel and its stack                      *)
  Heap,      (* addresses kmalloc hands out                                *)
  Area,      (* addresses from ELF_LOAD_BASE on, where programs live       *)
  Byte,      (* values of a byte: 0 and others                             *)
  File       (* the files on the disk, as sequences of cells               *)

Address == Kernel \cup Heap \cup Area

(* what stands in the memory of the kernel                                 *)
Code == CHOOSE b \in Byte : b # 0

Cell(b) == [kind |-> "byte", value |-> b]

(* the fields of the header that elf_load compares with a constant         *)
Field == {"magic", "class", "data", "version", "machine", "type"}

(* the structs of elf.h, as far as elf_loader.c reads them; PT_NULL stands  *)
(* for every type but PT_LOAD                                              *)
Elf32_Ehdr == [kind : {"ehdr"}, wrong : SUBSET Field, phoff : Nat, phnum : Nat]
Elf32_Phdr == [kind : {"phdr"}, type : {"PT_NULL", "PT_LOAD"}, offset : Nat,
               vaddr : Nat, filesz : Nat, memsz : Nat]

Content == [kind : {"byte"}, value : Byte] \cup Elf32_Ehdr \cup Elf32_Phdr

(* the cells of memory that a segment takes                                *)
Covers(s) ==
  s.vaddr .. s.vaddr
    + (IF s.memsz > s.filesz THEN s.memsz ELSE s.filesz) - 1

Executable(f) == f # <<>> /\ f[1] \in Elf32_Ehdr /\ f[1].wrong = {}

Segments(f) == [k \in 0 .. f[1].phnum - 1 |-> f[1 + f[1].phoff + k]]

Loads(f) == {k \in DOMAIN Segments(f) : Segments(f)[k].type = "PT_LOAD"}

(* elf_load trusts a file with a good header, so this is asked of it: what *)
(* the headers speak of is in the file, and it is loaded into the area     *)
Sound(f) ==
  /\ f[1].phoff \in 1 .. Len(f) /\ f[1].phoff + f[1].phnum <= Len(f)
  /\ \A k \in DOMAIN Segments(f) : Segments(f)[k] \in Elf32_Phdr
  /\ \A k \in Loads(f) :
       LET s == Segments(f)[k]
       IN  s.offset + s.filesz <= Len(f) /\ Covers(s) \subseteq Area

ASSUME ElfLoaderAssumption ==
  /\ Address \subseteq Nat /\ 0 \in Byte /\ Byte # {0}
  /\ File \subseteq Seq(Content)
  /\ Kernel \cap Heap = {} /\ Kernel \cap Area = {} /\ Heap \cap Area = {}
  /\ \A f \in File : Executable(f) => Sound(f)

VARIABLES
  mem,       (* what every cell of memory holds                            *)
  pc,        (* where elf_exec is; "idle" between calls                    *)
  file,      (* the file it was called for                                 *)
  buffer,    (* the cells of its buffer                                    *)
  i,         (* the loop variable of elf_load                              *)
  ret        (* what the last call returned                                *)

vars == <<mem, pc, file, buffer, i, ret>>

Init ==
  /\ mem = [a \in Address |-> Cell(IF a \in Kernel THEN Code ELSE 0)]
  /\ pc = "idle" /\ file = <<>> /\ buffer = {} /\ i = 0 /\ ret = 0

(* kfree, but for the way out without a buffer                             *)
Return(r) ==
  /\ pc' = "idle" /\ ret' = r
  /\ file' = <<>> /\ buffer' = {} /\ i' = 0

(* vfs_size and kmalloc; the size of a missing or an empty file is refused *)
Exec(f) ==
  /\ pc = "idle"
  /\ \/ Return(-1)
     \/ /\ f # <<>>
        /\ \E a \in Heap :
             /\ buffer' = a .. a + Len(f) - 1
             /\ buffer' \subseteq Heap
        /\ pc' = "read" /\ file' = f
        /\ UNCHANGED <<i, ret>>
  /\ UNCHANGED mem

Image == CHOOSE a \in buffer : \A b \in buffer : a <= b

(* the first n cells of the file are in the buffer                         *)
Filled(n) ==
  [a \in Address |-> IF a \in Image .. Image + n - 1
                     THEN file[a - Image + 1] ELSE mem[a]]

ReadFails ==
  /\ pc = "read"
  /\ \E n \in 0 .. Len(file) - 1 : mem' = Filled(n)
  /\ Return(-1)

ReadFile ==
  /\ pc = "read"
  /\ mem' = Filled(Len(file))
  /\ pc' = "check"
  /\ UNCHANGED <<file, buffer, i, ret>>

ehdr == mem[Image]

(* the checks of elf_load; what is no ELF header has another magic         *)
Accepted == ehdr \in Elf32_Ehdr /\ ehdr.wrong = {}

Refuse ==
  /\ pc = "check" /\ ~ Accepted
  /\ Return(-1)
  /\ UNCHANGED mem

Check ==
  /\ pc = "check" /\ Accepted
  /\ pc' = "segments"
  /\ UNCHANGED <<mem, file, buffer, i, ret>>

segment == mem[Image + ehdr.phoff + i]

(* Mutant: memset of memsz bytes, not of the rest.                         *)
ZeroedAll(s) == s.vaddr + s.filesz .. s.vaddr + s.filesz + s.memsz - 1

(* the range of memset; empty unless memsz exceeds filesz                  *)
Zeroed(s) == s.vaddr + s.filesz .. s.vaddr + s.memsz - 1

SkipSegment ==
  /\ pc = "segments" /\ i < ehdr.phnum
  /\ segment.type # "PT_LOAD"
  /\ i' = i + 1
  /\ UNCHANGED <<mem, pc, file, buffer, ret>>

(* Mutant: the bss is left as it is.                                       *)
LoadSegmentNoZero ==
  /\ pc = "segments" /\ i < ehdr.phnum
  /\ segment.type = "PT_LOAD"
  /\ mem' = [a \in Address |->
               IF a \in segment.vaddr .. segment.vaddr + segment.filesz - 1
               THEN mem[Image + segment.offset + a - segment.vaddr]
               ELSE mem[a]]
  /\ i' = i + 1
  /\ UNCHANGED <<pc, file, buffer, ret>>

(* memcpy and memset                                                       *)
LoadSegment ==
  /\ pc = "segments" /\ i < ehdr.phnum
  /\ segment.type = "PT_LOAD"
  /\ mem' = [a \in Address |->
               IF a \in segment.vaddr .. segment.vaddr + segment.filesz - 1
               THEN mem[Image + segment.offset + a - segment.vaddr]
               ELSE IF a \in Zeroed(segment) THEN Cell(0) ELSE mem[a]]
  /\ i' = i + 1
  /\ UNCHANGED <<pc, file, buffer, ret>>

CallEntry ==
  /\ pc = "segments" /\ i = ehdr.phnum
  /\ pc' = "program"
  /\ UNCHANGED <<mem, file, buffer, i, ret>>

(* what the running program may call its own                               *)
Own(f) == UNION {Covers(Segments(f)[k]) : k \in Loads(f)}

ProgramWrites ==
  /\ pc = "program"
  /\ \E a \in Own(file), b \in Byte : mem' = [mem EXCEPT ![a] = Cell(b)]
  /\ UNCHANGED <<pc, file, buffer, i, ret>>

(* it may also never return                                                *)
ProgramReturns ==
  /\ pc = "program"
  /\ Return(0)
  /\ UNCHANGED mem

Next ==
  \/ \E f \in File \cup {<<>>} : Exec(f)
  \/ ReadFails \/ ReadFile
  \/ Refuse \/ Check
  \/ SkipSegment \/ LoadSegment \/ CallEntry
  \/ ProgramWrites \/ ProgramReturns

Spec == Init /\ [][Next]_vars

-----------------------------------------------------------------------------
(* Properties.                                                             *)

(* the cell that segment s of f puts at address a                          *)
Said(f, s, a) ==
  IF a < s.vaddr + s.filesz THEN f[1 + s.offset + a - s.vaddr] ELSE Cell(0)

(* What is called is an executable, and at the call every address holds    *)
(* what the last segment that covers it says: the bytes of the file, and   *)
(* zeroes behind them even where an earlier program, or the same one, has  *)
(* left its own.                                                           *)
LoadedAsSaid ==
  [][(pc # "program" /\ pc' = "program") =>
       /\ Executable(file)
       /\ \A k \in Loads(file) : \A a \in Covers(Segments(file)[k]) :
            (\A m \in Loads(file) : m > k => a \notin Covers(Segments(file)[m]))
              => mem'[a] = Said(file, Segments(file)[k], a)]_vars

(* A call changes nothing but its buffer and the segments of the program,  *)
(* and a file that is refused or cannot be read not even those.            *)
KeepsToItsOwn ==
  [][\A a \in Address :
       mem'[a] # mem[a] =>
         a \in buffer \cup IF Executable(file) THEN Own(file) ELSE {}]_vars

=============================================================================
