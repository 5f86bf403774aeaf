---------------------------- MODULE MCElfLoader ----------------------------
(* ElfLoader with one cell of kernel below the heap and one behind the     *)
(* area, a heap with two places for the largest file, and programs that    *)
(* use the same addresses one after the other.                             *)
EXTENDS ElfLoader

Header(wrong, phnum) ==
  [kind |-> "ehdr", wrong |-> wrong, phoff |-> 1, phnum |-> phnum]
Segment(type, offset, vaddr, filesz, memsz) ==
  [kind |-> "phdr", type |-> type, offset |-> offset, vaddr |-> vaddr,
   filesz |-> filesz, memsz |-> memsz]

(* code and bss; a note, and data where the bss was; memsz smaller than    *)
(* filesz; text; an object file; nothing to load                           *)
MCFile ==
  { << Header({}, 1), Segment("PT_LOAD", 2, 10, 1, 3), Cell(1) >>,
    << Header({}, 3), Segment("PT_NULL", 4, 10, 1, 1),
       Segment("PT_LOAD", 4, 11, 1, 2), Segment("PT_LOAD", 4, 10, 1, 2),
       Cell(1) >>,
    << Header({}, 1), Segment("PT_LOAD", 1, 11, 2, 1), Cell(1) >>,
    << Cell(1), Cell(0) >>,
    << Header({"type"}, 1), Segment("PT_LOAD", 2, 10, 1, 1), Cell(0) >> }
=============================================================================
