-------------------------------- MODULE Heap --------------------------------
(***************************************************************************)
(* The kernel heap, memory.c: blocks one after another from                *)
(* KERNEL_HEAP_START up to heap_ptr, each a header and its bytes.  There   *)
(* is no list: a block is found by walking from header to header, so a     *)
(* size that is wrong once loses every block behind it.                    *)
(*                                                                         *)
(* block holds the headers the walk meets, by address.  kmalloc and kfree  *)
(* are called with interrupts off (from the keyboard interrupt), so a call *)
(* is one action.  Callers are any that keep to the contract: kfree is     *)
(* given what kmalloc returned, once.                                      *)
(***************************************************************************)
EXTENDS Integers, FiniteSets

CONSTANTS
  KERNEL_HEAP_START,  (* 0x100000                                          *)
  KERNEL_HEAP_SIZE,   (* 1 MB                                              *)
  Request             (* sizes callers ask for                             *)

HeaderSize == 8       \* sizeof(block_header_t): a size_t and a uint8_t

ASSUME HeapAssumption ==
  /\ KERNEL_HEAP_START \in Nat /\ KERNEL_HEAP_START % 4 = 0
  /\ KERNEL_HEAP_SIZE \in Nat
  /\ Request \subseteq Nat

VARIABLES
  block,     (* headers: address |-> size and free                         *)
  heap_ptr,  (* where the memory never used so far begins                  *)
  held       (* the callers' side: pointer |-> size they asked for         *)

vars == <<block, heap_ptr, held>>

HeapEnd == KERNEL_HEAP_START + KERNEL_HEAP_SIZE
Address == KERNEL_HEAP_START .. HeapEnd
Header  == [size : Nat, free : BOOLEAN]

Least(S) == CHOOSE x \in S : \A y \in S : x <= y

(* f, with a |-> v added or replaced; f, without a                         *)
With(f, a, v) == [x \in DOMAIN f \cup {a} |-> IF x = a THEN v ELSE f[x]]
Without(f, a) == [x \in DOMAIN f \ {a} |-> f[x]]

Init ==
  /\ block = [a \in {} |-> [size |-> 0, free |-> FALSE]]
  /\ heap_ptr = KERNEL_HEAP_START
  /\ held = [p \in {} |-> 0]

(***************************************************************************)
(* kmalloc                                                                 *)
(***************************************************************************)
(* mutants: rounds down; does not round                                    *)
AlignDown(size) == (size \div 4) * 4
Unaligned(size) == size

align4(size) == ((size + 3) \div 4) * 4

(* the free blocks that are large enough                                   *)
Fitting(size) == {a \in DOMAIN block : block[a].free /\ block[a].size >= size}

(* first fit: the walk starts at the lowest address                        *)
find_free_block(size) == Least(Fitting(size))

(* a mutant: the new block's size includes its header                      *)
SplitForgetsHeader(b, a, size) ==
  LET remaining == b[a].size - size
  IN  IF remaining <= HeaderSize + 4 THEN b
      ELSE With(With(b, a, [b[a] EXCEPT !.size = size]),
                a + HeaderSize + size, [size |-> remaining, free |-> TRUE])

(* the block at a keeps size bytes; the rest becomes a block of its own    *)
(* unless a header and four bytes are all of it                            *)
split_block(b, a, size) ==
  LET remaining == b[a].size - size
  IN  IF remaining <= HeaderSize + 4 THEN b
      ELSE With(With(b, a, [b[a] EXCEPT !.size = size]),
                a + HeaderSize + size,
                [size |-> remaining - HeaderSize, free |-> TRUE])

(* a mutant: the block that is reused is not marked                        *)
ReuseUnmarked(n) ==
  LET size == align4(n)
      a    == find_free_block(size)
  IN  /\ n > 0
      /\ Fitting(size) # {}
      /\ block' = split_block(block, a, size)
      /\ held' = With(held, a + HeaderSize, n)
      /\ UNCHANGED heap_ptr

KmallocReuse(n) ==
  LET size == align4(n)
      a    == find_free_block(size)
      b    == split_block(block, a, size)
  IN  /\ n > 0
      /\ Fitting(size) # {}
      /\ block' = [b EXCEPT ![a].free = FALSE]
      /\ held' = With(held, a + HeaderSize, n)
      /\ UNCHANGED heap_ptr

KmallocGrow(n) ==
  LET size == align4(n)
  IN  /\ n > 0
      /\ Fitting(size) = {}
      /\ heap_ptr + HeaderSize + size <= HeapEnd
      /\ block' = With(block, heap_ptr, [size |-> size, free |-> FALSE])
      /\ heap_ptr' = heap_ptr + HeaderSize + size
      /\ held' = With(held, heap_ptr + HeaderSize, n)

(* NULL                                                                    *)
KmallocFails(n) ==
  LET size == align4(n)
  IN  /\ \/ n = 0
         \/ Fitting(size) = {} /\ heap_ptr + HeaderSize + size > HeapEnd
      /\ UNCHANGED vars

kmalloc(n) == KmallocReuse(n) \/ KmallocGrow(n) \/ KmallocFails(n)

(***************************************************************************)
(* kfree                                                                   *)
(***************************************************************************)
(* where the block at a ends                                               *)
After(b, a) == a + HeaderSize + b[a].size

(* mutants: free blocks are absorbed even by the used block before them; a *)
(* free block absorbs one neighbour and the walk goes on behind it         *)
AbsorbedByAny(b) ==
  {a \in DOMAIN b : b[a].free /\ \E p \in DOMAIN b : After(b, p) = a}
AbsorbedOnce(b) ==
  {a \in DOMAIN b :
     /\ b[a].free
     /\ \E p \in DOMAIN b :
          /\ b[p].free
          /\ After(b, p) = a
          /\ \A q \in DOMAIN b : b[q].free => After(b, q) # p}

(* the free blocks that lie right behind a free block                      *)
Absorbed(b) ==
  {a \in DOMAIN b :
     /\ b[a].free
     /\ \E p \in DOMAIN b : b[p].free /\ After(b, p) = a}

(* every run of free blocks becomes its first one, which then reaches to   *)
(* the next block left, or to heap_ptr                                     *)
coalesce_blocks(b) ==
  LET left == DOMAIN b \ Absorbed(b)
  IN  [a \in left |->
         [b[a] EXCEPT !.size =
            Least({x \in left \cup {heap_ptr} : x > a}) - a - HeaderSize]]

kfree(p) ==
  /\ p \in DOMAIN held
  /\ block' = coalesce_blocks([block EXCEPT ![p - HeaderSize].free = TRUE])
  /\ held' = Without(held, p)
  /\ UNCHANGED heap_ptr

Next ==
  \/ \E n \in Request : kmalloc(n)
  \/ \E p \in DOMAIN held : kfree(p)

Spec == Init /\ [][Next]_vars

(***************************************************************************)
(* The two walks of memory.c as the loops they are                         *)
(***************************************************************************)
(* No walk takes more turns: each gets past a header at least.             *)
Turns == KERNEL_HEAP_SIZE \div HeaderSize

(* a turn of find_free_block that does not return                          *)
WalkTurn(w) ==
  IF w.current >= heap_ptr THEN w
  ELSE [current |-> After(block, w.current), met |-> w.met \cup {w.current}]

(* the walk over blocks that do not fit, turn by turn                      *)
Walk == LET turn[k \in 0 .. Turns] ==
              IF k = 0 THEN [current |-> KERNEL_HEAP_START, met |-> {}]
              ELSE WalkTurn(turn[k - 1])
        IN  turn

(* the block at a takes in the one at next                                 *)
Merged(b, a, next) ==
  Without(With(b, a, [b[a] EXCEPT !.size = @ + HeaderSize + b[next].size]), next)

(* a turn of coalesce_blocks: break, continue with the same block, go on   *)
CoalesceTurn(c) ==
  IF c.current >= heap_ptr THEN c
  ELSE LET next == After(c.b, c.current)
       IN  IF next >= heap_ptr THEN [c EXCEPT !.current = heap_ptr]
           ELSE IF c.b[c.current].free /\ c.b[next].free
                THEN [c EXCEPT !.b = Merged(@, c.current, next)]
                ELSE [c EXCEPT !.current = next]

Coalesce(b) == LET turn[k \in 0 .. Turns] ==
                     IF k = 0 THEN [current |-> KERNEL_HEAP_START, b |-> b]
                     ELSE CoalesceTurn(turn[k - 1])
               IN  turn

(***************************************************************************)
(* Properties                                                              *)
(***************************************************************************)
(* Addresses and sizes are in range and aligned to four bytes.             *)
TypeOK ==
  /\ DOMAIN block \subseteq Address
  /\ block \in [DOMAIN block -> Header]
  /\ heap_ptr \in Address
  /\ DOMAIN held \subseteq Address
  /\ held \in [DOMAIN held -> Request]
  /\ heap_ptr % 4 = 0
  /\ \A a \in DOMAIN block : a % 4 = 0 /\ block[a].size % 4 = 0

(* The walk of memory.c:15-24 and 49-71 goes from KERNEL_HEAP_START to     *)
(* heap_ptr and meets every header on the way: a block ends where the next *)
(* one or the unused memory begins, and no header lies inside a block.     *)
Tiled ==
  /\ KERNEL_HEAP_START \in DOMAIN block \cup {heap_ptr}
  /\ \A a \in DOMAIN block :
       /\ KERNEL_HEAP_START <= a
       /\ After(block, a) \in DOMAIN block \cup {heap_ptr}
       /\ After(block, a) <= heap_ptr
       /\ \A x \in DOMAIN block : x <= a \/ After(block, a) <= x

(* What a caller holds is a block that is in use and has the bytes it      *)
(* asked for, and no block is in use that nobody holds.                    *)
HeldIsUsed ==
  /\ \A p \in DOMAIN held :
       /\ p - HeaderSize \in DOMAIN block
       /\ held[p] <= block[p - HeaderSize].size
  /\ \A a \in DOMAIN block : ~ block[a].free <=> a + HeaderSize \in DOMAIN held

(* No two free blocks lie side by side: whatever the order of the calls to *)
(* kfree, freed memory can be handed out again in one piece.               *)
NoFreeNeighbours ==
  \A a, b \in DOMAIN block :
    ~ (block[a].free /\ block[b].free /\ After(block, a) = b)

(* The loop of find_free_block (memory.c:15-24) ends at heap_ptr and meets *)
(* exactly the headers of block on its way; that of coalesce_blocks        *)
(* (memory.c:49-71) ends too, whichever block is freed, and leaves what    *)
(* the set of absorbed blocks says.                                        *)
WalksAgree ==
  /\ Walk[Turns] = [current |-> heap_ptr, met |-> DOMAIN block]
  /\ \A p \in DOMAIN held :
       LET b == [block EXCEPT ![p - HeaderSize].free = TRUE]
       IN  Coalesce(b)[Turns] = [current |-> heap_ptr, b |-> coalesce_blocks(b)]

Abstract == INSTANCE Allocator

(* memory.c implements Allocator: no two callers ever hold the same byte,  *)
(* nothing outside the heap is handed out, and what is held stays put.     *)
ImplementsAllocator == Abstract!Spec

=============================================================================
