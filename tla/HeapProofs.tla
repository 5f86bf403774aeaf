----------------------------- MODULE HeapProofs -----------------------------
(***************************************************************************)
(* Proofs about Heap, for a heap of any size and callers that ask for any  *)
(* number of bytes.                                                        *)
(*                                                                         *)
(* The argument: the four invariants that the run checks are inductive     *)
(* together.  That the blocks tile the heap makes a block lie wholly       *)
(* before or behind another one, and gives every block but the first one   *)
(* the block that ends where it begins; both are what splitting and        *)
(* merging need.                                                           *)
(*                                                                         *)
(* The loops of find_free_block and coalesce_blocks are followed turn by   *)
(* turn: an induction over the turns shows what each has done by then, and *)
(* that the heap is too small for more turns than Turns.                   *)
(***************************************************************************)
EXTENDS Heap, WellFoundedInduction, TLAPS

(***************************************************************************)
(* The inductive invariant                                                 *)
(***************************************************************************)
IInv ==
  /\ TypeOK
  /\ Tiled
  /\ HeldIsUsed
  /\ NoFreeNeighbours

(* TypeOK and Tiled for any headers b and any end h of the memory in use   *)
Headers(b) ==
  /\ DOMAIN b \subseteq Nat
  /\ \A a \in DOMAIN b :
       /\ b[a] \in Header
       /\ a % 4 = 0 /\ b[a].size % 4 = 0

Tiles(b, h) ==
  /\ KERNEL_HEAP_START \in DOMAIN b \cup {h}
  /\ \A a \in DOMAIN b :
       /\ KERNEL_HEAP_START <= a
       /\ After(b, a) \in DOMAIN b \cup {h}
       /\ After(b, a) <= h
       /\ \A x \in DOMAIN b : x <= a \/ After(b, a) <= x

Apart(b) ==
  \A a, c \in DOMAIN b : ~ (b[a].free /\ b[c].free /\ After(b, a) = c)

(* TypeOK, Tiled and NoFreeNeighbours are these about block.               *)
LEMMA InvariantsOfBlock ==
  /\ TypeOK <=> /\ Headers(block) /\ DOMAIN block \subseteq Address
                /\ block \in [DOMAIN block -> Header]
                /\ heap_ptr \in Address /\ heap_ptr % 4 = 0
                /\ DOMAIN held \subseteq Address
                /\ held \in [DOMAIN held -> Request]
  /\ Tiled <=> Tiles(block, heap_ptr)
  /\ NoFreeNeighbours <=> Apart(block)
<1>1. Address \subseteq Nat
  BY HeapAssumption DEF Address, HeapEnd
<1>2. block \in [DOMAIN block -> Header] => \A a \in DOMAIN block : block[a] \in Header
  OBVIOUS
<1> QED
  BY <1>1, <1>2 DEF TypeOK, Headers, Tiled, Tiles, NoFreeNeighbours, Apart

(***************************************************************************)
(* Least and greatest addresses                                            *)
(***************************************************************************)
(* A set of numbers has a least one, and one below a bound a greatest.     *)
LEMMA LeastIs ==
  ASSUME NEW S, S \subseteq Nat, S # {}
  PROVE  Least(S) \in S /\ \A y \in S : Least(S) <= y
<1>1. PICK x \in S : \A y \in S : ~ (<<y, x>> \in OpToRel(<, Nat))
  BY NatLessThanWellFounded, WFMin
<1>2. \A y \in S : x <= y
  <2> SUFFICES ASSUME NEW y \in S PROVE x <= y
    OBVIOUS
  <2>1. x \in Nat /\ y \in Nat /\ <<y, x>> \in Nat \X Nat
    OBVIOUS
  <2>2. ~ (y < x)
    BY <1>1, <2>1, Zenon DEF OpToRel
  <2> QED
    BY <2>1, <2>2
<1> QED
  BY <1>2 DEF Least

LEMMA GreatestExists ==
  ASSUME NEW S, S \subseteq Nat, S # {}, NEW c \in Nat, \A x \in S : x < c
  PROVE  \E x \in S : \A y \in S : y <= x
<1> DEFINE D == {d \in Nat : \E x \in S : c - x = d}
<1>1. D # {} /\ D \subseteq Nat
  <2>1. PICK x \in S : TRUE
    OBVIOUS
  <2>2. c - x \in Nat
    BY <2>1
  <2> QED
    BY <2>1, <2>2
<1>2. Least(D) \in D /\ \A y \in D : Least(D) <= y
  BY <1>1, LeastIs
<1>3. PICK x \in S : c - x = Least(D)
  BY <1>2
<1>4. ASSUME NEW y \in S PROVE y <= x
  <2>1. c - y \in D
    BY <1>4
  <2>2. c - x <= c - y
    BY <1>2, <1>3, <2>1
  <2> QED
    BY <2>2, <1>3
<1> QED
  BY <1>4

(***************************************************************************)
(* Blocks that tile the heap                                               *)
(***************************************************************************)
(* A block is its header and no less, and ends inside the used memory.     *)
LEMMA BlockRoom ==
  ASSUME NEW b, NEW h \in Nat, Headers(b), Tiles(b, h), NEW a \in DOMAIN b
  PROVE  /\ a \in Nat /\ b[a].size \in Nat /\ After(b, a) \in Nat
         /\ a + HeaderSize <= After(b, a)
         /\ After(b, a) = a + HeaderSize + b[a].size
         /\ After(b, a) <= h /\ a < h
  BY DEF Headers, Tiles, Header, After, HeaderSize

(* Every block but the first begins where another one ends.                *)
LEMMA BlockBefore ==
  ASSUME NEW b, NEW h \in Nat, Headers(b), Tiles(b, h),
         NEW c \in DOMAIN b, c # KERNEL_HEAP_START
  PROVE  \E p \in DOMAIN b : p < c /\ After(b, p) = c
<1> DEFINE S == {x \in DOMAIN b : x < c}
<1>1. c \in Nat /\ c < h /\ S \subseteq Nat
  BY BlockRoom DEF Headers
<1>2. KERNEL_HEAP_START \in S
  BY <1>1, HeapAssumption DEF Tiles
<1>3. PICK p \in S : \A y \in S : y <= p
  <2>1. \A x \in S : x < c
    OBVIOUS
  <2> QED
    BY <1>1, <1>2, <2>1, GreatestExists
<1>4. p \in DOMAIN b /\ p < c /\ p \in Nat
  BY <1>1, <1>3
<1>5. After(b, p) <= c
  BY <1>1, <1>4 DEF Tiles
<1>6. p < After(b, p) /\ After(b, p) \in Nat
  BY <1>4, BlockRoom DEF HeaderSize
<1>7. After(b, p) \in DOMAIN b
  BY <1>1, <1>4, <1>5 DEF Tiles
<1>8. ~ (After(b, p) < c)
  BY <1>3, <1>4, <1>6, <1>7
<1> QED
  BY <1>1, <1>4, <1>5, <1>6, <1>8

(***************************************************************************)
(* kmalloc                                                                 *)
(***************************************************************************)
(* align4 rounds up to a multiple of four.                                 *)
LEMMA AlignUp ==
  ASSUME NEW n \in Nat
  PROVE  align4(n) \in Nat /\ n <= align4(n) /\ align4(n) % 4 = 0
  BY DEF align4

(* What split_block and the marking of the block at a as used make of the  *)
(* headers b: headers c, with that block left whole or cut behind s bytes. *)
SplitUsed(b, a, s) == [split_block(b, a, s) EXCEPT ![a].free = FALSE]

Whole(b, a, c) ==
  /\ DOMAIN c = DOMAIN b
  /\ c[a] = [size |-> b[a].size, free |-> FALSE]
  /\ \A x \in DOMAIN b \ {a} : c[x] = b[x]

Cut(b, a, s, m, c) ==
  /\ DOMAIN c = DOMAIN b \cup {m}
  /\ m \notin DOMAIN b /\ m \in Nat
  /\ m = a + HeaderSize + s
  /\ m + HeaderSize <= After(b, a)
  /\ c[a] = [size |-> s, free |-> FALSE]
  /\ c[m] = [size |-> b[a].size - s - HeaderSize, free |-> TRUE]
  /\ \A x \in DOMAIN b \ {a} : c[x] = b[x]

(* split_block does one or the other.                                      *)
LEMMA SplitResult ==
  ASSUME NEW b, NEW h \in Nat, Headers(b), Tiles(b, h),
         NEW a \in DOMAIN b, NEW s \in Nat, s <= b[a].size
  PROVE  \/ Whole(b, a, SplitUsed(b, a, s))
         \/ Cut(b, a, s, a + HeaderSize + s, SplitUsed(b, a, s))
<1> DEFINE r == b[a].size - s
           m == a + HeaderSize + s
<1>1. /\ a \in Nat /\ b[a].size \in Nat /\ b[a] \in Header
      /\ After(b, a) = a + HeaderSize + b[a].size
  BY BlockRoom DEF Headers
<1>2. CASE r <= HeaderSize + 4
  <2>1. split_block(b, a, s) = b
    BY <1>2 DEF split_block
  <2>2. SplitUsed(b, a, s) = [b EXCEPT ![a].free = FALSE]
    BY <2>1 DEF SplitUsed
  <2> QED
    BY <1>1, <2>2 DEF Header, Whole
<1>3. CASE ~ (r <= HeaderSize + 4)
  <2>1. m \in Nat /\ a < m /\ m + HeaderSize <= After(b, a)
    BY <1>1, <1>3 DEF HeaderSize
  <2>2. m \notin DOMAIN b
    <3>1. After(b, a) \in Nat /\ m < After(b, a)
      BY <2>1, BlockRoom DEF HeaderSize
    <3>2. \A x \in DOMAIN b : x <= a \/ After(b, a) <= x
      BY DEF Tiles
    <3> QED
      BY <1>1, <2>1, <3>1, <3>2
  <2>3. split_block(b, a, s) =
          With(With(b, a, [b[a] EXCEPT !.size = s]), m,
               [size |-> r - HeaderSize, free |-> TRUE])
    BY <1>3, Zenon DEF split_block
  <2>4. DOMAIN With(b, a, [b[a] EXCEPT !.size = s]) = DOMAIN b
    BY DEF With
  <2>5. /\ DOMAIN split_block(b, a, s) = DOMAIN b \cup {m}
        /\ split_block(b, a, s)[a] = [b[a] EXCEPT !.size = s]
        /\ split_block(b, a, s)[m] = [size |-> r - HeaderSize, free |-> TRUE]
        /\ \A x \in DOMAIN b \ {a} : split_block(b, a, s)[x] = b[x]
    BY <2>2, <2>3, <2>4 DEF With
  <2>6. [b[a] EXCEPT !.size = s] = [size |-> s, free |-> b[a].free]
    BY <1>1 DEF Header
  <2>7. /\ DOMAIN SplitUsed(b, a, s) = DOMAIN b \cup {m}
        /\ SplitUsed(b, a, s)[a] = [size |-> s, free |-> FALSE]
        /\ SplitUsed(b, a, s)[m] = [size |-> r - HeaderSize, free |-> TRUE]
        /\ \A x \in DOMAIN b \ {a} : SplitUsed(b, a, s)[x] = b[x]
    BY <2>2, <2>5, <2>6 DEF SplitUsed
  <2> QED
    BY <2>1, <2>2, <2>7 DEF Cut
<1> QED
  BY <1>2, <1>3

(* c is the heap b with s bytes of the free block a in use.                *)
Splits(b, h, a, s, m, c) ==
  /\ h \in Nat /\ Headers(b) /\ Tiles(b, h) /\ Apart(b)
  /\ a \in DOMAIN b /\ b[a].free
  /\ s \in Nat /\ s % 4 = 0 /\ s <= b[a].size
  /\ Whole(b, a, c) \/ Cut(b, a, s, m, c)

(* Cutting a free block in two keeps the heap tiled: the new header lies   *)
(* where no header was.                                                    *)
LEMMA SplitKeeps ==
  ASSUME NEW b, NEW h, NEW a, NEW s, NEW m, NEW c, Splits(b, h, a, s, m, c)
  PROVE  /\ Headers(c) /\ Tiles(c, h) /\ Apart(c)
         /\ a \in DOMAIN c /\ ~ c[a].free /\ s <= c[a].size
         /\ DOMAIN b \subseteq DOMAIN c
         /\ \A x \in DOMAIN b \ {a} : c[x] = b[x]
         /\ \A x \in DOMAIN c \ DOMAIN b : c[x].free
<1>3. /\ h \in Nat /\ Headers(b) /\ Tiles(b, h) /\ Apart(b)
      /\ a \in DOMAIN b /\ b[a].free
      /\ s \in Nat /\ s % 4 = 0 /\ s <= b[a].size
      /\ Whole(b, a, c) \/ Cut(b, a, s, m, c)
  BY DEF Splits
<1> USE <1>3
<1>1. CASE Whole(b, a, c)
  <2> USE <1>1 DEF Whole
  <2>1. \A x \in DOMAIN b : c[x].size = b[x].size /\ After(c, x) = After(b, x)
    BY DEF After
  <2>2. Headers(c)
    <3>1. c[a] \in Header
      <4>1. b[a].size \in Nat
        BY BlockRoom
      <4> QED
        BY <4>1 DEF Header
    <3>2. \A x \in DOMAIN b : c[x] \in Header
      BY <3>1 DEF Headers
    <3> QED
      BY <2>1, <3>2 DEF Headers
  <2>3. Tiles(c, h)
    BY <2>1 DEF Tiles
  <2>4. Apart(c)
    BY <2>1 DEF Apart
  <2> QED
    BY <2>2, <2>3, <2>4
<1>2. CASE Cut(b, a, s, m, c)
  <2> USE <1>2 DEF Cut
  <2>1. /\ a \in Nat /\ b[a].size \in Nat /\ a % 4 = 0 /\ b[a].size % 4 = 0
        /\ After(b, a) = a + HeaderSize + b[a].size /\ After(b, a) \in Nat
    BY BlockRoom DEF Headers
  <2>2. After(c, a) = m /\ After(c, m) = After(b, a) /\ a < m
    BY <2>1 DEF After, HeaderSize
  <2>3. \A x \in DOMAIN b \ {a} : After(c, x) = After(b, x)
    BY DEF After
  <2>4. Headers(c)
    <3>1. c[m] \in Header /\ c[a] \in Header /\ m % 4 = 0 /\ c[m].size % 4 = 0
      BY <2>1 DEF Header, HeaderSize
    <3>2. c[a].size % 4 = 0
      OBVIOUS
    <3>3. ASSUME NEW x \in DOMAIN b \ {a}
          PROVE  /\ x \in Nat /\ c[x] \in Header
                 /\ x % 4 = 0 /\ c[x].size % 4 = 0
      BY DEF Headers
    <3> QED
      BY <2>1, <3>1, <3>2, <3>3 DEF Headers
  <2>5. Tiles(c, h)
    <3>1. KERNEL_HEAP_START \in DOMAIN c \cup {h}
      BY DEF Tiles
    <3>2. \A x \in DOMAIN b : KERNEL_HEAP_START <= x /\ After(b, x) <= h
                              /\ After(b, x) \in DOMAIN b \cup {h}
      BY DEF Tiles
    <3>3. KERNEL_HEAP_START <= m /\ m <= h
      BY <2>1, <2>2, <3>2, HeapAssumption DEF HeaderSize
    <3>4. ASSUME NEW x \in DOMAIN c, NEW y \in DOMAIN c
          PROVE  y <= x \/ After(c, x) <= y
      <4>1. \A u, v \in DOMAIN b : v <= u \/ After(b, u) <= v
        BY DEF Tiles
      <4>2. \A u \in DOMAIN b : u \in Nat /\ After(b, u) \in Nat
        BY BlockRoom
      <4>3. CASE x = m
        BY <2>1, <2>2, <4>1, <4>2, <4>3
      <4>4. CASE x = a
        BY <2>1, <2>2, <4>1, <4>2, <4>4 DEF HeaderSize
      <4>5. CASE x \in DOMAIN b \ {a}
        BY <2>1, <2>2, <2>3, <4>1, <4>2, <4>5 DEF HeaderSize
      <4> QED
        BY <4>3, <4>4, <4>5
    <3> QED
      BY <2>2, <2>3, <3>1, <3>2, <3>3, <3>4 DEF Tiles
  <2>6. Apart(c)
    <3> SUFFICES ASSUME NEW x \in DOMAIN c, NEW y \in DOMAIN c,
                        c[x].free, c[y].free, After(c, x) = y
                 PROVE  FALSE
      BY DEF Apart
    <3>1. ~ c[a].free
      OBVIOUS
    <3>2. CASE x = m
      <4>1. y = After(b, a) /\ y # m /\ y # a
        BY <2>1, <2>2, <3>2 DEF HeaderSize
      <4> QED
        BY <4>1 DEF Apart
    <3>3. CASE x \in DOMAIN b \ {a}
      <4>1. After(b, x) = y /\ y # a
        BY <2>3, <3>1, <3>3
      <4>2. y # m
        <5>1. m <= h /\ m # h
          BY <2>1, BlockRoom DEF HeaderSize
        <5> QED
          BY <3>3, <4>1, <5>1 DEF Tiles
      <4> QED
        BY <3>3, <4>1, <4>2 DEF Apart
    <3> QED
      BY <3>1, <3>2, <3>3
  <2> QED
    BY <2>1, <2>4, <2>5, <2>6
<1> QED
  BY <1>1, <1>2

(* What find_free_block returns.                                           *)
LEMMA FirstFit ==
  ASSUME TypeOK, NEW size \in Nat, Fitting(size) # {}
  PROVE  LET a == find_free_block(size)
         IN  a \in DOMAIN block /\ block[a].free /\ size <= block[a].size
<1>1. Fitting(size) \subseteq Nat
  BY InvariantsOfBlock DEF Fitting, Headers
<1>2. find_free_block(size) \in Fitting(size)
  BY <1>1, LeastIs DEF find_free_block
<1>3. \A x \in DOMAIN block : block[x].size \in Nat
  BY InvariantsOfBlock DEF Headers, Header
<1> QED
  BY <1>2, <1>3 DEF Fitting

(* Reusing a block keeps the invariant: the piece cut off gets a header of *)
(* its own, and the pointer handed out is nobody else's.                   *)
LEMMA KmallocReuseStep ==
  ASSUME IInv, NEW n \in Request, KmallocReuse(n)
  PROVE  IInv'
<1> DEFINE size == align4(n)
           a    == find_free_block(size)
           m    == a + HeaderSize + size
<1>1. size \in Nat /\ n <= size /\ size % 4 = 0 /\ n \in Nat
  BY AlignUp, HeapAssumption
<1>2. a \in DOMAIN block /\ block[a].free /\ size <= block[a].size
  BY <1>1, FirstFit DEF IInv, KmallocReuse
<1>3. /\ Headers(block) /\ Tiles(block, heap_ptr) /\ Apart(block)
      /\ heap_ptr \in Nat /\ heap_ptr <= HeapEnd /\ HeapEnd \in Nat
  BY InvariantsOfBlock, HeapAssumption DEF IInv, TypeOK, Address, HeapEnd
<1>4. /\ block' = SplitUsed(block, a, size)
      /\ held' = With(held, a + HeaderSize, n)
      /\ heap_ptr' = heap_ptr
  BY DEF KmallocReuse, SplitUsed
<1>5. \/ Whole(block, a, block')
      \/ Cut(block, a, size, m, block')
  BY <1>1, <1>2, <1>3, <1>4, SplitResult
<1> HIDE DEF size, a, m
<1>6. /\ Headers(block') /\ Tiles(block', heap_ptr) /\ Apart(block')
      /\ a \in DOMAIN block' /\ ~ block'[a].free /\ size <= block'[a].size
      /\ DOMAIN block \subseteq DOMAIN block'
      /\ \A x \in DOMAIN block \ {a} : block'[x] = block[x]
      /\ \A x \in DOMAIN block' \ DOMAIN block : block'[x].free
  <2>1. Splits(block, heap_ptr, a, size, m, block')
    BY <1>1, <1>2, <1>3, <1>5 DEF Splits
  <2> QED
    BY <2>1, SplitKeeps
<1>7. a \in Nat /\ a + HeaderSize \in Address
  <2>1. /\ a \in Nat /\ After(block, a) \in Nat
        /\ a + HeaderSize <= After(block, a) /\ After(block, a) <= heap_ptr
    BY <1>2, <1>3, BlockRoom
  <2>2. KERNEL_HEAP_START <= a
    BY <1>2, <1>3 DEF Tiles
  <2> QED
    BY <1>3, <2>1, <2>2, HeapAssumption DEF Address, HeaderSize
<1>8. TypeOK'
  <2>1. DOMAIN block' \subseteq Address
    <3> SUFFICES ASSUME NEW x \in DOMAIN block' PROVE x \in Address
      OBVIOUS
    <3>1. x \in Nat /\ x < heap_ptr /\ KERNEL_HEAP_START <= x
      BY <1>3, <1>6, BlockRoom DEF Tiles
    <3> QED
      BY <1>3, <3>1, HeapAssumption DEF Address
  <2>2. block' = [x \in DOMAIN block' |-> block'[x]]
    BY <1>4 DEF SplitUsed
  <2>3. block' \in [DOMAIN block' -> Header]
    BY <1>6, <2>2 DEF Headers
  <2>4. DOMAIN held' \subseteq Address /\ held' \in [DOMAIN held' -> Request]
    BY <1>4, <1>7 DEF With, IInv, TypeOK
  <2> QED
    BY <1>4, <1>6, <2>1, <2>3, <2>4 DEF IInv, TypeOK, Headers
<1>9. HeldIsUsed'
  <2>1. /\ DOMAIN held' = DOMAIN held \cup {a + HeaderSize}
        /\ held'[a + HeaderSize] = n
        /\ \A p \in DOMAIN held : p # a + HeaderSize => held'[p] = held[p]
    BY <1>4 DEF With
  <2>2. \A p \in DOMAIN held' : p \in Nat /\ held'[p] \in Nat
    BY <1>8, HeapAssumption DEF TypeOK, Address, HeapEnd
  <2>3. ASSUME NEW p \in DOMAIN held'
        PROVE  /\ p - HeaderSize \in DOMAIN block'
               /\ held'[p] <= block'[p - HeaderSize].size
    <3>1. CASE p = a + HeaderSize
      <4>1. p - HeaderSize = a
        BY <1>7, <3>1 DEF HeaderSize
      <4>2. block'[a].size \in Nat
        BY <1>6 DEF Headers, Header
      <4> QED
        BY <1>1, <1>6, <2>1, <3>1, <4>1, <4>2
    <3>2. CASE p # a + HeaderSize
      <4>1. p \in DOMAIN held /\ p \in Nat
        BY <2>1, <2>2, <2>3, <3>2
      <4>2. p - HeaderSize # a
        BY <1>7, <4>1, <3>2 DEF HeaderSize
      <4> QED
        BY <1>6, <2>1, <3>2, <4>1, <4>2 DEF IInv, HeldIsUsed
    <3> QED
      BY <3>1, <3>2
  <2>4. ASSUME NEW x \in DOMAIN block'
        PROVE  ~ block'[x].free <=> x + HeaderSize \in DOMAIN held'
    <3>0. x \in Nat
      BY <1>6 DEF Headers
    <3>1. CASE x = a
      BY <1>6, <2>1, <3>1
    <3>2. CASE x # a /\ x \in DOMAIN block
      <4>1. x + HeaderSize # a + HeaderSize
        BY <1>7, <3>0, <3>2 DEF HeaderSize
      <4> QED
        BY <1>6, <2>1, <3>2, <4>1 DEF IInv, HeldIsUsed
    <3>3. CASE x \notin DOMAIN block
      <4>1. (x + HeaderSize) - HeaderSize = x
        BY <3>0 DEF HeaderSize
      <4>2. x + HeaderSize \notin DOMAIN held
        BY <3>3, <4>1 DEF IInv, HeldIsUsed
      <4>3. x # a /\ x + HeaderSize # a + HeaderSize
        BY <1>2, <1>7, <3>0, <3>3 DEF HeaderSize
      <4> QED
        BY <1>6, <2>1, <2>4, <3>3, <4>2, <4>3
    <3> QED
      BY <3>1, <3>2, <3>3
  <2> QED
    BY <2>3, <2>4 DEF HeldIsUsed
<1>10. Tiled' /\ NoFreeNeighbours'
  BY <1>4, <1>6 DEF Tiled, Tiles, NoFreeNeighbours, Apart
<1> QED
  BY <1>8, <1>9, <1>10 DEF IInv

(* So does a block at heap_ptr, where no block reaches.                    *)
LEMMA KmallocGrowStep ==
  ASSUME IInv, NEW n \in Request, KmallocGrow(n)
  PROVE  IInv'
<1> DEFINE size == align4(n)
           h    == heap_ptr
<1>1. size \in Nat /\ n <= size /\ size % 4 = 0 /\ n \in Nat
  BY AlignUp, HeapAssumption
<1>2. /\ Headers(block) /\ Tiles(block, h)
      /\ h \in Nat /\ h \in Address /\ h % 4 = 0 /\ HeapEnd \in Nat
      /\ KERNEL_HEAP_START \in Nat /\ KERNEL_HEAP_START <= h
  BY InvariantsOfBlock, HeapAssumption DEF IInv, TypeOK, Address, HeapEnd
<1>3. /\ block' = With(block, h, [size |-> size, free |-> FALSE])
      /\ heap_ptr' = h + HeaderSize + size
      /\ held' = With(held, h + HeaderSize, n)
      /\ h + HeaderSize + size <= HeapEnd
  BY DEF KmallocGrow
<1> HIDE DEF size, h
<1>4. h \notin DOMAIN block
  BY <1>2, BlockRoom
<1>5. /\ DOMAIN block' = DOMAIN block \cup {h}
      /\ block'[h] = [size |-> size, free |-> FALSE]
      /\ \A x \in DOMAIN block : block'[x] = block[x]
      /\ block' = [x \in DOMAIN block' |-> block'[x]]
  BY <1>3, <1>4 DEF With
<1>6. heap_ptr' \in Nat /\ heap_ptr' \in Address /\ heap_ptr' % 4 = 0 /\ h < heap_ptr'
  BY <1>1, <1>2, <1>3 DEF HeaderSize, Address
<1>7. TypeOK'
  <2>1. block' \in [DOMAIN block' -> Header]
    <3>1. block'[h] \in Header
      BY <1>1, <1>5 DEF Header
    <3>2. \A x \in DOMAIN block : block'[x] \in Header
      BY <1>2, <1>5 DEF Headers
    <3> QED
      BY <1>5, <3>1, <3>2
  <2>2. DOMAIN block' \subseteq Address
    BY <1>2, <1>5 DEF IInv, TypeOK
  <2>3. h + HeaderSize \in Address
    BY <1>1, <1>2, <1>3 DEF HeaderSize, Address
  <2>4. DOMAIN held' \subseteq Address /\ held' \in [DOMAIN held' -> Request]
    BY <1>3, <2>3 DEF With, IInv, TypeOK
  <2>5. \A x \in DOMAIN block' : x % 4 = 0 /\ block'[x].size % 4 = 0
    BY <1>1, <1>2, <1>5 DEF Headers
  <2> QED
    BY <1>6, <2>1, <2>2, <2>4, <2>5 DEF TypeOK
<1>8. Tiled'
  <2>1. After(block', h) = heap_ptr'
    BY <1>3, <1>5 DEF After
  <2>2. \A x \in DOMAIN block :
          /\ After(block', x) = After(block, x)
          /\ After(block, x) \in Nat /\ After(block, x) <= h /\ x \in Nat /\ x < h
    <3>1. \A x \in DOMAIN block : After(block', x) = After(block, x)
      BY <1>5 DEF After
    <3> QED
      BY <1>2, <3>1, BlockRoom
  <2>3. KERNEL_HEAP_START \in DOMAIN block'
    BY <1>2, <1>5 DEF Tiles
  <2>4. ASSUME NEW x \in DOMAIN block'
        PROVE  /\ KERNEL_HEAP_START <= x
               /\ After(block', x) \in DOMAIN block' \cup {heap_ptr'}
               /\ After(block', x) <= heap_ptr'
               /\ \A y \in DOMAIN block' : y <= x \/ After(block', x) <= y
    <3>1. CASE x = h
      BY <1>2, <1>5, <1>6, <2>1, <2>2, <3>1
    <3>2. CASE x \in DOMAIN block
      BY <1>2, <1>5, <1>6, <2>2, <3>2 DEF Tiles
    <3> QED
      BY <1>5, <3>1, <3>2
  <2>5. \A x \in DOMAIN block' : (After(block, x))' = After(block', x)
    BY DEF After
  <2> QED
    BY <2>3, <2>4 DEF Tiled, After
<1>9. HeldIsUsed'
  <2>1. h + HeaderSize \notin DOMAIN held
    <3>1. (h + HeaderSize) - HeaderSize = h
      BY <1>2 DEF HeaderSize
    <3> QED
      BY <1>4, <3>1 DEF IInv, HeldIsUsed
  <2>2. /\ DOMAIN held' = DOMAIN held \cup {h + HeaderSize}
        /\ held'[h + HeaderSize] = n
        /\ \A p \in DOMAIN held : held'[p] = held[p]
    BY <1>3, <2>1 DEF With
  <2>3. (h + HeaderSize) - HeaderSize = h
    BY <1>2 DEF HeaderSize
  <2>4. ASSUME NEW p \in DOMAIN held'
        PROVE  /\ p - HeaderSize \in DOMAIN block'
               /\ held'[p] <= block'[p - HeaderSize].size
    <3>1. CASE p = h + HeaderSize
      BY <1>1, <1>5, <2>2, <2>3, <3>1
    <3>2. CASE p \in DOMAIN held
      BY <1>5, <2>2, <3>2 DEF IInv, HeldIsUsed
    <3> QED
      BY <2>2, <3>1, <3>2
  <2>5. ASSUME NEW x \in DOMAIN block'
        PROVE  ~ block'[x].free <=> x + HeaderSize \in DOMAIN held'
    <3>1. CASE x = h
      BY <1>5, <2>2, <3>1
    <3>2. CASE x \in DOMAIN block
      <4>1. x + HeaderSize # h + HeaderSize
        BY <1>2, <1>4, <3>2 DEF HeaderSize, Headers
      <4> QED
        BY <1>5, <2>2, <3>2, <4>1 DEF IInv, HeldIsUsed
    <3> QED
      BY <1>5, <3>1, <3>2
  <2> QED
    BY <2>4, <2>5 DEF HeldIsUsed
<1>10. NoFreeNeighbours'
  <2> SUFFICES ASSUME NEW x \in DOMAIN block', NEW y \in DOMAIN block',
                      block'[x].free, block'[y].free, After(block', x) = y
               PROVE  FALSE
    BY DEF NoFreeNeighbours, After
  <2>1. x \in DOMAIN block /\ y \in DOMAIN block
    BY <1>5
  <2>2. block[x].free /\ block[y].free /\ After(block, x) = y
    BY <1>5, <2>1 DEF After
  <2> QED
    BY <2>1, <2>2 DEF IInv, NoFreeNeighbours
<1> QED
  BY <1>7, <1>8, <1>9, <1>10 DEF IInv

(***************************************************************************)
(* kfree                                                                   *)
(***************************************************************************)
(* The blocks that are left and where the one at a ends now.               *)
Left(b) == DOMAIN b \ Absorbed(b)
NextLeft(b, a) == Least({x \in Left(b) \cup {heap_ptr} : x > a})

(* It ends at the first block left behind it, which no block left jumps.   *)
LEMMA NextLeftIs ==
  ASSUME NEW b, heap_ptr \in Nat, Headers(b), Tiles(b, heap_ptr),
         NEW a \in Left(b)
  PROVE  LET e == NextLeft(b, a)
         IN  /\ e \in Left(b) \cup {heap_ptr} /\ e \in Nat
             /\ After(b, a) <= e /\ e <= heap_ptr
             /\ \A x \in Left(b) : x <= a \/ e <= x
<1> DEFINE S == {x \in Left(b) \cup {heap_ptr} : x > a}
<1>1. a \in DOMAIN b /\ Left(b) \subseteq DOMAIN b /\ DOMAIN b \subseteq Nat
  BY DEF Left, Headers
<1>2. heap_ptr \in S /\ S \subseteq Nat
  BY <1>1, BlockRoom
<1>3. Least(S) \in S /\ \A y \in S : Least(S) <= y
  BY <1>2, LeastIs
<1>4. \A x \in S : After(b, a) <= x
  BY <1>1 DEF Tiles
<1> QED
  BY <1>1, <1>2, <1>3, <1>4 DEF NextLeft

(* Sizes between aligned addresses are multiples of four.                  *)
LEMMA MultiplesOfFour ==
  ASSUME NEW e \in Nat, e % 4 = 0, NEW a \in Nat, a % 4 = 0
  PROVE  (e - a - HeaderSize) % 4 = 0
  BY SMT DEF HeaderSize

(* Merging keeps the heap tiled, loses no block that is in use, makes none *)
(* smaller, and leaves no two free blocks side by side.                    *)
LEMMA CoalesceKeeps ==
  ASSUME NEW b, heap_ptr \in Nat, heap_ptr % 4 = 0,
         Headers(b), Tiles(b, heap_ptr),
         NEW c, c = coalesce_blocks(b)
  PROVE  /\ Headers(c) /\ Tiles(c, heap_ptr) /\ Apart(c)
         /\ DOMAIN c \subseteq DOMAIN b
         /\ \A x \in DOMAIN c : c[x].free = b[x].free /\ b[x].size <= c[x].size
         /\ \A x \in DOMAIN b \ DOMAIN c : b[x].free
         /\ c = [x \in DOMAIN c |-> c[x]]
<1>1. c = [a \in Left(b) |->
             [b[a] EXCEPT !.size = NextLeft(b, a) - a - HeaderSize]]
  BY Zenon DEF coalesce_blocks, Left, NextLeft
<1>2. DOMAIN c = Left(b) /\ Left(b) \subseteq DOMAIN b
  BY <1>1 DEF Left
<1>3. ASSUME NEW a \in Left(b)
      PROVE  /\ a \in DOMAIN b /\ a \in Nat /\ b[a].size \in Nat /\ b[a] \in Header
             /\ After(b, a) = a + HeaderSize + b[a].size
  BY <1>2, BlockRoom DEF Headers
<1>4. ASSUME NEW a \in Left(b)
      PROVE  /\ c[a] \in Header /\ c[a].free = b[a].free
             /\ c[a].size = NextLeft(b, a) - a - HeaderSize
             /\ b[a].size <= c[a].size
             /\ After(c, a) = NextLeft(b, a)
  <2> DEFINE e == NextLeft(b, a)
  <2>1. After(b, a) <= e /\ e \in Nat
    BY NextLeftIs
  <2>2. c[a] = [b[a] EXCEPT !.size = e - a - HeaderSize]
    BY <1>1
  <2> HIDE DEF e
  <2>3. c[a] = [size |-> e - a - HeaderSize, free |-> b[a].free]
    BY <1>3, <2>2 DEF Header
  <2>4. e - a - HeaderSize \in Nat /\ b[a].size <= e - a - HeaderSize
    BY <1>3, <2>1 DEF HeaderSize
  <2>5. c[a] \in Header
    BY <1>3, <2>3, <2>4 DEF Header
  <2>6. c[a].size = e - a - HeaderSize /\ c[a].free = b[a].free
    BY <2>3
  <2>7. After(c, a) = e
    BY <1>3, <2>1, <2>6 DEF After, HeaderSize
  <2> QED
    BY <2>4, <2>5, <2>6, <2>7 DEF e
<1>5. Headers(c)
  <2> SUFFICES ASSUME NEW a \in Left(b)
               PROVE  /\ a \in Nat /\ c[a] \in Header
                      /\ a % 4 = 0 /\ c[a].size % 4 = 0
    BY <1>2 DEF Headers
  <2>1. c[a] \in Header
    BY <1>4
  <2>2. NextLeft(b, a) \in Nat /\ NextLeft(b, a) % 4 = 0
    BY <1>2, NextLeftIs DEF Headers
  <2>3. a % 4 = 0 /\ a \in Nat
    BY <1>3 DEF Headers
  <2>4. (NextLeft(b, a) - a - HeaderSize) % 4 = 0
    BY <2>2, <2>3, MultiplesOfFour
  <2>5. c[a].size % 4 = 0
    BY <1>4, <2>4
  <2> QED
    BY <2>1, <2>3, <2>5
<1>6. Tiles(c, heap_ptr)
  <2>1. KERNEL_HEAP_START \in Left(b) \cup {heap_ptr}
    <3> SUFFICES ASSUME KERNEL_HEAP_START \in Absorbed(b) PROVE FALSE
      BY DEF Tiles, Left
    <3>1. PICK p \in DOMAIN b : After(b, p) = KERNEL_HEAP_START
      BY DEF Absorbed
    <3>2. p \in Nat /\ KERNEL_HEAP_START <= p /\ p + HeaderSize <= After(b, p)
      BY BlockRoom DEF Tiles
    <3> QED
      BY <3>1, <3>2, HeapAssumption DEF HeaderSize
  <2>2. ASSUME NEW a \in Left(b)
        PROVE  /\ KERNEL_HEAP_START <= a
               /\ After(c, a) \in Left(b) \cup {heap_ptr}
               /\ After(c, a) <= heap_ptr
               /\ \A x \in Left(b) : x <= a \/ After(c, a) <= x
    <3>1. KERNEL_HEAP_START <= a
      BY <1>3 DEF Tiles
    <3>2. After(c, a) = NextLeft(b, a)
      BY <1>4
    <3>3. /\ NextLeft(b, a) \in Left(b) \cup {heap_ptr}
          /\ NextLeft(b, a) <= heap_ptr
          /\ \A x \in Left(b) : x <= a \/ NextLeft(b, a) <= x
      BY NextLeftIs
    <3> QED
      BY <3>1, <3>2, <3>3, Zenon
  <2> QED
    BY <1>2, <2>1, <2>2 DEF Tiles
<1>7. Apart(c)
  <2> SUFFICES ASSUME NEW a \in Left(b), NEW d \in Left(b),
                      b[a].free, b[d].free, NextLeft(b, a) = d
               PROVE  FALSE
    BY <1>2, <1>4 DEF Apart
  <2>1. a \in Nat /\ d \in Nat /\ a < d
    <3>1. a \in Nat /\ d \in Nat /\ After(b, a) \in Nat
          /\ a + HeaderSize <= After(b, a)
      BY <1>3, BlockRoom
    <3>2. After(b, a) <= d
      BY NextLeftIs
    <3> QED
      BY <3>1, <3>2 DEF HeaderSize
  <2>2. d # KERNEL_HEAP_START
    BY <1>3, <2>1, HeapAssumption DEF Tiles
  <2>3. PICK p \in DOMAIN b : p < d /\ After(b, p) = d
    BY <1>3, <2>2, BlockBefore
  <2>4. ~ b[p].free
    BY <2>3 DEF Left, Absorbed
  <2>5. p \in Left(b) /\ p # a /\ p \in Nat
    BY <2>3, <2>4 DEF Left, Absorbed, Headers
  <2>6. CASE a < p
    <3>1. \A x \in Left(b) : x <= a \/ d <= x
      BY NextLeftIs
    <3> QED
      BY <2>1, <2>3, <2>5, <2>6, <3>1
  <2>7. CASE p < a
    BY <1>3, <2>1, <2>3, <2>5, <2>7 DEF Tiles
  <2> QED
    BY <2>1, <2>5, <2>6, <2>7
<1>8. \A x \in DOMAIN b \ Left(b) : b[x].free
  BY DEF Left, Absorbed
<1> QED
  BY <1>1, <1>2, <1>4, <1>5, <1>6, <1>7, <1>8

(* Freeing keeps the invariant: the block freed is in use by its holder    *)
(* alone, and merging touches none of the others in use.                   *)
LEMMA KfreeStep ==
  ASSUME IInv, NEW p \in DOMAIN held, kfree(p)
  PROVE  IInv'
<1> DEFINE a == p - HeaderSize
           b == [block EXCEPT ![a].free = TRUE]
<1>1. /\ Headers(block) /\ Tiles(block, heap_ptr) /\ heap_ptr \in Nat
      /\ heap_ptr % 4 = 0 /\ DOMAIN block \subseteq Address
      /\ block \in [DOMAIN block -> Header]
  BY InvariantsOfBlock, HeapAssumption DEF IInv, TypeOK, Address, HeapEnd
<1>2. a \in DOMAIN block /\ ~ block[a].free /\ p \in Nat /\ a + HeaderSize = p
  <2>1. p \in Nat /\ a \in DOMAIN block
    BY HeapAssumption DEF IInv, TypeOK, HeldIsUsed, Address, HeapEnd
  <2>2. a + HeaderSize = p
    BY <2>1 DEF HeaderSize
  <2> QED
    BY <2>1, <2>2 DEF IInv, HeldIsUsed
<1>3. block' = coalesce_blocks(b) /\ held' = Without(held, p) /\ heap_ptr' = heap_ptr
  BY DEF kfree
<1>4. /\ DOMAIN b = DOMAIN block
      /\ b[a] = [size |-> block[a].size, free |-> TRUE]
      /\ \A x \in DOMAIN block \ {a} : b[x] = block[x]
  BY <1>1, <1>2 DEF Header
<1> HIDE DEF a, b
<1>5. /\ \A x \in DOMAIN block : b[x].size = block[x].size
      /\ \A x \in DOMAIN block : After(b, x) = After(block, x)
  BY <1>2, <1>4 DEF After
<1>6. Headers(b)
  <2>1. b[a] \in Header
    <3>1. block[a].size \in Nat
      BY <1>1, <1>2, BlockRoom
    <3> QED
      BY <1>4, <3>1 DEF Header
  <2>2. \A x \in DOMAIN b : b[x] \in Header
    BY <1>1, <1>4, <2>1
  <2> QED
    BY <1>1, <1>4, <1>5, <2>2 DEF Headers
<1>7. Tiles(b, heap_ptr)
  BY <1>1, <1>4, <1>5 DEF Tiles
<1>8. /\ Headers(block') /\ Tiles(block', heap_ptr) /\ Apart(block')
      /\ DOMAIN block' \subseteq DOMAIN b
      /\ \A x \in DOMAIN block' :
           block'[x].free = b[x].free /\ b[x].size <= block'[x].size
      /\ \A x \in DOMAIN b \ DOMAIN block' : b[x].free
      /\ block' = [x \in DOMAIN block' |-> block'[x]]
  BY <1>1, <1>3, <1>6, <1>7, CoalesceKeeps
<1>9. /\ DOMAIN held' = DOMAIN held \ {p}
      /\ \A q \in DOMAIN held' : held'[q] = held[q]
      /\ held' = [q \in DOMAIN held' |-> held'[q]]
  BY <1>3 DEF Without
<1>10. TypeOK'
  <2>1. block' \in [DOMAIN block' -> Header]
    BY <1>8 DEF Headers
  <2>2. DOMAIN held' \subseteq Address /\ held' \in [DOMAIN held' -> Request]
    BY <1>9 DEF IInv, TypeOK
  <2> QED
    BY <1>1, <1>3, <1>4, <1>8, <2>1, <2>2 DEF IInv, TypeOK, Headers
<1>11. HeldIsUsed'
  <2>1. ASSUME NEW q \in DOMAIN held'
        PROVE  /\ q - HeaderSize \in DOMAIN block'
               /\ held'[q] <= block'[q - HeaderSize].size
    <3>1. q \in DOMAIN held /\ q # p /\ q \in Nat /\ held[q] \in Nat
      BY <1>9, <2>1, HeapAssumption DEF IInv, TypeOK, Address, HeapEnd
    <3>2. q - HeaderSize # a /\ (q - HeaderSize) + HeaderSize = q
      BY <1>2, <3>1 DEF HeaderSize
    <3>3. /\ q - HeaderSize \in DOMAIN block
          /\ held[q] <= block[q - HeaderSize].size
          /\ ~ block[q - HeaderSize].free
      BY <3>1, <3>2 DEF IInv, HeldIsUsed
    <3>4. q - HeaderSize \in DOMAIN block'
      BY <1>4, <1>8, <3>2, <3>3
    <3>5. /\ block[q - HeaderSize].size \in Nat
          /\ block'[q - HeaderSize].size \in Nat
      BY <1>1, <1>8, <3>3, <3>4 DEF Headers, Header
    <3>6. block[q - HeaderSize].size <= block'[q - HeaderSize].size
      BY <1>5, <1>8, <3>3, <3>4
    <3> QED
      BY <1>9, <3>1, <3>3, <3>4, <3>5, <3>6
  <2>2. ASSUME NEW x \in DOMAIN block'
        PROVE  ~ block'[x].free <=> x + HeaderSize \in DOMAIN held'
    <3>1. x \in DOMAIN block /\ x \in Nat
      BY <1>1, <1>4, <1>8 DEF Headers
    <3>2. CASE x = a
      BY <1>2, <1>4, <1>8, <1>9, <3>2
    <3>3. CASE x # a
      <4>1. x + HeaderSize # p
        BY <1>2, <3>1, <3>3, HeapAssumption DEF HeaderSize, a
      <4>2. block'[x].free = block[x].free
        BY <1>4, <1>8, <3>1, <3>3
      <4> QED
        BY <1>9, <3>1, <4>1, <4>2 DEF IInv, HeldIsUsed
    <3> QED
      BY <3>2, <3>3
  <2> QED
    BY <2>1, <2>2 DEF HeldIsUsed
<1>12. Tiled' /\ NoFreeNeighbours'
  BY <1>3, <1>8 DEF Tiled, Tiles, NoFreeNeighbours, Apart
<1> QED
  BY <1>10, <1>11, <1>12 DEF IInv

(***************************************************************************)
(* The theorems                                                            *)
(***************************************************************************)
(* The invariant is inductive.                                             *)
LEMMA InitIInv == Init => IInv
<1> SUFFICES ASSUME Init PROVE IInv
  OBVIOUS
<1>1. DOMAIN block = {} /\ DOMAIN held = {} /\ heap_ptr = KERNEL_HEAP_START
  BY DEF Init
<1>2. heap_ptr \in Address /\ heap_ptr % 4 = 0
  BY <1>1, HeapAssumption DEF Address, HeapEnd
<1>3. block \in [DOMAIN block -> Header] /\ held \in [DOMAIN held -> Request]
  BY DEF Init
<1> QED
  BY <1>1, <1>2, <1>3 DEF IInv, TypeOK, Tiled, HeldIsUsed, NoFreeNeighbours

LEMMA NextIInv == IInv /\ [Next]_vars => IInv'
<1> SUFFICES ASSUME IInv, [Next]_vars PROVE IInv'
  OBVIOUS
<1>1. ASSUME NEW n \in Request, KmallocReuse(n) PROVE IInv'
  BY <1>1, KmallocReuseStep
<1>2. ASSUME NEW n \in Request, KmallocGrow(n) PROVE IInv'
  BY <1>2, KmallocGrowStep
<1>3. CASE UNCHANGED vars
  BY <1>3 DEF vars, IInv, TypeOK, Tiled, HeldIsUsed, NoFreeNeighbours, After
<1>4. ASSUME NEW p \in DOMAIN held, kfree(p) PROVE IInv'
  BY <1>4, KfreeStep
<1> QED
  BY <1>1, <1>2, <1>3, <1>4 DEF Next, kmalloc, KmallocFails

(* Addresses and sizes stay in range and aligned, whatever is asked for    *)
(* and given back.                                                         *)
THEOREM TypeCorrect == Spec => []TypeOK
<1>1. IInv => TypeOK
  BY DEF IInv
<1> QED
  BY <1>1, InitIInv, NextIInv, PTL DEF Spec

(* The walk of find_free_block and coalesce_blocks always leads from       *)
(* header to header up to heap_ptr.                                        *)
THEOREM BlocksTileTheHeap == Spec => []Tiled
<1>1. IInv => Tiled
  BY DEF IInv
<1> QED
  BY <1>1, InitIInv, NextIInv, PTL DEF Spec

(* The blocks in use are the ones somebody holds, and as large as asked.   *)
THEOREM HeldBlocksAreUsed == Spec => []HeldIsUsed
<1>1. IInv => HeldIsUsed
  BY DEF IInv
<1> QED
  BY <1>1, InitIInv, NextIInv, PTL DEF Spec

(* coalesce_blocks leaves no two free blocks side by side.                 *)
THEOREM FreeBlocksAreMerged == Spec => []NoFreeNeighbours
<1>1. IInv => NoFreeNeighbours
  BY DEF IInv
<1> QED
  BY <1>1, InitIInv, NextIInv, PTL DEF Spec

(* Once everything is given back, all memory ever used is one free block:  *)
(* no sequence of calls fragments the heap for good.                       *)
AllComesBack ==
  DOMAIN held = {} =>
    \/ DOMAIN block = {}
    \/ /\ DOMAIN block = {KERNEL_HEAP_START}
       /\ After(block, KERNEL_HEAP_START) = heap_ptr

THEOREM NothingIsLost == Spec => []AllComesBack
<1>1. IInv => AllComesBack
  <2> SUFFICES ASSUME IInv, DOMAIN held = {}, DOMAIN block # {}
               PROVE  /\ DOMAIN block = {KERNEL_HEAP_START}
                      /\ After(block, KERNEL_HEAP_START) = heap_ptr
    BY DEF AllComesBack
  <2>1. Headers(block) /\ Tiles(block, heap_ptr) /\ heap_ptr \in Nat
    BY InvariantsOfBlock, HeapAssumption DEF IInv, TypeOK, Address, HeapEnd
  <2>2. \A a \in DOMAIN block : block[a].free
    BY DEF IInv, HeldIsUsed
  <2>3. DOMAIN block \subseteq {KERNEL_HEAP_START}
    <3> SUFFICES ASSUME NEW c \in DOMAIN block, c # KERNEL_HEAP_START
                 PROVE  FALSE
      OBVIOUS
    <3>1. PICK p \in DOMAIN block : After(block, p) = c
      BY <2>1, BlockBefore
    <3> QED
      BY <2>2, <3>1 DEF IInv, NoFreeNeighbours
  <2>4. DOMAIN block = {KERNEL_HEAP_START}
    BY <2>3
  <2>5. After(block, KERNEL_HEAP_START) # KERNEL_HEAP_START
    BY <2>1, <2>4, BlockRoom, HeapAssumption DEF HeaderSize
  <2> QED
    BY <2>1, <2>4, <2>5 DEF Tiles
<1> QED
  BY <1>1, InitIInv, NextIInv, PTL DEF Spec

(* What a block of the heap gives to a holder overlaps nothing held.       *)
LEMMA UnheldBlock ==
  ASSUME IInv, NEW a \in Nat, NEW n \in Nat,
         \A c \in DOMAIN block :
           ~ block[c].free => a + HeaderSize + n <= c \/ After(block, c) <= a
  PROVE  Abstract!Unheld(a + HeaderSize, n)
<1> SUFFICES ASSUME NEW q \in DOMAIN held
             PROVE  \/ a + HeaderSize + n <= q
                    \/ q + held[q] <= a + HeaderSize
  BY DEF Abstract!Unheld
<1> DEFINE c == q - HeaderSize
<1>1. q \in Nat /\ held[q] \in Nat
  BY HeapAssumption DEF IInv, TypeOK, Address, HeapEnd
<1>2. c \in DOMAIN block /\ held[q] <= block[c].size /\ c + HeaderSize = q
  BY <1>1 DEF IInv, HeldIsUsed, HeaderSize
<1>3. ~ block[c].free
  BY <1>2 DEF IInv, HeldIsUsed
<1>4. c \in Nat /\ block[c].size \in Nat
      /\ After(block, c) = c + HeaderSize + block[c].size
  BY <1>2, HeapAssumption, BlockRoom, InvariantsOfBlock
     DEF IInv, TypeOK, Address, HeapEnd
<1> HIDE DEF c
<1>5. a + HeaderSize + n <= c \/ After(block, c) <= a
  BY <1>2, <1>3
<1> QED
  BY <1>1, <1>2, <1>4, <1>5 DEF HeaderSize

(* Every step of Heap is one of Allocator, or none.                        *)
LEMMA StepImplements ==
  ASSUME IInv, [Next]_vars
  PROVE  [Abstract!Next]_held
<1> USE DEF Abstract!Address, Abstract!HeapEnd
<1>1. ASSUME NEW n \in Request, KmallocReuse(n) PROVE Abstract!Next
  <2> DEFINE size == align4(n)
             a    == find_free_block(size)
  <2>1. size \in Nat /\ n <= size /\ n \in Nat
    BY AlignUp, HeapAssumption
  <2>2. a \in DOMAIN block /\ block[a].free /\ size <= block[a].size
    BY <1>1, <2>1, FirstFit DEF IInv, KmallocReuse
  <2>3. n # 0 /\ held' = With(held, a + HeaderSize, n)
    BY <1>1, <2>1 DEF KmallocReuse
  <2> HIDE DEF size, a
  <2>4. /\ Headers(block) /\ Tiles(block, heap_ptr)
        /\ heap_ptr \in Nat /\ heap_ptr <= HeapEnd /\ HeapEnd \in Nat
    BY InvariantsOfBlock, HeapAssumption DEF IInv, TypeOK, Address, HeapEnd
  <2>5. /\ a \in Nat /\ KERNEL_HEAP_START <= a /\ block[a].size \in Nat
        /\ After(block, a) = a + HeaderSize + block[a].size
        /\ After(block, a) <= heap_ptr
    BY <2>2, <2>4, BlockRoom DEF Tiles
  <2>6. a + HeaderSize + n <= After(block, a) /\ After(block, a) \in Nat
    BY <2>1, <2>2, <2>5 DEF HeaderSize
  <2>7. ASSUME NEW c \in DOMAIN block, ~ block[c].free
        PROVE  a + HeaderSize + n <= c \/ After(block, c) <= a
    <3>1. c \in Nat /\ c # a /\ After(block, c) \in Nat
      BY <2>2, <2>4, <2>7, BlockRoom
    <3>2. (c <= a \/ After(block, a) <= c) /\ (a <= c \/ After(block, c) <= a)
      BY <2>2, <2>4 DEF Tiles
    <3> QED
      BY <2>1, <2>5, <2>6, <3>1, <3>2 DEF HeaderSize
  <2>8. Abstract!Unheld(a + HeaderSize, n)
    BY <2>1, <2>5, <2>7, UnheldBlock
  <2>9. a + HeaderSize \in Address /\ a + HeaderSize + n <= HeapEnd
    BY <2>1, <2>4, <2>5, <2>6, HeapAssumption DEF Address, HeaderSize
  <2>10. held' = Abstract!With(held, a + HeaderSize, n)
    BY <2>3 DEF With, Abstract!With
  <2>11. Abstract!Alloc(n)
    BY <2>8, <2>9, <2>10 DEF Abstract!Alloc, Address, HeapEnd
  <2> QED
    BY <2>3, <2>11 DEF Abstract!Next
<1>2. ASSUME NEW n \in Request, KmallocGrow(n) PROVE Abstract!Next
  <2> DEFINE size == align4(n)
  <2>1. size \in Nat /\ n <= size /\ n \in Nat
    BY AlignUp, HeapAssumption
  <2>2. /\ n # 0 /\ heap_ptr + HeaderSize + size <= HeapEnd
        /\ held' = With(held, heap_ptr + HeaderSize, n)
    BY <1>2, <2>1 DEF KmallocGrow
  <2> HIDE DEF size
  <2>3. /\ Headers(block) /\ Tiles(block, heap_ptr)
        /\ heap_ptr \in Nat /\ KERNEL_HEAP_START <= heap_ptr /\ HeapEnd \in Nat
    BY InvariantsOfBlock, HeapAssumption DEF IInv, TypeOK, Address, HeapEnd
  <2>4. Abstract!Unheld(heap_ptr + HeaderSize, n)
    BY <2>1, <2>3, UnheldBlock DEF Tiles
  <2>5. /\ heap_ptr + HeaderSize \in Address
        /\ heap_ptr + HeaderSize + n <= HeapEnd
    BY <2>1, <2>2, <2>3, HeapAssumption DEF Address, HeaderSize
  <2>6. held' = Abstract!With(held, heap_ptr + HeaderSize, n)
    BY <2>2 DEF With, Abstract!With
  <2>7. Abstract!Alloc(n)
    BY <2>4, <2>5, <2>6 DEF Abstract!Alloc, Address, HeapEnd
  <2> QED
    BY <2>2, <2>7 DEF Abstract!Next
<1>3. CASE UNCHANGED vars
  BY <1>3 DEF vars
<1>4. ASSUME NEW p \in DOMAIN held, kfree(p) PROVE Abstract!Next
  <2>1. p \in Abstract!Address
    BY DEF IInv, TypeOK, Address, HeapEnd
  <2>2. Abstract!Free(p)
    BY <1>4 DEF kfree, Without, Abstract!Without, Abstract!Free
  <2> QED
    BY <2>1, <2>2 DEF Abstract!Next
<1> QED
  BY <1>1, <1>2, <1>3, <1>4 DEF Next, kmalloc, KmallocFails

(* memory.c keeps the promise of Allocator: what is handed out is nobody   *)
(* else's, lies in the heap, and stays where it is until it is freed.      *)
THEOREM Refinement == Spec => ImplementsAllocator
<1>1. Init => Abstract!Init
  BY DEF Init, Abstract!Init
<1>2. IInv /\ [Next]_vars => [Abstract!Next]_held
  BY StepImplements
<1> QED
  BY <1>1, <1>2, InitIInv, NextIInv, PTL
     DEF Spec, ImplementsAllocator, Abstract!Spec

(***************************************************************************)
(* The walks, turn by turn                                                 *)
(***************************************************************************)
LEMMA Induction ==
  ASSUME NEW T, 0 \in T, \A n \in Nat : n \in T => n + 1 \in T
  PROVE  Nat \subseteq T
<1> SUFFICES ASSUME Nat \ T # {} PROVE FALSE
  OBVIOUS
<1> DEFINE x == Least(Nat \ T)
<1>1. x \in Nat \ T /\ \A y \in Nat \ T : x <= y
  BY LeastIs
<1> HIDE DEF x
<1>2. x # 0 /\ x - 1 \in Nat /\ ~ (x <= x - 1) /\ x - 1 + 1 = x
  BY <1>1
<1>3. x - 1 \in T
  BY <1>1, <1>2
<1> QED
  BY <1>1, <1>2, <1>3

(* Both walks are defined turn by turn.                                    *)
LEMMA WalkIs ==
  ASSUME Turns \in Nat
  PROVE  \A n \in 0 .. Turns :
           Walk[n] = IF n = 0 THEN [current |-> KERNEL_HEAP_START, met |-> {}]
                     ELSE WalkTurn(Walk[n - 1])
<1> DEFINE Step(g, n) == IF n = 0 THEN [current |-> KERNEL_HEAP_START, met |-> {}]
                         ELSE WalkTurn(g[n - 1])
           Fits(g, k) == g = [n \in 0 .. k |-> Step(g, n)]
           T == {k \in Nat : \E g : Fits(g, k)}
<1>1. 0 \in T
  <2> DEFINE g == [n \in 0 .. 0 |-> [current |-> KERNEL_HEAP_START, met |-> {}]]
  <2>1. \A n \in 0 .. 0 : Step(g, n) = [current |-> KERNEL_HEAP_START, met |-> {}]
    OBVIOUS
  <2>2. Fits(g, 0)
    <3> HIDE DEF Step
    <3> QED
      BY <2>1
  <2> HIDE DEF Fits, g
  <2> QED
    BY <2>2
<1>2. ASSUME NEW k \in Nat, k \in T
      PROVE  k + 1 \in T
  <2>1. PICK g : Fits(g, k)
    BY <1>2
  <2> DEFINE h == [n \in 0 .. k + 1 |-> Step(g, n)]
  <2>2. \A n \in 0 .. k : h[n] = g[n]
    <3> HIDE DEF Step
    <3> QED
      BY <2>1
  <2>3. ASSUME NEW n \in 0 .. k + 1 PROVE Step(h, n) = Step(g, n)
    <3> HIDE DEF h
    <3>1. n # 0 => n - 1 \in 0 .. k
      OBVIOUS
    <3> QED
      BY <2>2, <3>1
  <2>4. Fits(h, k + 1)
    <3> HIDE DEF Step
    <3> QED
      BY <2>3
  <2> HIDE DEF Fits, h
  <2> QED
    BY <2>4
<1>3. Nat \subseteq T
  <2> HIDE DEF T
  <2> QED
    BY <1>1, <1>2, Induction
<1>4. \E g : Fits(g, Turns)
  BY <1>3
<1>5. Walk = CHOOSE g : Fits(g, Turns)
  BY DEF Walk
<1>6. Fits(Walk, Turns)
  <2> HIDE DEF Fits
  <2> QED
    BY <1>4, <1>5
<1> HIDE DEF Step
<1>7. \A n \in 0 .. Turns : Walk[n] = Step(Walk, n)
  <2> DEFINE w == Walk
  <2>1. w = [n \in 0 .. Turns |-> Step(w, n)]
    BY <1>6
  <2> HIDE DEF w
  <2>2. \A n \in 0 .. Turns : w[n] = Step(w, n)
    BY <2>1
  <2> QED
    BY <2>2 DEF w
<1> QED
  BY <1>7 DEF Step

LEMMA CoalesceIs ==
  ASSUME Turns \in Nat, NEW b
  PROVE  \A n \in 0 .. Turns :
           Coalesce(b)[n] = IF n = 0 THEN [current |-> KERNEL_HEAP_START, b |-> b]
                     ELSE CoalesceTurn(Coalesce(b)[n - 1])
<1> DEFINE Step(g, n) == IF n = 0 THEN [current |-> KERNEL_HEAP_START, b |-> b]
                         ELSE CoalesceTurn(g[n - 1])
           Fits(g, k) == g = [n \in 0 .. k |-> Step(g, n)]
           T == {k \in Nat : \E g : Fits(g, k)}
<1>1. 0 \in T
  <2> DEFINE g == [n \in 0 .. 0 |-> [current |-> KERNEL_HEAP_START, b |-> b]]
  <2>1. \A n \in 0 .. 0 : Step(g, n) = [current |-> KERNEL_HEAP_START, b |-> b]
    OBVIOUS
  <2>2. Fits(g, 0)
    <3> HIDE DEF Step
    <3> QED
      BY <2>1
  <2> HIDE DEF Fits, g
  <2> QED
    BY <2>2
<1>2. ASSUME NEW k \in Nat, k \in T
      PROVE  k + 1 \in T
  <2>1. PICK g : Fits(g, k)
    BY <1>2
  <2> DEFINE h == [n \in 0 .. k + 1 |-> Step(g, n)]
  <2>2. \A n \in 0 .. k : h[n] = g[n]
    <3> HIDE DEF Step
    <3> QED
      BY <2>1
  <2>3. ASSUME NEW n \in 0 .. k + 1 PROVE Step(h, n) = Step(g, n)
    <3> HIDE DEF h
    <3>1. n # 0 => n - 1 \in 0 .. k
      OBVIOUS
    <3> QED
      BY <2>2, <3>1
  <2>4. Fits(h, k + 1)
    <3> HIDE DEF Step
    <3> QED
      BY <2>3
  <2> HIDE DEF Fits, h
  <2> QED
    BY <2>4
<1>3. Nat \subseteq T
  <2> HIDE DEF T
  <2> QED
    BY <1>1, <1>2, Induction
<1>4. \E g : Fits(g, Turns)
  BY <1>3
<1>5. Coalesce(b) = CHOOSE g : Fits(g, Turns)
  BY DEF Coalesce
<1>6. Fits(Coalesce(b), Turns)
  <2> HIDE DEF Fits
  <2> QED
    BY <1>4, <1>5
<1> HIDE DEF Step
<1>7. \A n \in 0 .. Turns : Coalesce(b)[n] = Step(Coalesce(b), n)
  <2> DEFINE w == Coalesce(b)
  <2>1. w = [n \in 0 .. Turns |-> Step(w, n)]
    BY <1>6
  <2> HIDE DEF w
  <2>2. \A n \in 0 .. Turns : w[n] = Step(w, n)
    BY <2>1
  <2> QED
    BY <2>2 DEF w
<1> QED
  BY <1>7 DEF Step

LEMMA TurnsIs == Turns \in Nat /\ KERNEL_HEAP_SIZE < HeaderSize * Turns + HeaderSize
  BY HeapAssumption DEF Turns, HeaderSize

(* After k turns the walk of find_free_block has met the headers before    *)
(* where it is, and got past k of them or to the end.                      *)
Walked(w, k) ==
  /\ w.current \in DOMAIN block \cup {heap_ptr}
  /\ w = [current |-> w.current, met |-> {a \in DOMAIN block : a < w.current}]
  /\ w.current = heap_ptr \/ KERNEL_HEAP_START + HeaderSize * k <= w.current

LEMMA WalkTurnKeeps ==
  ASSUME heap_ptr \in Nat, Headers(block), Tiles(block, heap_ptr),
         NEW k \in Nat, NEW w, Walked(w, k)
  PROVE  Walked(WalkTurn(w), k + 1)
<1> DEFINE a == w.current
           next == After(block, a)
<1>1. CASE a >= heap_ptr
  <2>1. a = heap_ptr
    BY <1>1, BlockRoom DEF Walked
  <2> QED
    BY <1>1, <2>1 DEF Walked, WalkTurn
<1>2. CASE ~ (a >= heap_ptr)
  <2>1. a \in DOMAIN block /\ a \in Nat /\ next \in Nat /\ a + HeaderSize <= next
    BY <1>2, BlockRoom DEF Walked
  <2>2. WalkTurn(w) = [current |-> next, met |-> w.met \cup {a}]
    BY <1>2 DEF WalkTurn
  <2>3. w.met = {x \in DOMAIN block : x < a}
    BY DEF Walked
  <2>4. next \in DOMAIN block \cup {heap_ptr}
    BY <2>1 DEF Tiles
  <2>5. \A x \in DOMAIN block : x < next <=> x < a \/ x = a
    BY <2>1 DEF Tiles, Headers, HeaderSize
  <2>6. w.met \cup {a} = {x \in DOMAIN block : x < next}
    BY <2>1, <2>3, <2>5
  <2>7. KERNEL_HEAP_START + HeaderSize * (k + 1) <= next
    BY <1>2, <2>1, HeapAssumption DEF Walked, HeaderSize
  <2> HIDE DEF a, next
  <2> QED
    BY <2>2, <2>4, <2>6, <2>7 DEF Walked
<1> QED
  BY <1>1, <1>2

LEMMA WalkMeetsAll ==
  ASSUME IInv
  PROVE  Walk[Turns] = [current |-> heap_ptr, met |-> DOMAIN block]
<1>1. /\ Headers(block) /\ Tiles(block, heap_ptr)
      /\ heap_ptr \in Nat /\ heap_ptr <= KERNEL_HEAP_START + KERNEL_HEAP_SIZE
      /\ KERNEL_HEAP_START <= heap_ptr /\ KERNEL_HEAP_START \in Nat
  BY InvariantsOfBlock, HeapAssumption DEF IInv, Address, HeapEnd
<1> DEFINE T == {k \in Nat : k <= Turns => Walked(Walk[k], k)}
<1>2. 0 \in T
  <2>1. Walk[0] = [current |-> KERNEL_HEAP_START, met |-> {}]
    BY WalkIs, TurnsIs
  <2>2. ASSUME NEW a \in DOMAIN block PROVE ~ (a < KERNEL_HEAP_START)
    <3>1. a \in Nat /\ KERNEL_HEAP_START <= a
      BY <1>1 DEF Tiles, Headers
    <3> QED
      BY <1>1, <3>1
  <2> DEFINE w == Walk[0]
  <2>3. /\ w.current = KERNEL_HEAP_START /\ w.met = {}
        /\ w = [current |-> w.current, met |-> w.met]
    BY <2>1
  <2>4. {a \in DOMAIN block : a < w.current} = {}
    BY <2>2, <2>3
  <2>5. w.current \in DOMAIN block \cup {heap_ptr}
    BY <1>1, <2>3 DEF Tiles
  <2>6. KERNEL_HEAP_START + HeaderSize * 0 <= w.current
    BY <1>1, <2>3 DEF HeaderSize
  <2> HIDE DEF w
  <2>7. Walked(w, 0)
    BY <2>3, <2>4, <2>5, <2>6 DEF Walked
  <2> QED
    BY <2>7 DEF w
<1>3. ASSUME NEW k \in Nat, k \in T
      PROVE  k + 1 \in T
  <2> SUFFICES ASSUME k + 1 <= Turns
               PROVE  Walked(Walk[k + 1], k + 1)
    OBVIOUS
  <2>1. k \in 0 .. Turns /\ k + 1 \in 0 .. Turns /\ k + 1 # 0 /\ k + 1 - 1 = k
    BY TurnsIs
  <2>2. Walk[k + 1] = WalkTurn(Walk[k])
    BY <2>1, WalkIs, TurnsIs
  <2>3. Walked(Walk[k], k)
    BY <1>3, <2>1
  <2> QED
    BY <1>1, <2>2, <2>3, WalkTurnKeeps
<1>4. Walked(Walk[Turns], Turns)
  <2>1. Turns \in T
    <3> HIDE DEF T
    <3> QED
      BY <1>2, <1>3, Induction, TurnsIs
  <2> QED
    BY <2>1, TurnsIs
<1> DEFINE w == Walk[Turns]
<1>5. w.current = heap_ptr
  <2> SUFFICES ASSUME w.current \in DOMAIN block,
                      KERNEL_HEAP_START + HeaderSize * Turns <= w.current
               PROVE  FALSE
    BY <1>4 DEF Walked
  <2> HIDE DEF w
  <2>1. /\ w.current \in Nat /\ After(block, w.current) \in Nat
        /\ w.current + HeaderSize <= After(block, w.current)
        /\ After(block, w.current) <= heap_ptr
    BY <1>1, BlockRoom
  <2> QED
    BY <1>1, <2>1, TurnsIs, HeapAssumption DEF HeaderSize
<1>6. {a \in DOMAIN block : a < heap_ptr} = DOMAIN block
  BY <1>1, BlockRoom
<1> QED
  BY <1>4, <1>5, <1>6 DEF Walked

(* After k turns coalesce_blocks is done with the blocks before the one it *)
(* is at; that one has taken in free blocks up to where it reaches, behind *)
(* which all is as it was.                                                 *)
Reach(d, a) == IF a = heap_ptr THEN heap_ptr ELSE After(d, a)

Shaped(d) == Headers(d) /\ Tiles(d, heap_ptr) /\ d = [x \in DOMAIN d |-> d[x]]

MergedPart(b, d, a) ==
  /\ a \in Left(b) \cup {heap_ptr}
  /\ DOMAIN d = {x \in DOMAIN b : x \in Left(b) \/ Reach(d, a) <= x}
  /\ \A x \in DOMAIN d : d[x].free = b[x].free
  /\ \A x \in DOMAIN d : x < a => After(d, x) = NextLeft(b, x)
  /\ \A x \in DOMAIN d : Reach(d, a) <= x => d[x] = b[x]
  /\ a # heap_ptr => \E p \in DOMAIN b : /\ After(b, p) = Reach(d, a)
                                         /\ b[p].free = b[a].free

MergedTo(b, c, k) ==
  /\ c = [current |-> c.current, b |-> c.b]
  /\ Shaped(c.b) /\ MergedPart(b, c.b, c.current)
  /\ \/ c.current = heap_ptr
     \/ KERNEL_HEAP_START + HeaderSize * (k + 1) <= Reach(c.b, c.current)

(* Where the block at a reaches when the next one stays is where it ends.  *)
LEMMA ReachIsNext ==
  ASSUME heap_ptr \in Nat, NEW b, Headers(b), Tiles(b, heap_ptr),
         NEW d, Shaped(d), NEW a, MergedPart(b, d, a), a # heap_ptr,
         After(d, a) \in Left(b) \cup {heap_ptr}
  PROVE  NextLeft(b, a) = After(d, a)
<1> DEFINE e == After(d, a)
           f == NextLeft(b, a)
<1>1. /\ a \in Left(b) /\ a \in DOMAIN b /\ a \in DOMAIN d
      /\ \A x \in Left(b) : x \in DOMAIN d
  BY DEF MergedPart, Left
<1>2. /\ a \in Nat /\ e \in Nat /\ a < e /\ e <= heap_ptr
      /\ \A x \in DOMAIN d : x \in Nat /\ (x <= a \/ e <= x)
  BY <1>1, BlockRoom DEF Shaped, Tiles, Headers, HeaderSize
<1>3. /\ f \in Left(b) \cup {heap_ptr} /\ f \in Nat
      /\ a < f /\ f <= heap_ptr
      /\ \A x \in Left(b) : x <= a \/ f <= x
  <2>1. /\ f \in Left(b) \cup {heap_ptr} /\ f \in Nat
        /\ After(b, a) <= f /\ f <= heap_ptr
        /\ \A x \in Left(b) : x <= a \/ f <= x
    BY <1>1, NextLeftIs
  <2>2. a < After(b, a) /\ After(b, a) \in Nat
    BY <1>1, BlockRoom DEF HeaderSize
  <2> HIDE DEF f
  <2> QED
    BY <1>2, <2>1, <2>2
<1> HIDE DEF e, f
<1>4. e <= f
  BY <1>1, <1>2, <1>3
<1>5. f <= e
  BY <1>2, <1>3 DEF e
<1>6. e = f
  BY <1>2, <1>3, <1>4, <1>5
<1> QED
  BY <1>6 DEF e, f

(* The next block, if there is one, and who it is free with.               *)
LEMMA NextBlock ==
  ASSUME heap_ptr \in Nat, NEW b, Headers(b), Tiles(b, heap_ptr),
         NEW d, Shaped(d), NEW a, MergedPart(b, d, a), a # heap_ptr,
         ~ (After(d, a) >= heap_ptr)
  PROVE  LET e == After(d, a)
         IN  /\ a \in DOMAIN d /\ a \in Nat /\ e \in Nat /\ a < e
             /\ e \in DOMAIN d /\ e \in DOMAIN b /\ d[e] = b[e]
             /\ e + HeaderSize <= After(b, e) /\ After(b, e) = After(d, e)
             /\ After(b, e) \in Nat /\ After(b, e) <= heap_ptr
             /\ e \in Absorbed(b) <=> b[a].free /\ b[e].free
<1> DEFINE e == After(d, a)
<1>1. a \in DOMAIN d /\ a \in Left(b) /\ a \in DOMAIN b
  BY DEF MergedPart, Left
<1>2. a \in Nat /\ e \in Nat /\ a < e /\ e \in DOMAIN d
  BY <1>1, BlockRoom DEF Shaped, Tiles, HeaderSize
<1>3. e \in DOMAIN b /\ Reach(d, a) = e
  BY <1>2 DEF MergedPart, Reach
<1>4. d[e] = b[e]
  BY <1>2, <1>3 DEF MergedPart
<1>5. /\ After(b, e) = After(d, e) /\ After(b, e) \in Nat
      /\ e + HeaderSize <= After(b, e) /\ After(b, e) <= heap_ptr
  BY <1>3, <1>4, BlockRoom DEF After
<1>6. PICK p \in DOMAIN b : After(b, p) = e /\ b[p].free = b[a].free
  BY <1>3 DEF MergedPart
<1>7. ASSUME NEW q \in DOMAIN b, After(b, q) = e
      PROVE  q = p
  <2>1. /\ p \in Nat /\ q \in Nat /\ p < e /\ q < e
        /\ q <= p \/ e <= q
        /\ p <= q \/ e <= p
    BY <1>2, <1>6, <1>7, BlockRoom DEF Tiles, HeaderSize
  <2> QED
    BY <1>2, <2>1
<1>8. e \in Absorbed(b) <=> b[a].free /\ b[e].free
  BY <1>3, <1>6, <1>7 DEF Absorbed
<1> HIDE DEF e
<1>9. /\ a \in DOMAIN d /\ a \in Nat /\ e \in Nat /\ a < e
      /\ e \in DOMAIN d /\ e \in DOMAIN b /\ d[e] = b[e]
      /\ e + HeaderSize <= After(b, e) /\ After(b, e) = After(d, e)
      /\ After(b, e) \in Nat /\ After(b, e) <= heap_ptr
      /\ e \in Absorbed(b) <=> b[a].free /\ b[e].free
  BY <1>1, <1>2, <1>3, <1>4, <1>5, <1>8
<1> QED
  BY <1>9 DEF e

(* Going on: the next block stays.                                         *)
LEMMA GoOn ==
  ASSUME heap_ptr \in Nat, NEW b, Headers(b), Tiles(b, heap_ptr),
         NEW d, Shaped(d), NEW a, MergedPart(b, d, a), a # heap_ptr,
         ~ (After(d, a) >= heap_ptr),
         ~ (d[a].free /\ d[After(d, a)].free)
  PROVE  MergedPart(b, d, After(d, a))
<1> DEFINE e == After(d, a)
<1>1. /\ a \in DOMAIN d /\ a \in Nat /\ e \in Nat /\ a < e
      /\ e \in DOMAIN d /\ e \in DOMAIN b /\ d[e] = b[e]
      /\ e + HeaderSize <= After(b, e) /\ After(b, e) = After(d, e)
      /\ After(b, e) \in Nat /\ After(b, e) <= heap_ptr
      /\ e \in Absorbed(b) <=> b[a].free /\ b[e].free
  BY NextBlock
<1>2. d[a].free = b[a].free
  BY <1>1 DEF MergedPart
<1>3. e \in Left(b)
  BY <1>1, <1>2 DEF Left
<1>4. NextLeft(b, a) = e
  BY <1>3, ReachIsNext
<1>5. Reach(d, a) = e /\ e # heap_ptr /\ Reach(d, e) = After(b, e)
  BY <1>1, BlockRoom DEF Reach, HeaderSize
<1>6. \A x \in DOMAIN b : x \in Nat /\ (x <= e \/ After(b, e) <= x)
  BY <1>1 DEF Headers, Tiles
<1>7. \A x \in DOMAIN d : x \in Nat /\ (x <= a \/ e <= x) /\ x \in DOMAIN b
  BY <1>1 DEF Shaped, Headers, Tiles, MergedPart
<1>8. /\ DOMAIN d = {x \in DOMAIN b : x \in Left(b) \/ e <= x}
      /\ \A x \in DOMAIN d : x < a => After(d, x) = NextLeft(b, x)
      /\ \A x \in DOMAIN d : e <= x => d[x] = b[x]
      /\ \A x \in DOMAIN d : d[x].free = b[x].free
  BY <1>5 DEF MergedPart
<1> HIDE DEF e
<1>9. DOMAIN d = {x \in DOMAIN b : x \in Left(b) \/ After(b, e) <= x}
  <2>1. ASSUME NEW x \in DOMAIN b, e <= x PROVE x = e \/ After(b, e) <= x
    BY <1>1, <1>6, <2>1
  <2>2. ASSUME NEW x \in DOMAIN b, After(b, e) <= x PROVE e <= x
    BY <1>1, <1>6, <2>2 DEF HeaderSize
  <2> QED
    BY <1>3, <1>8, <2>1, <2>2
<1>10. ASSUME NEW x \in DOMAIN d, x < e PROVE After(d, x) = NextLeft(b, x)
  <2>1. x < a \/ x = a
    BY <1>1, <1>7, <1>10
  <2> QED
    BY <1>4, <1>8, <2>1 DEF e
<1>11. ASSUME NEW x \in DOMAIN d, After(b, e) <= x PROVE d[x] = b[x]
  <2>1. e <= x
    BY <1>1, <1>7, <1>11 DEF HeaderSize
  <2> QED
    BY <1>8, <2>1
<1>12. MergedPart(b, d, e)
  BY <1>1, <1>3, <1>5, <1>8, <1>9, <1>10, <1>11 DEF MergedPart
<1> QED
  BY <1>12 DEF e

(* Breaking off: the block reaches to the end.                             *)
LEMMA BreakOff ==
  ASSUME heap_ptr \in Nat, NEW b, Headers(b), Tiles(b, heap_ptr),
         NEW d, Shaped(d), NEW a, MergedPart(b, d, a), a # heap_ptr,
         After(d, a) >= heap_ptr
  PROVE  MergedPart(b, d, heap_ptr)
<1>1. a \in DOMAIN d /\ a \in Left(b)
  BY DEF MergedPart, Left
<1>2. a \in Nat /\ a < heap_ptr /\ After(d, a) = heap_ptr
  BY <1>1, BlockRoom DEF Shaped
<1>3. NextLeft(b, a) = heap_ptr
  BY <1>2, ReachIsNext
<1>4. Reach(d, a) = heap_ptr /\ Reach(d, heap_ptr) = heap_ptr
  BY <1>2 DEF Reach
<1>5. ASSUME NEW x \in DOMAIN d PROVE After(d, x) = NextLeft(b, x)
  <2>1. x \in Nat /\ x < heap_ptr /\ (x <= a \/ heap_ptr <= x)
    BY <1>1, <1>2, BlockRoom DEF Shaped, Tiles, Headers
  <2>2. x < a \/ x = a
    BY <1>2, <2>1
  <2> QED
    BY <1>2, <1>3, <2>2 DEF MergedPart
<1> QED
  BY <1>4, <1>5 DEF MergedPart

LEMMA LongerHeader ==
  ASSUME NEW h \in Header, NEW s
  PROVE  [h EXCEPT !.size = @ + HeaderSize + s]
           = [size |-> h.size + HeaderSize + s, free |-> h.free]
BY DEF Header

(* Continuing: the block takes in the next one.                            *)
LEMMA TakeIn ==
  ASSUME heap_ptr \in Nat, NEW b, Headers(b), Tiles(b, heap_ptr),
         NEW d, Shaped(d), NEW a, MergedPart(b, d, a), a # heap_ptr,
         ~ (After(d, a) >= heap_ptr),
         d[a].free /\ d[After(d, a)].free,
         NEW m, m = Merged(d, a, After(d, a))
  PROVE  /\ Shaped(m) /\ MergedPart(b, m, a)
         /\ After(d, a) + HeaderSize <= Reach(m, a)
<1> DEFINE e == After(d, a)
<1>1. /\ a \in DOMAIN d /\ a \in Nat /\ e \in Nat /\ a < e
      /\ e \in DOMAIN d /\ e \in DOMAIN b /\ d[e] = b[e]
      /\ e + HeaderSize <= After(b, e) /\ After(b, e) = After(d, e)
      /\ After(b, e) \in Nat /\ After(b, e) <= heap_ptr
      /\ e \in Absorbed(b) <=> b[a].free /\ b[e].free
  BY NextBlock
<1>2. /\ e = a + HeaderSize + d[a].size /\ After(d, e) = e + HeaderSize + d[e].size
      /\ d[a] \in Header /\ d[e] \in Header
      /\ d[a].size % 4 = 0 /\ d[e].size % 4 = 0 /\ a % 4 = 0
      /\ DOMAIN d \subseteq Nat
  BY <1>1 DEF After, Shaped, Headers
<1>3. Reach(d, a) = e
  BY DEF Reach
<1>4. /\ DOMAIN d = {x \in DOMAIN b : x \in Left(b) \/ e <= x}
      /\ \A x \in DOMAIN d : d[x].free = b[x].free
      /\ \A x \in DOMAIN d : x < a => After(d, x) = NextLeft(b, x)
      /\ \A x \in DOMAIN d : e <= x => d[x] = b[x]
      /\ a \in Left(b)
  BY <1>3 DEF MergedPart
<1>5. \A x \in DOMAIN d : /\ x <= a \/ e <= x
                          /\ x <= e \/ After(b, e) <= x
  BY <1>1 DEF Shaped, Tiles
<1> HIDE DEF e
<1>6. /\ DOMAIN m = DOMAIN d \ {e} /\ m = [x \in DOMAIN m |-> m[x]]
      /\ m[a] = [size |-> d[a].size + HeaderSize + d[e].size, free |-> d[a].free]
      /\ \A x \in DOMAIN m : x # a => m[x] = d[x]
  <2> DEFINE s == d[e].size
             r == [size |-> d[a].size + HeaderSize + s, free |-> d[a].free]
  <2>1. [d[a] EXCEPT !.size = @ + HeaderSize + d[e].size] = r
    <3> HIDE DEF s
    <3>1. [d[a] EXCEPT !.size = @ + HeaderSize + s] = r
      BY <1>2, LongerHeader
    <3> QED
      BY <3>1 DEF s
  <2>2. m = Without(With(d, a, r), e)
    BY <2>1 DEF Merged, e
  <2> HIDE DEF r
  <2> DEFINE w == With(d, a, r)
  <2>3. /\ DOMAIN w = DOMAIN d /\ w[a] = r
        /\ \A x \in DOMAIN d : x # a => w[x] = d[x]
    BY <1>1 DEF With
  <2> HIDE DEF w
  <2>4. m = [x \in DOMAIN d \ {e} |-> w[x]]
    BY <2>2, <2>3 DEF Without, w
  <2>5. a # e
    BY <1>1
  <2>6. /\ DOMAIN m = DOMAIN d \ {e} /\ m = [x \in DOMAIN m |-> m[x]]
        /\ m[a] = r /\ \A x \in DOMAIN m : x # a => m[x] = d[x]
    BY <1>1, <2>3, <2>4, <2>5
  <2> QED
    BY <2>6 DEF r
<1>7. /\ a \in DOMAIN m /\ After(m, a) = After(b, e)
      /\ m[a] \in Header /\ m[a].free = d[a].free
      /\ \A x \in DOMAIN m : x # a => After(m, x) = After(d, x)
  <2>1. a \in DOMAIN m /\ m[a].size = d[a].size + HeaderSize + d[e].size
    BY <1>1, <1>6
  <2>2. After(m, a) = a + HeaderSize + (d[a].size + HeaderSize + d[e].size)
    BY <2>1 DEF After
  <2>3. d[a].size \in Nat /\ d[e].size \in Nat
    BY <1>2 DEF Header
  <2>4. After(m, a) = After(d, e)
    BY <1>1, <1>2, <2>2, <2>3 DEF HeaderSize
  <2>5. m[a] \in Header /\ m[a].free = d[a].free
    <3>1. d[a].size + HeaderSize + d[e].size \in Nat /\ d[a].free \in BOOLEAN
      BY <1>2, <2>3 DEF Header, HeaderSize
    <3> QED
      BY <1>6, <3>1 DEF Header
  <2>6. ASSUME NEW x \in DOMAIN m, x # a PROVE After(m, x) = After(d, x)
    BY <1>6, <2>6 DEF After
  <2> QED
    BY <1>1, <2>1, <2>4, <2>5, <2>6
<1>8. m[a].size % 4 = 0
  <2>1. d[a].size \in Nat /\ d[e].size \in Nat
    BY <1>2 DEF Header
  <2>2. m[a].size = d[a].size + HeaderSize + d[e].size
    BY <1>6
  <2> QED
    BY <1>2, <2>1, <2>2, SMT DEF HeaderSize
<1>9. Headers(m)
  <2>1. \A x \in DOMAIN m : x # a => m[x] \in Header /\ x % 4 = 0 /\ m[x].size % 4 = 0
    BY <1>6 DEF Shaped, Headers
  <2> QED
    BY <1>2, <1>6, <1>7, <1>8, <2>1 DEF Headers
<1>10. Tiles(m, heap_ptr)
  <2>1. KERNEL_HEAP_START \in DOMAIN m \cup {heap_ptr}
    BY <1>1, <1>6, HeapAssumption DEF Shaped, Tiles
  <2>2. ASSUME NEW x \in DOMAIN m
        PROVE  /\ KERNEL_HEAP_START <= x
               /\ After(m, x) \in DOMAIN m \cup {heap_ptr}
               /\ After(m, x) <= heap_ptr
               /\ \A y \in DOMAIN m : y <= x \/ After(m, x) <= y
    <3>1. x \in DOMAIN d /\ x # e /\ x \in Nat
      BY <1>2, <1>6
    <3>2. /\ KERNEL_HEAP_START <= x
          /\ After(d, x) \in DOMAIN d \cup {heap_ptr}
          /\ After(d, x) <= heap_ptr
          /\ \A y \in DOMAIN d : y <= x \/ After(d, x) <= y
          /\ x < After(d, x) /\ After(d, x) \in Nat
      BY <3>1, BlockRoom DEF Shaped, Tiles, HeaderSize
    <3>3. CASE x = a
      <4>1. After(d, e) \in DOMAIN d \cup {heap_ptr} /\ After(d, e) # e
        BY <1>1 DEF Shaped, Tiles, HeaderSize
      <4>2. \A y \in DOMAIN m : y <= a \/ After(b, e) <= y
        BY <1>1, <1>2, <1>5, <1>6
      <4> QED
        BY <1>1, <1>6, <1>7, <3>2, <3>3, <4>1, <4>2
    <3>4. CASE x # a
      <4>1. After(d, x) # e
        <5> SUFFICES ASSUME After(d, x) = e PROVE FALSE
          OBVIOUS
        <5>1. x < a
          BY <1>1, <1>5, <3>1, <3>2, <3>4
        <5>2. a <= x \/ After(d, x) <= a
          BY <1>1, <3>2
        <5> QED
          BY <1>1, <3>1, <5>1, <5>2
      <4> QED
        BY <1>6, <1>7, <3>2, <3>4, <4>1
    <3> QED
      BY <3>3, <3>4
  <2> QED
    BY <2>1, <2>2 DEF Tiles
<1>11. Reach(m, a) = After(b, e)
  BY <1>7 DEF Reach
<1>12. e \notin Left(b) /\ b[e].free /\ b[a].free
  BY <1>1, <1>4 DEF Left, e
<1>13. DOMAIN m = {x \in DOMAIN b : x \in Left(b) \/ After(b, e) <= x}
  <2>1. \A x \in DOMAIN b : x \in Nat /\ (x <= e \/ After(b, e) <= x)
    BY <1>1 DEF Headers, Tiles
  <2>2. ASSUME NEW x \in DOMAIN b, e <= x, x # e PROVE After(b, e) <= x
    BY <1>1, <2>1, <2>2
  <2>3. ASSUME NEW x \in DOMAIN b, After(b, e) <= x PROVE e <= x /\ x # e
    BY <1>1, <2>1, <2>3 DEF HeaderSize
  <2> QED
    BY <1>4, <1>6, <1>12, <2>2, <2>3
<1>14. MergedPart(b, m, a)
  <2>1. \A x \in DOMAIN m : m[x].free = b[x].free
    BY <1>4, <1>6, <1>7
  <2>2. ASSUME NEW x \in DOMAIN m, x < a PROVE After(m, x) = NextLeft(b, x)
    <3>1. x \in DOMAIN d /\ x # a
      BY <1>1, <1>2, <1>6, <2>2
    <3> QED
      BY <1>4, <1>7, <2>2, <3>1
  <2>3. ASSUME NEW x \in DOMAIN m, After(b, e) <= x PROVE m[x] = b[x]
    <3>1. x \in DOMAIN d /\ x \in Nat /\ e <= x /\ x # a
      BY <1>1, <1>2, <1>6, <2>3 DEF HeaderSize
    <3> QED
      BY <1>4, <1>6, <3>1
  <2>4. b[e].free = b[a].free
    BY <1>1, <1>4, <1>12 DEF e
  <2> QED
    BY <1>1, <1>4, <1>11, <1>13, <2>1, <2>2, <2>3, <2>4 DEF MergedPart
<1>15. e + HeaderSize <= Reach(m, a)
  BY <1>1, <1>11
<1> QED
  BY <1>6, <1>9, <1>10, <1>14, <1>15 DEF Shaped, e

LEMMA CoalesceTurnKeeps ==
  ASSUME heap_ptr \in Nat, NEW b, Headers(b), Tiles(b, heap_ptr),
         NEW k \in Nat, NEW c, MergedTo(b, c, k)
  PROVE  MergedTo(b, CoalesceTurn(c), k + 1)
<1> DEFINE d == c.b
           a == c.current
           e == After(d, a)
<1>1. /\ Shaped(d) /\ MergedPart(b, d, a)
      /\ c = [current |-> a, b |-> d]
      /\ a = heap_ptr \/ KERNEL_HEAP_START + HeaderSize * (k + 1) <= Reach(d, a)
      /\ CoalesceTurn(c) =
           IF a >= heap_ptr THEN c
           ELSE IF e >= heap_ptr THEN [c EXCEPT !.current = heap_ptr]
           ELSE IF d[a].free /\ d[e].free THEN [c EXCEPT !.b = Merged(@, a, e)]
           ELSE [c EXCEPT !.current = e]
  BY DEF MergedTo, CoalesceTurn
<1> HIDE DEF a, d
<1>2. ASSUME NEW y, NEW z
      PROVE  [current |-> y, b |-> z].current = y /\ [current |-> y, b |-> z].b = z
  OBVIOUS
<1>3. CASE a >= heap_ptr
  <2>1. a = heap_ptr
    BY <1>1, <1>3, BlockRoom DEF MergedPart, Left
  <2> QED
    BY <1>1, <1>2, <1>3, <2>1 DEF MergedTo
<1>4. CASE ~ (a >= heap_ptr)
  <2>1. a # heap_ptr
    BY <1>4
  <2>2. Reach(d, a) = e
    BY <2>1 DEF Reach
  <2>3. a \in DOMAIN d
    BY <1>1, <2>1 DEF MergedPart, Left
  <2>4. e \in Nat
    BY <1>1, <2>3, BlockRoom DEF Shaped
  <2>5. KERNEL_HEAP_START + HeaderSize * (k + 1) <= e
    BY <1>1, <2>1, <2>2
  <2>6. HeaderSize * (k + 1 + 1) = HeaderSize * (k + 1) + HeaderSize
        /\ HeaderSize * (k + 1) \in Nat /\ KERNEL_HEAP_START \in Nat
    BY HeapAssumption DEF HeaderSize
  <2>7. CASE e >= heap_ptr
    <3>1. CoalesceTurn(c) = [current |-> heap_ptr, b |-> d]
      BY <1>1, <1>4, <2>7
    <3>2. MergedPart(b, d, heap_ptr)
      BY <1>1, <2>1, <2>7, BreakOff
    <3> QED
      BY <1>1, <1>2, <3>1, <3>2 DEF MergedTo
  <2>8. CASE ~ (e >= heap_ptr) /\ d[a].free /\ d[e].free
    <3> DEFINE m == Merged(d, a, e)
    <3>1. CoalesceTurn(c) = [current |-> a, b |-> m]
      BY <1>1, <1>4, <2>8
    <3>2. /\ Shaped(m) /\ MergedPart(b, m, a)
          /\ e + HeaderSize <= Reach(m, a)
      BY <1>1, <2>1, <2>8, TakeIn
    <3> HIDE DEF m
    <3>3. Reach(m, a) \in Nat
      <4>1. a \in DOMAIN m
        BY <2>1, <3>2 DEF MergedPart, Left
      <4> QED
        BY <2>1, <3>2, <4>1, BlockRoom DEF Reach, Shaped
    <3>4. KERNEL_HEAP_START + HeaderSize * (k + 1 + 1) <= Reach(m, a)
      BY <2>4, <2>5, <2>6, <3>2, <3>3 DEF HeaderSize
    <3> QED
      BY <1>2, <3>1, <3>2, <3>4 DEF MergedTo
  <2>9. CASE ~ (e >= heap_ptr) /\ ~ (d[a].free /\ d[e].free)
    <3>1. CoalesceTurn(c) = [current |-> e, b |-> d]
      BY <1>1, <1>4, <2>9
    <3>2. MergedPart(b, d, e)
      BY <1>1, <2>1, <2>9, GoOn
    <3>3. /\ e + HeaderSize <= After(d, e) /\ After(d, e) \in Nat
      BY <1>1, <2>1, <2>9, NextBlock
    <3>4. Reach(d, e) = After(d, e)
      BY <2>4, <2>9 DEF Reach
    <3>5. KERNEL_HEAP_START + HeaderSize * (k + 1 + 1) <= Reach(d, e)
      BY <2>4, <2>5, <2>6, <3>3, <3>4 DEF HeaderSize
    <3> HIDE DEF e
    <3> QED
      BY <1>1, <1>2, <3>1, <3>2, <3>5 DEF MergedTo
  <2> QED
    BY <2>7, <2>8, <2>9
<1> QED
  BY <1>3, <1>4

(* Before the first turn nothing has been taken in.                        *)
LEMMA CoalesceStarts ==
  ASSUME heap_ptr \in Nat, NEW b, Headers(b), Tiles(b, heap_ptr),
         b = [x \in DOMAIN b |-> b[x]]
  PROVE  MergedTo(b, [current |-> KERNEL_HEAP_START, b |-> b], 0)
<1> DEFINE s == KERNEL_HEAP_START
<1>1. s \in Nat /\ Shaped(b)
  BY HeapAssumption DEF Shaped
<1>2. \A p \in DOMAIN b : After(b, p) # s
  <2> SUFFICES ASSUME NEW p \in DOMAIN b, After(b, p) = s PROVE FALSE
    OBVIOUS
  <2>1. p \in Nat /\ s <= p /\ p + HeaderSize <= After(b, p)
    BY BlockRoom DEF Tiles
  <2> QED
    BY <1>1, <2>1 DEF HeaderSize
<1>3. s \in Left(b) \cup {heap_ptr}
  BY <1>2 DEF Tiles, Left, Absorbed
<1>4. \A x \in DOMAIN b : x \in Nat /\ s <= x /\ ~ (x < s)
  BY <1>1 DEF Tiles, Headers
<1>5. CASE s = heap_ptr
  <2>1. Reach(b, s) = s
    BY <1>5 DEF Reach
  <2>2. MergedPart(b, b, s)
    BY <1>3, <1>4, <1>5, <2>1 DEF MergedPart
  <2> QED
    BY <1>1, <1>5, <2>2 DEF MergedTo
<1>6. CASE s # heap_ptr
  <2>1. Reach(b, s) = After(b, s) /\ s \in DOMAIN b /\ s \in Left(b)
    BY <1>3, <1>6 DEF Reach, Left
  <2>2. After(b, s) \in Nat /\ s + HeaderSize <= After(b, s)
    BY <2>1, BlockRoom
  <2>3. \A x \in DOMAIN b : x = s \/ After(b, s) <= x
    BY <1>1, <1>4, <2>1 DEF Tiles
  <2>4. MergedPart(b, b, s)
    BY <1>3, <1>4, <2>1, <2>3 DEF MergedPart
  <2>5. s + HeaderSize * (0 + 1) <= Reach(b, s)
    BY <1>1, <2>1, <2>2 DEF HeaderSize
  <2> DEFINE c == [current |-> s, b |-> b]
  <2>6. c.current = s /\ c.b = b /\ c = [current |-> c.current, b |-> c.b]
    OBVIOUS
  <2> HIDE DEF c
  <2>7. MergedTo(b, c, 0)
    BY <1>1, <2>4, <2>5, <2>6 DEF MergedTo
  <2> QED
    BY <2>7 DEF c
<1> QED
  BY <1>5, <1>6

(* When it is done it has left what the set of absorbed blocks says.       *)
LEMMA CoalesceEnds ==
  ASSUME heap_ptr \in Nat, NEW b, Headers(b), Tiles(b, heap_ptr),
         NEW d, Shaped(d), MergedPart(b, d, heap_ptr)
  PROVE  d = coalesce_blocks(b)
<1>1. Reach(d, heap_ptr) = heap_ptr
  BY DEF Reach
<1>2. DOMAIN d = Left(b)
  <2>1. \A x \in DOMAIN b : ~ (heap_ptr <= x)
    BY BlockRoom
  <2> QED
    BY <1>1, <2>1 DEF MergedPart, Left
<1>3. coalesce_blocks(b) = [x \in Left(b) |->
             [b[x] EXCEPT !.size = NextLeft(b, x) - x - HeaderSize]]
  BY Zenon DEF coalesce_blocks, Left, NextLeft
<1>4. ASSUME NEW x \in Left(b)
      PROVE  d[x] = [b[x] EXCEPT !.size = NextLeft(b, x) - x - HeaderSize]
  <2> DEFINE e == NextLeft(b, x)
  <2>1. x \in DOMAIN d /\ x \in DOMAIN b /\ x \in Nat /\ x < heap_ptr
    BY <1>2, BlockRoom DEF Left
  <2>2. After(d, x) = e /\ d[x].free = b[x].free
    BY <2>1 DEF MergedPart
  <2>3. d[x] \in Header /\ b[x] \in Header
    BY <2>1 DEF Shaped, Headers
  <2> HIDE DEF e
  <2>4. d[x].size = e - x - HeaderSize
    BY <2>1, <2>2, <2>3 DEF After, Header, HeaderSize
  <2>5. d[x] = [size |-> d[x].size, free |-> d[x].free]
    BY <2>3 DEF Header
  <2>6. [b[x] EXCEPT !.size = e - x - HeaderSize]
          = [size |-> e - x - HeaderSize, free |-> b[x].free]
    BY <2>3 DEF Header
  <2>7. d[x] = [b[x] EXCEPT !.size = e - x - HeaderSize]
    BY <2>2, <2>4, <2>5, <2>6
  <2> QED
    BY <2>7 DEF e
<1>5. d = [x \in Left(b) |-> d[x]]
  BY <1>2 DEF Shaped
<1>6. [x \in Left(b) |-> d[x]] = [x \in Left(b) |->
             [b[x] EXCEPT !.size = NextLeft(b, x) - x - HeaderSize]]
  BY <1>4
<1> QED
  BY <1>3, <1>5, <1>6

LEMMA CoalesceMerges ==
  ASSUME heap_ptr \in Nat, heap_ptr <= KERNEL_HEAP_START + KERNEL_HEAP_SIZE,
         NEW b, Headers(b), Tiles(b, heap_ptr), b = [x \in DOMAIN b |-> b[x]]
  PROVE  Coalesce(b)[Turns] = [current |-> heap_ptr, b |-> coalesce_blocks(b)]
<1> DEFINE T == {k \in Nat : k <= Turns => MergedTo(b, Coalesce(b)[k], k)}
<1>1. 0 \in T
  <2>1. Coalesce(b)[0] = [current |-> KERNEL_HEAP_START, b |-> b]
    BY CoalesceIs, TurnsIs
  <2> QED
    BY <2>1, CoalesceStarts
<1>2. ASSUME NEW k \in Nat, k \in T
      PROVE  k + 1 \in T
  <2> SUFFICES ASSUME k + 1 <= Turns
               PROVE  MergedTo(b, Coalesce(b)[k + 1], k + 1)
    OBVIOUS
  <2>1. k \in 0 .. Turns /\ k + 1 \in 0 .. Turns /\ k + 1 # 0 /\ k + 1 - 1 = k
    BY TurnsIs
  <2>2. Coalesce(b)[k + 1] = CoalesceTurn(Coalesce(b)[k])
    <3> DEFINE f == Coalesce(b)
    <3>1. \A n \in 0 .. Turns :
            f[n] = IF n = 0 THEN [current |-> KERNEL_HEAP_START, b |-> b]
                   ELSE CoalesceTurn(f[n - 1])
      BY CoalesceIs, TurnsIs
    <3> HIDE DEF f
    <3>2. f[k + 1] = CoalesceTurn(f[k + 1 - 1])
      BY <2>1, <3>1
    <3> QED
      BY <2>1, <3>2 DEF f
  <2>3. MergedTo(b, Coalesce(b)[k], k)
    BY <1>2, <2>1
  <2> QED
    BY <2>2, <2>3, CoalesceTurnKeeps
<1> DEFINE c == Coalesce(b)[Turns]
<1>3. MergedTo(b, c, Turns)
  <2>1. Turns \in T
    <3> HIDE DEF T
    <3> QED
      BY <1>1, <1>2, Induction, TurnsIs
  <2> QED
    BY <2>1, TurnsIs
<1> HIDE DEF c
<1>4. c.current = heap_ptr
  <2> SUFFICES ASSUME c.current # heap_ptr
               PROVE  FALSE
    OBVIOUS
  <2>1. c.current \in DOMAIN c.b /\ Shaped(c.b)
    BY <1>3 DEF MergedTo, MergedPart, Left
  <2>2. /\ Reach(c.b, c.current) \in Nat
        /\ Reach(c.b, c.current) <= heap_ptr
    BY <2>1, BlockRoom DEF Reach, Shaped
  <2>3. KERNEL_HEAP_START + HeaderSize * (Turns + 1) <= Reach(c.b, c.current)
    BY <1>3 DEF MergedTo
  <2> QED
    BY <2>2, <2>3, TurnsIs, HeapAssumption DEF HeaderSize
<1>5. c.b = coalesce_blocks(b)
  BY <1>3, <1>4, CoalesceEnds DEF MergedTo
<1>6. c = [current |-> heap_ptr, b |-> coalesce_blocks(b)]
  BY <1>3, <1>4, <1>5 DEF MergedTo
<1> QED
  BY <1>6 DEF c

(* What kfree gives to coalesce_blocks is tiled like what it was given.    *)
LEMMA FreedIsTiled ==
  ASSUME Headers(block), Tiles(block, heap_ptr),
         block = [x \in DOMAIN block |-> block[x]],
         NEW a \in DOMAIN block, NEW b, b = [block EXCEPT ![a].free = TRUE]
  PROVE  Headers(b) /\ Tiles(b, heap_ptr) /\ b = [x \in DOMAIN b |-> b[x]]
<1>1. /\ DOMAIN b = DOMAIN block
      /\ b[a] = [block[a] EXCEPT !.free = TRUE]
      /\ \A x \in DOMAIN block : x # a => b[x] = block[x]
      /\ b = [x \in DOMAIN b |-> b[x]]
  OBVIOUS
<1>2. block[a] \in Header
  BY DEF Headers
<1>3. b[a] = [size |-> block[a].size, free |-> TRUE]
  BY <1>1, <1>2 DEF Header
<1>4. b[a] \in Header
  BY <1>2, <1>3 DEF Header
<1>5. /\ \A x \in DOMAIN block : b[x] \in Header /\ b[x].size = block[x].size
      /\ \A x \in DOMAIN block : After(b, x) = After(block, x)
  BY <1>1, <1>3, <1>4 DEF Headers, After
<1>6. Headers(b)
  BY <1>1, <1>5 DEF Headers
<1>7. Tiles(b, heap_ptr)
  BY <1>1, <1>5 DEF Tiles
<1> QED
  BY <1>1, <1>6, <1>7

(* The loops of find_free_block and coalesce_blocks end, whatever the size *)
(* of the heap and the calls so far, and do what the sets say that kmalloc *)
(* and kfree are stated with.                                              *)
THEOREM LoopsDoWhatTheSetsSay == Spec => []WalksAgree
<1>1. IInv => WalksAgree
  <2> SUFFICES ASSUME IInv PROVE WalksAgree
    OBVIOUS
  <2>1. /\ Headers(block) /\ Tiles(block, heap_ptr)
        /\ heap_ptr \in Nat /\ heap_ptr <= KERNEL_HEAP_START + KERNEL_HEAP_SIZE
        /\ block = [x \in DOMAIN block |-> block[x]]
    BY InvariantsOfBlock, HeapAssumption DEF IInv, TypeOK, Address, HeapEnd
  <2>2. ASSUME NEW p \in DOMAIN held,
               NEW b, b = [block EXCEPT ![p - HeaderSize].free = TRUE]
        PROVE  Coalesce(b)[Turns]
                 = [current |-> heap_ptr, b |-> coalesce_blocks(b)]
    <3>1. p - HeaderSize \in DOMAIN block
      BY DEF IInv, HeldIsUsed
    <3>2. Headers(b) /\ Tiles(b, heap_ptr) /\ b = [x \in DOMAIN b |-> b[x]]
      BY <2>1, <2>2, <3>1, FreedIsTiled
    <3> QED
      BY <2>1, <3>2, CoalesceMerges
  <2> QED
    BY <2>2, WalkMeetsAll DEF WalksAgree
<1> QED
  BY <1>1, InitIInv, NextIInv, PTL DEF Spec

=============================================================================
