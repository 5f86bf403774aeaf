----------------------------- MODULE Allocator -----------------------------
(***************************************************************************)
(* What the kernel heap promises to its callers: kmalloc hands out a piece *)
(* of the heap that nobody holds, or NULL; a piece stays with its holder,  *)
(* where it is and whole, until the holder gives it to kfree.              *)
(***************************************************************************)
EXTENDS Integers

CONSTANTS
  KERNEL_HEAP_START,  (* first address of the heap                         *)
  KERNEL_HEAP_SIZE,   (* its size                                          *)
  Request             (* sizes callers ask for                             *)

VARIABLE held         (* what is held: pointer |-> size asked for          *)

HeapEnd == KERNEL_HEAP_START + KERNEL_HEAP_SIZE
Address == KERNEL_HEAP_START .. HeapEnd

(* f, with a |-> v added or replaced                                       *)
With(f, a, v) == [x \in DOMAIN f \cup {a} |-> IF x = a THEN v ELSE f[x]]

(* f, without a                                                            *)
Without(f, a) == [x \in DOMAIN f \ {a} |-> f[x]]

(* the n bytes at p are part of nothing that is held                       *)
Unheld(p, n) ==
  \A q \in DOMAIN held : p + n <= q \/ q + held[q] <= p

Init == held = [p \in {} |-> 0]

Alloc(n) ==
  \E p \in Address :
    /\ p + n <= HeapEnd
    /\ Unheld(p, n)
    /\ held' = With(held, p, n)

Free(p) ==
  /\ p \in DOMAIN held
  /\ held' = Without(held, p)

Next ==
  \/ \E n \in Request \ {0} : Alloc(n)
  \/ \E p \in Address : Free(p)

Spec == Init /\ [][Next]_held

=============================================================================
