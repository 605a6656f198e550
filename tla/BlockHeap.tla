----------------------------- MODULE BlockHeap -----------------------------
(***************************************************************************)
(* What an allocator promises its callers, with no word on how free space  *)
(* is kept: the blocks in use lie in the pool, are disjoint, and a call    *)
(* hands out one block, takes one back, or grows one where it is.          *)
(***************************************************************************)
EXTENDS Integers

CONSTANT HeapUnits

VARIABLE blocks     \* start of a block -> its size

Apart(a, m, b, n) == a + m <= b \/ b + n <= a

(* A block of n units at a meets no block but the one that starts at self. *)
Fits(a, n, self) ==
    /\ a \in 0 .. HeapUnits /\ n \in 1 .. HeapUnits /\ a + n <= HeapUnits
    /\ \A b \in DOMAIN blocks \ {self} : Apart(a, n, b, blocks[b])

Init == blocks = [a \in {} |-> 0]

Malloc(a, n) ==
    /\ a \notin DOMAIN blocks
    /\ Fits(a, n, a)
    /\ blocks' = [b \in DOMAIN blocks \cup {a} |-> IF b = a THEN n ELSE blocks[b]]

Release(a) ==
    /\ a \in DOMAIN blocks
    /\ blocks' = [b \in DOMAIN blocks \ {a} |-> blocks[b]]

Grow(a, n) ==
    /\ a \in DOMAIN blocks
    /\ n > blocks[a]
    /\ Fits(a, n, a)
    /\ blocks' = [blocks EXCEPT ![a] = n]

Next ==
    \/ \E a \in 0 .. HeapUnits, n \in 1 .. HeapUnits : Malloc(a, n)
    \/ \E a \in DOMAIN blocks : Release(a)
    \/ \E a \in DOMAIN blocks, n \in 1 .. HeapUnits : Grow(a, n)

Spec == Init /\ [][Next]_blocks
============================================================================
