------------------------------ MODULE EmsHeap ------------------------------
(***************************************************************************)
(* The EMS heap of the runtime (core/shared/mem-alloc/ems): the allocator  *)
(* behind wasm_runtime_malloc with a pool, and behind module_malloc in the *)
(* app heap inserted in a module's linear memory.                          *)
(*                                                                         *)
(* A pool is cut into chunks of a multiple of 8 bytes.  The header (hmu)   *)
(* of a chunk holds its type, its size and the P bit, "the previous chunk  *)
(* is in use"; a free chunk repeats its size in its last word, where       *)
(* gc_free_vo finds the start of a free predecessor.  Free chunks (FC) are *)
(* kept in the KFC: small ones in one singly linked list per size, the     *)
(* others in a binary search tree.  Offsets and sizes below are counted in *)
(* units of 8 bytes; only requests are in bytes.                           *)
(***************************************************************************)
EXTENDS Integers, Sequences, FiniteSets, SequencesExt

CONSTANTS
    HeapUnits,       \* current_size of the heap, in units
    NormalNodeCnt,   \* HMU_NORMAL_NODE_CNT
    RootUnits,       \* sizeof(hmu_tree_node_t) in whole units
    Word,            \* 2^32, the range of gc_size_t in bytes
    Requests,        \* the sizes in bytes that callers ask for
    MaxMigrations    \* how often the pool is moved

(* bh_assert(root->size <= HMU_FC_NORMAL_MAX_SIZE): every tree node is      *)
(* larger than the root, so the tree hangs off the root's right slot.      *)
ASSUME SizesAssumption ==
    /\ HeapUnits \in Nat /\ NormalNodeCnt \in Nat /\ RootUnits \in Nat
    /\ MaxMigrations \in Nat
    /\ RootUnits < NormalNodeCnt - 1 /\ 2 < NormalNodeCnt
    /\ NormalNodeCnt - 1 <= HeapUnits

(* The byte range is a whole number of units and holds the heap.           *)
ASSUME WordAssumption ==
    /\ Word \in Nat /\ Word % 8 = 0 /\ 8 * HeapUnits < Word
    /\ Requests \subseteq 0 .. (Word - 1)

Units == 0 .. (HeapUnits - 1)
NULL == -1
ROOT == -2                          \* &heap->kfc_tree_root
HMU_SIZE == 4                       \* bytes of a header
GC_SMALLEST_SIZE == 2               \* units
WordUnits == Word \div 8
IsFcNormal(size) == size < NormalNodeCnt - 1

VARIABLES
    heap,   \* the gc_heap_t and the chunk headers and footers in the pool
    live,   \* object -> bytes its owner asked for
    pend,   \* objects moved by gc_realloc_vo, their old copy not freed yet
    wild    \* gc_free_vo has taken user data for a footer and merged with it

vars == <<heap, live, pend, wild>>

----------------------------------------------------------------------------
(***************************************************************************)
(* The fields of heap:                                                     *)
(*   hmu    header of the chunk at each chunk start                        *)
(*   foot   for each unit, the size a free chunk ending there has written  *)
(*          in its last word, or 0 for a word with any other contents      *)
(*   list   kfc_normal_list; an entry is <<offset, base>>, an address is   *)
(*          in the heap only if its base is the current one                *)
(*   tree   links of the nodes of kfc_tree and of its root                 *)
(***************************************************************************)
Chunk(ut, size, pinuse) == [ut |-> ut, size |-> size, pinuse |-> pinuse]
Node(left, right, parent) == [left |-> left, right |-> right, parent |-> parent]

Starts(h) == DOMAIN h.hmu
Free(h) == {a \in Starts(h) : h.hmu[a].ut = "FC"}
VoChunks(h) == {a \in Starts(h) : h.hmu[a].ut = "VO"}
TreeNodes(h) == DOMAIN h.tree \ {ROOT}
NodeSize(h, t) == IF t = ROOT THEN RootUnits ELSE h.hmu[t].size

(* gc_init_internal does not write the footer of the first chunk.          *)
InitHeap ==
    [hmu  |-> [a \in {0} |-> Chunk("FC", HeapUnits, TRUE)],
     foot |-> [u \in Units |-> 0],
     list |-> [i \in 0 .. (NormalNodeCnt - 1) |-> <<>>],
     tree |-> [t \in {ROOT, 0} |-> IF t = ROOT THEN Node(NULL, 0, NULL)
                                               ELSE Node(NULL, NULL, ROOT)],
     total_free_size |-> HeapUnits,
     highmark_size   |-> 0,
     base            |-> 0,
     corrupted       |-> FALSE]

(* hmu_set_ut and hmu_set_size at offset a.  Headers inside the chunk are  *)
(* dead from then on.                                                      *)
SetHmu(hmu, a, c) ==
    [x \in (DOMAIN hmu \ (a .. (a + c.size - 1))) \cup {a} |->
        IF x = a THEN c ELSE hmu[x]]

(* Mutant: the footer holds one unit too few.                             *)
SetFootShort(foot, a, c) ==
    [u \in Units |->
        IF u \notin a .. (a + c.size - 1) THEN foot[u]
        ELSE IF c.ut = "FC" /\ c.size > 1 /\ u = a + c.size - 1 THEN c.size - 1
        ELSE 0]

(* hmu_set_free_size.  In a chunk of one unit the footer and the           *)
(* next_offset that the list writes after it are the same word.            *)
SetFoot(foot, a, c) ==
    [u \in Units |->
        IF u \notin a .. (a + c.size - 1) THEN foot[u]
        ELSE IF c.ut = "FC" /\ c.size > 1 /\ u = a + c.size - 1 THEN c.size
        ELSE 0]

SetChunk(h, a, c) ==
    [h EXCEPT !.hmu = SetHmu(@, a, c), !.foot = SetFoot(@, a, c)]

(* hmu_mark_pinuse and hmu_unmark_pinuse of the chunk at a, if a is in the *)
(* heap.                                                                   *)
SetPinuse(h, a, p) ==
    IF a \in Starts(h) THEN [h EXCEPT !.hmu[a].pinuse = p] ELSE h

----------------------------------------------------------------------------
(* The KFC tree.                                                           *)

Depths(tree) == 0 .. Cardinality(DOMAIN tree)

(* The nodes met from node t on when the tree is searched for a size.      *)
Walk(h, size, t) ==
    LET w[n \in Depths(h.tree)] ==
            IF n = 0 THEN t
            ELSE IF w[n - 1] = NULL THEN NULL
            ELSE IF NodeSize(h, w[n - 1]) < size THEN h.tree[w[n - 1]].right
            ELSE h.tree[w[n - 1]].left
    IN  w

(* The last node on the way from the root to the empty slot for a size.    *)
SlotOwner(h, size) ==
    LET w == Walk(h, size, ROOT)
    IN  w[Max({n \in Depths(h.tree) : w[n] # NULL})]

(* Mutant: a node of the same size goes right.                             *)
InsertNodeRight(h, a, size) ==
    LET tp == SlotOwner(h, size + 1)
    IN  [t \in DOMAIN h.tree \cup {a} |->
            IF t = a THEN Node(NULL, NULL, tp)
            ELSE IF t # tp THEN h.tree[t]
            ELSE IF NodeSize(h, tp) <= size THEN [h.tree[t] EXCEPT !.right = a]
            ELSE [h.tree[t] EXCEPT !.left = a]]

InsertNode(h, a, size) ==
    LET tp == SlotOwner(h, size)
    IN  [t \in DOMAIN h.tree \cup {a} |->
            IF t = a THEN Node(NULL, NULL, tp)
            ELSE IF t # tp THEN h.tree[t]
            ELSE IF NodeSize(h, tp) < size THEN [h.tree[t] EXCEPT !.right = a]
            ELSE [h.tree[t] EXCEPT !.left = a]]

(* The node recorded last whose size is sufficient, in a search.           *)
BestFit(h, size) ==
    LET w == Walk(h, size, h.tree[ROOT].right)
        hits == {n \in Depths(h.tree) : /\ w[n] \in TreeNodes(h)
                                        /\ NodeSize(h, w[n]) >= size}
    IN  IF hits = {} THEN NULL ELSE w[Max(hits)]

(* Node p is a child of its parent: the condition of remove_tree_node.     *)
IsLinked(tree, p) ==
    /\ p \in DOMAIN tree \ {ROOT}
    /\ tree[p].parent \in DOMAIN tree
    /\ p \in {tree[tree[p].parent].left, tree[tree[p].parent].right}

(* Mutant: the child keeps its old parent link.                            *)
SpliceNoParent(tree, p, c) ==
    [t \in DOMAIN tree \ {p} |->
        [left   |-> IF tree[t].left = p THEN c ELSE tree[t].left,
         right  |-> IF tree[t].right = p THEN c ELSE tree[t].right,
         parent |-> tree[t].parent]]

(* Node p gives its slot to child c, its only one (cases 1 and 2).         *)
Splice(tree, p, c) ==
    [t \in DOMAIN tree \ {p} |->
        [left   |-> IF tree[t].left = p THEN c ELSE tree[t].left,
         right  |-> IF tree[t].right = p THEN c ELSE tree[t].right,
         parent |-> IF t = c THEN tree[p].parent ELSE tree[t].parent]]

(* Node q takes the links of p (the end of case 3).                        *)
TakePlace(tree, p, q) ==
    LET as(t) == IF t = p THEN q ELSE t
    IN  [t \in (DOMAIN tree \cup {q}) \ {p} |->
            LET n == IF t = q THEN tree[p] ELSE tree[t]
            IN  Node(as(n.left), as(n.right), as(n.parent))]

(* The rightmost node of the left subtree of p.                            *)
Predecessor(tree, p) ==
    LET q[n \in Depths(tree)] ==
            IF n = 0 THEN tree[p].left
            ELSE IF tree[q[n - 1]].right = NULL THEN q[n - 1]
            ELSE tree[q[n - 1]].right
    IN  q[Cardinality(DOMAIN tree)]

(* remove_tree_node: replace p by its only child, or by its predecessor,   *)
(* which is removed from the tree first.                                   *)
remove_tree_node(h, p) ==
    LET tree == h.tree
        q    == Predecessor(tree, p)
    IN  IF ~IsLinked(tree, p) THEN [h EXCEPT !.corrupted = TRUE]
        ELSE IF tree[p].left = NULL
             THEN [h EXCEPT !.tree = Splice(tree, p, tree[p].right)]
        ELSE IF tree[p].right = NULL
             THEN [h EXCEPT !.tree = Splice(tree, p, tree[p].left)]
        ELSE IF ~IsLinked(tree, q) THEN [h EXCEPT !.corrupted = TRUE]
        ELSE [h EXCEPT !.tree =
                 TakePlace(Splice(tree, q, tree[q].left), p, q)]

----------------------------------------------------------------------------
(* The KFC: lists for the normal sizes, the tree for the others.           *)

(* Mutant: the head of the list is taken out, not the chunk.               *)
unlink_hmuHead(h, a) ==
    LET size == h.hmu[a].size
    IN  IF h.hmu[a].ut # "FC" THEN [h EXCEPT !.corrupted = TRUE]
        ELSE IF ~IsFcNormal(size) THEN remove_tree_node(h, a)
        ELSE IF h.list[size] # <<>> THEN [h EXCEPT !.list[size] = Tail(@)]
        ELSE h

(* unlink_hmu: a list is searched from its head and an entry outside the   *)
(* heap ends the search; a chunk that is not in its list is only reported. *)
unlink_hmu(h, a) ==
    LET size == h.hmu[a].size
        s == h.list[size]
        at == {k \in 1 .. Len(s) : /\ s[k] = <<a, h.base>>
                                   /\ \A j \in 1 .. k : s[j][2] = h.base}
        stale == \E j \in 1 .. Len(s) : s[j][2] # h.base
    IN  IF h.hmu[a].ut # "FC" THEN [h EXCEPT !.corrupted = TRUE]
        ELSE IF ~IsFcNormal(size) THEN remove_tree_node(h, a)
        ELSE IF at # {} THEN [h EXCEPT !.list[size] = RemoveAt(@, Min(at))]
        ELSE IF stale THEN [h EXCEPT !.corrupted = TRUE]
        ELSE h

(* gci_add_fc: the chunk at a becomes a free chunk of the KFC.  pinuse is  *)
(* the P bit that its header has or that the caller sets next.             *)
gci_add_fc(h, a, size, pinuse) ==
    LET g == SetChunk(h, a, Chunk("FC", size, pinuse))
    IN  IF IsFcNormal(size)
        THEN [g EXCEPT !.list[size] = <<<<a, h.base>>>> \o @]
        ELSE [g EXCEPT !.tree = InsertNode(h, a, size)]

----------------------------------------------------------------------------
(* Allocation.                                                             *)

(* Mutant: the P bit of the successor is not set.                          *)
CarveNoPinuse(h, p, avail, size) ==
    LET split == avail >= size + GC_SMALLEST_SIZE
        got   == IF split THEN size ELSE avail
        g     == IF split THEN gci_add_fc(h, p + size, avail - size, TRUE) ELSE h
        free  == (h.total_free_size - got) % WordUnits
        used  == (HeapUnits - free) % WordUnits
    IN  [SetChunk(g, p, Chunk("VO", got, h.hmu[p].pinuse)) EXCEPT
            !.total_free_size = free,
            !.highmark_size = IF used > @ THEN used ELSE @]

(* The free chunk at p of avail units, taken out of the KFC, is cut to     *)
(* size units if the rest can be a chunk, and is used whole otherwise.     *)
Carve(h, p, avail, size) ==
    LET split == avail >= size + GC_SMALLEST_SIZE
        got   == IF split THEN size ELSE avail
        g     == IF split THEN gci_add_fc(h, p + size, avail - size, TRUE)
                 ELSE SetPinuse(h, p + avail, TRUE)
        free  == (h.total_free_size - got) % WordUnits
        used  == (HeapUnits - free) % WordUnits
    IN  [SetChunk(g, p, Chunk("VO", got, h.hmu[p].pinuse)) EXCEPT
            !.total_free_size = free,
            !.highmark_size = IF used > @ THEN used ELSE @]

Result(obj, h) == [obj |-> obj, heap |-> h]

(* alloc_hmu: the smallest list with an entry first, the tree next.        *)
alloc_hmu(h, units) ==
    LET size == IF units < GC_SMALLEST_SIZE THEN GC_SMALLEST_SIZE ELSE units
        fit  == {i \in size .. (NormalNodeCnt - 1) : h.list[i] # <<>>}
        i    == Min(fit)
        head == Head(h.list[i])
        tp   == BestFit(h, size)
        g    == remove_tree_node(h, tp)
    IN  IF IsFcNormal(size) /\ fit # {}
        THEN IF head[2] # h.base
             THEN Result(NULL, [h EXCEPT !.corrupted = TRUE])
             ELSE Result(head[1], Carve([h EXCEPT !.list[i] = Tail(@)],
                                        head[1], i, size))
        ELSE IF tp = NULL THEN Result(NULL, h)
        ELSE IF g.corrupted THEN Result(NULL, g)
        ELSE Result(tp, Carve(g, tp, h.hmu[tp].size, size))

(* Header and request, aligned to 8 bytes in gc_size_t arithmetic.         *)
TotSize(size) ==
    LET unaligned == (HMU_SIZE + size) % Word
    IN  (((unaligned + 7) \div 8) * 8) % Word

(* Mutant: no test for an overflow.                                        *)
OverflowsNever(size) == FALSE

Overflows(size) == TotSize(size) < size
TotUnits(size) == TotSize(size) \div 8

----------------------------------------------------------------------------
(* Freeing: merge with a free predecessor and a free successor.            *)

(* The start that the word before chunk a leads to, if it is a footer.     *)
Prev(h, a) == a - h.foot[a - 1]

(* Mutants: the successor is merged but stays in the KFC; it is merged     *)
(* whether it is free or not.                                              *)
FreeFromNoUnlink(h, start, size) ==
    LET next == start + size
        tot  == IF next \in Free(h) THEN size + h.hmu[next].size ELSE size
    IN  SetPinuse(gci_add_fc(h, start, tot, h.hmu[start].pinuse),
                  start + tot, FALSE)

FreeFromAny(h, start, size) ==
    LET next == start + size
        g    == IF next \in Free(h) THEN unlink_hmu(h, next) ELSE h
        tot  == IF next \in Starts(h) THEN size + h.hmu[next].size ELSE size
    IN  IF g.corrupted THEN g
        ELSE SetPinuse(gci_add_fc(g, start, tot, h.hmu[start].pinuse),
                       start + tot, FALSE)

(* gc_free_vo once the first chunk of the merge, start, is known and the   *)
(* predecessor is out of the KFC.  A failed unlink leaves the heap as it   *)
(* is by then.                                                             *)
FreeFrom(h, start, size) ==
    LET next == start + size
        grow == next \in Free(h)
        g    == IF grow THEN unlink_hmu(h, next) ELSE h
        tot  == IF grow THEN size + h.hmu[next].size ELSE size
    IN  IF g.corrupted THEN g
        ELSE SetPinuse(gci_add_fc(g, start, tot, h.hmu[start].pinuse),
                       start + tot, FALSE)

(* Mutants: no merge with the predecessor; a merge that forgets its size.  *)
FreeChunkNoPrev(h, a, mergePrev) ==
    LET size == h.hmu[a].size
    IN  FreeFrom([h EXCEPT !.total_free_size = (@ + size) % WordUnits], a, size)

FreeChunkForget(h, a, mergePrev) ==
    LET size == h.hmu[a].size
        h1   == [h EXCEPT !.total_free_size = (@ + size) % WordUnits]
        prev == Prev(h, a)
        g    == unlink_hmu(h1, prev)
    IN  IF ~mergePrev THEN FreeFrom(h1, a, size)
        ELSE IF g.corrupted THEN g
        ELSE FreeFrom(g, prev, size)

(* gc_free_vo of chunk a when mergePrev says whether the predecessor is    *)
(* taken for a free chunk.                                                 *)
FreeChunk(h, a, mergePrev) ==
    LET size == h.hmu[a].size
        h1   == [h EXCEPT !.total_free_size = (@ + size) % WordUnits]
        prev == Prev(h, a)
        g    == unlink_hmu(h1, prev)
    IN  IF ~mergePrev THEN FreeFrom(h1, a, size)
        ELSE IF g.corrupted THEN g
        ELSE FreeFrom(g, prev, size + h.hmu[prev].size)

(* The P bit of a says its predecessor is free and the word before a is a  *)
(* footer.                                                                 *)
HasFooter(h, a) == a > 0 /\ ~h.hmu[a].pinuse /\ h.foot[a - 1] # 0

(* The P bit says so and the word before a is user data or a next_offset.  *)
HasNoFooter(h, a) == a > 0 /\ ~h.hmu[a].pinuse /\ h.foot[a - 1] = 0

(* gc_free_vo on a live or moved object.  With no footer to read, the word *)
(* before the chunk is arbitrary: the computed predecessor is outside the  *)
(* heap or not free and nothing more happens, or it passes both tests and  *)
(* the heap is merged wherever it points.                                  *)
FreeObj(a) ==
    \/ heap.corrupted /\ UNCHANGED <<heap, wild>>
    \/ /\ ~heap.corrupted
       /\ heap' = FreeChunk(heap, a, /\ HasFooter(heap, a)
                                     /\ Prev(heap, a) \in Free(heap))
       /\ UNCHANGED wild
    \/ /\ ~heap.corrupted /\ HasNoFooter(heap, a)
       /\ wild' = TRUE
       /\ UNCHANGED heap

----------------------------------------------------------------------------
(* The operations.  A caller frees and resizes only objects it owns.       *)

Put(f, a, v) == [x \in DOMAIN f \cup {a} |-> IF x = a THEN v ELSE f[x]]
Drop(f, a) == [x \in DOMAIN f \ {a} |-> f[x]]

Init ==
    /\ heap = InitHeap
    /\ live = [a \in {} |-> 0]
    /\ pend = {}
    /\ wild = FALSE

gc_alloc_vo(size) ==
    LET r == alloc_hmu(heap, TotUnits(size))
    IN  /\ ~wild
        /\ ~Overflows(size) /\ ~heap.corrupted
        /\ heap' = r.heap
        /\ live' = IF r.obj = NULL THEN live ELSE Put(live, r.obj, size)
        /\ UNCHANGED <<pend, wild>>

gc_free_vo(a) ==
    /\ ~wild
    /\ FreeObj(a)
    /\ live' = Drop(live, a)
    /\ UNCHANGED pend

(* gc_realloc_vo, the chunk is large enough: checked before the lock.      *)
ReallocSame(a, size) ==
    /\ TotUnits(size) <= heap.hmu[a].size
    /\ live' = Put(live, a, size)
    /\ UNCHANGED <<heap, pend, wild>>

(* The chunk and its free successor together are large enough.             *)
CanAbsorb(h, a, tot) ==
    LET next == a + h.hmu[a].size
    IN  /\ tot > h.hmu[a].size
        /\ next \in Free(h)
        /\ tot <= h.hmu[a].size + h.hmu[next].size

(* gc_realloc_vo, in place: the header of the rest is new, gci_add_fc sets *)
(* its type and size and nobody sets its P bit, which is what was there.   *)
Absorb(h, a, tot, garbage) ==
    LET old  == h.hmu[a]
        next == a + old.size
        both == old.size + h.hmu[next].size
        g    == unlink_hmu(h, next)
        g1   == SetChunk(g, a, Chunk("VO", tot, old.pinuse))
    IN  IF g.corrupted THEN g
        ELSE IF tot < both THEN gci_add_fc(g1, a + tot, both - tot, garbage)
        ELSE g1

ReallocInPlace(a, size) ==
    /\ CanAbsorb(heap, a, TotUnits(size))
    /\ \E garbage \in BOOLEAN :
            heap' = Absorb(heap, a, TotUnits(size), garbage)
    /\ live' = IF heap'.corrupted THEN live ELSE Put(live, a, size)
    /\ UNCHANGED <<pend, wild>>

(* gc_realloc_vo, by allocating, copying and, after the lock is released,  *)
(* freeing the old object.                                                 *)
ReallocMove(a, size) ==
    LET r == alloc_hmu(heap, TotUnits(size))
    IN  /\ TotUnits(size) > heap.hmu[a].size
        /\ ~CanAbsorb(heap, a, TotUnits(size))
        /\ heap' = r.heap
        /\ IF r.obj = NULL THEN UNCHANGED <<live, pend>>
           ELSE /\ live' = Put(Drop(live, a), r.obj, size)
                /\ pend' = pend \cup {a}
        /\ UNCHANGED wild

gc_realloc_vo(a, size) ==
    /\ ~wild
    /\ ~Overflows(size) /\ ~heap.corrupted
    /\ \/ ReallocSame(a, size)
       \/ ReallocInPlace(a, size)
       \/ ReallocMove(a, size)

ReallocFree(a) ==
    /\ ~wild
    /\ FreeObj(a)
    /\ pend' = pend \ {a}
    /\ UNCHANGED live

(* gc_migrate to a new address range, with the headers already copied.     *)
(* The links of the root and of the tree nodes are adjusted, the chains of *)
(* the lists are relative, and the heads of the lists keep the old base.   *)
(* A new range is taken to be disjoint from all earlier ones.              *)
ChunksEnd(hmu) ==
    /\ 0 \in DOMAIN hmu
    /\ \A a \in DOMAIN hmu : /\ a + hmu[a].size <= HeapUnits
                             /\ \/ a + hmu[a].size = HeapUnits
                                \/ a + hmu[a].size \in DOMAIN hmu

gc_migrate ==
    /\ ~wild /\ ~heap.corrupted
    /\ heap.base < MaxMigrations
    /\ heap' = [heap EXCEPT !.base = @ + 1, !.corrupted = ~ChunksEnd(heap.hmu)]
    /\ UNCHANGED <<live, pend, wild>>

(* A request that overflows gc_size_t, or meets a corrupted heap, returns  *)
(* NULL, and nothing is known of a heap merged at a wild address.          *)
Refuse ==
    /\ wild \/ heap.corrupted \/ \E size \in Requests : Overflows(size)
    /\ UNCHANGED vars

CoreNext ==
    \/ \E size \in Requests : gc_alloc_vo(size)
    \/ \E a \in DOMAIN live : gc_free_vo(a)
    \/ Refuse

Next ==
    \/ CoreNext
    \/ \E a \in DOMAIN live, size \in Requests : gc_realloc_vo(a, size)
    \/ \E a \in pend : ReallocFree(a)
    \/ gc_migrate

CoreSpec == Init /\ [][CoreNext]_vars
Spec == Init /\ [][Next]_vars

----------------------------------------------------------------------------
(* What the heap promises.                                                 *)

Chunks == [ut : {"FC", "VO"}, size : 1 .. HeapUnits, pinuse : BOOLEAN]

HmuOK(hmu) == \A a \in DOMAIN hmu : a \in Units /\ hmu[a] \in Chunks

FootOK(foot) == foot \in [Units -> 0 .. HeapUnits]

HeapFields == {"hmu", "foot", "list", "tree", "total_free_size",
               "highmark_size", "base", "corrupted"}

HeapOK(h) ==
    /\ DOMAIN h = HeapFields
    /\ HmuOK(h.hmu) /\ FootOK(h.foot)
    /\ h.list \in [0 .. (NormalNodeCnt - 1) -> Seq(Units \X (0 .. h.base))]
    /\ DOMAIN h.tree \subseteq Units \cup {ROOT}
    /\ h.total_free_size \in 0 .. (WordUnits - 1)
    /\ h.highmark_size \in 0 .. (WordUnits - 1)
    /\ h.base \in 0 .. MaxMigrations
    /\ h.corrupted \in BOOLEAN

(* Types: offsets in the KFC, the tree and the owners' objects stay inside *)
(* the pool, and the size counters inside gc_size_t.                       *)
TypeOK ==
    /\ HeapOK(heap)
    /\ DOMAIN live \subseteq Units
    /\ pend \subseteq Units
    /\ wild \in BOOLEAN

Tiled(hmu) ==
    /\ ChunksEnd(hmu)
    /\ \A a, b \in DOMAIN hmu : a < b => a + hmu[a].size <= b

(* Following sizes from the start of the pool visits every chunk and ends  *)
(* at its end: no operation of ems_alloc.c leaves a gap or an overlap.     *)
Tiling == Tiled(heap.hmu)

ListsSound(hmu, list, base) ==
    \A i \in DOMAIN list : \A k \in 1 .. Len(list[i]) :
        list[i][k][2] = base =>
            LET a == list[i][k][1]
            IN  /\ IsFcNormal(i)
                /\ a \in DOMAIN hmu /\ hmu[a].ut = "FC" /\ hmu[a].size = i
                /\ \A j \in 1 .. Len(list[i]) : list[i][j] = list[i][k] => j = k

TreeSound(hmu, tree) ==
    /\ ROOT \in DOMAIN tree
    /\ \A t \in DOMAIN tree \ {ROOT} :
        t \in DOMAIN hmu /\ hmu[t].ut = "FC" /\ ~IsFcNormal(hmu[t].size)

(* What alloc_hmu and unlink_hmu take out of the KFC is a free chunk of    *)
(* the size they take it for, and is there once.                           *)
KfcSound ==
    /\ ListsSound(heap.hmu, heap.list, heap.base)
    /\ TreeSound(heap.hmu, heap.tree)

(* Every object handed out is inside a VO chunk of its own with room for   *)
(* what was asked for, overflow of the size computation included.          *)
PayloadFits ==
    /\ \A a \in DOMAIN live \cup pend :
            a \in Starts(heap) /\ heap.hmu[a].ut = "VO"
    /\ \A a \in DOMAIN live : 8 * heap.hmu[a].size - HMU_SIZE >= live[a]
    /\ DOMAIN live \cap pend = {}

FootsSound(hmu, foot) ==
    \A u \in Units : foot[u] # 0 =>
        LET a == u + 1 - foot[u]
        IN  a \in DOMAIN hmu /\ hmu[a].ut = "FC" /\ hmu[a].size = foot[u]

(* A footer that gc_free_vo would follow is one that a free chunk, still   *)
(* in its place, has written.                                              *)
FootSound == FootsSound(heap.hmu, heap.foot)

----------------------------------------------------------------------------
(* What holds as long as nobody resizes in place and the pool stays put.   *)

(* "P in use bit means the previous chunk is in use"                       *)
(* (ems_gc_internal.h:131), both ways, for every chunk.                    *)
PinuseExact ==
    /\ heap.hmu[0].pinuse
    /\ \A a \in Starts(heap) :
            LET next == a + heap.hmu[a].size
            IN  next \in Starts(heap) =>
                    (heap.hmu[next].pinuse <=> heap.hmu[a].ut = "VO")

(* gc_free_vo merges with both neighbours: no two free chunks touch.       *)
NoAdjacentFree ==
    \A a \in Free(heap) : a + heap.hmu[a].size \notin Free(heap)

(* Until the pool is moved, every free chunk can be found again, resizing  *)
(* included: it is in the list of its size or in the tree.                 *)
KfcComplete ==
    heap.base = 0 => \A a \in Free(heap) :
        LET size == heap.hmu[a].size
        IN  IF IsFcNormal(size)
            THEN \E k \in 1 .. Len(heap.list[size]) :
                    heap.list[size][k] = <<a, heap.base>>
            ELSE a \in TreeNodes(heap)

(* "order in kfc_tree is: size[left] <= size[cur] < size[right]"           *)
(* (ems_gc_internal.h:226), for each node and all of its ancestors, which  *)
(* its parent links reach up to the root.                                  *)
TreeOrdered ==
    \A x \in TreeNodes(heap) :
        LET K == Cardinality(DOMAIN heap.tree)
            up[n \in 0 .. K] == IF n = 0 THEN x
                                ELSE IF up[n - 1] = ROOT THEN ROOT
                                ELSE heap.tree[up[n - 1]].parent
        IN  /\ up[K] = ROOT
            /\ \A n \in 1 .. K :
                up[n - 1] # ROOT =>
                    \/ /\ heap.tree[up[n]].left = up[n - 1]
                       /\ NodeSize(heap, x) <= NodeSize(heap, up[n])
                    \/ /\ heap.tree[up[n]].right = up[n - 1]
                       /\ NodeSize(heap, x) > NodeSize(heap, up[n])

(* Until the pool is moved, alloc_hmu takes a free chunk of the smallest   *)
(* sufficient size, fails only when no free chunk is large enough, and     *)
(* never finds the heap corrupted.                                         *)
AllocExact ==
    heap.base = 0 => ~heap.corrupted /\ \A r \in Requests :
        LET units == IF TotUnits(r) < GC_SMALLEST_SIZE THEN GC_SMALLEST_SIZE
                                                      ELSE TotUnits(r)
            large == {a \in Free(heap) : heap.hmu[a].size >= units}
            obj   == alloc_hmu(heap, TotUnits(r)).obj
        IN  ~Overflows(r) =>
                IF large = {} THEN obj = NULL
                ELSE obj \in large
                     /\ \A a \in large : heap.hmu[obj].size <= heap.hmu[a].size

----------------------------------------------------------------------------
(* The heap implements a set of disjoint blocks.                           *)

Blocks == INSTANCE BlockHeap
    WITH blocks <- [a \in VoChunks(heap) |-> heap.hmu[a].size]

(* Every step of the allocator hands out, takes back or grows one block,   *)
(* never moving or overlapping another one.                                *)
BlockHeapSpec == Blocks!Spec
============================================================================
