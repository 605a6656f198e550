--------------------------- MODULE EmsHeapProofs ---------------------------
(* Proofs about the EMS heap. It keeps its pool tiled and its KFC sound,   *)
(* and implements BlockHeap; then, from "Walks through the tree" on, the   *)
(* tree of the KFC is a search tree, no free chunk is lost from the KFC,   *)
(* and alloc_hmu finds the smallest one that is large enough.              *)
EXTENDS EmsHeap, SequenceTheorems, FiniteSetTheorems, NaturalsInduction,
        WellFoundedInduction, TLAPS

----------------------------------------------------------------------------
(* Headers and footers.                                                    *)

(* Writing one header over the chunks from a up to a + c.size keeps the    *)
(* pool tiled.                                                             *)
LEMMA TileOne ==
    ASSUME NEW hmu, HmuOK(hmu), Tiled(hmu),
           NEW a \in DOMAIN hmu, NEW c \in Chunks,
           a + c.size \in DOMAIN hmu \cup {HeapUnits}
    PROVE  LET new == SetHmu(hmu, a, c) IN
           HmuOK(new) /\ Tiled(new)
<1> DEFINE new == SetHmu(hmu, a, c)
<1> USE SizesAssumption
<1>1. /\ DOMAIN new = (DOMAIN hmu \ (a .. (a + c.size - 1))) \cup {a}
      /\ \A x \in DOMAIN new : new[x] = IF x = a THEN c ELSE hmu[x]
  BY DEF SetHmu
<1>2. HmuOK(new)
  BY <1>1 DEF HmuOK, SetHmu
<1>3. ChunksEnd(new)
  BY <1>1, <1>2 DEF HmuOK, Tiled, ChunksEnd, Chunks, Units
<1>4. \A x, y \in DOMAIN new : x < y => x + new[x].size <= y
  BY <1>1, <1>2 DEF HmuOK, Tiled, ChunksEnd, Chunks, Units
<1> QED
  BY <1>2, <1>3, <1>4 DEF Tiled

(* A footer written with its chunk keeps the footers sound: those that the *)
(* chunk covers are gone, the others end chunks it does not touch.         *)
LEMMA FootOne ==
    ASSUME NEW hmu, HmuOK(hmu), Tiled(hmu),
           NEW foot, FootOK(foot), FootsSound(hmu, foot),
           NEW a \in DOMAIN hmu, NEW c \in Chunks,
           a + c.size \in DOMAIN hmu \cup {HeapUnits}
    PROVE  /\ FootOK(SetFoot(foot, a, c))
           /\ FootsSound(SetHmu(hmu, a, c), SetFoot(foot, a, c))
<1> DEFINE new == SetHmu(hmu, a, c)
           nf  == SetFoot(foot, a, c)
<1> USE SizesAssumption
<1>1. /\ DOMAIN new = (DOMAIN hmu \ (a .. (a + c.size - 1))) \cup {a}
      /\ \A x \in DOMAIN new : new[x] = IF x = a THEN c ELSE hmu[x]
  BY DEF SetHmu
<1>0. /\ a \in Int /\ c.size \in 1 .. HeapUnits
      /\ \A x \in DOMAIN hmu : x \in Int /\ hmu[x].size \in 1 .. HeapUnits
      /\ \A u \in Units : u \in Int /\ foot[u] \in Int
  BY DEF HmuOK, Chunks, Units, FootOK
<1>2. \A u \in Units : nf[u] = IF u \notin a .. (a + c.size - 1) THEN foot[u]
                    ELSE IF c.ut = "FC" /\ c.size > 1 /\ u = a + c.size - 1
                    THEN c.size ELSE 0
  BY DEF SetFoot
<1>3. FootOK(nf)
  BY <1>2 DEF SetFoot, FootOK, Chunks
<1>4. ASSUME NEW u \in Units, nf[u] # 0
      PROVE  LET x == u + 1 - nf[u]
             IN  x \in DOMAIN new /\ new[x].ut = "FC" /\ new[x].size = nf[u]
  <2>1. CASE u \in a .. (a + c.size - 1)
    BY <2>1, <1>0, <1>1, <1>2, <1>4
  <2>2. CASE u \notin a .. (a + c.size - 1)
    <3> DEFINE x == u + 1 - foot[u]
    <3>1. nf[u] = foot[u] /\ x \in DOMAIN hmu /\ hmu[x].ut = "FC"
          /\ hmu[x].size = foot[u]
      BY <2>2, <1>2, <1>4 DEF FootsSound
    <3>2. x \notin a .. (a + c.size - 1)
      BY <3>1, <2>2, <1>0 DEF Tiled, ChunksEnd
    <3> QED
      BY <3>1, <3>2, <1>0, <1>1
  <2> QED
    BY <2>1, <2>2
<1> QED
  BY <1>3, <1>4 DEF FootsSound

(* Two chunks in the place of the chunks from a on.                        *)
Two(hmu, a, c, d) ==
    [x \in (DOMAIN hmu \ (a .. (a + c.size + d.size - 1)))
             \cup {a, a + c.size} |->
        IF x = a THEN c ELSE IF x = a + c.size THEN d ELSE hmu[x]]

TwoFoot(foot, a, c, d) ==
    [u \in Units |->
        IF u \notin a .. (a + c.size + d.size - 1) THEN foot[u]
        ELSE IF c.ut = "FC" /\ c.size > 1 /\ u = a + c.size - 1 THEN c.size
        ELSE IF d.ut = "FC" /\ d.size > 1 /\ u = a + c.size + d.size - 1
        THEN d.size
        ELSE 0]

(* Carve writes the second chunk first, Absorb the first one.              *)
LEMMA TwoOrders ==
    ASSUME NEW hmu, HmuOK(hmu), NEW foot, FootOK(foot), NEW a \in DOMAIN hmu,
           NEW c \in Chunks, NEW d \in Chunks,
           a + c.size + d.size <= HeapUnits
    PROVE  LET b == a + c.size IN
           /\ SetHmu(SetHmu(hmu, b, d), a, c) = Two(hmu, a, c, d)
           /\ SetHmu(SetHmu(hmu, a, c), b, d) = Two(hmu, a, c, d)
           /\ SetFoot(SetFoot(foot, b, d), a, c) = TwoFoot(foot, a, c, d)
           /\ SetFoot(SetFoot(foot, a, c), b, d) = TwoFoot(foot, a, c, d)
<1> USE SizesAssumption
<1> DEFINE b == a + c.size
<1>0. /\ a \in Int /\ b \in Int /\ c.size \in Nat \ {0} /\ d.size \in Nat \ {0}
      /\ \A x \in DOMAIN hmu : x \in Int
  BY DEF HmuOK, Chunks, Units
<1>1. SetHmu(SetHmu(hmu, b, d), a, c) = Two(hmu, a, c, d)
  BY <1>0 DEF SetHmu, Two
<1>2. SetHmu(SetHmu(hmu, a, c), b, d) = Two(hmu, a, c, d)
  BY <1>0 DEF SetHmu, Two
<1>3. SetFoot(SetFoot(foot, b, d), a, c) = TwoFoot(foot, a, c, d)
  BY <1>0 DEF SetFoot, TwoFoot, Units
<1>4. SetFoot(SetFoot(foot, a, c), b, d) = TwoFoot(foot, a, c, d)
  BY <1>0 DEF SetFoot, TwoFoot, Units
<1> QED
  BY <1>1, <1>2, <1>3, <1>4

(* Splitting a range in two chunks keeps the pool tiled and the footers    *)
(* sound.                                                                  *)
LEMMA TileTwo ==
    ASSUME NEW hmu, HmuOK(hmu), Tiled(hmu),
           NEW foot, FootOK(foot), FootsSound(hmu, foot),
           NEW a \in DOMAIN hmu, NEW c \in Chunks, NEW d \in Chunks,
           a + c.size + d.size \in DOMAIN hmu \cup {HeapUnits}
    PROVE  /\ HmuOK(Two(hmu, a, c, d)) /\ Tiled(Two(hmu, a, c, d))
           /\ FootOK(TwoFoot(foot, a, c, d))
           /\ FootsSound(Two(hmu, a, c, d), TwoFoot(foot, a, c, d))
<1> USE SizesAssumption
<1> DEFINE b == a + c.size
           e == a + c.size + d.size
<1>0. /\ a \in Int /\ c.size \in 1 .. HeapUnits /\ d.size \in 1 .. HeapUnits
      /\ \A x \in DOMAIN hmu : x \in Int /\ x < HeapUnits
  BY DEF HmuOK, Chunks, Units
<1>00. e <= HeapUnits /\ b \in Int /\ e \in Int /\ a >= 0
  BY <1>0 DEF HmuOK, Units
<1>1. PICK both \in Chunks : /\ both.size = c.size + d.size
                            /\ both.ut = "VO"
  <2> DEFINE r == [ut |-> "VO", size |-> c.size + d.size, pinuse |-> TRUE]
  <2>1. r \in Chunks /\ r.size = c.size + d.size /\ r.ut = "VO"
    BY <1>0, <1>00 DEF Chunks
  <2> QED
    BY <2>1
<1> DEFINE f1 == SetHmu(hmu, a, both)
           ft1 == SetFoot(foot, a, both)
<1>11. a + both.size = e
  BY <1>0, <1>1
<1>2. HmuOK(f1) /\ Tiled(f1) /\ FootOK(ft1) /\ FootsSound(f1, ft1)
  BY <1>11, TileOne, FootOne, Zenon
<1>3. /\ DOMAIN f1 = (DOMAIN hmu \ (a .. (e - 1))) \cup {a}
      /\ f1[a] = both /\ a \in DOMAIN f1
      /\ \A x \in DOMAIN f1 : x # a => f1[x] = hmu[x]
  BY <1>0, <1>00, <1>1, <1>11 DEF SetHmu
<1> DEFINE new == Two(hmu, a, c, d)
           nf == TwoFoot(foot, a, c, d)
<1>4. /\ DOMAIN new = DOMAIN f1 \cup {b}
      /\ new[a] = c /\ new[b] = d
      /\ \A x \in DOMAIN f1 : x # a => new[x] = f1[x]
      /\ b \notin DOMAIN f1
  BY <1>0, <1>00, <1>3 DEF Two
<1>8. \A u \in Units : nf[u] = IF u \notin a .. (e - 1) THEN ft1[u]
                    ELSE IF c.ut = "FC" /\ c.size > 1 /\ u = b - 1 THEN c.size
                    ELSE IF d.ut = "FC" /\ d.size > 1 /\ u = e - 1
                    THEN d.size ELSE 0
  BY <1>0, <1>00, <1>1, <1>11 DEF TwoFoot, SetFoot
<1>88. nf = [u \in Units |-> nf[u]]
  BY DEF TwoFoot
<1> HIDE DEF f1, ft1, new, nf
<1>5. HmuOK(new)
  BY <1>0, <1>00, <1>2, <1>4 DEF HmuOK, Units
<1>6. ChunksEnd(new)
  BY <1>0, <1>00, <1>1, <1>2, <1>3, <1>4, <1>5 DEF HmuOK, Tiled, ChunksEnd, Chunks, Units
<1>7. \A x, y \in DOMAIN new : x < y => x + new[x].size <= y
  BY <1>0, <1>00, <1>1, <1>2, <1>3, <1>4, <1>5 DEF HmuOK, Tiled, ChunksEnd, Chunks, Units
<1>9. FootOK(nf)
  BY <1>0, <1>00, <1>2, <1>8, <1>88 DEF FootOK
<1>10. ASSUME NEW u \in Units, nf[u] # 0
       PROVE  LET x == u + 1 - nf[u]
              IN  x \in DOMAIN new /\ new[x].ut = "FC" /\ new[x].size = nf[u]
  <2>1. CASE u \in a .. (e - 1)
    BY <2>1, <1>0, <1>00, <1>3, <1>4, <1>8, <1>10 DEF Units
  <2>2. CASE u \notin a .. (e - 1)
    <3> DEFINE x == u + 1 - ft1[u]
    <3>1. nf[u] = ft1[u] /\ x \in DOMAIN f1 /\ f1[x].ut = "FC"
          /\ f1[x].size = ft1[u]
      BY <2>2, <1>8, <1>10, <1>2 DEF FootsSound
    <3>2. x # a
      BY <3>1, <1>1, <1>3
    <3> QED
      BY <3>1, <3>2, <1>4
  <2> QED
    BY <2>1, <2>2
<1> QED
  BY <1>5, <1>6, <1>7, <1>9, <1>10 DEF Tiled, FootsSound, new, nf

----------------------------------------------------------------------------
(* P bits, and free neighbours.                                            *)

(* P bits and footers are exact, and free chunks are merged.  No chunk is  *)
(* too small for a footer, except for the rest of a resize in place.       *)
Exact(h) ==
    /\ h.hmu[0].pinuse
    /\ \A a \in DOMAIN h.hmu :
          LET next == a + h.hmu[a].size IN
          /\ h.hmu[a].size >= GC_SMALLEST_SIZE
          /\ next \in DOMAIN h.hmu =>
                /\ h.hmu[next].pinuse <=> h.hmu[a].ut = "VO"
                /\ h.hmu[a].ut = "FC" =>
                      h.hmu[next].ut = "VO" /\ h.foot[next - 1] = h.hmu[a].size

(* The chunk before start, if any, is in use.                              *)
UsedBefore(hmu, start) ==
    \A a \in DOMAIN hmu : a + hmu[a].size = start => hmu[a].ut = "VO"

(* Headers new are those of old, but for the P bit p of the chunk at e.    *)
MarkedAfter(old, new, e, p) ==
    /\ DOMAIN new = DOMAIN old
    /\ \A x \in DOMAIN old : /\ new[x].ut = old[x].ut /\ new[x].size = old[x].size
                             /\ x # e => new[x] = old[x]
    /\ e \in DOMAIN old => new[e].pinuse = p

(* A free chunk that ends where a chunk in use begins, and begins where    *)
(* one ends, written over the chunks there were.                           *)
LEMMA ExactFree ==
    ASSUME NEW h, HmuOK(h.hmu), Tiled(h.hmu), Exact(h), FootOK(h.foot),
           NEW a \in DOMAIN h.hmu, UsedBefore(h.hmu, a),
           NEW c \in Chunks, c.ut = "FC", c.pinuse = h.hmu[a].pinuse,
           c.size >= GC_SMALLEST_SIZE,
           a + c.size \in DOMAIN h.hmu \cup {HeapUnits},
           a + c.size \in DOMAIN h.hmu => h.hmu[a + c.size].ut = "VO",
           NEW g, MarkedAfter(SetHmu(h.hmu, a, c), g.hmu, a + c.size, FALSE),
           g.foot = SetFoot(h.foot, a, c)
    PROVE  Exact(g)
<1> USE SizesAssumption DEF GC_SMALLEST_SIZE
<1> DEFINE e == a + c.size
<1>1. /\ \A x \in DOMAIN h.hmu : x \in Int /\ x >= 0 /\ x < HeapUnits
               /\ h.hmu[x].size \in 1 .. HeapUnits /\ x + h.hmu[x].size <= HeapUnits
               /\ h.hmu[x].pinuse \in BOOLEAN
      /\ \A x, y \in DOMAIN h.hmu : x < y => x + h.hmu[x].size <= y
      /\ a \in Int /\ a >= 0 /\ c.size \in 1 .. HeapUnits /\ e \in Int /\ e > a /\ e <= HeapUnits
      /\ 0 \in DOMAIN h.hmu
  BY DEF HmuOK, Chunks, Units, Tiled, ChunksEnd
<1>2. /\ DOMAIN g.hmu = (DOMAIN h.hmu \ (a .. (e - 1))) \cup {a}
      /\ \A x \in DOMAIN g.hmu : x # a =>
            /\ g.hmu[x].ut = h.hmu[x].ut /\ g.hmu[x].size = h.hmu[x].size
            /\ x # e => g.hmu[x] = h.hmu[x]
      /\ g.hmu[a] = c
      /\ e \in DOMAIN h.hmu => g.hmu[e].pinuse = FALSE
  <2> DEFINE new == SetHmu(h.hmu, a, c)
  <2>0. a \in Int /\ c.size \in Int
    BY <1>1
  <2>1. /\ DOMAIN new = (DOMAIN h.hmu \ (a .. (e - 1))) \cup {a}
        /\ \A x \in DOMAIN new : x # a => new[x] = h.hmu[x]
        /\ new[a] = c
    BY <2>0 DEF SetHmu
  <2> HIDE DEF new
  <2>2. a # e /\ e \notin a .. (e - 1)
    BY <1>1
  <2>3. /\ DOMAIN g.hmu = DOMAIN new
        /\ \A x \in DOMAIN new : /\ g.hmu[x].ut = new[x].ut /\ g.hmu[x].size = new[x].size
                                 /\ x # e => g.hmu[x] = new[x]
        /\ e \in DOMAIN new => g.hmu[e].pinuse = FALSE
    BY Zenon DEF MarkedAfter, new
  <2> QED
    BY <2>1, <2>2, <2>3
<1>3. \A u \in Units : g.foot[u] = IF u \notin a .. (e - 1) THEN h.foot[u]
                                   ELSE IF u = e - 1 THEN c.size ELSE 0
  BY <1>1 DEF SetFoot
<1>4. g.hmu[0].pinuse
  <2>1. CASE a = 0
    BY <2>1, <1>2 DEF Exact
  <2>2. CASE a # 0
    BY <2>2, <1>1, <1>2 DEF Exact
  <2> QED
    BY <2>1, <2>2
<1>5. ASSUME NEW x \in DOMAIN g.hmu
      PROVE  LET next == x + g.hmu[x].size IN
          /\ g.hmu[x].size >= GC_SMALLEST_SIZE
          /\ next \in DOMAIN g.hmu =>
                /\ g.hmu[next].pinuse <=> g.hmu[x].ut = "VO"
                /\ g.hmu[x].ut = "FC" =>
                      g.hmu[next].ut = "VO" /\ g.foot[next - 1] = g.hmu[x].size
  <2>1. CASE x = a
    <3>1. e \in DOMAIN h.hmu => e - 1 \in Units /\ e \notin a .. (e - 1) /\ e # a
      BY <1>1 DEF Units
    <3> QED
      BY <2>1, <3>1, <1>1, <1>2, <1>3
  <2>2. CASE x # a
    <3> DEFINE next == x + h.hmu[x].size
    <3>1. x \in DOMAIN h.hmu /\ g.hmu[x].size = h.hmu[x].size /\ g.hmu[x].ut = h.hmu[x].ut
          /\ next \in Int /\ x \in Int /\ next - 1 \in Units /\ next > x
          /\ (x < a \/ x >= e)
      BY <2>2, <1>1, <1>2 DEF Units
    <3>2. CASE next = a
      <4>1. h.hmu[x].ut = "VO" /\ h.hmu[a].pinuse
        BY <3>1, <3>2 DEF UsedBefore, Exact
      <4> QED
        BY <3>1, <3>2, <4>1, <1>2 DEF Exact
    <3>3. CASE next # a
      <4>1. next < a \/ next > e
        BY <3>1, <3>3, <1>1
      <4>2. next - 1 \notin a .. (e - 1) /\ next # e
        BY <4>1, <3>1, <1>1
      <4>3. ASSUME next \in DOMAIN g.hmu
            PROVE  next \in DOMAIN h.hmu /\ g.hmu[next] = h.hmu[next] /\ g.foot[next - 1] = h.foot[next - 1]
        BY <4>2, <4>3, <3>1, <3>3, <1>2, <1>3
      <4> QED
        BY <4>3, <3>1 DEF Exact
    <3> QED
      BY <3>2, <3>3
  <2> QED
    BY <2>1, <2>2
<1> QED
  BY <1>4, <1>5 DEF Exact

(* The chunk before a is free exactly if its footer is found.              *)
LEMMA ExactBefore ==
    ASSUME NEW h, HmuOK(h.hmu), Tiled(h.hmu), Exact(h), NEW a \in DOMAIN h.hmu,
           ~(HasFooter(h, a) /\ Prev(h, a) \in Free(h))
    PROVE  UsedBefore(h.hmu, a)
<1> USE SizesAssumption DEF GC_SMALLEST_SIZE
<1>1. ASSUME NEW x \in DOMAIN h.hmu, x + h.hmu[x].size = a, h.hmu[x].ut # "VO"
      PROVE  FALSE
  <2>1. x \in Int /\ x >= 0 /\ h.hmu[x].size \in Int /\ h.hmu[x].ut = "FC" /\ h.hmu[x].size > 0
    BY <1>1 DEF HmuOK, Chunks, Units
  <2>2. ~h.hmu[a].pinuse /\ h.foot[a - 1] = h.hmu[x].size
    BY <1>1, <2>1 DEF Exact
  <2>3. Prev(h, a) = x /\ a > 0 /\ h.foot[a - 1] # 0
    BY <1>1, <2>1, <2>2 DEF Prev
  <2> QED
    BY <2>1, <2>2, <2>3 DEF HasFooter, Free, Starts
<1> QED
  BY <1>1 DEF UsedBefore

(* A free chunk is used, and its rest stays free.                          *)
LEMMA ExactSplit ==
    ASSUME NEW h, HmuOK(h.hmu), Tiled(h.hmu), Exact(h), FootOK(h.foot),
           NEW p \in DOMAIN h.hmu, h.hmu[p].ut = "FC",
           NEW c \in Chunks, c.ut = "VO", c.pinuse = h.hmu[p].pinuse, c.size >= GC_SMALLEST_SIZE,
           NEW d \in Chunks, d.ut = "FC", d.pinuse = TRUE, d.size >= GC_SMALLEST_SIZE,
           h.hmu[p].size = c.size + d.size,
           NEW g, g.hmu = Two(h.hmu, p, c, d), g.foot = TwoFoot(h.foot, p, c, d)
    PROVE  Exact(g)
<1> USE SizesAssumption DEF GC_SMALLEST_SIZE
<1> DEFINE b == p + c.size
           e == p + c.size + d.size
<1>1. /\ \A x \in DOMAIN h.hmu : x \in Int /\ x >= 0 /\ x < HeapUnits
               /\ h.hmu[x].size \in 1 .. HeapUnits /\ x + h.hmu[x].size <= HeapUnits
      /\ \A x, y \in DOMAIN h.hmu : x < y => x + h.hmu[x].size <= y
      /\ p \in Int /\ p >= 0 /\ c.size \in Int /\ d.size \in Int /\ e \in Int /\ b \in Int
      /\ b > p /\ e > b /\ e = p + h.hmu[p].size /\ e <= HeapUnits
      /\ 0 \in DOMAIN h.hmu
  BY DEF HmuOK, Chunks, Units, Tiled, ChunksEnd
<1>2. /\ DOMAIN g.hmu = (DOMAIN h.hmu \ (p .. (e - 1))) \cup {p, b}
      /\ \A x \in DOMAIN g.hmu : x \notin {p, b} => g.hmu[x] = h.hmu[x]
      /\ g.hmu[p] = c /\ g.hmu[b] = d
  BY <1>1 DEF Two
<1>3. \A u \in Units : /\ u \notin p .. (e - 1) => g.foot[u] = h.foot[u]
                       /\ u = e - 1 => g.foot[u] = d.size
  <2>1. ASSUME NEW u \in Units
        PROVE  g.foot[u] = IF u \notin p .. (e - 1) THEN h.foot[u]
                           ELSE IF u = e - 1 THEN d.size ELSE 0
    BY <1>1 DEF TwoFoot
  <2>2. e - 1 \in p .. (e - 1)
    BY <1>1
  <2> QED
    BY <2>1, <2>2
<1>4. g.hmu[0].pinuse
  <2>1. CASE p = 0
    BY <2>1, <1>2 DEF Exact
  <2>2. CASE p # 0
    BY <2>2, <1>1, <1>2 DEF Exact
  <2> QED
    BY <2>1, <2>2
<1>5. ASSUME NEW x \in DOMAIN g.hmu
      PROVE  LET next == x + g.hmu[x].size IN
          /\ g.hmu[x].size >= GC_SMALLEST_SIZE
          /\ next \in DOMAIN g.hmu =>
                /\ g.hmu[next].pinuse <=> g.hmu[x].ut = "VO"
                /\ g.hmu[x].ut = "FC" =>
                      g.hmu[next].ut = "VO" /\ g.foot[next - 1] = g.hmu[x].size
  <2>1. CASE x = p
    BY <2>1, <1>1, <1>2
  <2>2. CASE x = b
    <3>1. e \in DOMAIN g.hmu => e \in DOMAIN h.hmu /\ g.hmu[e] = h.hmu[e] /\ g.foot[e - 1] = d.size
      BY <1>1, <1>2, <1>3 DEF Units
    <3> QED
      BY <2>2, <3>1, <1>1, <1>2 DEF Exact
  <2>3. CASE x \notin {p, b}
    <3> DEFINE next == x + h.hmu[x].size
    <3>1. x \in DOMAIN h.hmu /\ g.hmu[x] = h.hmu[x]
          /\ next \in Int /\ x \in Int /\ next - 1 \in Units /\ next > x
          /\ (x < p \/ x >= e)
      BY <2>3, <1>1, <1>2 DEF Units
    <3>2. CASE next = p
      BY <3>1, <3>2, <1>2 DEF Exact
    <3>3. CASE next # p
      <4>1. next < p \/ next > e
        BY <3>1, <3>3, <1>1
      <4>2. next - 1 \notin p .. (e - 1) /\ next \notin {p, b}
        BY <4>1, <3>1, <1>1
      <4>3. ASSUME next \in DOMAIN g.hmu
            PROVE  next \in DOMAIN h.hmu /\ g.hmu[next] = h.hmu[next] /\ g.foot[next - 1] = h.foot[next - 1]
        BY <4>2, <4>3, <3>1, <3>3, <1>2, <1>3
      <4> QED
        BY <4>3, <3>1 DEF Exact
    <3> QED
      BY <3>2, <3>3
  <2> QED
    BY <2>1, <2>2, <2>3
<1> QED
  BY <1>4, <1>5 DEF Exact

(* A free chunk is used whole.                                             *)
LEMMA ExactWhole ==
    ASSUME NEW h, HmuOK(h.hmu), Tiled(h.hmu), Exact(h), FootOK(h.foot),
           NEW p \in DOMAIN h.hmu, h.hmu[p].ut = "FC",
           NEW c \in Chunks, c.ut = "VO", c.pinuse = h.hmu[p].pinuse, c.size = h.hmu[p].size,
           NEW f, f.foot = h.foot, MarkedAfter(h.hmu, f.hmu, p + c.size, TRUE),
           NEW g, g.hmu = SetHmu(f.hmu, p, c), g.foot = SetFoot(f.foot, p, c)
    PROVE  Exact(g)
<1> USE SizesAssumption DEF GC_SMALLEST_SIZE
<1> DEFINE e == p + c.size
<1>0. /\ DOMAIN f.hmu = DOMAIN h.hmu
      /\ \A x \in DOMAIN h.hmu : /\ f.hmu[x].ut = h.hmu[x].ut /\ f.hmu[x].size = h.hmu[x].size
                                 /\ x # e => f.hmu[x] = h.hmu[x]
      /\ e \in DOMAIN h.hmu => f.hmu[e].pinuse = TRUE
  BY DEF MarkedAfter
<1>1. /\ \A x \in DOMAIN h.hmu : x \in Int /\ x >= 0 /\ x < HeapUnits
               /\ h.hmu[x].size \in 1 .. HeapUnits /\ x + h.hmu[x].size <= HeapUnits
      /\ \A x, y \in DOMAIN h.hmu : x < y => x + h.hmu[x].size <= y
      /\ p \in Int /\ p >= 0 /\ c.size \in 1 .. HeapUnits /\ e \in Int /\ e > p /\ e <= HeapUnits
      /\ 0 \in DOMAIN h.hmu
  BY DEF HmuOK, Chunks, Units, Tiled, ChunksEnd
<1>2. /\ DOMAIN g.hmu = DOMAIN h.hmu
      /\ \A x \in DOMAIN h.hmu : x # p => g.hmu[x] = f.hmu[x]
      /\ g.hmu[p] = c
  BY <1>0, <1>1 DEF SetHmu
<1>3. \A u \in Units : u \notin p .. (e - 1) => g.foot[u] = h.foot[u]
  BY <1>1 DEF SetFoot, Units
<1>4. g.hmu[0].pinuse
  <2>1. CASE p = 0
    BY <2>1, <1>2 DEF Exact
  <2>2. CASE p # 0
    BY <2>2, <1>0, <1>1, <1>2 DEF Exact
  <2> QED
    BY <2>1, <2>2
<1>5. ASSUME NEW x \in DOMAIN g.hmu
      PROVE  LET next == x + g.hmu[x].size IN
          /\ g.hmu[x].size >= GC_SMALLEST_SIZE
          /\ next \in DOMAIN g.hmu =>
                /\ g.hmu[next].pinuse <=> g.hmu[x].ut = "VO"
                /\ g.hmu[x].ut = "FC" =>
                      g.hmu[next].ut = "VO" /\ g.foot[next - 1] = g.hmu[x].size
  <2>1. CASE x = p
    BY <2>1, <1>0, <1>1, <1>2 DEF Exact
  <2>2. CASE x # p
    <3> DEFINE next == x + h.hmu[x].size
    <3>1. x \in DOMAIN h.hmu /\ g.hmu[x].ut = h.hmu[x].ut /\ g.hmu[x].size = h.hmu[x].size
          /\ next \in Int /\ x \in Int /\ next - 1 \in Units /\ next > x
          /\ (x < p \/ x >= e)
      BY <2>2, <1>0, <1>1, <1>2 DEF Units
    <3>2. CASE next = p
      <4>1. h.hmu[x].ut = "VO" /\ h.hmu[p].pinuse
        BY <3>1, <3>2 DEF Exact, HmuOK, Chunks
      <4> QED
        BY <3>1, <3>2, <4>1, <1>2 DEF Exact
    <3>3. CASE next # p
      <4>1. next < p \/ next > e
        BY <3>1, <3>3, <1>1
      <4>2. next - 1 \notin p .. (e - 1) /\ next # p /\ next # e
        BY <4>1, <3>1, <1>1
      <4>3. ASSUME next \in DOMAIN g.hmu
            PROVE  next \in DOMAIN h.hmu /\ g.hmu[next] = h.hmu[next] /\ g.foot[next - 1] = h.foot[next - 1]
        BY <4>2, <4>3, <3>1, <3>3, <1>0, <1>2, <1>3
      <4> QED
        BY <4>3, <3>1 DEF Exact
    <3> QED
      BY <3>2, <3>3
  <2> QED
    BY <2>1, <2>2
<1> QED
  BY <1>4, <1>5 DEF Exact

----------------------------------------------------------------------------
(* The KFC.                                                                *)

KfcOK(h) == ListsSound(h.hmu, h.list, h.base) /\ TreeSound(h.hmu, h.tree)

Sane(h) == HeapOK(h) /\ Tiled(h.hmu) /\ FootsSound(h.hmu, h.foot) /\ KfcOK(h)

(* No list and no tree holds offset x.                                     *)
OffKfc(h, x) ==
    /\ x \notin DOMAIN h.tree
    /\ \A i \in DOMAIN h.list : \A k \in 1 .. Len(h.list[i]) :
            h.list[i][k] # <<x, h.base>>

(* Fields that the KFC operations leave alone.                             *)
SameRest(h, g) ==
    /\ DOMAIN g = HeapFields
    /\ g.total_free_size = h.total_free_size
    /\ g.highmark_size = h.highmark_size
    /\ g.base = h.base

SameChunks(h, g) == g.hmu = h.hmu /\ g.foot = h.foot

(* What RemoveAt leaves of a list: all entries but the one at k, in order. *)
LEMMA RemoveAtProps ==
    ASSUME NEW S, NEW s \in Seq(S), NEW k \in 1 .. Len(s)
    PROVE  /\ RemoveAt(s, k) \in Seq(S)
           /\ Len(RemoveAt(s, k)) = Len(s) - 1
           /\ \A j \in 1 .. (Len(s) - 1) :
                RemoveAt(s, k)[j] = IF j < k THEN s[j] ELSE s[j + 1]
<1> DEFINE l == SubSeq(s, 1, k - 1)
           r == SubSeq(s, k + 1, Len(s))
<1>1. /\ Len(s) \in Nat /\ k \in Nat
  BY LenProperties
<1>2. /\ l \in Seq(S) /\ Len(l) = k - 1
      /\ \A j \in 1 .. (k - 1) : l[j] = s[j]
  BY <1>1, SubSeqProperties
<1>3. /\ r \in Seq(S) /\ Len(r) = Len(s) - k
      /\ \A j \in 1 .. (Len(s) - k) : r[j] = s[k + j]
  <2>1. \A i \in (k + 1) .. Len(s) : s[i] \in S
    BY <1>1, ElementOfSeq
  <2>2. /\ r \in Seq(S) /\ Len(r) = IF k + 1 <= Len(s) THEN Len(s) - (k + 1) + 1 ELSE 0
        /\ \A j \in 1 .. (Len(s) - (k + 1) + 1) : r[j] = s[(k + 1) + j - 1]
    BY <1>1, <2>1, SubSeqProperties
  <2> HIDE DEF r
  <2>3. \A j \in 1 .. (Len(s) - k) : s[(k + 1) + j - 1] = s[k + j]
    BY <1>1
  <2> QED
    BY <1>1, <2>2, <2>3
<1>4. RemoveAt(s, k) = l \o r
  BY DEF RemoveAt
<1> HIDE DEF l, r
<1>5. /\ l \o r \in Seq(S) /\ Len(l \o r) = Len(l) + Len(r)
      /\ \A j \in 1 .. (Len(l) + Len(r)) :
            (l \o r)[j] = IF j <= Len(l) THEN l[j] ELSE r[j - Len(l)]
  BY <1>2, <1>3, ConcatProperties
<1>6. Len(l) + Len(r) = Len(s) - 1
  BY <1>1, <1>2, <1>3
<1>7. ASSUME NEW j \in 1 .. (Len(s) - 1)
      PROVE  (l \o r)[j] = IF j < k THEN s[j] ELSE s[j + 1]
  <2>1. CASE j < k
    BY <2>1, <1>1, <1>2, <1>5, <1>6
  <2>2. CASE ~(j < k)
    <3>1. j - Len(l) \in 1 .. (Len(s) - k) /\ k + (j - Len(l)) = j + 1
      BY <2>2, <1>1, <1>2
    <3>2. (l \o r)[j] = r[j - Len(l)]
      BY <2>2, <1>1, <1>2, <1>5, <1>6
    <3> QED
      BY <2>2, <3>1, <3>2, <1>3
  <2> QED
    BY <2>1, <2>2
<1> QED
  BY <1>4, <1>5, <1>6, <1>7

(* A subset of 0 .. K that is not empty has a least and a greatest element.*)
LEMMA MinMax ==
    ASSUME NEW K \in Nat, NEW T \in SUBSET (0 .. K), T # {}
    PROVE  /\ Min(T) \in T /\ \A y \in T : Min(T) <= y
           /\ Max(T) \in T /\ \A y \in T : Max(T) >= y
<1> DEFINE R == {ss \in Nat \X Nat : ss[1] < ss[2]}
<1>0. IsWellFoundedOn(R, Nat)
  BY NatLessThanWellFounded DEF OpToRel
<1>a. ASSUME NEW U, U \subseteq Nat, U # {}
      PROVE  \E x \in U : \A y \in U : x <= y
  <2> HIDE DEF R
  <2>1. PICK x \in U : \A y \in U : ~(<<y, x>> \in R)
    BY <1>0, <1>a, WFMin
  <2>2. ASSUME NEW y \in U PROVE x <= y
    <3>1. y \in Nat /\ x \in Nat
      BY <1>a
    <3>2. y < x => <<y, x>> \in R
      BY <3>1 DEF R
    <3> QED
      BY <3>1, <3>2, <2>1
  <2> QED
    BY <2>2
<1> HIDE DEF R
<1>b. \A x \in T : x \in Nat /\ x <= K
  OBVIOUS
<1>1. \E x \in T : \A y \in T : x <= y
  <2>1. T \subseteq Nat
    BY <1>b
  <2> QED
    BY <1>a, <2>1
<1>2. \E x \in T : \A y \in T : x >= y
  <2> DEFINE U == {K - x : x \in T}
  <2>1. U \subseteq Nat /\ U # {}
    <3>1. PICK x \in T : TRUE
      OBVIOUS
    <3>2. K - x \in U
      OBVIOUS
    <3>3. \A z \in T : K - z \in Nat
      BY <1>b
    <3> QED
      BY <3>2, <3>3
  <2> HIDE DEF U
  <2>2. PICK m \in U : \A y \in U : m <= y
    BY <2>1, <1>a
  <2>3. PICK x \in T : m = K - x
    BY DEF U
  <2>4. ASSUME NEW y \in T PROVE x >= y
    <3>1. K - y \in U
      BY DEF U
    <3> QED
      BY <3>1, <2>2, <2>3, <1>b
  <2> QED
    BY <2>4
<1> QED
  BY <1>1, <1>2 DEF Min, Max

(* Heap g is h without p in its tree, or h marked as corrupted.            *)
TreeOut(h, g, p) ==
    /\ SameRest(h, g) /\ SameChunks(h, g) /\ g.list = h.list
    /\ \/ g.corrupted = TRUE /\ g.tree = h.tree
       \/ /\ g.corrupted = h.corrupted
          /\ p \in DOMAIN h.tree \ {ROOT}
          /\ DOMAIN g.tree = DOMAIN h.tree \ {p}

(* remove_tree_node takes p, and only p, out of the tree, or marks the     *)
(* heap as corrupted.                                                      *)
LEMMA RemoveTreeNode ==
    ASSUME NEW h, HeapOK(h), ROOT \in DOMAIN h.tree, NEW p
    PROVE  TreeOut(h, remove_tree_node(h, p), p)
<1> DEFINE g == remove_tree_node(h, p)
           q == Predecessor(h.tree, p)
           cut == TakePlace(Splice(h.tree, q, h.tree[q].left), p, q)
<1>1. \A c : DOMAIN Splice(h.tree, p, c) = DOMAIN h.tree \ {p}
  BY Zenon DEF Splice
<1>2. IsLinked(h.tree, q) => DOMAIN cut = DOMAIN h.tree \ {p}
  BY Zenon DEF IsLinked, Splice, TakePlace
<1>3. IsLinked(h.tree, p) => p \in DOMAIN h.tree \ {ROOT}
  BY DEF IsLinked
<1>4. DOMAIN h = HeapFields
  BY DEF HeapOK
<1>5. \/ g = [h EXCEPT !.corrupted = TRUE]
      \/ IsLinked(h.tree, p) /\ \E c : g = [h EXCEPT !.tree = Splice(h.tree, p, c)]
      \/ /\ IsLinked(h.tree, p) /\ IsLinked(h.tree, q)
         /\ g = [h EXCEPT !.tree = cut]
  BY DEF remove_tree_node
<1> HIDE DEF g, q, cut
<1>6. CASE g = [h EXCEPT !.corrupted = TRUE]
  BY <1>4, <1>6 DEF SameRest, SameChunks, HeapFields, TreeOut, g
<1>7. CASE /\ IsLinked(h.tree, p)
           /\ \E c : g = [h EXCEPT !.tree = Splice(h.tree, p, c)]
  BY <1>1, <1>3, <1>4, <1>7 DEF SameRest, SameChunks, HeapFields, TreeOut, g
<1>8. CASE /\ IsLinked(h.tree, p) /\ IsLinked(h.tree, q)
           /\ g = [h EXCEPT !.tree = cut]
  BY <1>2, <1>3, <1>4, <1>8 DEF SameRest, SameChunks, HeapFields, TreeOut, g
<1> QED
  BY <1>5, <1>6, <1>7, <1>8 DEF g

(* What a list says of one of its entries.                                 *)
LEMMA ListEntry ==
    ASSUME NEW hmu, NEW list, NEW base, ListsSound(hmu, list, base),
           NEW i \in DOMAIN list, NEW k \in 1 .. Len(list[i]),
           list[i][k][2] = base
    PROVE  LET a == list[i][k][1]
           IN  /\ IsFcNormal(i)
               /\ a \in DOMAIN hmu /\ hmu[a].ut = "FC" /\ hmu[a].size = i
               /\ \A j \in 1 .. Len(list[i]) : list[i][j] = list[i][k] => j = k
BY DEF ListsSound

ListCut(h, g, i, k) ==
    g = [h EXCEPT !.list = [h.list EXCEPT ![i] = RemoveAt(h.list[i], k)]]

(* Taking entry k out of the list of a size takes its chunk out of the KFC.*)
LEMMA CutList ==
    ASSUME NEW h, Sane(h), NEW size \in DOMAIN h.list,
           NEW k \in 1 .. Len(h.list[size]), NEW a,
           h.list[size][k] = <<a, h.base>>,
           NEW g, ListCut(h, g, size, k)
    PROVE  /\ Sane(g) /\ SameRest(h, g) /\ SameChunks(h, g)
           /\ g.corrupted = h.corrupted
           /\ OffKfc(g, a)
           /\ \A x : OffKfc(h, x) => OffKfc(g, x)
<1> USE SizesAssumption
<1> DEFINE s == h.list[size]
           Entries == Units \X (0 .. h.base)
<1>a. /\ HeapOK(h) /\ Tiled(h.hmu) /\ FootsSound(h.hmu, h.foot)
      /\ ListsSound(h.hmu, h.list, h.base) /\ TreeSound(h.hmu, h.tree)
  BY DEF Sane, KfcOK
<1>b. DOMAIN h = HeapFields
  BY <1>a DEF HeapOK
<1>c. /\ size \in DOMAIN h.list /\ s \in Seq(Entries) /\ Len(s) \in Nat
      /\ h.base \in 0 .. MaxMigrations
      /\ DOMAIN h.list = 0 .. (NormalNodeCnt - 1)
  <2>1. /\ h.list \in [0 .. (NormalNodeCnt - 1) -> Seq(Entries)]
        /\ h.base \in 0 .. MaxMigrations
    BY <1>a DEF HeapOK
  <2> HIDE DEF Entries
  <2>2. s \in Seq(Entries)
    BY <2>1
  <2> QED
    BY <2>1, <2>2, LenProperties
<1>d. ListsSound(h.hmu, h.list, h.base) /\ size \in DOMAIN h.list
  BY <1>a
<1>f. /\ s[k][2] = h.base /\ s[k][1] = a
  OBVIOUS
<1>g. /\ IsFcNormal(size) /\ s[k][1] \in DOMAIN h.hmu /\ h.hmu[s[k][1]].size = size
      /\ h.hmu[s[k][1]].ut = "FC"
  BY <1>d, <1>f, ListEntry
<1>h. a \in DOMAIN h.hmu /\ h.hmu[a].size = size /\ a \in Int /\ a >= 0
  BY SMTT(30), <1>a, <1>f, <1>g DEF HeapOK, HmuOK, Units
<1>e. a \notin DOMAIN h.tree
  BY <1>a, <1>g, <1>h DEF TreeSound, ROOT
<1>2. \A j \in 1 .. Len(s) : s[j] = <<a, h.base>> => j = k
  <2>1. \A j \in 1 .. Len(s) : s[j] = s[k] => j = k
    BY <1>d, <1>f, ListEntry
  <2> QED
    BY <2>1
<1>5. g = [h EXCEPT !.list = [h.list EXCEPT ![size] = RemoveAt(s, k)]]
  BY DEF ListCut
<1> DEFINE r == RemoveAt(s, k)
<1>6. /\ r \in Seq(Entries) /\ Len(r) = Len(s) - 1
      /\ \A j \in 1 .. (Len(s) - 1) : r[j] = IF j < k THEN s[j] ELSE s[j + 1]
  <2>1. k \in 1 .. Len(s)
    OBVIOUS
  <2> HIDE DEF Entries, s
  <2> QED
    BY <1>c, <2>1, RemoveAtProps
<1> HIDE DEF r, Entries
<1>7. /\ SameRest(h, g) /\ SameChunks(h, g) /\ g.tree = h.tree
      /\ g.corrupted = h.corrupted
      /\ g.list = [h.list EXCEPT ![size] = r]
  BY <1>b, <1>5 DEF SameRest, SameChunks, HeapFields, r
<1>8. g.list \in [0 .. (NormalNodeCnt - 1) -> Seq(Entries)]
  BY <1>a, <1>c, <1>6, <1>7 DEF HeapOK, Entries
<1>9. HeapOK(g)
  BY <1>a, <1>7, <1>8 DEF HeapOK, SameRest, SameChunks, Entries
<1>10. /\ g.list[size] = r /\ DOMAIN g.list = DOMAIN h.list
       /\ \A i \in DOMAIN h.list : i # size => g.list[i] = h.list[i]
  BY <1>7, <1>c
<1>11. ASSUME NEW j \in 1 .. Len(r)
       PROVE  \E m \in 1 .. Len(s) : /\ r[j] = s[m] /\ m # k
                                      /\ m = IF j < k THEN j ELSE j + 1
  <2>1. CASE j < k
    <3>1. j \in 1 .. Len(s) /\ r[j] = s[j] /\ j # k
      BY <2>1, <1>c, <1>6
    <3> QED
      BY <2>1, <3>1
  <2>2. CASE ~(j < k)
    <3>1. j + 1 \in 1 .. Len(s) /\ r[j] = s[j + 1] /\ j + 1 # k
      BY <2>2, <1>c, <1>6
    <3> QED
      BY <2>2, <3>1
  <2> QED
    BY <2>1, <2>2
<1>12. ListsSound(g.hmu, g.list, g.base)
  <2> SUFFICES ASSUME NEW i \in DOMAIN g.list, NEW j \in 1 .. Len(g.list[i]),
                      g.list[i][j][2] = g.base
               PROVE  LET b == g.list[i][j][1]
                      IN  /\ IsFcNormal(i)
                          /\ b \in DOMAIN g.hmu /\ g.hmu[b].ut = "FC"
                          /\ g.hmu[b].size = i
                          /\ \A n \in 1 .. Len(g.list[i]) :
                                g.list[i][n] = g.list[i][j] => n = j
    BY DEF ListsSound
  <2>1. CASE i # size
    BY SMTT(30), <2>1, <1>a, <1>7, <1>10 DEF ListsSound, SameRest, SameChunks
  <2>2. CASE i = size
    <3>1. PICK m \in 1 .. Len(s) : r[j] = s[m] /\ m = IF j < k THEN j ELSE j + 1
      BY <2>2, <1>10, <1>11
    <3>2. /\ IsFcNormal(size) /\ s[m][1] \in DOMAIN h.hmu
          /\ h.hmu[s[m][1]].ut = "FC" /\ h.hmu[s[m][1]].size = size
          /\ \A n \in 1 .. Len(s) : s[n] = s[m] => n = m
      <4>1. s[m][2] = h.base
        BY <3>1, <2>2, <1>7, <1>10 DEF SameRest
      <4>2. \A n \in 1 .. Len(s) : s[n] = s[m] => n = m
        BY <4>1, <1>d, ListEntry
      <4>3. /\ IsFcNormal(size) /\ s[m][1] \in DOMAIN h.hmu
            /\ h.hmu[s[m][1]].ut = "FC" /\ h.hmu[s[m][1]].size = size
        BY <4>1, <1>d, ListEntry
      <4> QED
        BY <4>2, <4>3
    <3>3. ASSUME NEW n \in 1 .. Len(r), r[n] = r[j] PROVE n = j
      <4>1. PICK o \in 1 .. Len(s) : r[n] = s[o] /\ o = IF n < k THEN n ELSE n + 1
        BY <1>11
      <4>2. o = m
        BY <3>1, <3>2, <3>3, <4>1
      <4> QED
        BY SMTT(30), <4>1, <4>2, <3>1, <2>2, <1>6, <1>10, <1>c
    <3> QED
      BY <2>2, <3>1, <3>2, <3>3, <1>7, <1>10 DEF SameChunks
  <2> QED
    BY <2>1, <2>2
<1>13. Sane(g)
  BY <1>a, <1>7, <1>9, <1>12 DEF Sane, KfcOK, SameChunks
<1>14. OffKfc(g, a)
  <2> SUFFICES ASSUME NEW i \in DOMAIN g.list, NEW j \in 1 .. Len(g.list[i])
               PROVE  g.list[i][j] # <<a, g.base>>
    BY <1>e, <1>7 DEF OffKfc
  <2>1. CASE i # size
    BY <2>1, <1>a, <1>7, <1>10 DEF ListsSound, SameRest
  <2>2. CASE i = size
    BY <2>2, <1>2, <1>7, <1>10, <1>11 DEF SameRest
  <2> QED
    BY <2>1, <2>2
<1>15. ASSUME NEW x, OffKfc(h, x) PROVE OffKfc(g, x)
  <2> SUFFICES ASSUME NEW i \in DOMAIN g.list, NEW j \in 1 .. Len(g.list[i])
               PROVE  g.list[i][j] # <<x, g.base>>
    BY <1>7, <1>15 DEF OffKfc
  <2>1. CASE i # size
    BY <2>1, <1>7, <1>10, <1>15 DEF OffKfc, SameRest
  <2>2. CASE i = size
    <3>1. PICK m \in 1 .. Len(s) : r[j] = s[m]
      BY <2>2, <1>10, <1>11
    <3>2. s[m] # <<x, h.base>>
      BY <1>c, <1>15 DEF OffKfc
    <3> QED
      BY <2>2, <3>1, <3>2, <1>7, <1>10 DEF SameRest
  <2> QED
    BY <2>1, <2>2
<1> QED
  BY <1>7, <1>13, <1>14, <1>15

(* unlink_hmu takes the free chunk a out of the KFC, or marks the heap as  *)
(* corrupted; headers and footers stay as they are.                        *)
LEMMA UnlinkHmu ==
    ASSUME NEW h, Sane(h), h.corrupted = FALSE, NEW a \in Free(h)
    PROVE  LET g == unlink_hmu(h, a) IN
           /\ Sane(g) /\ SameRest(h, g) /\ SameChunks(h, g)
           /\ g.corrupted = FALSE => OffKfc(g, a)
           /\ \A x : OffKfc(h, x) => OffKfc(g, x)
<1> USE SizesAssumption
<1> DEFINE g == unlink_hmu(h, a)
           size == h.hmu[a].size
           s == h.list[size]
           Entries == Units \X (0 .. h.base)
           at == {k \in 1 .. Len(s) : /\ s[k] = <<a, h.base>>
                                      /\ \A j \in 1 .. k : s[j][2] = h.base}
           stale == \E j \in 1 .. Len(s) : s[j][2] # h.base
<1>1. /\ HeapOK(h) /\ Tiled(h.hmu) /\ FootsSound(h.hmu, h.foot)
      /\ ListsSound(h.hmu, h.list, h.base) /\ TreeSound(h.hmu, h.tree)
  BY DEF Sane, KfcOK
<1>2. /\ a \in DOMAIN h.hmu /\ h.hmu[a].ut = "FC" /\ a \in Units
      /\ size \in 1 .. HeapUnits /\ a # ROOT
  BY <1>1 DEF Free, Starts, HeapOK, HmuOK, Chunks, Units, ROOT
<1>3. DOMAIN h = HeapFields
  BY <1>1 DEF HeapOK
<1>4. CASE ~IsFcNormal(size)
  <2>1. g = remove_tree_node(h, a)
    BY <1>2, <1>4 DEF unlink_hmu
  <2>0. ROOT \in DOMAIN h.tree
    BY <1>1 DEF TreeSound
  <2> HIDE DEF g
  <2>2. /\ SameRest(h, g) /\ SameChunks(h, g) /\ g.list = h.list
        /\ \/ g.corrupted = TRUE /\ g.tree = h.tree
           \/ /\ g.corrupted = h.corrupted
              /\ a \in DOMAIN h.tree \ {ROOT}
              /\ DOMAIN g.tree = DOMAIN h.tree \ {a}
    <3>1. TreeOut(h, g, a)
      BY <2>0, <2>1, <1>1, RemoveTreeNode
    <3> QED
      BY <3>1 DEF TreeOut
  <2>3. HeapOK(g)
    BY <1>1, <2>2 DEF HeapOK, SameRest, SameChunks
  <2>4. TreeSound(g.hmu, g.tree) /\ ListsSound(g.hmu, g.list, g.base)
    BY SMTT(30), <1>1, <1>2, <2>2 DEF TreeSound, ListsSound, SameRest, SameChunks
  <2>5. Sane(g)
    BY <1>1, <2>2, <2>3, <2>4 DEF Sane, KfcOK, SameChunks
  <2>6. g.corrupted = FALSE => a \notin DOMAIN g.tree
    BY <2>2
  <2>7. ASSUME NEW i \in DOMAIN g.list, NEW k \in 1 .. Len(g.list[i])
        PROVE  g.list[i][k] # <<a, g.base>>
    BY <1>1, <1>4, <2>2 DEF ListsSound, SameRest
  <2>8. \A x : OffKfc(h, x) => OffKfc(g, x)
    BY <2>2 DEF OffKfc, SameRest
  <2> QED
    BY <2>2, <2>5, <2>6, <2>7, <2>8 DEF OffKfc, g
<1>5. CASE IsFcNormal(size)
  <2>0. /\ size \in DOMAIN h.list /\ s \in Seq(Entries) /\ Len(s) \in Nat
        /\ h.base \in 0 .. MaxMigrations
        /\ DOMAIN h.list = 0 .. (NormalNodeCnt - 1)
    <3>1. /\ h.list \in [0 .. (NormalNodeCnt - 1) -> Seq(Entries)]
          /\ h.base \in 0 .. MaxMigrations
      BY <1>1 DEF HeapOK
    <3>2. size \in 0 .. (NormalNodeCnt - 1)
      BY <1>2, <1>5 DEF IsFcNormal
    <3> HIDE DEF Entries
    <3>3. s \in Seq(Entries)
      BY <3>1, <3>2
    <3> QED
      BY <3>1, <3>2, <3>3, LenProperties
  <2>a. ListsSound(h.hmu, h.list, h.base) /\ size \in DOMAIN h.list
    BY <1>1, <2>0
  <2>1. a \notin DOMAIN h.tree
    BY <1>1, <1>2, <1>5 DEF TreeSound
  <2>2. CASE at # {}
    <3>1. PICK k \in 1 .. Len(s) : k \in at /\ s[k] = <<a, h.base>>
      BY <2>2, Zenon
    <3>2. \A j \in 1 .. Len(s) : s[j] = <<a, h.base>> => j = k
      <4>1. s[k][2] = h.base
        BY SMTT(30), <3>1
      <4>2. \A j \in 1 .. Len(s) : s[j] = s[k] => j = k
        <5> HIDE DEF at, stale, Entries, size
        <5> QED
          BY <2>a, <4>1, ListEntry
      <4> QED
        BY <4>2, <3>1, Zenon
    <3>3. at = {k}
      BY <3>1, <3>2, Zenon
    <3>4. Min(at) = k
      <4> HIDE DEF at
      <4>1. \A x \in at : x = k
        BY <3>3
      <4>2. k \in at /\ \A y \in at : k <= y
        BY <3>3, <2>0
      <4> QED
        BY <4>1, <4>2, Zenon DEF Min
    <3>5. g = [h EXCEPT !.list = [h.list EXCEPT ![size] = RemoveAt(s, k)]]
      BY <1>2, <1>5, <2>2, <3>4, Zenon DEF unlink_hmu
    <3>6. ListCut(h, g, size, k)
      BY <3>5 DEF ListCut
    <3> HIDE DEF g, at
    <3>7. /\ Sane(g) /\ SameRest(h, g) /\ SameChunks(h, g)
          /\ g.corrupted = h.corrupted /\ OffKfc(g, a)
          /\ \A x : OffKfc(h, x) => OffKfc(g, x)
      <4>1. /\ size \in DOMAIN h.list /\ k \in 1 .. Len(h.list[size])
            /\ h.list[size][k] = <<a, h.base>>
        BY <2>0, <3>1
      <4> HIDE DEF size
      <4> QED
        BY <4>1, <3>6, CutList
    <3> QED
      BY <3>7 DEF g
  <2>3. CASE at = {} /\ stale
    <3>1. g = [h EXCEPT !.corrupted = TRUE]
      BY <1>2, <1>5, <2>3, Zenon DEF unlink_hmu
    <3> HIDE DEF g
    <3>2. /\ SameRest(h, g) /\ SameChunks(h, g) /\ g.tree = h.tree
          /\ g.corrupted = TRUE /\ g.list = h.list
      BY <1>3, <3>1 DEF SameRest, SameChunks, HeapFields
    <3>3. Sane(g)
      BY <1>1, <3>2, Zenon DEF Sane, KfcOK, HeapOK, SameRest, SameChunks
    <3> QED
      BY <3>2, <3>3, Zenon DEF OffKfc, SameRest, g
  <2>4. CASE at = {} /\ ~stale
    <3>1. g = h
      BY <1>2, <1>5, <2>4, Zenon DEF unlink_hmu
    <3>2. OffKfc(h, a)
      <4> SUFFICES ASSUME NEW i \in DOMAIN h.list, NEW j \in 1 .. Len(h.list[i]),
                          h.list[i][j] = <<a, h.base>>
                   PROVE  FALSE
        BY <2>1 DEF OffKfc
      <4>1. i = size
        BY <1>1 DEF ListsSound
      <4>2. j \in 1 .. Len(s) /\ s[j] = <<a, h.base>>
        BY <4>1
      <4>3. \A n \in 1 .. j : s[n][2] = h.base
        <5>1. \A n \in 1 .. Len(s) : s[n][2] = h.base
          BY <2>4, Zenon
        <5>2. Len(s) \in Nat
          BY <2>0
        <5> QED
          BY SMTT(30), <4>2, <5>1, <5>2
      <4> QED
        BY <4>2, <4>3, <2>4, Zenon
    <3>3. SameRest(h, h) /\ SameChunks(h, h)
      BY <1>3 DEF SameRest, SameChunks
    <3> HIDE DEF g
    <3> QED
      BY <3>1, <3>2, <3>3 DEF g
  <2> QED
    BY <2>2, <2>3, <2>4
<1> QED
  BY <1>4, <1>5

(* A chunk may be written over a range that the KFC does not hold.         *)
OffRange(h, a, size) == \A x \in a .. (a + size - 1) : OffKfc(h, x)

(* Writing a chunk over a range that the KFC does not know keeps the KFC   *)
(* sound.                                                                  *)
LEMMA SetChunkKfc ==
    ASSUME NEW h, HeapOK(h), KfcOK(h), NEW a \in Units, NEW c \in Chunks,
           OffRange(h, a, c.size)
    PROVE  LET g == SetChunk(h, a, c) IN
           /\ HeapOK(g) /\ KfcOK(g) /\ SameRest(h, g)
           /\ g.hmu = SetHmu(h.hmu, a, c) /\ g.foot = SetFoot(h.foot, a, c)
           /\ g.list = h.list /\ g.tree = h.tree /\ g.corrupted = h.corrupted
<1> USE SizesAssumption
<1> DEFINE g == SetChunk(h, a, c)
<1>1. DOMAIN h = HeapFields
  BY DEF HeapOK
<1>2. /\ SameRest(h, g)
      /\ g.hmu = SetHmu(h.hmu, a, c) /\ g.foot = SetFoot(h.foot, a, c)
      /\ g.list = h.list /\ g.tree = h.tree /\ g.corrupted = h.corrupted
  BY <1>1 DEF SetChunk, SameRest, HeapFields
<1> HIDE DEF g
<1>3. /\ DOMAIN g.hmu = (DOMAIN h.hmu \ (a .. (a + c.size - 1))) \cup {a}
      /\ \A x \in DOMAIN g.hmu : g.hmu[x] = IF x = a THEN c ELSE h.hmu[x]
  BY <1>2 DEF SetHmu
<1>4. HmuOK(g.hmu)
  BY <1>3 DEF HmuOK, HeapOK
<1>5. FootOK(g.foot)
  BY <1>2 DEF FootOK, HeapOK, SetFoot, Chunks
<1>6. HeapOK(g)
  BY <1>2, <1>4, <1>5 DEF HeapOK, SameRest
<1>7. TreeSound(g.hmu, g.tree)
  <2>0. a \in Int /\ c.size \in 1 .. HeapUnits
    BY DEF Units, Chunks
  <2>1. ASSUME NEW t \in DOMAIN h.tree, t # ROOT
        PROVE  t \in DOMAIN g.hmu /\ t # a
    <3>1. t \notin a .. (a + c.size - 1)
      BY <2>1 DEF OffRange, OffKfc
    <3>2. t \in DOMAIN h.hmu
      BY <2>1 DEF KfcOK, TreeSound
    <3> QED
      BY <3>1, <3>2, <2>0, <1>3
  <2> QED
    BY <2>1, <1>2, <1>3 DEF KfcOK, TreeSound
<1>8. ListsSound(g.hmu, g.list, g.base)
  <2>0. /\ a \in Int /\ c.size \in 1 .. HeapUnits
        /\ ListsSound(h.hmu, h.list, h.base)
    BY DEF Units, Chunks, KfcOK
  <2>00. h.list \in [0 .. (NormalNodeCnt - 1) -> Seq(Units \X (0 .. h.base))]
    BY DEF HeapOK
  <2> SUFFICES ASSUME NEW i \in DOMAIN h.list, NEW k \in 1 .. Len(h.list[i]),
                      h.list[i][k][2] = h.base
               PROVE  LET b == h.list[i][k][1]
                      IN  /\ IsFcNormal(i)
                          /\ b \in DOMAIN g.hmu /\ g.hmu[b].ut = "FC"
                          /\ g.hmu[b].size = i
                          /\ \A j \in 1 .. Len(h.list[i]) :
                                h.list[i][j] = h.list[i][k] => j = k
    BY <1>2 DEF ListsSound, SameRest
  <2> DEFINE b == h.list[i][k][1]
  <2>1. IsFcNormal(i) /\ b \in DOMAIN h.hmu /\ h.hmu[b].ut = "FC" /\ h.hmu[b].size = i
    BY <2>0, ListEntry
  <2>2. \A j \in 1 .. Len(h.list[i]) : h.list[i][j] = h.list[i][k] => j = k
    BY <2>0, ListEntry
  <2>3. h.list[i][k] = <<b, h.base>>
    <3>1. h.list[i] \in Seq(Units \X (0 .. h.base))
      BY <2>00
    <3>2. h.list[i][k] \in Units \X (0 .. h.base)
      BY <3>1, ElementOfSeq
    <3> QED
      BY <3>2
  <2>4. b \notin a .. (a + c.size - 1)
    BY <2>3 DEF OffRange, OffKfc
  <2>5. b \in DOMAIN g.hmu /\ b # a /\ g.hmu[b] = h.hmu[b]
    BY SMTT(30), <2>0, <2>1, <2>4, <1>3
  <2> QED
    BY <2>1, <2>2, <2>5
<1> QED
  BY <1>2, <1>6, <1>7, <1>8 DEF KfcOK, g

(* gci_add_fc adds the chunk to the KFC and nothing else.                  *)
LEMMA AddFc ==
    ASSUME NEW h, HeapOK(h), KfcOK(h), NEW a \in Units,
           NEW size \in 1 .. HeapUnits, NEW p \in BOOLEAN,
           OffRange(h, a, size)
    PROVE  LET g == gci_add_fc(h, a, size, p)
               c == Chunk("FC", size, p) IN
           /\ HeapOK(g) /\ KfcOK(g) /\ SameRest(h, g)
           /\ g.hmu = SetHmu(h.hmu, a, c) /\ g.foot = SetFoot(h.foot, a, c)
           /\ g.corrupted = h.corrupted
           /\ \A x : x # a /\ OffKfc(h, x) => OffKfc(g, x)
<1> USE SizesAssumption
<1> DEFINE g == gci_add_fc(h, a, size, p)
           c == Chunk("FC", size, p)
           f == SetChunk(h, a, c)
           Entries == Units \X (0 .. h.base)
<1>0. c \in Chunks /\ c.size = size /\ c.ut = "FC"
  BY DEF Chunk, Chunks
<1> HIDE DEF c
<1>1. /\ HeapOK(f) /\ KfcOK(f) /\ SameRest(h, f)
      /\ f.hmu = SetHmu(h.hmu, a, c) /\ f.foot = SetFoot(h.foot, a, c)
      /\ f.list = h.list /\ f.tree = h.tree /\ f.corrupted = h.corrupted
  BY <1>0, SetChunkKfc
<1>2. a \in DOMAIN f.hmu /\ f.hmu[a] = c
  BY <1>1 DEF SetHmu
<1>3. OffKfc(h, a)
  <2>1. a \in a .. (a + size - 1)
    BY DEF Units
  <2> QED
    BY <2>1 DEF OffRange
<1>4. CASE ~IsFcNormal(size)
  <2>1. g = [f EXCEPT !.tree = InsertNode(h, a, size)]
    BY <1>4 DEF gci_add_fc, c
  <2>2. DOMAIN InsertNode(h, a, size) = DOMAIN h.tree \cup {a}
    BY DEF InsertNode
  <2>3. DOMAIN f = HeapFields
    BY <1>1 DEF HeapOK
  <2> HIDE DEF g, f
  <2>4. /\ SameRest(f, g) /\ SameChunks(f, g) /\ g.list = f.list
        /\ g.corrupted = f.corrupted /\ DOMAIN g.tree = DOMAIN h.tree \cup {a}
    BY <2>1, <2>2, <2>3 DEF SameRest, SameChunks, HeapFields
  <2>5. HeapOK(g)
    BY <2>4, <1>1 DEF HeapOK, SameRest, SameChunks
  <2>6. KfcOK(g)
    <3>1. TreeSound(g.hmu, g.tree)
      BY <2>4, <1>0, <1>1, <1>2, <1>4 DEF KfcOK, TreeSound, SameChunks
    <3>2. ListsSound(g.hmu, g.list, g.base)
      BY <2>4, <1>1 DEF KfcOK, SameRest, SameChunks
    <3> QED
      BY <3>1, <3>2 DEF KfcOK
  <2>7. \A x : x # a /\ OffKfc(h, x) => OffKfc(g, x)
    BY <2>4, <1>1 DEF OffKfc, SameRest
  <2> QED
    BY <1>1, <2>4, <2>5, <2>6, <2>7 DEF SameRest, SameChunks, g, c
<1>5. CASE IsFcNormal(size)
  <2> DEFINE e == <<a, h.base>>
             s == h.list[size]
             new == <<e>> \o s
  <2>1. g = [f EXCEPT !.list = [f.list EXCEPT ![size] = new]]
    BY <1>1, <1>5 DEF gci_add_fc, c
  <2>2. /\ size \in DOMAIN h.list /\ DOMAIN h.list = 0 .. (NormalNodeCnt - 1)
        /\ s \in Seq(Entries) /\ e \in Entries /\ Len(s) \in Nat
    <3>1. h.list \in [0 .. (NormalNodeCnt - 1) -> Seq(Entries)]
          /\ h.base \in 0 .. MaxMigrations
      BY DEF HeapOK
    <3>2. size \in 0 .. (NormalNodeCnt - 1)
      BY <1>5 DEF IsFcNormal
    <3>3. e \in Entries
      BY <3>1
    <3> HIDE DEF Entries
    <3>4. s \in Seq(Entries)
      BY <3>1, <3>2
    <3> QED
      BY <3>1, <3>2, <3>3, <3>4, LenProperties
  <2>3. DOMAIN f = HeapFields
    BY <1>1 DEF HeapOK
  <2>4. /\ new \in Seq(Entries) /\ Len(new) = Len(s) + 1 /\ new[1] = e
        /\ \A j \in 2 .. (Len(s) + 1) : new[j] = s[j - 1]
    <3> HIDE DEF Entries, e, s
    <3>1. <<e>> \in Seq(Entries) /\ Len(<<e>>) = 1 /\ <<e>>[1] = e
      BY <2>2
    <3>2. /\ new \in Seq(Entries) /\ Len(new) = Len(<<e>>) + Len(s)
          /\ \A i \in 1 .. Len(<<e>>) + Len(s) :
                new[i] = IF i <= Len(<<e>>) THEN <<e>>[i] ELSE s[i - Len(<<e>>)]
      BY <3>1, <2>2, ConcatProperties
    <3> HIDE DEF new
    <3> QED
      BY <3>1, <3>2, <2>2
  <2> HIDE DEF g, f, new
  <2>5. /\ SameRest(f, g) /\ SameChunks(f, g) /\ g.tree = f.tree
        /\ g.corrupted = f.corrupted
        /\ g.list = [h.list EXCEPT ![size] = new]
    BY <2>1, <2>3, <1>1 DEF SameRest, SameChunks, HeapFields
  <2>6. /\ g.list[size] = new /\ DOMAIN g.list = DOMAIN h.list
        /\ \A i \in DOMAIN h.list : i # size => g.list[i] = h.list[i]
    BY <2>2, <2>5
  <2>7. g.list \in [0 .. (NormalNodeCnt - 1) -> Seq(Entries)]
    <3> HIDE DEF Entries
    <3>1. h.list \in [0 .. (NormalNodeCnt - 1) -> Seq(Entries)]
      BY DEF HeapOK, Entries
    <3> QED
      BY <3>1, <2>4, <2>5
  <2>8. HeapOK(g)
    BY <2>5, <2>7, <1>1 DEF HeapOK, SameRest, SameChunks
  <2>9. ASSUME NEW j \in 1 .. Len(new), new[j] # e
        PROVE  j > 1 /\ j - 1 \in 1 .. Len(s) /\ new[j] = s[j - 1]
    <3> HIDE DEF e, s
    <3>1. j # 1
      BY <2>4, <2>9
    <3>2. j \in 2 .. (Len(s) + 1)
      BY <3>1, <2>2, <2>4
    <3>3. j > 1 /\ j - 1 \in 1 .. Len(s)
      BY <3>2, <2>2
    <3>4. new[j] = s[j - 1]
      BY <3>2, <2>4
    <3> QED
      BY <3>3, <3>4
  <2>10. \A j \in 1 .. Len(s) : s[j] # e
    BY <1>3, <2>2 DEF OffKfc
  <2>11. ListsSound(g.hmu, g.list, g.base)
    <3>0. /\ g.hmu = f.hmu /\ g.base = h.base
          /\ ListsSound(f.hmu, h.list, h.base)
      BY <2>5, <1>1 DEF SameRest, SameChunks, KfcOK
    <3> SUFFICES ASSUME NEW i \in DOMAIN h.list, NEW k \in 1 .. Len(g.list[i]),
                        g.list[i][k][2] = h.base
                 PROVE  LET b == g.list[i][k][1]
                        IN  /\ IsFcNormal(i)
                            /\ b \in DOMAIN f.hmu /\ f.hmu[b].ut = "FC"
                            /\ f.hmu[b].size = i
                            /\ \A j \in 1 .. Len(g.list[i]) :
                                  g.list[i][j] = g.list[i][k] => j = k
      BY SMTT(30), <3>0, <2>6 DEF ListsSound
    <3>1. CASE i # size
      BY SMTT(30), <3>0, <3>1, <2>6 DEF ListsSound
    <3>2. CASE i = size /\ new[k] = e
      <4>1. new[k][1] = a
        BY <3>2
      <4>2. ASSUME NEW j \in 1 .. Len(new), new[j] = e PROVE j = 1
        <5>1. j # 1 => j - 1 \in 1 .. Len(s) /\ new[j] = s[j - 1]
          BY <2>2, <2>4
        <5> QED
          BY <5>1, <4>2, <2>10
      <4> QED
        BY <3>2, <4>1, <4>2, <2>6, <1>0, <1>2, <1>5
    <3>3. CASE i = size /\ new[k] # e
      <4>1. k > 1 /\ k - 1 \in 1 .. Len(s) /\ new[k] = s[k - 1]
        BY <3>3, <2>6, <2>9
      <4>2. s[k - 1][2] = h.base
        BY <3>3, <4>1, <2>6
      <4>a. PICK m \in 1 .. Len(s) : m = k - 1 /\ s[m][2] = h.base
        BY <4>1, <4>2
      <4>b. ListsSound(f.hmu, h.list, h.base) /\ size \in DOMAIN h.list
        BY <3>0, <2>2
      <4>3. /\ s[k - 1][1] \in DOMAIN f.hmu /\ f.hmu[s[k - 1][1]].ut = "FC"
            /\ f.hmu[s[k - 1][1]].size = size
        BY <4>a, <4>b, ListEntry
      <4>4. \A j \in 1 .. Len(s) : s[j] = s[k - 1] => j = k - 1
        BY <4>a, <4>b, ListEntry
      <4>5. ASSUME NEW j \in 1 .. Len(new), new[j] = new[k] PROVE j = k
        <5>1. j > 1 /\ j - 1 \in 1 .. Len(s) /\ new[j] = s[j - 1]
          BY <3>3, <4>5, <2>9
        <5>2. j - 1 = k - 1
          BY <5>1, <4>1, <4>4, <4>5
        <5> QED
          BY <5>1, <5>2, <4>1, <2>6, <3>3, <2>2, <2>4
      <4> QED
        BY <3>3, <4>1, <4>3, <4>5, <2>6, <1>5
    <3> QED
      BY <3>1, <3>2, <3>3, <2>6
  <2>12. KfcOK(g)
    BY <2>5, <2>11, <1>1 DEF KfcOK, SameChunks
  <2>13. ASSUME NEW x, x # a, OffKfc(h, x) PROVE OffKfc(g, x)
    <3> SUFFICES ASSUME NEW i \in DOMAIN h.list, NEW j \in 1 .. Len(g.list[i])
                 PROVE  g.list[i][j] # <<x, h.base>>
      BY <2>5, <2>6, <2>13, <1>1 DEF OffKfc, SameRest
    <3>1. CASE i # size
      BY <3>1, <2>6, <2>13 DEF OffKfc
    <3>2. CASE i = size /\ new[j] = e
      BY <3>2, <2>6, <2>13
    <3>3. CASE i = size /\ new[j] # e
      <4>1. j - 1 \in 1 .. Len(s) /\ new[j] = s[j - 1]
        BY <3>3, <2>6, <2>9
      <4> QED
        BY <3>3, <4>1, <2>2, <2>6, <2>13 DEF OffKfc
    <3> QED
      BY <3>1, <3>2, <3>3
  <2> QED
    BY <1>1, <2>5, <2>8, <2>12, <2>13 DEF SameRest, SameChunks, g, c
<1> QED
  BY <1>4, <1>5

(* Only chunk starts are in the KFC.                                       *)
LEMMA NonStartOff ==
    ASSUME NEW h, Sane(h), NEW x \in Int, x >= 0, x \notin Starts(h)
    PROVE  OffKfc(h, x)
<1>1. ListsSound(h.hmu, h.list, h.base) /\ TreeSound(h.hmu, h.tree)
  BY DEF Sane, KfcOK
<1>2. x \notin DOMAIN h.tree
  BY <1>1 DEF TreeSound, Starts, ROOT
<1>3. ASSUME NEW i \in DOMAIN h.list, NEW k \in 1 .. Len(h.list[i]),
             h.list[i][k] = <<x, h.base>>
      PROVE  FALSE
  <2>1. h.list[i][k][2] = h.base /\ h.list[i][k][1] = x
    BY <1>3
  <2>2. h.list[i][k][1] \in DOMAIN h.hmu
    BY <1>1, <2>1, ListEntry
  <2> QED
    BY <2>1, <2>2 DEF Starts
<1> QED
  BY <1>2, <1>3 DEF OffKfc

(* Nothing inside a chunk that is out of the KFC is in the KFC.            *)
LEMMA ChunkRangeOff ==
    ASSUME NEW h, Sane(h), NEW a \in Starts(h), OffKfc(h, a)
    PROVE  OffRange(h, a, h.hmu[a].size)
<1> USE SizesAssumption
<1>1. HmuOK(h.hmu) /\ Tiled(h.hmu)
  BY DEF Sane, HeapOK
<1>2. ASSUME NEW x \in a .. (a + h.hmu[a].size - 1), x # a
      PROVE  OffKfc(h, x)
  <2>1. x \in Int /\ x >= 0 /\ x \notin Starts(h)
    BY <1>1, <1>2 DEF Tiled, ChunksEnd, HmuOK, Chunks, Units, Starts
  <2> QED
    BY <2>1, NonStartOff
<1> QED
  BY <1>2 DEF OffRange

(* Two heaps whose chunks differ in P bits only.                           *)
SameShape(h, g) ==
    /\ DOMAIN g.hmu = DOMAIN h.hmu
    /\ \A x \in DOMAIN h.hmu : /\ g.hmu[x].ut = h.hmu[x].ut
                               /\ g.hmu[x].size = h.hmu[x].size
    /\ g.foot = h.foot /\ g.list = h.list /\ g.tree = h.tree
    /\ g.corrupted = h.corrupted

(* hmu_mark_pinuse and hmu_unmark_pinuse change one P bit and nothing      *)
(* else.                                                                   *)
LEMMA SetPinuseSane ==
    ASSUME NEW h, Sane(h), NEW a, NEW p \in BOOLEAN
    PROVE  LET g == SetPinuse(h, a, p) IN
           /\ Sane(g) /\ SameRest(h, g) /\ SameShape(h, g)
           /\ MarkedAfter(h.hmu, g.hmu, a, p)
<1> DEFINE g == SetPinuse(h, a, p)
<1>1. HeapOK(h) /\ DOMAIN h = HeapFields /\ HmuOK(h.hmu)
  BY DEF Sane, HeapOK
<1>2. CASE a \notin Starts(h)
  <2>1. g = h
    BY <1>2 DEF SetPinuse
  <2>2. SameRest(h, h) /\ SameShape(h, h)
    BY <1>1 DEF SameRest, SameShape
  <2>3. MarkedAfter(h.hmu, h.hmu, a, p)
    BY <1>2 DEF MarkedAfter, Starts
  <2> HIDE DEF g
  <2> QED
    BY <2>1, <2>2, <2>3 DEF g
<1>3. CASE a \in Starts(h)
  <2>1. g = [h EXCEPT !.hmu = [h.hmu EXCEPT ![a] = [h.hmu[a] EXCEPT !.pinuse = p]]]
    BY <1>3 DEF SetPinuse
  <2> HIDE DEF g
  <2>2. h.hmu[a] \in Chunks
    BY <1>1, <1>3 DEF HmuOK, Starts
  <2>3. PICK c \in Chunks : /\ c = [h.hmu[a] EXCEPT !.pinuse = p]
                            /\ c.ut = h.hmu[a].ut /\ c.size = h.hmu[a].size
                            /\ c.pinuse = p
    <3>1. ASSUME NEW b \in Chunks
          PROVE  LET c == [b EXCEPT !.pinuse = p]
                 IN  c \in Chunks /\ c.ut = b.ut /\ c.size = b.size /\ c.pinuse = p
      BY DEF Chunks
    <3> QED
      BY <2>2, <3>1
  <2>4. /\ SameRest(h, g) /\ g.hmu = [h.hmu EXCEPT ![a] = c]
        /\ g.foot = h.foot /\ g.list = h.list /\ g.tree = h.tree
        /\ g.corrupted = h.corrupted
    BY <2>1, <2>3, <1>1 DEF SameRest, HeapFields
  <2>5. /\ SameShape(h, g) /\ HmuOK(g.hmu)
        /\ \A x \in DOMAIN h.hmu : x # a => g.hmu[x] = h.hmu[x]
        /\ g.hmu[a].pinuse = p
    BY <2>3, <2>4, <1>1, <1>3 DEF SameShape, HmuOK, Starts
  <2>9. MarkedAfter(h.hmu, g.hmu, a, p)
    BY <2>5 DEF SameShape, MarkedAfter
  <2>6. HeapOK(g)
    BY <2>4, <2>5, <1>1 DEF HeapOK, SameRest
  <2>7. Tiled(g.hmu) /\ FootsSound(g.hmu, g.foot)
    BY <2>5 DEF Sane, SameShape, Tiled, ChunksEnd, FootsSound
  <2>8. KfcOK(g)
    BY SMTT(30), <2>4, <2>5 DEF Sane, KfcOK, ListsSound, TreeSound, SameShape, SameRest
  <2> QED
    BY <2>4, <2>5, <2>6, <2>7, <2>8, <2>9 DEF Sane, g
<1> QED
  BY <1>2, <1>3

----------------------------------------------------------------------------
(* The VO chunks, before and after an operation.                           *)

VoKept(h, g) == \A x \in VoChunks(h) : g.hmu[x].size = h.hmu[x].size

VoSame(h, g) == VoChunks(g) = VoChunks(h) /\ VoKept(h, g)

VoAdded(h, g, a, n) ==
    /\ a \notin VoChunks(h) /\ VoChunks(g) = VoChunks(h) \cup {a}
    /\ g.hmu[a].size >= n
    /\ VoKept(h, g)

VoDropped(h, g, a) ==
    /\ a \in VoChunks(h) /\ VoChunks(g) = VoChunks(h) \ {a}
    /\ \A x \in VoChunks(g) : g.hmu[x].size = h.hmu[x].size

VoGrown(h, g, a, n) ==
    /\ a \in VoChunks(h) /\ VoChunks(g) = VoChunks(h)
    /\ g.hmu[a].size = n /\ n > h.hmu[a].size
    /\ \A x \in VoChunks(h) \ {a} : g.hmu[x].size = h.hmu[x].size

(* total_free_size and highmark_size stay in the range of gc_size_t.       *)
LEMMA ModBound ==
    /\ WordUnits \in Nat \ {0}
    /\ \A x \in Int : x % WordUnits \in 0 .. (WordUnits - 1)
<1>1. WordUnits \in Nat \ {0}
  BY SizesAssumption, WordAssumption DEF WordUnits
<1> QED
  BY <1>1

CountersSet(h, g, f, m) ==
    g = [h EXCEPT !.total_free_size = f, !.highmark_size = m]

(* The accounts do not matter for the rest.                                *)
LEMMA SetCounters ==
    ASSUME NEW h, Sane(h), NEW f \in 0 .. (WordUnits - 1),
           NEW m \in 0 .. (WordUnits - 1), NEW g,
           CountersSet(h, g, f, m)
    PROVE  /\ Sane(g) /\ SameShape(h, g) /\ g.hmu = h.hmu /\ g.base = h.base
           /\ DOMAIN g = HeapFields
<1>1. HeapOK(h) /\ DOMAIN h = HeapFields
  BY DEF Sane, HeapOK
<1>2. /\ DOMAIN g = HeapFields /\ g.hmu = h.hmu /\ g.foot = h.foot
      /\ g.list = h.list /\ g.tree = h.tree /\ g.base = h.base
      /\ g.corrupted = h.corrupted /\ g.total_free_size = f
      /\ g.highmark_size = m
  BY <1>1 DEF HeapFields, CountersSet
<1>3. HeapOK(g)
  BY <1>1, <1>2 DEF HeapOK
<1> QED
  BY <1>2, <1>3 DEF Sane, KfcOK, SameShape

(* Carve turns a free chunk that is out of the KFC into a VO chunk of at   *)
(* least the size asked for, and a free rest if there is one.              *)
LEMMA CarveSane ==
    ASSUME NEW h, Sane(h), NEW p \in Free(h), OffKfc(h, p),
           NEW avail, avail = h.hmu[p].size,
           NEW size \in 1 .. avail
    PROVE  LET g == Carve(h, p, avail, size) IN
           /\ Sane(g) /\ g.corrupted = h.corrupted /\ g.base = h.base
           /\ VoAdded(h, g, p, size)
           /\ Exact(h) /\ size >= GC_SMALLEST_SIZE => Exact(g)
<1> USE SizesAssumption
<1> DEFINE P == h.hmu[p].pinuse
           split == avail >= size + GC_SMALLEST_SIZE
           got == IF split THEN size ELSE avail
           g1 == IF split THEN gci_add_fc(h, p + size, avail - size, TRUE)
                 ELSE SetPinuse(h, p + avail, TRUE)
           c == Chunk("VO", got, P)
           g2 == SetChunk(g1, p, c)
           free == (h.total_free_size - got) % WordUnits
           used == (HeapUnits - free) % WordUnits
           high == IF used > g2.highmark_size THEN used ELSE g2.highmark_size
           g == Carve(h, p, avail, size)
<1>1. CountersSet(g2, g, free, high)
  BY DEF Carve, CountersSet
<1>2. /\ HeapOK(h) /\ HmuOK(h.hmu) /\ FootOK(h.foot) /\ Tiled(h.hmu)
      /\ FootsSound(h.hmu, h.foot) /\ KfcOK(h)
  BY DEF Sane, HeapOK
<1>3. /\ p \in DOMAIN h.hmu /\ p \in Units /\ p \in Int /\ p >= 0
      /\ avail \in 1 .. HeapUnits /\ P \in BOOLEAN /\ h.hmu[p].ut = "FC"
      /\ p \in Starts(h) /\ p + avail <= HeapUnits
      /\ p + avail \in DOMAIN h.hmu \cup {HeapUnits}
  BY <1>2 DEF Free, Starts, HmuOK, Chunks, Units, Tiled, ChunksEnd
<1>4. OffRange(h, p, avail)
  BY <1>3, ChunkRangeOff
<1>5. \A x \in DOMAIN h.hmu : x \in p .. (p + avail - 1) => x = p
  BY <1>2, <1>3 DEF Tiled, HmuOK, Units
<1>6. /\ Sane(g2) /\ g2.corrupted = h.corrupted /\ g2.base = h.base
      /\ VoAdded(h, g2, p, size) /\ DOMAIN g2 = HeapFields
      /\ Exact(h) /\ size >= GC_SMALLEST_SIZE => Exact(g2)
  <2>1. CASE split
    <3> DEFINE b == p + size
               n == avail - size
               d == Chunk("FC", n, TRUE)
    <3>1. /\ b \in Units /\ n \in 1 .. HeapUnits /\ b + n = p + avail
          /\ size \in 1 .. HeapUnits /\ size <= avail /\ b > p
      BY <2>1, <1>3 DEF GC_SMALLEST_SIZE, Units
    <3>2. /\ c \in Chunks /\ c.size = size /\ c.ut = "VO"
          /\ d \in Chunks /\ d.size = n /\ d.ut = "FC"
          /\ c.pinuse = P /\ d.pinuse = TRUE /\ n >= GC_SMALLEST_SIZE
      BY <2>1, <3>1, <1>3 DEF Chunk, Chunks, GC_SMALLEST_SIZE
    <3>3. OffRange(h, b, n)
      BY <1>3, <1>4, <3>1 DEF OffRange
    <3>4. g1 = gci_add_fc(h, b, n, TRUE)
      BY <2>1
    <3>5. /\ HeapOK(g1) /\ KfcOK(g1) /\ SameRest(h, g1)
          /\ g1.hmu = SetHmu(h.hmu, b, d) /\ g1.foot = SetFoot(h.foot, b, d)
          /\ g1.corrupted = h.corrupted
          /\ \A x : x # b /\ OffKfc(h, x) => OffKfc(g1, x)
      <4> HIDE DEF g1, b, n, d
      <4> QED
        BY <3>1, <3>3, <3>4, <1>2, AddFc DEF d
    <3> HIDE DEF g1, c, d
    <3>6. OffRange(g1, p, size)
      BY <1>3, <1>4, <3>1, <3>5 DEF OffRange
    <3>7. /\ HeapOK(g2) /\ KfcOK(g2) /\ SameRest(g1, g2)
          /\ g2.hmu = SetHmu(g1.hmu, p, c) /\ g2.foot = SetFoot(g1.foot, p, c)
          /\ g2.corrupted = g1.corrupted
      BY <1>3, <3>2, <3>5, <3>6, SetChunkKfc
    <3> HIDE DEF g2
    <3>8. p + c.size + d.size \in DOMAIN h.hmu \cup {HeapUnits}
          /\ p + c.size + d.size <= HeapUnits
      BY <3>1, <3>2, <1>3
    <3>9. /\ g2.hmu = Two(h.hmu, p, c, d)
          /\ g2.foot = TwoFoot(h.foot, p, c, d)
      BY <3>2, <3>5, <3>7, <3>8, <1>2, <1>3, TwoOrders
    <3>10. Tiled(g2.hmu) /\ FootsSound(g2.hmu, g2.foot)
      BY <3>2, <3>8, <3>9, <1>2, <1>3, TileTwo
    <3>11. Sane(g2)
      BY <3>7, <3>10 DEF Sane
    <3>12. /\ DOMAIN g2.hmu = DOMAIN h.hmu \cup {b}
           /\ g2.hmu[p] = c /\ g2.hmu[b] = d /\ b \notin DOMAIN h.hmu
           /\ \A x \in DOMAIN h.hmu : x # p => g2.hmu[x] = h.hmu[x]
      BY <3>1, <3>2, <3>9, <1>3, <1>5 DEF Two
    <3>13. VoAdded(h, g2, p, size)
      BY <3>1, <3>2, <3>12, <1>3 DEF VoAdded, VoKept, VoChunks, Starts
    <3>14. ASSUME Exact(h), size >= GC_SMALLEST_SIZE PROVE Exact(g2)
      <4>1. h.hmu[p].size = c.size + d.size
        BY <3>1, <3>2, <1>3
      <4> HIDE DEF P
      <4> QED
        BY <3>2, <3>9, <3>14, <4>1, <1>2, <1>3, ExactSplit DEF P
    <3> QED
      BY <3>5, <3>7, <3>11, <3>13, <3>14 DEF SameRest
  <2>2. CASE ~split
    <3>1. g1 = SetPinuse(h, p + avail, TRUE) /\ got = avail
      BY <2>2
    <3>2. c \in Chunks /\ c.size = avail /\ c.ut = "VO" /\ c.pinuse = P
      BY <2>2, <1>3 DEF Chunk, Chunks
    <3> HIDE DEF g1, c
    <3>3. /\ Sane(g1) /\ SameRest(h, g1) /\ SameShape(h, g1)
          /\ MarkedAfter(h.hmu, g1.hmu, p + avail, TRUE)
      BY <3>1, SetPinuseSane
    <3>4. OffRange(g1, p, c.size)
      BY <1>4, <3>2, <3>3 DEF OffRange, OffKfc, SameShape, SameRest
    <3>5. /\ HeapOK(g1) /\ KfcOK(g1) /\ HmuOK(g1.hmu) /\ FootOK(g1.foot)
          /\ Tiled(g1.hmu) /\ FootsSound(g1.hmu, g1.foot)
      BY <3>3 DEF Sane, HeapOK
    <3>6. /\ HeapOK(g2) /\ KfcOK(g2) /\ SameRest(g1, g2)
          /\ g2.hmu = SetHmu(g1.hmu, p, c) /\ g2.foot = SetFoot(g1.foot, p, c)
          /\ g2.corrupted = g1.corrupted
      BY <1>3, <3>2, <3>4, <3>5, SetChunkKfc
    <3> HIDE DEF g2
    <3>7. p \in DOMAIN g1.hmu /\ p + c.size \in DOMAIN g1.hmu \cup {HeapUnits}
      BY <1>3, <3>2, <3>3 DEF SameShape
    <3>8. Tiled(g2.hmu) /\ FootsSound(g2.hmu, g2.foot)
      BY <3>2, <3>5, <3>6, <3>7, TileOne, FootOne
    <3>9. Sane(g2)
      BY <3>6, <3>8 DEF Sane
    <3>10. /\ DOMAIN g2.hmu = DOMAIN h.hmu /\ g2.hmu[p] = c
           /\ \A x \in DOMAIN h.hmu : x # p => g2.hmu[x] = g1.hmu[x]
      BY <3>2, <3>3, <3>6, <1>3, <1>5 DEF SetHmu, SameShape
    <3>11. VoAdded(h, g2, p, size)
      BY <3>2, <3>3, <3>10, <1>3 DEF VoAdded, VoKept, VoChunks, Starts, SameShape
    <3>12. ASSUME Exact(h) PROVE Exact(g2)
      <4>1. g1.foot = h.foot /\ MarkedAfter(h.hmu, g1.hmu, p + c.size, TRUE)
        BY <3>2, <3>3 DEF SameShape
      <4> HIDE DEF P
      <4> QED
        BY <3>2, <3>6, <3>12, <4>1, <1>2, <1>3, ExactWhole DEF P
    <3> QED
      BY <3>3, <3>6, <3>9, <3>11, <3>12 DEF SameRest, SameShape
  <2> QED
    BY <2>1, <2>2
<1> HIDE DEF g2, g1, c
<1>7. free \in 0 .. (WordUnits - 1) /\ high \in 0 .. (WordUnits - 1)
  <2>1. /\ h.total_free_size \in Int /\ got \in Int
        /\ g2.highmark_size \in 0 .. (WordUnits - 1)
    <3>1. h.total_free_size \in 0 .. (WordUnits - 1)
      BY <1>2 DEF HeapOK
    <3>2. g2.highmark_size \in 0 .. (WordUnits - 1)
      BY <1>6 DEF HeapOK, Sane
    <3>3. got \in Int
      BY <1>3
    <3> QED
      BY <3>1, <3>2, <3>3
  <2>2. free \in 0 .. (WordUnits - 1)
    BY <2>1, ModBound
  <2> HIDE DEF free
  <2>3. used \in 0 .. (WordUnits - 1)
    BY <2>2, ModBound
  <2> HIDE DEF used
  <2> QED
    BY <2>1, <2>2, <2>3
<1> HIDE DEF free, high, g
<1>8. /\ Sane(g) /\ SameShape(g2, g) /\ g.hmu = g2.hmu /\ g.base = g2.base
  BY <1>1, <1>6, <1>7, SetCounters
<1>9. Exact(g2) => Exact(g)
  BY <1>8 DEF Exact, SameShape
<1> QED
  BY <1>6, <1>8, <1>9 DEF VoAdded, VoKept, VoChunks, Starts, SameShape, g

(* BestFit finds a node of the tree that is large enough, or NULL.         *)
LEMMA BestFitNode ==
    ASSUME NEW h, Sane(h), NEW size, BestFit(h, size) # NULL
    PROVE  /\ BestFit(h, size) \in DOMAIN h.tree \ {ROOT}
           /\ h.hmu[BestFit(h, size)].size >= size
<1> DEFINE w == Walk(h, size, h.tree[ROOT].right)
           hits == {n \in Depths(h.tree) : /\ w[n] \in TreeNodes(h)
                                           /\ NodeSize(h, w[n]) >= size}
<1>1. hits # {} /\ BestFit(h, size) = w[Max(hits)]
  BY DEF BestFit
<1> HIDE DEF w
<1>2. Cardinality(DOMAIN h.tree) \in Nat
  <2>1. DOMAIN h.tree \subseteq Units \cup {ROOT}
    BY DEF Sane, HeapOK
  <2>2. IsFiniteSet(Units)
    BY SizesAssumption, FS_Interval DEF Units
  <2>3. IsFiniteSet(Units \cup {ROOT})
    BY <2>2, FS_AddElement
  <2> QED
    BY <2>1, <2>3, FS_Subset, FS_CardinalityType
<1>3. hits \in SUBSET (0 .. Cardinality(DOMAIN h.tree))
  BY DEF Depths
<1>4. Max(hits) \in hits
  <2> HIDE DEF hits
  <2> QED
    BY <1>1, <1>2, <1>3, MinMax
<1> QED
  BY <1>1, <1>4 DEF TreeNodes, NodeSize

(* Taking the head off a list is taking out its entry 1.                   *)
LEMMA TailIsCut ==
    ASSUME NEW S, NEW s \in Seq(S), s # <<>>
    PROVE  Tail(s) = RemoveAt(s, 1) /\ 1 \in 1 .. Len(s) /\ Head(s) = s[1]
<1>1. Len(s) \in Nat /\ Len(s) # 0
  BY EmptySeq, LenProperties
<1>2. Tail(s) \in Seq(S) /\ Len(Tail(s)) = Len(s) - 1
      /\ \A j \in 1 .. Len(Tail(s)) : Tail(s)[j] = s[j + 1]
  BY HeadTailProperties
<1>3. /\ RemoveAt(s, 1) \in Seq(S)
      /\ Len(RemoveAt(s, 1)) = Len(s) - 1
      /\ \A j \in 1 .. (Len(s) - 1) :
            RemoveAt(s, 1)[j] = IF j < 1 THEN s[j] ELSE s[j + 1]
  BY <1>1, RemoveAtProps
<1>4. \A j \in 1 .. Len(Tail(s)) : Tail(s)[j] = RemoveAt(s, 1)[j]
  BY <1>1, <1>2, <1>3
<1> QED
  BY <1>1, <1>2, <1>3, <1>4, SeqEqual

(* Marking the heap as corrupted changes nothing else.                     *)
Marked(h, g) == g = [h EXCEPT !.corrupted = TRUE]

(* is_heap_corrupted can be set without disturbing the rest.               *)
LEMMA MarkCorrupted ==
    ASSUME NEW h, Sane(h), NEW g, Marked(h, g)
    PROVE  Sane(g) /\ VoSame(h, g) /\ SameChunks(h, g)
<1>1. HeapOK(h) /\ DOMAIN h = HeapFields
  BY DEF Sane, HeapOK
<1>2. /\ SameRest(h, g) /\ SameChunks(h, g) /\ g.tree = h.tree
      /\ g.corrupted = TRUE /\ g.list = h.list
  BY <1>1 DEF Marked, SameRest, SameChunks, HeapFields
<1>3. Sane(g)
  BY <1>1, <1>2 DEF Sane, KfcOK, HeapOK, SameRest, SameChunks
<1> QED
  BY <1>2, <1>3 DEF VoSame, VoKept, VoChunks, Starts, SameChunks

(* What alloc_hmu may return for a request of n units.                     *)
AllocOutcome(h, r, n) ==
    /\ Sane(r.heap) /\ (Exact(h) => Exact(r.heap))
    /\ \/ r.obj = NULL /\ VoSame(h, r.heap)
       \/ /\ r.obj # NULL /\ VoAdded(h, r.heap, r.obj, n)
          /\ r.heap.corrupted = FALSE

(* The P bits are in the headers.                                          *)
LEMMA ExactSame ==
    ASSUME NEW h, NEW g, SameChunks(h, g)
    PROVE  Exact(h) <=> Exact(g)
BY DEF SameChunks, Exact

(* Carving chunk p out of heap f, which has the chunks of h.               *)
LEMMA CarveOutcome ==
    ASSUME NEW h, NEW f, Sane(f), SameChunks(h, f), f.corrupted = FALSE,
           NEW p \in Free(f), OffKfc(f, p), NEW avail, avail = f.hmu[p].size,
           NEW size \in 1 .. avail, size >= GC_SMALLEST_SIZE,
           NEW n \in Nat, n <= size
    PROVE  AllocOutcome(h, Result(p, Carve(f, p, avail, size)), n)
<1> DEFINE g == Carve(f, p, avail, size)
<1>1. /\ Sane(g) /\ g.corrupted = f.corrupted /\ VoAdded(f, g, p, size)
      /\ Exact(f) => Exact(g)
  BY CarveSane
<1>2. p # NULL /\ f.hmu[p].size \in Nat
  BY DEF Sane, HeapOK, HmuOK, Free, Starts, Units, NULL, Chunks
<1>6. Sane(g) /\ p \in Starts(g)
  BY <1>1 DEF VoAdded, VoChunks
<1>3. g.hmu[p].size \in Int
  BY SMTT(30), <1>6, SizesAssumption DEF Sane, HeapOK, HmuOK, Starts, Chunks
<1> HIDE DEF g
<1>4. VoAdded(h, g, p, n)
  BY <1>1, <1>2, <1>3 DEF VoAdded, VoKept, VoChunks, Starts, SameChunks
<1>5. Result(p, g).heap = g /\ Result(p, g).obj = p
  BY DEF Result
<1> QED
  BY <1>1, <1>2, <1>4, <1>5, ExactSame DEF AllocOutcome, g

(* alloc_hmu returns a VO chunk of the size asked for, or NULL.            *)
LEMMA AllocHmu ==
    ASSUME NEW h, Sane(h), h.corrupted = FALSE, NEW units \in Nat
    PROVE  AllocOutcome(h, alloc_hmu(h, units), units)
<1> USE SizesAssumption
<1> DEFINE size == IF units < GC_SMALLEST_SIZE THEN GC_SMALLEST_SIZE ELSE units
           fit  == {i \in size .. (NormalNodeCnt - 1) : h.list[i] # <<>>}
           i    == Min(fit)
           head == Head(h.list[i])
           tp   == BestFit(h, size)
           g    == remove_tree_node(h, tp)
           r    == alloc_hmu(h, units)
           Entries == Units \X (0 .. h.base)
<1>1. size \in Nat /\ units <= size /\ 1 <= size /\ size >= GC_SMALLEST_SIZE
  BY DEF GC_SMALLEST_SIZE
<1>2. /\ HeapOK(h) /\ HmuOK(h.hmu) /\ Tiled(h.hmu)
      /\ ListsSound(h.hmu, h.list, h.base) /\ TreeSound(h.hmu, h.tree)
  BY DEF Sane, HeapOK, KfcOK
<1>3. CASE IsFcNormal(size) /\ fit # {}
  <2>1. i \in fit
    <3>1. fit \in SUBSET (0 .. (NormalNodeCnt - 1)) /\ NormalNodeCnt - 1 \in Nat
      BY <1>1
    <3> HIDE DEF fit
    <3> QED
      BY <1>3, <3>1, MinMax
  <2>2. /\ i \in DOMAIN h.list /\ i >= size /\ h.list[i] # <<>>
        /\ h.list[i] \in Seq(Entries) /\ i \in Nat
    <3>1. h.list \in [0 .. (NormalNodeCnt - 1) -> Seq(Entries)]
      BY <1>2 DEF HeapOK
    <3> HIDE DEF Entries, i
    <3>2. i \in size .. (NormalNodeCnt - 1) /\ h.list[i] # <<>>
      BY <2>1
    <3> HIDE DEF fit, size
    <3>3. i \in 0 .. (NormalNodeCnt - 1) /\ i >= size
      BY <1>1, <3>2
    <3> QED
      BY <3>1, <3>2, <3>3
  <2> HIDE DEF Entries, i, fit, size
  <2>3. /\ Tail(h.list[i]) = RemoveAt(h.list[i], 1) /\ head = h.list[i][1]
        /\ 1 \in 1 .. Len(h.list[i]) /\ head \in Entries
    BY <2>2, TailIsCut, HeadTailProperties
  <2> HIDE DEF head
  <2>4. CASE head[2] # h.base
    <3> DEFINE bad == [h EXCEPT !.corrupted = TRUE]
    <3>1. r = Result(NULL, bad)
      BY <1>3, <2>4 DEF alloc_hmu, size, fit, i, head
    <3>2. Marked(h, bad)
      BY DEF Marked
    <3>3. r.heap = bad /\ r.obj = NULL
      BY <3>1 DEF Result
    <3> HIDE DEF r, bad
    <3> QED
      BY <3>2, <3>3, MarkCorrupted, ExactSame DEF AllocOutcome, r
  <2>5. CASE head[2] = h.base
    <3> DEFINE p == head[1]
               f == [h EXCEPT !.list = [h.list EXCEPT ![i] = Tail(h.list[i])]]
    <3>1. r = Result(p, Carve(f, p, i, size))
      BY <1>3, <2>5 DEF alloc_hmu, size, fit, i, head
    <3>2. ListCut(h, f, i, 1)
      BY <2>3 DEF ListCut
    <3>3. h.list[i][1] = <<p, h.base>>
      BY <2>3, <2>5 DEF Entries
    <3>4. /\ p \in DOMAIN h.hmu /\ h.hmu[p].ut = "FC" /\ h.hmu[p].size = i
      <4>1. /\ i \in DOMAIN h.list /\ 1 \in 1 .. Len(h.list[i])
            /\ h.list[i][1][2] = h.base /\ h.list[i][1][1] = p
        BY <2>2, <2>3, <2>5
      <4>2. ListsSound(h.hmu, h.list, h.base)
        BY <1>2
      <4>3. /\ h.list[i][1][1] \in DOMAIN h.hmu
            /\ h.hmu[h.list[i][1][1]].ut = "FC"
            /\ h.hmu[h.list[i][1][1]].size = i
        BY <4>1, <4>2, ListEntry
      <4> QED
        BY <4>1, <4>3
    <3> HIDE DEF p, f, r
    <3>5. /\ Sane(f) /\ SameChunks(h, f) /\ f.corrupted = h.corrupted
          /\ OffKfc(f, p)
      BY <2>2, <2>3, <3>2, <3>3, CutList
    <3>6. p \in Free(f) /\ i = f.hmu[p].size
      BY <3>4, <3>5 DEF Free, Starts, SameChunks
    <3>7. size \in 1 .. i
      BY <1>1, <2>2
    <3>8. f.corrupted = FALSE
      BY <3>5
    <3>9. AllocOutcome(h, Result(p, Carve(f, p, i, size)), units)
      BY <3>5, <3>6, <3>7, <3>8, <1>1, CarveOutcome
    <3> QED
      BY <3>1, <3>9 DEF r
  <2> QED
    BY <2>4, <2>5
<1>4. CASE ~(IsFcNormal(size) /\ fit # {}) /\ tp = NULL
  <2>1. r = Result(NULL, h)
    BY <1>4 DEF alloc_hmu
  <2>2. r.heap = h /\ r.obj = NULL
    BY <2>1 DEF Result
  <2> HIDE DEF r
  <2>3. VoSame(h, h)
    BY DEF VoSame, VoKept
  <2> QED
    BY <2>2, <2>3 DEF AllocOutcome, r
<1>5. CASE ~(IsFcNormal(size) /\ fit # {}) /\ tp # NULL
  <2>1. tp \in DOMAIN h.tree \ {ROOT} /\ h.hmu[tp].size >= size
    <3> HIDE DEF size
    <3> QED
      BY <1>5, BestFitNode
  <2>2. /\ tp \in DOMAIN h.hmu /\ h.hmu[tp].ut = "FC" /\ tp \in Free(h)
        /\ ~IsFcNormal(h.hmu[tp].size) /\ h.hmu[tp].size \in Nat
    BY <1>2, <2>1 DEF TreeSound, Free, Starts, HmuOK, Chunks
  <2>3. g = unlink_hmu(h, tp)
    BY <2>2, Zenon DEF unlink_hmu
  <2>4. r = IF g.corrupted THEN Result(NULL, g)
            ELSE Result(tp, Carve(g, tp, h.hmu[tp].size, size))
    BY <1>5 DEF alloc_hmu
  <2> HIDE DEF r, g, tp, size, fit, i, head
  <2>5. /\ Sane(g) /\ SameChunks(h, g)
        /\ g.corrupted = FALSE => OffKfc(g, tp)
    BY <2>2, <2>3, UnlinkHmu
  <2>6. g.corrupted \in BOOLEAN
    BY <2>5 DEF Sane, HeapOK
  <2>7. CASE g.corrupted = TRUE
    <3>1. r.heap = g /\ r.obj = NULL
      BY <2>4, <2>7 DEF Result
    <3>2. VoSame(h, g)
      BY <2>5 DEF SameChunks, VoSame, VoKept, VoChunks, Starts
    <3> QED
      BY <2>5, <3>1, <3>2, ExactSame DEF AllocOutcome, r
  <2>8. CASE g.corrupted = FALSE
    <3> DEFINE n == h.hmu[tp].size
    <3>1. r = Result(tp, Carve(g, tp, n, size))
      BY <2>4, <2>8
    <3>2. tp \in Free(g) /\ n = g.hmu[tp].size /\ size \in 1 .. n
      BY <2>1, <2>2, <2>5, <1>1 DEF Free, Starts, SameChunks
    <3> HIDE DEF n
    <3>3. AllocOutcome(h, Result(tp, Carve(g, tp, n, size)), units)
      BY <2>5, <2>8, <3>2, <1>1, CarveOutcome
    <3> QED
      BY <3>1, <3>3 DEF r
  <2> QED
    BY <2>6, <2>7, <2>8
<1> QED
  BY <1>3, <1>4, <1>5

----------------------------------------------------------------------------
(* Freeing.                                                                *)

(* A VO chunk is not in the KFC.                                           *)
LEMMA VoOff ==
    ASSUME NEW h, Sane(h), NEW a \in VoChunks(h)
    PROVE  OffKfc(h, a)
<1>1. ListsSound(h.hmu, h.list, h.base) /\ TreeSound(h.hmu, h.tree)
  BY DEF Sane, KfcOK
<1>2. a \in DOMAIN h.hmu /\ h.hmu[a].ut = "VO" /\ a \in Int /\ a >= 0
  BY DEF VoChunks, Starts, Sane, HeapOK, HmuOK, Units
<1>3. a \notin DOMAIN h.tree
  BY <1>1, <1>2 DEF TreeSound, ROOT
<1>4. ASSUME NEW i \in DOMAIN h.list, NEW k \in 1 .. Len(h.list[i]),
             h.list[i][k] = <<a, h.base>>
      PROVE  FALSE
  <2>1. h.list[i][k][2] = h.base /\ h.list[i][k][1] = a
    BY <1>4
  <2>2. h.hmu[h.list[i][k][1]].ut = "FC"
    BY <1>1, <2>1, ListEntry
  <2> QED
    BY <2>1, <2>2, <1>2
<1> QED
  BY <1>3, <1>4 DEF OffKfc

(* The range of n units from a on is one free chunk, or part of one.       *)
RangeFreed(h, g, a, n) ==
    /\ Sane(g)
    /\ Exact(h) /\ n >= GC_SMALLEST_SIZE /\ UsedBefore(h.hmu, a) => Exact(g)
    /\ \/ g.corrupted = TRUE /\ SameChunks(h, g)
       \/ /\ VoChunks(g) = VoChunks(h) \ (a .. (a + n - 1))
          /\ \A x \in VoChunks(g) : g.hmu[x].size = h.hmu[x].size

(* The end of gc_free_vo turns a range that is out of the KFC into a free  *)
(* chunk.                                                                  *)
LEMMA FreeFromRange ==
    ASSUME NEW h, Sane(h), h.corrupted = FALSE, NEW start \in Starts(h),
           NEW size \in 1 .. HeapUnits,
           start + size \in Starts(h) \cup {HeapUnits},
           OffRange(h, start, size)
    PROVE  RangeFreed(h, FreeFrom(h, start, size), start, size)
<1> USE SizesAssumption
<1> DEFINE next == start + size
           grow == next \in Free(h)
           g == IF grow THEN unlink_hmu(h, next) ELSE h
           tot == IF grow THEN size + h.hmu[next].size ELSE size
           P == h.hmu[start].pinuse
           f == gci_add_fc(g, start, tot, P)
           r == FreeFrom(h, start, size)
<1>1. /\ HmuOK(h.hmu) /\ Tiled(h.hmu) /\ DOMAIN h = HeapFields
      /\ start \in DOMAIN h.hmu /\ start \in Units /\ start \in Int /\ start >= 0
      /\ P \in BOOLEAN /\ next \in Int /\ next > start
      /\ \A x \in DOMAIN h.hmu : x \in Int /\ h.hmu[x].size \in 1 .. HeapUnits
  <2>1. /\ HmuOK(h.hmu) /\ Tiled(h.hmu) /\ DOMAIN h = HeapFields
        /\ start \in DOMAIN h.hmu
    BY DEF Sane, HeapOK, Starts
  <2> QED
    BY <2>1 DEF HmuOK, Units, Chunks
<1>2. /\ tot \in 1 .. HeapUnits /\ start + tot <= HeapUnits /\ tot >= size
      /\ start + tot \in DOMAIN h.hmu \cup {HeapUnits}
  <2>1. CASE grow
    <3>1. next \in DOMAIN h.hmu
      BY <2>1 DEF Free, Starts
    <3>2. /\ next + h.hmu[next].size <= HeapUnits
          /\ next + h.hmu[next].size \in DOMAIN h.hmu \cup {HeapUnits}
      BY <3>1, <1>1 DEF Tiled, ChunksEnd
    <3> QED
      BY <2>1, <3>1, <3>2, <1>1
  <2>2. CASE ~grow
    BY <2>2, <1>1 DEF Starts, Tiled, ChunksEnd, HmuOK, Units
  <2> QED
    BY <2>1, <2>2
<1>3. r = IF g.corrupted THEN g ELSE SetPinuse(f, start + tot, FALSE)
  BY DEF FreeFrom
<1>4. /\ Sane(g) /\ SameChunks(h, g)
      /\ g.corrupted = FALSE => OffRange(g, start, tot)
  <2>1. CASE grow
    <3>1. g = unlink_hmu(h, next)
      BY <2>1
    <3> HIDE DEF g
    <3>2. /\ Sane(g) /\ SameChunks(h, g)
          /\ g.corrupted = FALSE => OffKfc(g, next)
          /\ \A x : OffKfc(h, x) => OffKfc(g, x)
      BY <2>1, <3>1, UnlinkHmu
    <3>3. next \in Starts(g)
      BY <2>1, <3>2 DEF Free, Starts, SameChunks
    <3>4. ASSUME g.corrupted = FALSE PROVE OffRange(g, start, tot)
      <4>0. OffKfc(g, next)
        BY <3>2, <3>4
      <4>1. OffRange(g, next, g.hmu[next].size)
        BY <3>2, <3>3, <4>0, ChunkRangeOff
      <4>2. g.hmu[next].size = h.hmu[next].size /\ h.hmu[next].size \in Int
        BY <2>1, <3>2, <1>1 DEF SameChunks, Free, Starts
      <4>3. tot = size + h.hmu[next].size
        BY <2>1
      <4> HIDE DEF tot
      <4>4. ASSUME NEW x \in start .. (start + tot - 1)
            PROVE  \/ x \in start .. (start + size - 1)
                   \/ x \in next .. (next + g.hmu[next].size - 1)
        BY <1>1, <4>2, <4>3
      <4> QED
        BY <3>2, <4>1, <4>4 DEF OffRange
    <3> QED
      BY <3>2, <3>4
  <2>2. CASE ~grow
    BY <2>2 DEF SameChunks
  <2> QED
    BY <2>1, <2>2
<1>5. g.corrupted \in BOOLEAN
  BY <1>4 DEF Sane, HeapOK
<1>6. CASE g.corrupted = TRUE
  BY <1>3, <1>4, <1>6, ExactSame DEF RangeFreed
<1>7. CASE g.corrupted = FALSE
  <2> DEFINE c == Chunk("FC", tot, P)
  <2>1. c \in Chunks /\ c.size = tot /\ c.ut = "FC" /\ c.pinuse = P
    BY <1>1, <1>2 DEF Chunk, Chunks
  <2>2. /\ HeapOK(g) /\ KfcOK(g) /\ HmuOK(g.hmu) /\ FootOK(g.foot)
        /\ Tiled(g.hmu) /\ FootsSound(g.hmu, g.foot) /\ OffRange(g, start, tot)
        /\ g.hmu = h.hmu
    BY <1>4, <1>7 DEF Sane, HeapOK, SameChunks
  <2>3. r = SetPinuse(f, start + tot, FALSE)
    BY <1>3, <1>7
  <2> HIDE DEF g, tot, P, r
  <2>4. /\ HeapOK(f) /\ KfcOK(f)
        /\ f.hmu = SetHmu(g.hmu, start, Chunk("FC", tot, P))
        /\ f.foot = SetFoot(g.foot, start, Chunk("FC", tot, P))
    BY <1>1, <1>2, <2>2, AddFc
  <2> HIDE DEF f
  <2>5. /\ f.hmu = SetHmu(g.hmu, start, c) /\ f.foot = SetFoot(g.foot, start, c)
    BY <2>4
  <2> HIDE DEF c
  <2>6. start \in DOMAIN g.hmu /\ start + c.size \in DOMAIN g.hmu \cup {HeapUnits}
    BY <1>1, <1>2, <2>1, <2>2
  <2>7. Tiled(f.hmu) /\ FootsSound(f.hmu, f.foot)
    BY <2>1, <2>2, <2>5, <2>6, TileOne, FootOne
  <2>8. Sane(f)
    BY <2>4, <2>7 DEF Sane
  <2>9. /\ Sane(r) /\ SameShape(f, r)
        /\ MarkedAfter(f.hmu, r.hmu, start + tot, FALSE)
    BY <2>3, <2>8, SetPinuseSane
  <2>15. ASSUME Exact(h), size >= GC_SMALLEST_SIZE, UsedBefore(h.hmu, start)
         PROVE  Exact(r)
    <3>1. Exact(g) /\ UsedBefore(g.hmu, start) /\ c.size >= GC_SMALLEST_SIZE
      <4>1. Exact(g)
        BY <1>4, <2>15, ExactSame
      <4> QED
        BY <4>1, <2>1, <2>2, <2>15, <1>2 DEF GC_SMALLEST_SIZE
    <3>2. start + c.size \in DOMAIN g.hmu => g.hmu[start + c.size].ut = "VO"
      <4>1. CASE grow
        <5>1. tot = size + h.hmu[next].size /\ next \in DOMAIN h.hmu /\ h.hmu[next].ut = "FC"
          BY <4>1 DEF tot, Free, Starts
        <5>2. start + c.size = next + h.hmu[next].size
          BY <5>1, <2>1, <1>1
        <5> QED
          BY <5>1, <5>2, <2>2, <2>15 DEF Exact
      <4>2. CASE ~grow
        <5>1. start + c.size = next
          BY <4>2, <2>1 DEF tot
        <5> QED
          BY <4>2, <5>1, <2>2 DEF Free, Starts, HmuOK, Chunks
      <4> QED
        BY <4>1, <4>2
    <3>3. c.pinuse = g.hmu[start].pinuse
      BY <2>1, <2>2 DEF P
    <3>4. /\ MarkedAfter(SetHmu(g.hmu, start, c), r.hmu, start + c.size, FALSE)
          /\ r.foot = SetFoot(g.foot, start, c)
      BY <2>1, <2>5, <2>9 DEF SameShape
    <3> QED
      BY <3>1, <3>2, <3>3, <3>4, <2>1, <2>2, <2>6, ExactFree
  <2>10. /\ DOMAIN f.hmu = (DOMAIN h.hmu \ (start .. (start + tot - 1))) \cup {start}
         /\ f.hmu[start].ut = "FC"
         /\ \A x \in DOMAIN f.hmu : x # start => f.hmu[x] = h.hmu[x]
    BY <2>1, <2>2, <2>5 DEF SetHmu
  <2>11. ASSUME NEW x \in VoChunks(h), x \in start .. (start + tot - 1)
         PROVE  x \in start .. (start + size - 1)
    <3>1. x \in DOMAIN h.hmu /\ h.hmu[x].ut = "VO" /\ x \in Int
      BY <1>1 DEF VoChunks, Starts
    <3>2. CASE grow
      <4>1. tot = size + h.hmu[next].size /\ next \in DOMAIN h.hmu
            /\ h.hmu[next].ut = "FC"
        BY <3>2 DEF tot, Free, Starts
      <4>2. x # next
        BY <3>1, <4>1
      <4>3. ~(next < x)
        BY <3>1, <4>1, <1>1, <2>11 DEF Tiled
      <4> QED
        BY <3>1, <4>2, <4>3, <1>1, <2>11
    <3>3. CASE ~grow
      BY <3>3, <2>11 DEF tot
    <3> QED
      BY <3>2, <3>3
  <2>12. start .. (start + size - 1) \subseteq start .. (start + tot - 1)
    BY <1>1, <1>2
  <2>13. /\ VoChunks(f) = VoChunks(h) \ (start .. (start + size - 1))
         /\ \A x \in VoChunks(f) : f.hmu[x].size = h.hmu[x].size
    <3>1. /\ \A x \in VoChunks(f) : x # start /\ f.hmu[x] = h.hmu[x]
          /\ VoChunks(f) = VoChunks(h) \ (start .. (start + tot - 1))
      <4>1. start \in start .. (start + tot - 1)
        BY <1>1, <1>2
      <4> QED
        BY <2>10, <4>1 DEF VoChunks, Starts
    <3> QED
      BY <3>1, <2>11, <2>12
  <2>14. /\ VoChunks(r) = VoChunks(f)
         /\ \A x \in VoChunks(f) : r.hmu[x].size = f.hmu[x].size
    BY <2>9 DEF SameShape, VoChunks, Starts
  <2> QED
    BY <2>9, <2>13, <2>14, <2>15 DEF RangeFreed, r
<1> QED
  BY <1>5, <1>6, <1>7

(* Chunk a is freed, or the heap is marked as corrupted and a stays.       *)
FreeOutcome(h, g, a, merge) ==
    /\ Sane(g)
    /\ Exact(h) /\ (merge <=> HasFooter(h, a) /\ Prev(h, a) \in Free(h)) => Exact(g)
    /\ \/ g.corrupted = TRUE /\ VoSame(h, g)
       \/ VoDropped(h, g, a)

(* gc_free_vo drops the chunk, or marks the heap as corrupted.             *)
LEMMA FreeChunkSane ==
    ASSUME NEW h, Sane(h), h.corrupted = FALSE, NEW a \in VoChunks(h),
           NEW merge \in BOOLEAN,
           merge => HasFooter(h, a) /\ Prev(h, a) \in Free(h)
    PROVE  FreeOutcome(h, FreeChunk(h, a, merge), a, merge)
<1> USE SizesAssumption
<1> DEFINE size == h.hmu[a].size
           n == (h.total_free_size + size) % WordUnits
           h1 == [h EXCEPT !.total_free_size = n]
           prev == Prev(h, a)
           g == unlink_hmu(h1, prev)
           r == FreeChunk(h, a, merge)
<1>1. /\ HeapOK(h) /\ DOMAIN h = HeapFields /\ Tiled(h.hmu) /\ HmuOK(h.hmu)
      /\ a \in DOMAIN h.hmu /\ h.hmu[a].ut = "VO" /\ a \in Int /\ a >= 0
      /\ size \in 1 .. HeapUnits
      /\ a + size \in DOMAIN h.hmu \cup {HeapUnits} /\ a + size <= HeapUnits
  <2>1. /\ HeapOK(h) /\ DOMAIN h = HeapFields /\ Tiled(h.hmu) /\ HmuOK(h.hmu)
        /\ a \in DOMAIN h.hmu /\ h.hmu[a].ut = "VO"
    BY DEF Sane, HeapOK, VoChunks, Starts
  <2>2. a \in Units /\ h.hmu[a] \in Chunks
    BY <2>1 DEF HmuOK
  <2>3. a \in Int /\ a >= 0 /\ size \in 1 .. HeapUnits
    BY <2>2 DEF Units, Chunks
  <2>4. a + size \in DOMAIN h.hmu \cup {HeapUnits} /\ a + size <= HeapUnits
    BY <2>1 DEF Tiled, ChunksEnd
  <2> QED
    BY <2>1, <2>3, <2>4
<1>2. /\ Sane(h1) /\ SameShape(h, h1) /\ h1.hmu = h.hmu /\ h1.foot = h.foot
      /\ h1.corrupted = FALSE
  <2>1. /\ h.highmark_size \in 0 .. (WordUnits - 1) /\ h.total_free_size \in Int
    <3>1. /\ h.highmark_size \in 0 .. (WordUnits - 1)
          /\ h.total_free_size \in 0 .. (WordUnits - 1)
      BY <1>1 DEF HeapOK
    <3> QED
      BY <3>1
  <2>2. n \in 0 .. (WordUnits - 1)
    BY <1>1, <2>1, ModBound
  <2>3. CountersSet(h, h1, n, h.highmark_size)
    BY <1>1 DEF CountersSet, HeapFields
  <2> HIDE DEF h1, n
  <2>4. Sane(h1) /\ SameShape(h, h1) /\ h1.hmu = h.hmu
    BY <2>1, <2>2, <2>3, SetCounters
  <2> QED
    BY <2>4 DEF SameShape
<1>3. r = IF ~merge THEN FreeFrom(h1, a, size)
          ELSE IF g.corrupted THEN g
          ELSE FreeFrom(g, prev, size + h.hmu[prev].size)
  BY DEF FreeChunk
<1> HIDE DEF h1, r
<1>4. a \in VoChunks(h1) /\ VoChunks(h1) = VoChunks(h)
  BY <1>2 DEF VoChunks, Starts
<1>5. OffRange(h1, a, size)
  <2>1. OffKfc(h1, a) /\ a \in Starts(h1) /\ size = h1.hmu[a].size
    BY <1>2, <1>4, VoOff DEF VoChunks
  <2> QED
    BY <1>2, <2>1, ChunkRangeOff
<1>6. \A x \in DOMAIN h.hmu : x \in Int /\ (x \in a .. (a + size - 1) => x = a)
  BY <1>1 DEF Tiled, HmuOK, Units
<1>7. CASE merge = FALSE
  <2>1. r = FreeFrom(h1, a, size)
    BY <1>3, <1>7
  <2>2. RangeFreed(h1, r, a, size)
    <3>1. a \in Starts(h1) /\ a + size \in Starts(h1) \cup {HeapUnits}
      BY <1>1, <1>2 DEF Starts
    <3> HIDE DEF size
    <3> QED
      BY <1>1, <1>2, <1>5, <2>1, <3>1, FreeFromRange
  <2>5. Exact(h) /\ ~(HasFooter(h, a) /\ Prev(h, a) \in Free(h)) => Exact(r)
    <3>1. SUFFICES ASSUME Exact(h), ~(HasFooter(h, a) /\ Prev(h, a) \in Free(h))
                   PROVE  Exact(r)
      OBVIOUS
    <3>2. Exact(h1) /\ UsedBefore(h1.hmu, a)
      BY <3>1, <1>1, <1>2, ExactSame, ExactBefore DEF SameChunks
    <3>3. size >= GC_SMALLEST_SIZE
      BY <3>1, <1>1 DEF Exact
    <3> QED
      BY <2>2, <3>2, <3>3 DEF RangeFreed
  <2>3. CASE r.corrupted = TRUE /\ SameChunks(h1, r)
    BY <2>2, <2>3, <2>5, <1>2, <1>7 DEF RangeFreed, FreeOutcome, SameChunks, VoSame,
                            VoKept, VoChunks, Starts, r
  <2>4. CASE /\ VoChunks(r) = VoChunks(h1) \ (a .. (a + size - 1))
             /\ \A x \in VoChunks(r) : r.hmu[x].size = h1.hmu[x].size
    <3>1. VoChunks(r) = VoChunks(h) \ {a}
      <4>1. a \in a .. (a + size - 1)
        BY <1>1
      <4>2. \A x \in VoChunks(h) : x \in DOMAIN h.hmu
        BY DEF VoChunks, Starts
      <4> QED
        BY <4>1, <4>2, <2>4, <1>4, <1>6
    <3>2. VoDropped(h, r, a)
      BY <2>4, <3>1, <1>2 DEF VoDropped
    <3> QED
      BY <2>2, <2>5, <3>2, <1>7 DEF RangeFreed, FreeOutcome, r
  <2> QED
    BY <2>2, <2>3, <2>4 DEF RangeFreed
<1>8. CASE merge = TRUE
  <2> DEFINE m == h.hmu[prev].size
             f == h.foot[a - 1]
  <2>1. /\ prev \in DOMAIN h.hmu /\ h.hmu[prev].ut = "FC" /\ prev \in Free(h)
        /\ prev \in Free(h1) /\ prev + m = a /\ m \in 1 .. HeapUnits
        /\ prev \in Int /\ prev >= 0 /\ prev < a
    <3>1. a > 0 /\ f # 0 /\ prev = a - f /\ prev \in Free(h)
      BY <1>8 DEF HasFooter, Prev
    <3>2. a - 1 \in Units /\ f \in Int /\ FootsSound(h.hmu, h.foot)
      <4>1. FootsSound(h.hmu, h.foot) /\ h.foot \in [Units -> 0 .. HeapUnits]
        BY <1>1 DEF HeapOK, FootOK, Sane
      <4>2. a - 1 \in Units
        BY <1>1, <3>1 DEF HmuOK, Units
      <4> QED
        BY <4>1, <4>2
    <3>3. /\ a - 1 + 1 - f \in DOMAIN h.hmu
          /\ h.hmu[a - 1 + 1 - f].size = f
      BY <3>1, <3>2 DEF FootsSound
    <3>4. a - 1 + 1 - f = prev
      BY <3>1, <3>2, <1>1
    <3>5. m = f /\ prev \in DOMAIN h.hmu
      BY <3>3, <3>4
    <3>6. h.hmu[prev].size \in 1 .. HeapUnits /\ prev \in Units
      BY <3>5, <1>1 DEF HmuOK, Chunks
    <3> QED
      BY <3>1, <3>2, <3>5, <3>6, <1>1, <1>2 DEF Free, Starts, Units
  <2> HIDE DEF prev
  <2>2. /\ Sane(g) /\ SameChunks(h1, g)
        /\ g.corrupted = FALSE => OffKfc(g, prev)
        /\ \A x : OffKfc(h1, x) => OffKfc(g, x)
    BY <1>2, <2>1, UnlinkHmu
  <2>3. g.hmu = h.hmu /\ g.corrupted \in BOOLEAN
    BY <1>2, <2>2 DEF SameChunks, Sane, HeapOK
  <2>4. CASE g.corrupted = TRUE
    <3>1. r = g
      BY <1>3, <1>8, <2>4
    <3>2. VoSame(h, g)
      BY <2>3 DEF VoSame, VoKept, VoChunks, Starts
    <3> QED
      BY <2>2, <2>4, <3>1, <3>2, <1>2, ExactSame DEF FreeOutcome, SameChunks, r
  <2>5. CASE g.corrupted = FALSE
    <3> DEFINE t == size + m
    <3>1. r = FreeFrom(g, prev, t)
      BY <1>3, <1>8, <2>5
    <3> HIDE DEF g
    <3>2. OffRange(g, prev, t)
      <4>1. OffRange(g, prev, g.hmu[prev].size)
        <5>1. prev \in Starts(g) /\ OffKfc(g, prev)
          BY <2>1, <2>2, <2>3, <2>5 DEF Starts
        <5> QED
          BY <2>2, <5>1, ChunkRangeOff
      <4>2. g.hmu[prev].size = m
        BY <2>3
      <4>3. ASSUME NEW x \in prev .. (prev + t - 1)
            PROVE  x \in prev .. (prev + m - 1) \/ x \in a .. (a + size - 1)
        BY <1>1, <2>1
      <4> QED
        BY <1>5, <2>2, <4>1, <4>2, <4>3 DEF OffRange
    <3>3. /\ prev \in Starts(g) /\ t \in 1 .. HeapUnits /\ prev + t = a + size
          /\ prev + t \in Starts(g) \cup {HeapUnits}
      BY <1>1, <2>1, <2>3 DEF Starts
    <3> HIDE DEF t
    <3>4. RangeFreed(g, r, prev, t)
      BY <2>2, <2>5, <3>1, <3>2, <3>3, FreeFromRange
    <3>7. Exact(h) => Exact(r)
      <4>1. SUFFICES ASSUME Exact(h) PROVE Exact(r)
        OBVIOUS
      <4>2. Exact(g)
        BY <4>1, <1>2, <2>2, ExactSame DEF SameChunks
      <4>3. UsedBefore(g.hmu, prev)
        <5>1. ASSUME NEW x \in DOMAIN h.hmu, x + h.hmu[x].size = prev PROVE h.hmu[x].ut = "VO"
          <6>1. h.hmu[x].ut \in {"FC", "VO"}
            BY <1>1 DEF HmuOK, Chunks
          <6> QED
            BY <4>1, <5>1, <6>1, <2>1 DEF Exact
        <5> QED
          BY <5>1, <2>3 DEF UsedBefore
      <4>4. t >= GC_SMALLEST_SIZE
        BY <1>1, <2>1 DEF t, GC_SMALLEST_SIZE
      <4> QED
        BY <3>4, <4>2, <4>3, <4>4 DEF RangeFreed
    <3>5. CASE r.corrupted = TRUE /\ SameChunks(g, r)
      BY <3>4, <3>5, <3>7, <2>3 DEF RangeFreed, FreeOutcome, SameChunks, VoSame,
                              VoKept, VoChunks, Starts, r
    <3>6. CASE /\ VoChunks(r) = VoChunks(g) \ (prev .. (prev + t - 1))
               /\ \A x \in VoChunks(r) : r.hmu[x].size = g.hmu[x].size
      <4>1. VoChunks(g) = VoChunks(h)
        BY <2>3 DEF VoChunks, Starts
      <4>2. ASSUME NEW x \in VoChunks(h), x \in prev .. (prev + t - 1)
            PROVE  x = a
        <5>1. x \in DOMAIN h.hmu /\ x \in Int /\ h.hmu[x].ut = "VO"
          BY <1>6 DEF VoChunks, Starts
        <5>2. x # prev
          BY <2>1, <5>1
        <5>3. prev < x
          BY <5>1, <5>2, <4>2, <2>1, <3>3, <1>1
        <5>4. prev + m <= x
          BY <5>1, <5>3, <2>1, <1>1 DEF Tiled
        <5>5. x \in a .. (a + size - 1)
          BY <5>1, <5>4, <4>2, <2>1, <3>3, <1>1
        <5> QED
          BY <5>1, <5>5, <1>6
      <4>3. a \in prev .. (prev + t - 1)
        BY <1>1, <2>1, <3>3
      <4>4. VoChunks(r) = VoChunks(h) \ {a}
        BY <3>6, <4>1, <4>2, <4>3
      <4>5. VoDropped(h, r, a)
        BY <3>6, <4>4, <2>3 DEF VoDropped
      <4> QED
        BY <3>4, <3>7, <4>5 DEF RangeFreed, FreeOutcome, r
    <3> QED
      BY <3>4, <3>5, <3>6 DEF RangeFreed
  <2> QED
    BY <2>3, <2>4, <2>5
<1> QED
  BY <1>7, <1>8

----------------------------------------------------------------------------
(* Resizing in place.                                                      *)

GrowOutcome(h, g, a, n) ==
    /\ Sane(g)
    /\ \/ g.corrupted = TRUE /\ VoSame(h, g)
       \/ g.corrupted = FALSE /\ VoGrown(h, g, a, n)

(* gc_realloc_vo in place grows the chunk, or marks the heap as corrupted. *)
LEMMA AbsorbSane ==
    ASSUME NEW h, Sane(h), h.corrupted = FALSE, NEW a \in VoChunks(h),
           NEW tot \in Nat, CanAbsorb(h, a, tot), NEW garbage \in BOOLEAN
    PROVE  GrowOutcome(h, Absorb(h, a, tot, garbage), a, tot)
<1> USE SizesAssumption
<1> DEFINE m == h.hmu[a].size
           next == a + m
           n == h.hmu[next].size
           both == m + n
           P == h.hmu[a].pinuse
           g == unlink_hmu(h, next)
           c == Chunk("VO", tot, P)
           g1 == SetChunk(g, a, c)
           b == a + tot
           k == both - tot
           r == Absorb(h, a, tot, garbage)
<1>1. /\ HeapOK(h) /\ Tiled(h.hmu) /\ HmuOK(h.hmu)
      /\ a \in DOMAIN h.hmu /\ h.hmu[a].ut = "VO"
      /\ next \in Free(h) /\ next \in DOMAIN h.hmu /\ h.hmu[next].ut = "FC"
      /\ tot > m /\ tot <= both
  BY DEF Sane, HeapOK, VoChunks, Starts, CanAbsorb, Free
<1>2. /\ a \in Units /\ a \in Int /\ a >= 0 /\ m \in 1 .. HeapUnits
      /\ P \in BOOLEAN /\ n \in 1 .. HeapUnits /\ next \in Int
      /\ \A x \in DOMAIN h.hmu : x \in Int
  BY <1>1 DEF HmuOK, Units, Chunks
<1>3. /\ a + both = next + n
      /\ a + both \in DOMAIN h.hmu \cup {HeapUnits} /\ a + both <= HeapUnits
      /\ both \in 1 .. HeapUnits /\ tot \in 1 .. HeapUnits
  <2>1. a + both = next + n
    BY <1>2
  <2>2. next + n \in DOMAIN h.hmu \cup {HeapUnits} /\ next + n <= HeapUnits
    BY <1>1 DEF Tiled, ChunksEnd
  <2> HIDE DEF n
  <2> QED
    BY <2>1, <2>2, <1>1, <1>2
<1>4. r = IF g.corrupted THEN g
          ELSE IF tot < both THEN gci_add_fc(g1, b, k, garbage)
          ELSE g1
  BY DEF Absorb
<1>5. /\ Sane(g) /\ SameChunks(h, g)
      /\ g.corrupted = FALSE => OffKfc(g, next)
      /\ \A x : OffKfc(h, x) => OffKfc(g, x)
  <2> HIDE DEF next
  <2> QED
    BY <1>1, UnlinkHmu
<1> HIDE DEF r, g
<1>6. g.corrupted \in BOOLEAN /\ g.hmu = h.hmu
  BY <1>5 DEF Sane, HeapOK, SameChunks
<1>7. CASE g.corrupted = TRUE
  <2>1. VoSame(h, g)
    BY <1>6 DEF VoSame, VoKept, VoChunks, Starts
  <2> QED
    BY <1>4, <1>5, <1>7, <2>1 DEF GrowOutcome, r
<1>8. CASE g.corrupted = FALSE
  <2>1. OffRange(g, a, both)
    <3>1. OffRange(h, a, m)
      BY VoOff, ChunkRangeOff DEF VoChunks
    <3>2. OffRange(g, next, g.hmu[next].size)
      <4>1. next \in Starts(g) /\ OffKfc(g, next)
        BY <1>1, <1>5, <1>6, <1>8 DEF Starts
      <4> HIDE DEF next
      <4> QED
        BY <1>5, <4>1, ChunkRangeOff
    <3>3. g.hmu[next].size = n
      BY <1>6
    <3>4. ASSUME NEW x \in a .. (a + both - 1)
          PROVE  x \in a .. (a + m - 1) \/ x \in next .. (next + n - 1)
      <4> HIDE DEF n, m
      <4> QED
        BY <1>2
    <3> QED
      BY <1>5, <3>1, <3>2, <3>3, <3>4 DEF OffRange
  <2>2. c \in Chunks /\ c.size = tot /\ c.ut = "VO"
    BY <1>2, <1>3 DEF Chunk, Chunks
  <2>3. /\ HeapOK(g) /\ KfcOK(g) /\ HmuOK(g.hmu) /\ FootOK(g.foot)
        /\ Tiled(g.hmu) /\ FootsSound(g.hmu, g.foot)
    BY <1>5 DEF Sane, HeapOK
  <2>4. OffRange(g, a, tot)
    BY <2>1, <1>1, <1>2, <1>3 DEF OffRange
  <2> HIDE DEF c
  <2>5. /\ HeapOK(g1) /\ KfcOK(g1) /\ SameRest(g, g1)
        /\ g1.hmu = SetHmu(g.hmu, a, c) /\ g1.foot = SetFoot(g.foot, a, c)
        /\ g1.list = g.list /\ g1.tree = g.tree /\ g1.corrupted = g.corrupted
    BY <2>2, <2>3, <2>4, <1>2, SetChunkKfc
  <2> HIDE DEF g1
  <2>6. ASSUME NEW x \in DOMAIN h.hmu, x \in a .. (a + both - 1)
        PROVE  x = a \/ x = next
    <3>1. x \in Int /\ a <= x /\ x < a + both
      BY <1>2, <1>3, <2>6
    <3>2. x > a => x >= next
      BY <1>1, <1>2 DEF Tiled
    <3>3. x > next => x >= next + n
      BY <1>1, <1>2 DEF Tiled
    <3> QED
      BY <3>1, <3>2, <3>3, <1>2, <1>3
  <2>7. next \in a .. (a + both - 1) /\ a \in a .. (a + both - 1)
    BY <1>2, <1>3
  <2>8. CASE tot < both
    <3> DEFINE d == Chunk("FC", k, garbage)
    <3>1. /\ b \in Units /\ k \in 1 .. HeapUnits /\ b + k = a + both /\ b > a
          /\ b \in Int
      BY <2>8, <1>1, <1>2, <1>3 DEF Units
    <3>2. d \in Chunks /\ d.size = k /\ d.ut = "FC"
      BY <3>1 DEF Chunk, Chunks
    <3>3. OffRange(g1, b, k)
      <4>1. OffRange(g, b, k)
        BY <2>1, <3>1, <1>2, <1>3 DEF OffRange
      <4> QED
        BY <4>1, <2>5 DEF OffRange, OffKfc, SameRest
    <3>4. r = gci_add_fc(g1, b, k, garbage)
      BY <1>4, <1>8, <2>8
    <3>5. /\ HeapOK(r) /\ KfcOK(r)
          /\ r.hmu = SetHmu(g1.hmu, b, d) /\ r.foot = SetFoot(g1.foot, b, d)
          /\ r.corrupted = g1.corrupted
      <4> HIDE DEF b, k, d
      <4> QED
        BY <2>5, <3>1, <3>3, <3>4, AddFc DEF d
    <3> HIDE DEF d
    <3>6. /\ a + c.size = b /\ a + c.size + d.size = a + both
          /\ a + c.size + d.size <= HeapUnits
          /\ a + c.size + d.size \in DOMAIN g.hmu \cup {HeapUnits}
          /\ a \in DOMAIN g.hmu
      BY <2>2, <3>1, <3>2, <1>1, <1>2, <1>3, <1>6
    <3>7. r.hmu = Two(g.hmu, a, c, d) /\ r.foot = TwoFoot(g.foot, a, c, d)
      <4>1. r.hmu = SetHmu(SetHmu(g.hmu, a, c), a + c.size, d)
            /\ r.foot = SetFoot(SetFoot(g.foot, a, c), a + c.size, d)
        BY <2>5, <3>5, <3>6
      <4> QED
        BY <4>1, <2>2, <2>3, <3>2, <3>6, TwoOrders
    <3>8. Tiled(r.hmu) /\ FootsSound(r.hmu, r.foot)
      BY <2>2, <2>3, <3>2, <3>6, <3>7, TileTwo
    <3>9. Sane(r)
      BY <3>5, <3>8 DEF Sane
    <3>10. /\ DOMAIN r.hmu = (DOMAIN h.hmu \ (a .. (a + both - 1))) \cup {a, b}
           /\ r.hmu[a] = c /\ r.hmu[b] = d /\ a # b
           /\ \A x \in DOMAIN r.hmu : x # a /\ x # b => r.hmu[x] = h.hmu[x]
      <4>1. a # b /\ a + c.size = b /\ a + c.size + d.size = a + both
            /\ r.hmu = Two(h.hmu, a, c, d)
        BY <3>1, <3>6, <3>7, <1>2, <1>6
      <4> HIDE DEF b, both
      <4>2. /\ DOMAIN r.hmu = (DOMAIN h.hmu \ (a .. (a + c.size + d.size - 1)))
                                  \cup {a, a + c.size}
            /\ \A x \in DOMAIN r.hmu : r.hmu[x] =
                    IF x = a THEN c ELSE IF x = a + c.size THEN d ELSE h.hmu[x]
        BY <4>1 DEF Two
      <4>3. a \in DOMAIN r.hmu /\ b \in DOMAIN r.hmu
        BY <4>1, <4>2
      <4>4. DOMAIN r.hmu = (DOMAIN h.hmu \ (a .. (a + both - 1))) \cup {a, b}
        <5>0. both \in Int /\ c.size \in Int /\ d.size \in Int
          BY <1>3, <2>2, <3>1, <3>2
        <5>1. a + c.size + d.size - 1 = a + both - 1
          BY <4>1, <5>0, <1>2
        <5> QED
          BY <4>1, <4>2, <5>1
      <4> QED
        BY <4>1, <4>2, <4>3, <4>4
    <3>13. b \in a .. (a + both - 1)
      BY <3>1, <1>2, <1>3
    <3>11. VoChunks(r) = VoChunks(h)
      <4>1. ASSUME NEW x \in VoChunks(r) PROVE x \in VoChunks(h)
        BY <3>2, <3>10, <1>1 DEF VoChunks, Starts
      <4>2. ASSUME NEW x \in VoChunks(h) PROVE x \in VoChunks(r)
        <5>1. x \in DOMAIN h.hmu /\ h.hmu[x].ut = "VO"
          BY DEF VoChunks, Starts
        <5>2. x # next
          BY <5>1, <1>1
        <5>3. x # a => x \notin a .. (a + both - 1)
          BY <5>1, <5>2, <2>6
        <5> QED
          BY <5>1, <5>3, <3>10, <3>13, <2>2 DEF VoChunks, Starts
      <4> QED
        BY <4>1, <4>2
    <3>12. VoGrown(h, r, a, tot)
      <4>1. \A x \in VoChunks(h) \ {a} : r.hmu[x].size = h.hmu[x].size
        BY <3>11, <3>10, <3>2, <1>1 DEF VoChunks, Starts
      <4> QED
        BY <3>10, <3>11, <4>1, <2>2, <1>1 DEF VoGrown
    <3> QED
      BY <1>8, <2>5, <3>5, <3>9, <3>12 DEF GrowOutcome, r
  <2>9. CASE ~(tot < both)
    <3>1. tot = both /\ r = g1
      BY <2>9, <1>1, <1>2, <1>3, <1>4, <1>8
    <3>2. a \in DOMAIN g.hmu /\ a + c.size \in DOMAIN g.hmu \cup {HeapUnits}
      BY <3>1, <2>2, <1>1, <1>3, <1>6
    <3>3. Tiled(g1.hmu) /\ FootsSound(g1.hmu, g1.foot)
      BY <2>2, <2>3, <2>5, <3>2, TileOne, FootOne
    <3>4. Sane(g1)
      BY <2>5, <3>3 DEF Sane
    <3>5. /\ DOMAIN g1.hmu = (DOMAIN h.hmu \ (a .. (a + both - 1))) \cup {a}
          /\ g1.hmu[a] = c
          /\ \A x \in DOMAIN g1.hmu : x # a => g1.hmu[x] = h.hmu[x]
      BY <3>1, <2>2, <2>5, <1>6 DEF SetHmu
    <3>6. VoChunks(g1) = VoChunks(h)
      <4>1. ASSUME NEW x \in VoChunks(g1) PROVE x \in VoChunks(h)
        BY <3>5, <1>1 DEF VoChunks, Starts
      <4>2. ASSUME NEW x \in VoChunks(h) PROVE x \in VoChunks(g1)
        <5>1. x \in DOMAIN h.hmu /\ h.hmu[x].ut = "VO"
          BY DEF VoChunks, Starts
        <5>2. x # next
          BY <5>1, <1>1
        <5>3. x # a => x \notin a .. (a + both - 1)
          BY <5>1, <5>2, <2>6
        <5> QED
          BY <5>1, <5>3, <3>5, <2>2 DEF VoChunks, Starts
      <4> QED
        BY <4>1, <4>2
    <3>7. VoGrown(h, g1, a, tot)
      <4>1. \A x \in VoChunks(h) \ {a} : g1.hmu[x].size = h.hmu[x].size
        BY <3>6, <3>5, <1>1 DEF VoChunks, Starts
      <4> QED
        BY <3>5, <3>6, <4>1, <2>2, <1>1 DEF VoGrown
    <3> QED
      BY <1>8, <2>5, <3>1, <3>4, <3>7 DEF GrowOutcome, r
  <2> QED
    BY <2>8, <2>9
<1> QED
  BY <1>6, <1>7, <1>8

----------------------------------------------------------------------------
(* The invariant.                                                          *)

IInv == Sane(heap) /\ TypeOK /\ PayloadFits

(* What one step may do to the VO chunks.                                  *)
BlockStep(h, g) ==
    \/ VoSame(h, g)
    \/ \E a \in Units : VoAdded(h, g, a, 0)
    \/ \E a \in Units : VoDropped(h, g, a)
    \/ \E a \in Units : \E n \in Nat : VoGrown(h, g, a, n)

(* The size computation of gc_alloc_vo and gc_realloc_vo: what passes the  *)
(* overflow test has room for the header and the payload.                  *)
LEMMA TotUnitsEnough ==
    ASSUME NEW size \in Requests, ~Overflows(size)
    PROVE  TotUnits(size) \in Nat /\ 8 * TotUnits(size) - HMU_SIZE >= size
<1> USE SizesAssumption, WordAssumption
<1>1. size \in Nat /\ size < Word /\ Word \in Nat /\ Word > 16 /\ Word % 8 = 0
  OBVIOUS
<1>2. \A x \in Nat : x < Word => x % Word = x
  BY <1>1
<1>3. \A x \in Nat : Word <= x /\ x < 2 * Word => x % Word = x - Word
  BY <1>1
<1> DEFINE u == (HMU_SIZE + size) % Word
           v == ((u + 7) \div 8) * 8
<1>4. TotSize(size) = v % Word
  BY DEF TotSize
<1>5. CASE HMU_SIZE + size < Word
  <2>1. u = HMU_SIZE + size
    BY <1>1, <1>2, <1>5 DEF HMU_SIZE
  <2> HIDE DEF u
  <2>2. v \in Nat /\ v >= u /\ v <= Word /\ v % 8 = 0 /\ u \in Nat
    BY <1>1, <1>5, <2>1 DEF HMU_SIZE
  <2> HIDE DEF v
  <2>3. CASE v = Word
    <3>1. v % Word = 0
      BY <2>3, <1>1, <1>3
    <3>2. size > 0
      BY <2>1, <2>2, <2>3, <1>1 DEF HMU_SIZE, v
    <3> QED
      BY <1>1, <1>4, <3>1, <3>2 DEF Overflows
  <2>4. CASE v # Word
    <3>1. TotSize(size) = v
      BY <1>1, <1>2, <1>4, <2>2, <2>4
    <3> QED
      BY <1>1, <2>1, <2>2, <3>1 DEF TotUnits, HMU_SIZE
  <2> QED
    BY <2>3, <2>4
<1>6. CASE ~(HMU_SIZE + size < Word)
  <2>1. u = HMU_SIZE + size - Word /\ u \in 0 .. 3
    BY <1>1, <1>3, <1>6 DEF HMU_SIZE
  <2> HIDE DEF u
  <2>2. v \in 0 .. 8
    BY <2>1
  <2> HIDE DEF v
  <2>3. v % Word = v
    BY <1>1, <1>2, <2>2
  <2> QED
    BY <1>1, <1>4, <1>6, <2>2, <2>3 DEF Overflows, HMU_SIZE
<1> QED
  BY <1>5, <1>6

(* A VO chunk starts in the pool and ends in it.                           *)
LEMMA VoInPool ==
    ASSUME NEW h, Sane(h), NEW a \in VoChunks(h)
    PROVE  /\ a \in Units /\ h.hmu[a].size \in 1 .. HeapUnits
           /\ a + h.hmu[a].size <= HeapUnits
<1>1. a \in DOMAIN h.hmu /\ HmuOK(h.hmu) /\ Tiled(h.hmu)
  BY DEF VoChunks, Starts, Sane, HeapOK
<1> QED
  BY <1>1 DEF HmuOK, Chunks, Tiled, ChunksEnd

(* PayloadFits in terms of the VO chunks.                                  *)
Held(h, l, d) ==
    /\ DOMAIN l \subseteq VoChunks(h) /\ d \subseteq VoChunks(h)
    /\ \A a \in DOMAIN l : 8 * h.hmu[a].size - HMU_SIZE >= l[a]
    /\ DOMAIN l \cap d = {}

(* Held is PayloadFits, with the three parts of the state as arguments.    *)
LEMMA HeldIsPayloadFits ==
    /\ PayloadFits <=> Held(heap, live, pend)
    /\ PayloadFits' <=> Held(heap', live', pend')
BY DEF PayloadFits, Held, VoChunks, Starts

(* What is held has its type.                                              *)
LEMMA HeldTypeOK ==
    ASSUME Sane(heap'), Held(heap', live', pend'), wild' \in BOOLEAN
    PROVE  IInv'
<1>1. \A a \in VoChunks(heap') : a \in Units
  BY VoInPool
<1>2. DOMAIN live' \subseteq Units /\ pend' \subseteq Units
  BY <1>1 DEF Held
<1> QED
  BY <1>2, HeldIsPayloadFits DEF IInv, TypeOK, Sane

(* An object is added to those held.                                       *)
LEMMA HeldAdded ==
    ASSUME NEW h, NEW g, NEW l, NEW d, Held(h, l, d), Sane(g),
           NEW a, NEW n \in Nat, VoAdded(h, g, a, n),
           NEW size \in Nat, 8 * n - HMU_SIZE >= size
    PROVE  Held(g, Put(l, a, size), d)
<1>1. /\ VoChunks(g) = VoChunks(h) \cup {a} /\ a \notin VoChunks(h)
      /\ \A x \in VoChunks(h) : g.hmu[x].size = h.hmu[x].size
      /\ g.hmu[a].size >= n
  BY DEF VoAdded, VoKept
<1>2. g.hmu[a].size \in Int
  BY <1>1, VoInPool, SizesAssumption
<1>3. 8 * g.hmu[a].size - HMU_SIZE >= size
  BY <1>1, <1>2 DEF HMU_SIZE
<1>4. /\ DOMAIN Put(l, a, size) = DOMAIN l \cup {a}
      /\ Put(l, a, size)[a] = size
      /\ \A x \in DOMAIN l : x # a => Put(l, a, size)[x] = l[x]
  BY DEF Put
<1>5. a \notin DOMAIN l /\ a \notin d
  BY <1>1 DEF Held
<1> QED
  BY <1>1, <1>3, <1>4, <1>5 DEF Held

(* What alloc_hmu does in a state that satisfies the invariant.            *)
LEMMA AllocStep ==
    ASSUME IInv, heap.corrupted = FALSE, NEW size \in Requests,
           ~Overflows(size)
    PROVE  AllocOutcome(heap, alloc_hmu(heap, TotUnits(size)), TotUnits(size))
BY TotUnitsEnough, AllocHmu DEF IInv

(* is_heap_corrupted is a Boolean.                                         *)
LEMMA CorruptedBool == ASSUME IInv PROVE heap.corrupted \in BOOLEAN
BY DEF IInv, Sane, HeapOK

(* A heap with one VO chunk more is a step of the abstract heap.           *)
LEMMA AddedStep ==
    ASSUME NEW h, NEW g, Sane(g), NEW a, NEW n \in Nat, VoAdded(h, g, a, n)
    PROVE  BlockStep(h, g)
<1>1. a \in Units /\ g.hmu[a].size \in 1 .. HeapUnits
  BY VoInPool DEF VoAdded
<1>2. VoAdded(h, g, a, 0)
  BY <1>1, SizesAssumption DEF VoAdded
<1> QED
  BY <1>1, <1>2 DEF BlockStep

(* gc_alloc_vo keeps the invariant.                                        *)
LEMMA StepAlloc ==
    ASSUME IInv, NEW size \in Requests, gc_alloc_vo(size)
    PROVE  IInv' /\ BlockStep(heap, heap')
<1> DEFINE r == alloc_hmu(heap, TotUnits(size))
           n == TotUnits(size)
<1>1. /\ heap' = r.heap
      /\ live' = IF r.obj = NULL THEN live ELSE Put(live, r.obj, size)
      /\ pend' = pend /\ wild' = wild /\ ~Overflows(size)
      /\ heap.corrupted = FALSE /\ wild \in BOOLEAN
  BY CorruptedBool DEF gc_alloc_vo, IInv, TypeOK
<1>2. AllocOutcome(heap, r, n)
  BY <1>1, AllocStep
<1>3. n \in Nat /\ 8 * n - HMU_SIZE >= size /\ size \in Nat
  BY <1>1, TotUnitsEnough, WordAssumption
<1>4. Held(heap, live, pend)
  BY HeldIsPayloadFits DEF IInv
<1> HIDE DEF r, n
<1>5. Sane(heap')
  BY <1>1, <1>2 DEF AllocOutcome
<1>6. CASE r.obj = NULL
  <2>1. VoSame(heap, heap') /\ live' = live
    BY <1>1, <1>2, <1>6 DEF AllocOutcome
  <2>2. Held(heap', live', pend')
    BY <1>1, <1>4, <2>1 DEF Held, VoSame, VoKept
  <2> QED
    BY <1>1, <1>5, <2>1, <2>2, HeldTypeOK DEF BlockStep
<1>7. CASE r.obj # NULL
  <2>1. VoAdded(heap, heap', r.obj, n) /\ live' = Put(live, r.obj, size)
    BY <1>1, <1>2, <1>7 DEF AllocOutcome
  <2>2. Held(heap', live', pend')
    BY <1>1, <1>3, <1>4, <1>5, <2>1, HeldAdded
  <2>3. BlockStep(heap, heap')
    BY <1>3, <1>5, <2>1, AddedStep
  <2> QED
    BY <1>1, <1>5, <2>2, <2>3, HeldTypeOK
<1> QED
  BY <1>6, <1>7

(* A free leaves the heap as it is, marks it, or drops the chunk.          *)
LEMMA StepFreeObj ==
    ASSUME IInv, NEW a \in VoChunks(heap), FreeObj(a)
    PROVE  /\ Sane(heap') /\ wild' \in BOOLEAN
           /\ VoSame(heap, heap') \/ VoDropped(heap, heap', a)
           /\ Exact(heap) => Exact(heap')
<1> DEFINE m == HasFooter(heap, a) /\ Prev(heap, a) \in Free(heap)
<1>1. Sane(heap) /\ wild \in BOOLEAN /\ heap.corrupted \in BOOLEAN
  BY CorruptedBool DEF IInv, TypeOK
<1>2. VoSame(heap, heap)
  BY DEF VoSame, VoKept
<1>3. CASE UNCHANGED heap /\ wild' \in BOOLEAN
  BY <1>1, <1>2, <1>3
<1>4. CASE /\ heap.corrupted = FALSE
           /\ heap' = FreeChunk(heap, a, m) /\ UNCHANGED wild
  <2>1. m \in BOOLEAN /\ (m => HasFooter(heap, a) /\ Prev(heap, a) \in Free(heap))
    BY DEF HasFooter
  <2> HIDE DEF m
  <2>2. FreeOutcome(heap, heap', a, m)
    BY <1>1, <1>4, <2>1, FreeChunkSane
  <2> QED
    BY <1>1, <1>4, <2>2 DEF FreeOutcome, m
<1> QED
  BY <1>1, <1>3, <1>4 DEF FreeObj

(* gc_free_vo keeps the invariant.                                         *)
LEMMA StepFree ==
    ASSUME IInv, NEW a \in DOMAIN live, gc_free_vo(a)
    PROVE  IInv' /\ BlockStep(heap, heap')
<1>1. Held(heap, live, pend)
  BY HeldIsPayloadFits DEF IInv
<1>2. /\ a \in VoChunks(heap) /\ FreeObj(a) /\ pend' = pend
      /\ live' = Drop(live, a) /\ a \notin pend
  BY <1>1 DEF Held, gc_free_vo
<1>3. /\ Sane(heap') /\ wild' \in BOOLEAN
      /\ VoSame(heap, heap') \/ VoDropped(heap, heap', a)
  BY <1>2, StepFreeObj
<1>4. DOMAIN live' = DOMAIN live \ {a} /\ \A x \in DOMAIN live' : live'[x] = live[x]
  BY <1>2 DEF Drop
<1>5. Held(heap', live', pend')
  BY <1>1, <1>2, <1>3, <1>4 DEF Held, VoSame, VoKept, VoDropped
<1>6. a \in Units
  BY <1>2, VoInPool DEF IInv
<1> QED
  BY <1>3, <1>5, <1>6, HeldTypeOK DEF BlockStep

(* The free that ends gc_realloc_vo keeps the invariant.                   *)
LEMMA StepReallocFree ==
    ASSUME IInv, NEW a \in pend, ReallocFree(a)
    PROVE  IInv' /\ BlockStep(heap, heap')
<1>1. Held(heap, live, pend)
  BY HeldIsPayloadFits DEF IInv
<1>2. /\ a \in VoChunks(heap) /\ FreeObj(a) /\ pend' = pend \ {a}
      /\ live' = live /\ a \notin DOMAIN live
  BY <1>1 DEF Held, ReallocFree
<1>3. /\ Sane(heap') /\ wild' \in BOOLEAN
      /\ VoSame(heap, heap') \/ VoDropped(heap, heap', a)
  BY <1>2, StepFreeObj
<1>5. Held(heap', live', pend')
  BY <1>1, <1>2, <1>3 DEF Held, VoSame, VoKept, VoDropped
<1>6. a \in Units
  BY <1>2, VoInPool DEF IInv
<1> QED
  BY <1>3, <1>5, <1>6, HeldTypeOK DEF BlockStep

(* gc_realloc_vo of a chunk that is large enough keeps the invariant.      *)
LEMMA StepReallocSame ==
    ASSUME IInv, NEW a \in DOMAIN live, NEW size \in Requests,
           ~Overflows(size), ReallocSame(a, size)
    PROVE  IInv' /\ BlockStep(heap, heap')
<1>1. Held(heap, live, pend) /\ Sane(heap) /\ wild \in BOOLEAN
  BY HeldIsPayloadFits DEF IInv, TypeOK
<1>2. /\ TotUnits(size) <= heap.hmu[a].size /\ live' = Put(live, a, size)
      /\ heap' = heap /\ pend' = pend /\ wild' = wild
  BY DEF ReallocSame
<1>3. /\ TotUnits(size) \in Nat /\ 8 * TotUnits(size) - HMU_SIZE >= size
      /\ size \in Int
  BY TotUnitsEnough, WordAssumption
<1>4. heap.hmu[a].size \in Int
  BY <1>1, VoInPool, SizesAssumption DEF Held
<1>5. 8 * heap.hmu[a].size - HMU_SIZE >= size
  BY <1>2, <1>3, <1>4 DEF HMU_SIZE
<1>6. Held(heap', live', pend')
  BY <1>1, <1>2, <1>5 DEF Held, Put
<1>7. VoSame(heap, heap')
  BY <1>2 DEF VoSame, VoKept
<1> QED
  BY <1>1, <1>2, <1>6, <1>7, HeldTypeOK DEF BlockStep

(* gc_realloc_vo in place keeps the invariant.                             *)
LEMMA StepReallocInPlace ==
    ASSUME IInv, heap.corrupted = FALSE, NEW a \in DOMAIN live,
           NEW size \in Requests, ~Overflows(size), ReallocInPlace(a, size)
    PROVE  IInv' /\ BlockStep(heap, heap')
<1> DEFINE n == TotUnits(size)
<1>1. Held(heap, live, pend) /\ Sane(heap) /\ wild \in BOOLEAN
  BY HeldIsPayloadFits DEF IInv, TypeOK
<1>2. PICK garbage \in BOOLEAN : heap' = Absorb(heap, a, n, garbage)
  BY DEF ReallocInPlace
<1>3. /\ CanAbsorb(heap, a, n) /\ pend' = pend /\ wild' = wild
      /\ live' = IF heap'.corrupted THEN live ELSE Put(live, a, size)
  BY DEF ReallocInPlace
<1>4. n \in Nat /\ 8 * n - HMU_SIZE >= size
  BY TotUnitsEnough
<1>5. a \in VoChunks(heap)
  BY <1>1 DEF Held
<1> HIDE DEF n
<1>6. GrowOutcome(heap, heap', a, n)
  BY <1>1, <1>2, <1>3, <1>4, <1>5, AbsorbSane
<1>7. Sane(heap')
  BY <1>6 DEF GrowOutcome
<1>8. CASE heap'.corrupted = TRUE /\ VoSame(heap, heap')
  <2>1. live' = live
    BY <1>3, <1>8
  <2>2. Held(heap', live', pend')
    BY <1>1, <1>3, <1>8, <2>1 DEF Held, VoSame, VoKept
  <2> QED
    BY <1>1, <1>3, <1>7, <1>8, <2>2, HeldTypeOK DEF BlockStep
<1>9. CASE heap'.corrupted = FALSE /\ VoGrown(heap, heap', a, n)
  <2>1. live' = Put(live, a, size)
    BY <1>3, <1>9
  <2>2. /\ DOMAIN live' = DOMAIN live \cup {a} /\ live'[a] = size
        /\ \A x \in DOMAIN live : x # a => live'[x] = live[x]
    BY <2>1 DEF Put
  <2>3. /\ VoChunks(heap') = VoChunks(heap) /\ heap'.hmu[a].size = n
        /\ \A x \in VoChunks(heap) \ {a} : heap'.hmu[x].size = heap.hmu[x].size
    BY <1>9 DEF VoGrown
  <2>4. Held(heap', live', pend')
    BY <1>1, <1>3, <1>4, <1>5, <2>2, <2>3 DEF Held
  <2>5. BlockStep(heap, heap')
    <3>1. a \in Units
      BY <1>1, <1>5, VoInPool
    <3> QED
      BY <3>1, <1>4, <1>9 DEF BlockStep
  <2> QED
    BY <1>1, <1>3, <1>7, <2>4, <2>5, HeldTypeOK
<1> QED
  BY <1>6, <1>8, <1>9 DEF GrowOutcome

(* gc_realloc_vo by allocating anew keeps the invariant.                   *)
LEMMA StepReallocMove ==
    ASSUME IInv, heap.corrupted = FALSE, NEW a \in DOMAIN live,
           NEW size \in Requests, ~Overflows(size), ReallocMove(a, size)
    PROVE  IInv' /\ BlockStep(heap, heap')
<1> DEFINE r == alloc_hmu(heap, TotUnits(size))
           n == TotUnits(size)
<1>1. /\ heap' = r.heap /\ wild' = wild /\ wild \in BOOLEAN
      /\ r.obj = NULL => live' = live /\ pend' = pend
      /\ r.obj # NULL => /\ live' = Put(Drop(live, a), r.obj, size)
                         /\ pend' = pend \cup {a}
  BY DEF ReallocMove, IInv, TypeOK
<1>2. AllocOutcome(heap, r, n)
  BY AllocStep
<1>3. n \in Nat /\ 8 * n - HMU_SIZE >= size /\ size \in Nat
  BY TotUnitsEnough, WordAssumption
<1>4. Held(heap, live, pend)
  BY HeldIsPayloadFits DEF IInv
<1> HIDE DEF r, n
<1>5. Sane(heap')
  BY <1>1, <1>2 DEF AllocOutcome
<1>6. CASE r.obj = NULL
  <2>1. VoSame(heap, heap') /\ live' = live /\ pend' = pend
    BY <1>1, <1>2, <1>6 DEF AllocOutcome
  <2>2. Held(heap', live', pend')
    BY <1>4, <2>1 DEF Held, VoSame, VoKept
  <2> QED
    BY <1>1, <1>5, <2>1, <2>2, HeldTypeOK DEF BlockStep
<1>7. CASE r.obj # NULL
  <2> DEFINE l == Drop(live, a)
  <2>1. /\ VoAdded(heap, heap', r.obj, n) /\ live' = Put(l, r.obj, size)
        /\ pend' = pend \cup {a}
    BY <1>1, <1>2, <1>7 DEF AllocOutcome
  <2>2. Held(heap, l, pend')
    BY <1>4, <2>1 DEF Held, Drop
  <2> HIDE DEF l
  <2>3. Held(heap', live', pend')
    BY <1>3, <1>5, <2>1, <2>2, HeldAdded
  <2>4. BlockStep(heap, heap')
    BY <1>3, <1>5, <2>1, AddedStep
  <2> QED
    BY <1>1, <1>5, <2>3, <2>4, HeldTypeOK
<1> QED
  BY <1>6, <1>7

(* After a migration every list entry is one of an earlier address range.  *)
LEMMA StepMigrate ==
    ASSUME IInv, gc_migrate
    PROVE  IInv' /\ BlockStep(heap, heap')
<1> USE SizesAssumption
<1> DEFINE bad == ~ChunksEnd(heap.hmu)
           E(b) == Units \X (0 .. b)
<1>1. /\ Sane(heap) /\ HeapOK(heap) /\ DOMAIN heap = HeapFields
      /\ wild \in BOOLEAN /\ heap.base \in Nat
  BY SMTT(30) DEF IInv, Sane, HeapOK, TypeOK
<1>2. /\ heap.base < MaxMigrations /\ bad \in BOOLEAN
      /\ heap' = [heap EXCEPT !.base = heap.base + 1, !.corrupted = bad]
      /\ live' = live /\ pend' = pend /\ wild' = wild
  BY DEF gc_migrate, ChunksEnd
<1> HIDE DEF bad
<1>3. /\ DOMAIN heap' = HeapFields /\ SameChunks(heap, heap')
      /\ heap'.base = heap.base + 1 /\ heap'.corrupted = bad
      /\ heap'.list = heap.list /\ heap'.tree = heap.tree
      /\ heap'.total_free_size = heap.total_free_size
      /\ heap'.highmark_size = heap.highmark_size
  BY <1>1, <1>2 DEF SameChunks, HeapFields
<1>4. heap.list \in [0 .. (NormalNodeCnt - 1) -> Seq(E(heap.base))]
  BY <1>1 DEF HeapOK
<1>5. ASSUME NEW i \in DOMAIN heap.list
      PROVE  /\ heap.list[i] \in Seq(E(heap'.base))
             /\ \A k \in 1 .. Len(heap.list[i]) : heap.list[i][k][2] # heap'.base
  <2> DEFINE s == heap.list[i]
             S == E(heap.base)
             T == E(heap'.base)
  <2>1. s \in Seq(S)
    BY <1>4, <1>5
  <2>2. S \subseteq T /\ \A e \in S : e[2] # heap'.base
    BY <1>1, <1>3
  <2> HIDE DEF s, S, T
  <2>3. \A k \in 1 .. Len(s) : s[k] \in S
    BY <2>1, ElementOfSeq
  <2>5. s \in Seq(T)
    BY <2>1, <2>2, <2>3, SeqMonotonic
  <2> QED
    BY <2>2, <2>3, <2>5 DEF s, T
<1>6. heap'.list \in [0 .. (NormalNodeCnt - 1) -> Seq(E(heap'.base))]
  <2> HIDE DEF E
  <2> QED
    BY <1>3, <1>4, <1>5
<1>7. HeapOK(heap')
  BY SMTT(30), <1>1, <1>2, <1>3, <1>6 DEF HeapOK, SameChunks
<1>8. KfcOK(heap')
  BY SMTT(30), <1>1, <1>3, <1>5 DEF Sane, KfcOK, ListsSound, SameChunks
<1>9. Sane(heap')
  BY <1>1, <1>3, <1>7, <1>8 DEF Sane, SameChunks
<1>10. VoSame(heap, heap')
  BY <1>3 DEF VoSame, VoKept, VoChunks, Starts, SameChunks
<1>11. Held(heap', live', pend')
  BY <1>2, <1>10, HeldIsPayloadFits DEF Held, VoSame, VoKept, IInv
<1> QED
  BY <1>1, <1>2, <1>9, <1>10, <1>11, HeldTypeOK DEF BlockStep

(* A step that changes nothing keeps the invariant.                        *)
LEMMA StepStutter ==
    ASSUME IInv, UNCHANGED vars
    PROVE  IInv' /\ BlockStep(heap, heap')
<1>1. heap' = heap /\ live' = live /\ pend' = pend /\ wild' = wild
  BY DEF vars
<1>2. VoSame(heap, heap')
  BY <1>1 DEF VoSame, VoKept
<1>3. Held(heap', live', pend') /\ Sane(heap') /\ wild' \in BOOLEAN
  BY <1>1, HeldIsPayloadFits DEF IInv, TypeOK
<1> QED
  BY <1>2, <1>3, HeldTypeOK DEF BlockStep

(* Every step of the heap keeps the invariant and is a step of BlockHeap.  *)
LEMMA StepNext ==
    ASSUME IInv, [Next]_vars
    PROVE  IInv' /\ BlockStep(heap, heap')
<1>1. ASSUME NEW size \in Requests, gc_alloc_vo(size)
      PROVE  IInv' /\ BlockStep(heap, heap')
  BY <1>1, StepAlloc
<1>2. ASSUME NEW a \in DOMAIN live, gc_free_vo(a)
      PROVE  IInv' /\ BlockStep(heap, heap')
  BY <1>2, StepFree
<1>3. ASSUME NEW a \in DOMAIN live, NEW size \in Requests,
             gc_realloc_vo(a, size)
      PROVE  IInv' /\ BlockStep(heap, heap')
  <2>1. ~Overflows(size) /\ heap.corrupted = FALSE
    BY <1>3, CorruptedBool DEF gc_realloc_vo
  <2>2. CASE ReallocSame(a, size)
    BY <2>1, <2>2, StepReallocSame
  <2>3. CASE ReallocInPlace(a, size)
    BY <2>1, <2>3, StepReallocInPlace
  <2>4. CASE ReallocMove(a, size)
    BY <2>1, <2>4, StepReallocMove
  <2> QED
    BY <1>3, <2>2, <2>3, <2>4 DEF gc_realloc_vo
<1>4. ASSUME NEW a \in pend, ReallocFree(a)
      PROVE  IInv' /\ BlockStep(heap, heap')
  BY <1>4, StepReallocFree
<1>5. CASE gc_migrate
  BY <1>5, StepMigrate
<1>6. CASE Refuse \/ UNCHANGED vars
  BY <1>6, StepStutter DEF Refuse
<1> QED
  BY <1>1, <1>2, <1>3, <1>4, <1>5, <1>6 DEF Next, CoreNext

(* gc_init_internal establishes the invariant.                             *)
LEMMA InitIInv == Init => IInv
<1> SUFFICES ASSUME Init PROVE IInv
  OBVIOUS
<1> USE SizesAssumption
<1>1. heap = InitHeap /\ live = [a \in {} |-> 0] /\ pend = {} /\ wild = FALSE
  BY DEF Init
<1>2. /\ DOMAIN heap = HeapFields
      /\ heap.hmu = [a \in {0} |-> Chunk("FC", HeapUnits, TRUE)]
      /\ heap.foot = [u \in Units |-> 0]
      /\ heap.list = [i \in 0 .. (NormalNodeCnt - 1) |-> <<>>]
      /\ DOMAIN heap.tree = {ROOT, 0}
      /\ heap.total_free_size = HeapUnits /\ heap.highmark_size = 0
      /\ heap.base = 0 /\ heap.corrupted = FALSE
  BY <1>1 DEF InitHeap, HeapFields
<1>3. HmuOK(heap.hmu) /\ Tiled(heap.hmu)
  BY <1>2 DEF HmuOK, Tiled, ChunksEnd, Chunk, Chunks, Units
<1>4. FootOK(heap.foot) /\ FootsSound(heap.hmu, heap.foot)
  BY <1>2 DEF FootOK, FootsSound
<1>5. HeapUnits < WordUnits
  BY WordAssumption DEF WordUnits
<1>6. heap.list \in [0 .. (NormalNodeCnt - 1) -> Seq(Units \X (0 .. heap.base))]
  BY <1>2, EmptySeq
<1>7. HeapOK(heap)
  <2>1. /\ WordUnits \in Nat /\ HeapUnits \in 0 .. (WordUnits - 1)
        /\ 0 \in 0 .. (WordUnits - 1) /\ 0 \in 0 .. MaxMigrations
    BY <1>5, ModBound
  <2>2. {ROOT, 0} \subseteq Units \cup {ROOT}
    BY DEF Units
  <2> QED
    BY <1>2, <1>3, <1>4, <1>6, <2>1, <2>2 DEF HeapOK
<1>8. TreeSound(heap.hmu, heap.tree)
  BY <1>2 DEF TreeSound, Chunk, IsFcNormal
<1>9. ListsSound(heap.hmu, heap.list, heap.base)
  <2>1. \A i \in DOMAIN heap.list : Len(heap.list[i]) = 0
    BY <1>2, EmptySeq
  <2> QED
    BY <2>1 DEF ListsSound
<1>10. Sane(heap)
  BY <1>3, <1>4, <1>7, <1>8, <1>9 DEF Sane, KfcOK
<1> QED
  BY <1>1, <1>7, <1>10 DEF IInv, TypeOK, PayloadFits

(* The inductive invariant holds in every state of the heap, whatever      *)
(* gc_alloc_vo, gc_free_vo, gc_realloc_vo and gc_migrate are called with.  *)
THEOREM Invariance == Spec => []IInv
<1>1. IInv /\ [Next]_vars => IInv'
  BY StepNext
<1> QED
  BY <1>1, InitIInv, PTL DEF Spec

(* TypeOK, for a heap of any size and requests of any size.                *)
THEOREM Types == Spec => []TypeOK
<1>1. IInv => TypeOK
  BY DEF IInv
<1> QED
  BY <1>1, Invariance, PTL

(* The chunks of the pool of gc_alloc_vo, gc_free_vo, gc_realloc_vo and    *)
(* gc_migrate always tile it.                                              *)
THEOREM AlwaysTiled == Spec => []Tiling
<1>1. IInv => Tiling
  BY DEF IInv, Sane, Tiling
<1> QED
  BY <1>1, Invariance, PTL

(* The lists and the tree that alloc_hmu takes chunks from hold only free  *)
(* chunks, in the right place.                                             *)
THEOREM AlwaysKfcSound == Spec => []KfcSound
<1>1. IInv => KfcSound
  BY DEF IInv, Sane, KfcOK, KfcSound
<1> QED
  BY <1>1, Invariance, PTL

(* Every footer that gc_free_vo recognises leads to a free chunk.          *)
THEOREM AlwaysFootSound == Spec => []FootSound
<1>1. IInv => FootSound
  BY DEF IInv, Sane, FootSound
<1> QED
  BY <1>1, Invariance, PTL

(* Every object returned by gc_alloc_vo and gc_realloc_vo has room for     *)
(* what was asked for, whatever gc_size_t does to the size.                *)
THEOREM AlwaysPayloadFits == Spec => []PayloadFits
<1>1. IInv => PayloadFits
  BY DEF IInv
<1> QED
  BY <1>1, Invariance, PTL

(* Without resizing in place the P bits stay exact.                        *)
LEMMA CoreStep ==
    ASSUME IInv, Exact(heap), [CoreNext]_vars
    PROVE  IInv' /\ Exact(heap')
<1>1. IInv'
  BY StepNext DEF Next
<1>2. ASSUME NEW size \in Requests, gc_alloc_vo(size)
      PROVE  Exact(heap')
  <2>1. ~Overflows(size) /\ heap.corrupted = FALSE /\ heap' = alloc_hmu(heap, TotUnits(size)).heap
    BY <1>2, CorruptedBool DEF gc_alloc_vo
  <2> QED
    BY <2>1, AllocStep DEF AllocOutcome
<1>3. ASSUME NEW a \in DOMAIN live, gc_free_vo(a)
      PROVE  Exact(heap')
  <2>1. a \in VoChunks(heap)
    BY HeldIsPayloadFits DEF IInv, Held
  <2> QED
    BY <1>3, <2>1, StepFreeObj DEF gc_free_vo
<1>4. CASE Refuse \/ UNCHANGED vars
  <2>1. heap' = heap
    BY <1>4 DEF Refuse, vars
  <2> QED
    BY <1>1, <2>1
<1> QED
  BY <1>1, <1>2, <1>3, <1>4 DEF CoreNext

(* A new heap is one free chunk.                                           *)
LEMMA InitExact == Init => Exact(heap)
<1> SUFFICES ASSUME Init PROVE Exact(heap)
  OBVIOUS
<1>1. heap.hmu = [a \in {0} |-> Chunk("FC", HeapUnits, TRUE)]
  BY DEF Init, InitHeap
<1>2. DOMAIN heap.hmu = {0} /\ heap.hmu[0] = [ut |-> "FC", size |-> HeapUnits, pinuse |-> TRUE]
  BY <1>1 DEF Chunk
<1>3. 0 + HeapUnits # 0 /\ HeapUnits >= GC_SMALLEST_SIZE
  BY SizesAssumption DEF GC_SMALLEST_SIZE
<1> QED
  BY <1>2, <1>3 DEF Exact

(* What holds while nobody resizes: the P bits are exact (Exact), in       *)
(* addition to all that holds otherwise.                                   *)
LEMMA CoreInvariance == CoreSpec => [](IInv /\ Exact(heap))
<1>1. IInv /\ Exact(heap) /\ [CoreNext]_vars => (IInv /\ Exact(heap))'
  BY CoreStep
<1> QED
  BY <1>1, InitIInv, InitExact, PTL DEF CoreSpec

(* The P bit of every chunk says whether the chunk before it is in use     *)
(* (ems_gc_internal.h:131), for gc_alloc_vo and gc_free_vo.                *)
THEOREM AlwaysPinuseExact == CoreSpec => []PinuseExact
<1>1. Exact(heap) => PinuseExact
  BY DEF Exact, PinuseExact, Starts
<1> QED
  BY <1>1, CoreInvariance, PTL

(* gc_free_vo leaves no two free chunks side by side.                      *)
THEOREM AlwaysNoAdjacentFree == CoreSpec => []NoAdjacentFree
<1>1. Exact(heap) => NoAdjacentFree
  BY DEF Exact, NoAdjacentFree, Free, Starts
<1> QED
  BY <1>1, CoreInvariance, PTL

(* The refinement: every step is a step of BlockHeap or changes no block.  *)
LEMMA BlocksNext ==
    ASSUME IInv, IInv', BlockStep(heap, heap')
    PROVE  [Blocks!Next]_([a \in VoChunks(heap) |-> heap.hmu[a].size])
<1> USE SizesAssumption
<1> DEFINE b == [a \in VoChunks(heap) |-> heap.hmu[a].size]
           c == [a \in VoChunks(heap') |-> heap'.hmu[a].size]
<1>1. Sane(heap) /\ Sane(heap') /\ Tiled(heap'.hmu)
  BY DEF IInv, Sane
<1>2. ASSUME NEW a \in VoChunks(heap')
      PROVE  /\ a \in 0 .. HeapUnits /\ heap'.hmu[a].size \in 1 .. HeapUnits
             /\ a + heap'.hmu[a].size <= HeapUnits /\ a \in Int
             /\ \A x \in VoChunks(heap') \ {a} :
                    Blocks!Apart(a, heap'.hmu[a].size, x, heap'.hmu[x].size)
  <2>1. /\ a \in Units /\ heap'.hmu[a].size \in 1 .. HeapUnits
        /\ a + heap'.hmu[a].size <= HeapUnits
    BY <1>1, VoInPool
  <2>2. \A x \in VoChunks(heap') : x \in Units
    BY <1>1, VoInPool
  <2>3. \A x, y \in VoChunks(heap') : x < y => x + heap'.hmu[x].size <= y
    BY <1>1 DEF Tiled, VoChunks, Starts
  <2> QED
    BY <2>1, <2>2, <2>3 DEF Units, Blocks!Apart
<1>3. CASE VoSame(heap, heap')
  <2>1. c = b
    BY <1>3 DEF VoSame, VoKept
  <2> QED
    BY <2>1
<1>4. ASSUME NEW a \in Units, VoAdded(heap, heap', a, 0)
      PROVE  Blocks!Next
  <2>1. /\ a \notin VoChunks(heap) /\ VoChunks(heap') = VoChunks(heap) \cup {a}
        /\ \A x \in VoChunks(heap) : heap'.hmu[x].size = heap.hmu[x].size
    BY <1>4 DEF VoAdded, VoKept
  <2>5. PICK n \in 1 .. HeapUnits : n = heap'.hmu[a].size
    BY <1>2, <2>1
  <2>2. /\ a \in 0 .. HeapUnits /\ n \in 1 .. HeapUnits /\ a + n <= HeapUnits
        /\ \A x \in VoChunks(heap) : Blocks!Apart(a, n, x, heap.hmu[x].size)
    BY <1>2, <2>1, <2>5
  <2>3. c = [x \in DOMAIN b \cup {a} |-> IF x = a THEN n ELSE b[x]]
    BY <2>1, <2>5
  <2>4. Blocks!Malloc(a, n)
    BY <2>1, <2>2, <2>3 DEF Blocks!Malloc, Blocks!Fits
  <2> QED
    BY <2>2, <2>4 DEF Blocks!Next
<1>5. ASSUME NEW a \in Units, VoDropped(heap, heap', a)
      PROVE  Blocks!Next
  <2>1. a \in DOMAIN b /\ c = [x \in DOMAIN b \ {a} |-> b[x]]
    BY <1>5 DEF VoDropped
  <2>2. Blocks!Release(a)
    BY <2>1 DEF Blocks!Release
  <2> QED
    BY <2>1, <2>2 DEF Blocks!Next
<1>6. ASSUME NEW a \in Units, NEW n \in Nat, VoGrown(heap, heap', a, n)
      PROVE  Blocks!Next
  <2>1. /\ a \in VoChunks(heap) /\ VoChunks(heap') = VoChunks(heap)
        /\ heap'.hmu[a].size = n /\ n > heap.hmu[a].size
        /\ \A x \in VoChunks(heap) \ {a} : heap'.hmu[x].size = heap.hmu[x].size
    BY <1>6 DEF VoGrown
  <2>2. /\ a \in 0 .. HeapUnits /\ n \in 1 .. HeapUnits /\ a + n <= HeapUnits
        /\ \A x \in VoChunks(heap) \ {a} : Blocks!Apart(a, n, x, heap.hmu[x].size)
    BY <1>2, <2>1
  <2>3. c = [b EXCEPT ![a] = n]
    BY <2>1
  <2>4. Blocks!Grow(a, n)
    BY <2>1, <2>2, <2>3 DEF Blocks!Grow, Blocks!Fits
  <2> QED
    BY <2>1, <2>2, <2>4 DEF Blocks!Next
<1> QED
  BY <1>3, <1>4, <1>5, <1>6 DEF BlockStep

(* Whatever the allocator does, its callers see a set of disjoint blocks   *)
(* in which one call touches one block: the same statement as the run's    *)
(* BlockHeapSpec, for every heap size.                                     *)
THEOREM Refinement == Spec => BlockHeapSpec
<1>1. Init => Blocks!Init
  <2> SUFFICES ASSUME Init PROVE Blocks!Init
    OBVIOUS
  <2>1. heap.hmu = [a \in {0} |-> Chunk("FC", HeapUnits, TRUE)]
    BY DEF Init, InitHeap
  <2>2. VoChunks(heap) = {}
    BY <2>1 DEF VoChunks, Starts, Chunk
  <2> QED
    BY <2>2 DEF Blocks!Init
<1>2. IInv /\ IInv' /\ [Next]_vars =>
        [Blocks!Next]_([a \in VoChunks(heap) |-> heap.hmu[a].size])
  BY StepNext, BlocksNext
<1> QED
  BY <1>1, <1>2, Invariance, PTL DEF Spec, BlockHeapSpec, Blocks!Spec

----------------------------------------------------------------------------
(* Walks through the tree.                                                 *)

(* Induction over the steps of a walk.                                     *)
LEMMA UpTo ==
    ASSUME NEW K \in Nat, NEW A, 0 \in A,
           \A n \in 0 .. (K - 1) : n \in A => n + 1 \in A
    PROVE  0 .. K \subseteq A
<1> DEFINE B == (0 .. K) \ A
<1>1. SUFFICES ASSUME B # {} PROVE FALSE
  OBVIOUS
<1>2. Min(B) \in B /\ \A y \in B : Min(B) <= y
  <2>1. B \in SUBSET (0 .. K)
    OBVIOUS
  <2> HIDE DEF B
  <2> QED
    BY <1>1, <2>1, MinMax
<1> DEFINE m == Min(B)
<1> HIDE DEF m
<1>3. m \in 0 .. K /\ m \notin A /\ \A y \in 0 .. K : y \notin A => m <= y
  BY <1>2 DEF m
<1>4. m - 1 \in 0 .. (K - 1) /\ m - 1 \in A /\ m - 1 + 1 = m
  BY <1>3
<1> QED
  BY <1>3, <1>4

(* A walk of K steps from t within S, each to where F leads.               *)
IsWalk(w, K, S, F, t) ==
    /\ w \in [0 .. K -> S]
    /\ w[0] = t
    /\ \A n \in 1 .. K : w[n] = F[w[n - 1]]

StaysIn(F, S) == F \in [S -> S]

(* There is such a walk.                                                   *)
LEMMA WalkExists ==
    ASSUME NEW K \in Nat, NEW S, NEW F, StaysIn(F, S), NEW t \in S
    PROVE  \E w : IsWalk(w, K, S, F, t)
<1> DEFINE A == {k \in 0 .. K : \E w : IsWalk(w, k, S, F, t)}
<1>1. 0 \in A
  <2>1. IsWalk([n \in 0 .. 0 |-> t], 0, S, F, t)
    BY DEF IsWalk
  <2>2. 0 \in 0 .. K
    OBVIOUS
  <2> QED
    BY <2>1, <2>2
<1>2. ASSUME NEW k \in 0 .. (K - 1), k \in A PROVE k + 1 \in A
  <2>1. PICK w : IsWalk(w, k, S, F, t)
    BY <1>2
  <2> DEFINE v == [n \in 0 .. (k + 1) |-> IF n = k + 1 THEN F[w[k]] ELSE w[n]]
  <2>2. v \in [0 .. (k + 1) -> S] /\ v[0] = t
    BY <2>1 DEF IsWalk, StaysIn
  <2>3. \A n \in 1 .. (k + 1) : v[n] = F[v[n - 1]]
    BY <2>1 DEF IsWalk
  <2> HIDE DEF v
  <2>4. k + 1 \in 0 .. K /\ IsWalk(v, k + 1, S, F, t)
    BY <2>2, <2>3 DEF IsWalk
  <2> QED
    BY <2>4
<1> HIDE DEF A
<1>3. 0 .. K \subseteq A
  BY <1>1, <1>2, UpTo
<1>4. K \in A
  BY <1>3
<1> QED
  BY <1>4 DEF A

(* What a search meets after node t.                                       *)
Turn(h, size, t) ==
    IF t = NULL THEN NULL
    ELSE IF NodeSize(h, t) < size THEN h.tree[t].right
    ELSE h.tree[t].left

Links(tree) == DOMAIN tree \cup {NULL}

(* Links lead to nodes.                                                    *)
Linked(tree) ==
    tree \in [DOMAIN tree -> [left : Links(tree), right : Links(tree),
                              parent : Links(tree)]]

(* The search from node t is a walk.                                       *)
LEMMA SearchWalk ==
    ASSUME NEW h, Cardinality(DOMAIN h.tree) \in Nat, Linked(h.tree),
           NEW size, NEW t \in Links(h.tree)
    PROVE  LET w == Walk(h, size, t) IN
           /\ w \in [Depths(h.tree) -> Links(h.tree)]
           /\ w[0] = t
           /\ \A n \in 1 .. Cardinality(DOMAIN h.tree) :
                    w[n] = Turn(h, size, w[n - 1])
<1> DEFINE K == Cardinality(DOMAIN h.tree)
           S == Links(h.tree)
           F == [x \in S |-> Turn(h, size, x)]
           Body(u) == [n \in 0 .. K |->
                IF n = 0 THEN t
                ELSE IF u[n - 1] = NULL THEN NULL
                ELSE IF NodeSize(h, u[n - 1]) < size THEN h.tree[u[n - 1]].right
                ELSE h.tree[u[n - 1]].left]
           w == Walk(h, size, t)
<1>1. F \in [S -> S]
  <2>1. ASSUME NEW x \in S PROVE Turn(h, size, x) \in S
    BY DEF Turn, Links, Linked
  <2> QED
    BY <2>1
<1>2. PICK v : IsWalk(v, K, S, F, t)
  <2>1. K \in Nat /\ t \in S /\ StaysIn(F, S)
    BY <1>1 DEF StaysIn
  <2> HIDE DEF F, S, K
  <2> QED
    BY <2>1, WalkExists
<1>3. \A n \in 1 .. K : v[n] = Turn(h, size, v[n - 1])
  <2>1. \A n \in 1 .. K : n - 1 \in 0 .. K
    OBVIOUS
  <2>2. \A n \in 1 .. K : v[n - 1] \in S
    BY <2>1, <1>2 DEF IsWalk
  <2> HIDE DEF S, K
  <2> QED
    BY <2>2, <1>2 DEF IsWalk
<1>4. v = Body(v)
  BY <1>2, <1>3 DEF Turn, IsWalk
<1>5. w = CHOOSE u : u = Body(u)
  BY DEF Walk, Depths
<1> HIDE DEF w
<1>6. w = Body(w)
  <2> HIDE DEF Body
  <2> QED
    BY <1>4, <1>5, Zenon
<1>7. DOMAIN w = 0 .. K /\ w[0] = t /\ \A n \in 1 .. K : w[n] = Turn(h, size, w[n - 1])
  <2>1. 0 \in 0 .. K /\ \A n \in 1 .. K : n \in 0 .. K /\ n # 0
    OBVIOUS
  <2> HIDE DEF K
  <2> QED
    BY <1>6, <2>1 DEF Turn
<1> DEFINE A == {n \in 0 .. K : w[n] \in S}
<1>8. 0 .. K \subseteq A
  <2>1. 0 \in A
    BY <1>7
  <2>2. ASSUME NEW n \in 0 .. (K - 1), n \in A PROVE n + 1 \in A
    <3>1. n + 1 \in 1 .. K /\ n + 1 - 1 = n /\ w[n] \in S
      BY <2>2
    <3>2. w[n + 1] = F[w[n]]
      BY <3>1, <1>7
    <3> QED
      BY <3>1, <3>2, <1>1
  <2> HIDE DEF A
  <2> QED
    BY <2>1, <2>2, UpTo
<1> QED
  BY <1>6, <1>7, <1>8 DEF Depths, w

----------------------------------------------------------------------------
(* The search tree. For each node, lo and hi are the nodes that bound its  *)
(* size from below and from above: those whose right, or left, subtree it  *)
(* is in.                                                                  *)

LeftOK(tree, lo, hi, t) ==
    LET c == tree[t].left
    IN  c # NULL => /\ c \in DOMAIN tree \ {ROOT} /\ c # tree[t].right
                    /\ tree[c].parent = t
                    /\ hi[c] = hi[t] \cup {t} /\ lo[c] = lo[t]

RightOK(tree, lo, hi, t) ==
    LET c == tree[t].right
    IN  c # NULL => /\ c \in DOMAIN tree \ {ROOT} /\ c # tree[t].left
                    /\ tree[c].parent = t
                    /\ lo[c] = lo[t] \cup {t} /\ hi[c] = hi[t]

BoundsOK(tree, sz, lo, hi, t) ==
    /\ lo[t] \subseteq DOMAIN tree /\ hi[t] \subseteq DOMAIN tree
    /\ t \notin lo[t] /\ t \notin hi[t]
    /\ sz[t] \in Int
    /\ \A y \in hi[t] : sz[t] <= sz[y]
    /\ \A y \in lo[t] : sz[t] > sz[y]

SearchTree(tree, sz, lo, hi) ==
    /\ Linked(tree)
    /\ ROOT \in DOMAIN tree /\ NULL \notin DOMAIN tree
    /\ tree[ROOT].left = NULL /\ tree[ROOT].parent = NULL
    /\ lo[ROOT] = {} /\ hi[ROOT] = {}
    /\ \A t \in DOMAIN tree : /\ LeftOK(tree, lo, hi, t)
                              /\ RightOK(tree, lo, hi, t)
                              /\ BoundsOK(tree, sz, lo, hi, t)
    /\ \A t \in DOMAIN tree \ {ROOT} : IsLinked(tree, t)

Without(f, p) == [t \in DOMAIN f \ {p} |-> f[t] \ {p}]

(* c takes the slot of p: p has no other child.                            *)
OnlyChild(tree, p, c) ==
    \/ tree[p].left = NULL /\ c = tree[p].right
    \/ tree[p].right = NULL /\ c = tree[p].left

(* The first two cases of remove_tree_node.                                *)
LEMMA SpliceTree ==
    ASSUME NEW tree, NEW sz, NEW lo, NEW hi, SearchTree(tree, sz, lo, hi),
           DOMAIN lo = DOMAIN tree, DOMAIN hi = DOMAIN tree,
           NEW p \in DOMAIN tree \ {ROOT}, NEW c, OnlyChild(tree, p, c)
    PROVE  SearchTree(Splice(tree, p, c), sz, Without(lo, p), Without(hi, p))
<1> DEFINE new == Splice(tree, p, c)
           lo1 == Without(lo, p)
           hi1 == Without(hi, p)
           D == DOMAIN tree \ {p}
<1>1. /\ Linked(tree) /\ ROOT \in DOMAIN tree /\ NULL \notin DOMAIN tree
      /\ tree[ROOT].left = NULL /\ tree[ROOT].parent = NULL
      /\ lo[ROOT] = {} /\ hi[ROOT] = {}
      /\ \A t \in DOMAIN tree : /\ LeftOK(tree, lo, hi, t)
                                /\ RightOK(tree, lo, hi, t)
                                /\ BoundsOK(tree, sz, lo, hi, t)
      /\ \A t \in DOMAIN tree \ {ROOT} : IsLinked(tree, t)
  BY DEF SearchTree
<1>2. /\ DOMAIN new = D
      /\ \A t \in D :
            /\ new[t] = [left |-> new[t].left, right |-> new[t].right,
                         parent |-> new[t].parent]
            /\ new[t].left = IF tree[t].left = p THEN c ELSE tree[t].left
            /\ new[t].right = IF tree[t].right = p THEN c ELSE tree[t].right
            /\ new[t].parent = IF t = c THEN tree[p].parent ELSE tree[t].parent
  BY DEF Splice
<1>3. /\ \A t \in D : lo1[t] = lo[t] \ {p} /\ hi1[t] = hi[t] \ {p}
      /\ DOMAIN lo1 = D /\ DOMAIN hi1 = D
  BY DEF Without
<1> HIDE DEF new, lo1, hi1
<1>4. /\ c # NULL => c \in D \ {ROOT} /\ tree[c].parent = p
      /\ c # NULL => lo[c] \ {p} = lo[p] /\ hi[c] \ {p} = hi[p]
      /\ c \in Links(tree)
  BY <1>1 DEF OnlyChild, LeftOK, RightOK, BoundsOK, Links
<1>5. /\ tree[p].parent \in D
      /\ p \in {tree[tree[p].parent].left, tree[tree[p].parent].right}
  <2>1. IsLinked(tree, p)
    BY <1>1
  <2>2. tree[p].parent \in lo[p] \cup hi[p]
    BY <1>1, <2>1 DEF IsLinked, LeftOK, RightOK
  <2> QED
    BY <1>1, <2>1, <2>2 DEF IsLinked, BoundsOK
<1>6. \A t \in D : tree[t].left = p \/ tree[t].right = p => tree[p].parent = t
  BY <1>1 DEF LeftOK, RightOK
<1>7. ASSUME NEW t \in D PROVE LeftOK(new, lo1, hi1, t)
  <2>1. SUFFICES ASSUME new[t].left # NULL
                 PROVE  LET l == new[t].left
                        IN  /\ l \in D \ {ROOT} /\ l # new[t].right
                            /\ new[l].parent = t
                            /\ hi1[l] = hi1[t] \cup {t} /\ lo1[l] = lo1[t]
    BY <1>2 DEF LeftOK
  <2>2. LeftOK(tree, lo, hi, t) /\ RightOK(tree, lo, hi, t)
    BY <1>1
  <2>3. CASE tree[t].left = p
    <3>1. new[t].left = c /\ c # NULL /\ c \in D \ {ROOT}
      BY <2>1, <2>3, <1>2, <1>4
    <3>2. p # tree[t].right /\ hi[p] = hi[t] \cup {t} /\ lo[p] = lo[t] /\ p # NULL
      BY <2>2, <2>3, <1>1 DEF LeftOK
    <3>3. new[t].right = tree[t].right /\ c # tree[t].right
      BY <2>2, <3>1, <3>2, <1>2, <1>4 DEF RightOK
    <3>4. new[c].parent = t
      BY <3>1, <2>3, <1>2, <1>6
    <3>5. p \notin lo[p] /\ p \notin hi[p]
      BY <1>1 DEF BoundsOK
    <3> QED
      BY <3>1, <3>2, <3>3, <3>4, <3>5, <1>3, <1>4
  <2>4. CASE tree[t].left # p
    <3> DEFINE l == tree[t].left
    <3>1. /\ new[t].left = l /\ l \in D \ {ROOT} /\ tree[l].parent = t
          /\ l # tree[t].right /\ hi[l] = hi[t] \cup {t} /\ lo[l] = lo[t]
      BY <2>1, <2>2, <2>4, <1>2 DEF LeftOK
    <3>2. l # c
      BY <3>1, <1>1, <1>4
    <3> HIDE DEF l
    <3>3. l # new[t].right /\ new[l].parent = t
      BY <3>1, <3>2, <1>2
    <3>4. hi1[l] = hi1[t] \cup {t} /\ lo1[l] = lo1[t]
      <4>1. t # p
        OBVIOUS
      <4> QED
        BY <3>1, <4>1, <1>3
    <3> QED
      BY <3>1, <3>3, <3>4
  <2> QED
    BY <2>3, <2>4
<1>8. ASSUME NEW t \in D PROVE RightOK(new, lo1, hi1, t)
  <2>1. SUFFICES ASSUME new[t].right # NULL
                 PROVE  LET l == new[t].right
                        IN  /\ l \in D \ {ROOT} /\ l # new[t].left
                            /\ new[l].parent = t
                            /\ lo1[l] = lo1[t] \cup {t} /\ hi1[l] = hi1[t]
    BY <1>2 DEF RightOK
  <2>2. LeftOK(tree, lo, hi, t) /\ RightOK(tree, lo, hi, t)
    BY <1>1
  <2>3. CASE tree[t].right = p
    <3>1. new[t].right = c /\ c # NULL /\ c \in D \ {ROOT}
      BY <2>1, <2>3, <1>2, <1>4
    <3>2. p # tree[t].left /\ lo[p] = lo[t] \cup {t} /\ hi[p] = hi[t] /\ p # NULL
      BY <2>2, <2>3, <1>1 DEF RightOK
    <3>3. new[t].left = tree[t].left /\ c # tree[t].left
      BY <2>2, <3>1, <3>2, <1>2, <1>4 DEF LeftOK
    <3>4. new[c].parent = t
      BY <3>1, <2>3, <1>2, <1>6
    <3>5. p \notin lo[p] /\ p \notin hi[p]
      BY <1>1 DEF BoundsOK
    <3> QED
      BY <3>1, <3>2, <3>3, <3>4, <3>5, <1>3, <1>4
  <2>4. CASE tree[t].right # p
    <3> DEFINE l == tree[t].right
    <3>1. /\ new[t].right = l /\ l \in D \ {ROOT} /\ tree[l].parent = t
          /\ l # tree[t].left /\ lo[l] = lo[t] \cup {t} /\ hi[l] = hi[t]
      BY <2>1, <2>2, <2>4, <1>2 DEF RightOK
    <3>2. l # c
      BY <3>1, <1>1, <1>4
    <3> HIDE DEF l
    <3>3. l # new[t].left /\ new[l].parent = t
      BY <3>1, <3>2, <1>2
    <3>4. lo1[l] = lo1[t] \cup {t} /\ hi1[l] = hi1[t]
      <4>1. t # p
        OBVIOUS
      <4> QED
        BY <3>1, <4>1, <1>3
    <3> QED
      BY <3>1, <3>3, <3>4
  <2> QED
    BY <2>3, <2>4
<1>9. ASSUME NEW t \in D PROVE BoundsOK(new, sz, lo1, hi1, t)
  BY <1>1, <1>2, <1>3 DEF BoundsOK
<1>10. ASSUME NEW t \in D \ {ROOT} PROVE IsLinked(new, t) /\ new[t].parent \in D
  <2>1. IsLinked(tree, t)
    BY <1>1
  <2>2. CASE t = c
    <3>1. new[t].parent = tree[p].parent
      BY <2>2, <1>2
    <3> QED
      BY <3>1, <2>2, <1>2, <1>5 DEF IsLinked
  <2>3. CASE t # c
    <3>1. tree[t].parent # p
      BY <2>1, <2>3, <1>1 DEF IsLinked, OnlyChild
    <3> QED
      BY <2>1, <2>3, <3>1, <1>2 DEF IsLinked
  <2> QED
    BY <2>2, <2>3
<1>11. Linked(new)
  <2>1. ASSUME NEW t \in D
        PROVE  /\ new[t].left \in Links(new) /\ new[t].right \in Links(new)
               /\ new[t].parent \in Links(new)
    <3>1. tree[t].left \in Links(tree) /\ tree[t].right \in Links(tree)
      BY <1>1 DEF Linked
    <3>2. new[t].left \in Links(new) /\ new[t].right \in Links(new)
      BY <3>1, <1>2, <1>4 DEF Links
    <3>3. CASE t = ROOT
      BY <3>2, <3>3, <1>1, <1>2, <1>4 DEF Links
    <3>4. CASE t # ROOT
      BY <3>2, <3>4, <1>2, <1>10 DEF Links
    <3> QED
      BY <3>3, <3>4
  <2>2. new = [t \in D |-> new[t]]
    BY DEF new, Splice
  <2>3. \A t \in D : new[t] \in [left : Links(new), right : Links(new), parent : Links(new)]
    BY <2>1, <1>2
  <2> QED
    BY <2>2, <2>3, <1>2 DEF Linked
<1>12. new[ROOT].left = NULL /\ new[ROOT].parent = NULL
  BY <1>1, <1>2, <1>4
<1> QED
  BY <1>1, <1>2, <1>3, <1>7, <1>8, <1>9, <1>10, <1>11, <1>12 DEF SearchTree, new, lo1, hi1

Swap(S, p, q) == IF p \in S THEN (S \ {p}) \cup {q} ELSE S

Renamed(f, p, q) ==
    [t \in (DOMAIN f \cup {q}) \ {p} |-> Swap(f[IF t = q THEN p ELSE t], p, q)]

(* The end of remove_tree_node's third case: q, which is not in the tree,  *)
(* fits where p is.                                                        *)
LEMMA TakePlaceTree ==
    ASSUME NEW tree, NEW sz, NEW lo, NEW hi, SearchTree(tree, sz, lo, hi),
           DOMAIN lo = DOMAIN tree, DOMAIN hi = DOMAIN tree,
           NEW p \in DOMAIN tree \ {ROOT},
           NEW q, q \notin DOMAIN tree, q # NULL, sz[q] \in Int,
           \A t \in DOMAIN tree \ {p} : /\ p \in hi[t] => sz[t] <= sz[q]
                                        /\ p \in lo[t] => sz[t] > sz[q],
           \A y \in hi[p] : sz[q] <= sz[y],
           \A y \in lo[p] : sz[q] > sz[y]
    PROVE  SearchTree(TakePlace(tree, p, q), sz, Renamed(lo, p, q), Renamed(hi, p, q))
<1> DEFINE new == TakePlace(tree, p, q)
           lo1 == Renamed(lo, p, q)
           hi1 == Renamed(hi, p, q)
           D == (DOMAIN tree \cup {q}) \ {p}
           As(t) == IF t = p THEN q ELSE t
           Old(t) == IF t = q THEN p ELSE t
<1>1. /\ Linked(tree) /\ ROOT \in DOMAIN tree /\ NULL \notin DOMAIN tree
      /\ tree[ROOT].left = NULL /\ tree[ROOT].parent = NULL
      /\ lo[ROOT] = {} /\ hi[ROOT] = {}
      /\ \A t \in DOMAIN tree : /\ LeftOK(tree, lo, hi, t)
                                /\ RightOK(tree, lo, hi, t)
                                /\ BoundsOK(tree, sz, lo, hi, t)
      /\ \A t \in DOMAIN tree \ {ROOT} : IsLinked(tree, t)
  BY DEF SearchTree
<1>2. /\ DOMAIN new = D
      /\ \A t \in D :
            new[t] = [left |-> As(tree[Old(t)].left), right |-> As(tree[Old(t)].right),
                      parent |-> As(tree[Old(t)].parent)]
  BY DEF TakePlace, Node
<1>3. /\ \A t \in D : /\ new[t].left = As(tree[Old(t)].left)
                      /\ new[t].right = As(tree[Old(t)].right)
                      /\ new[t].parent = As(tree[Old(t)].parent)
                      /\ Old(t) \in DOMAIN tree /\ As(Old(t)) = t
                      /\ Old(t) = ROOT <=> t = ROOT
                      /\ lo1[t] = Swap(lo[Old(t)], p, q)
                      /\ hi1[t] = Swap(hi[Old(t)], p, q)
      /\ \A t \in DOMAIN tree : As(t) \in D /\ Old(As(t)) = t
      /\ As(NULL) = NULL /\ As(ROOT) = ROOT
      /\ \A t \in Links(tree) : As(t) \in Links(new)
      /\ \A t, u \in Links(tree) : As(t) = As(u) => t = u
  <2>1. p # q /\ p # ROOT /\ q # ROOT /\ p # NULL /\ q # NULL
    BY <1>1
  <2>2. \A t \in D : /\ new[t].left = As(tree[Old(t)].left)
                     /\ new[t].right = As(tree[Old(t)].right)
                     /\ new[t].parent = As(tree[Old(t)].parent)
    <3>1. ASSUME NEW t \in D, NEW l, NEW r, NEW u,
                 new[t] = [left |-> l, right |-> r, parent |-> u]
          PROVE  new[t].left = l /\ new[t].right = r /\ new[t].parent = u
      BY <3>1
    <3> SUFFICES ASSUME NEW t \in D
                 PROVE  /\ new[t].left = As(tree[Old(t)].left)
                        /\ new[t].right = As(tree[Old(t)].right)
                        /\ new[t].parent = As(tree[Old(t)].parent)
      OBVIOUS
    <3> DEFINE l == As(tree[Old(t)].left)
               r == As(tree[Old(t)].right)
               u == As(tree[Old(t)].parent)
    <3>2. new[t] = [left |-> l, right |-> r, parent |-> u]
      BY <1>2
    <3> HIDE DEF l, r, u, D, new
    <3>3. new[t].left = l /\ new[t].right = r /\ new[t].parent = u
      BY <3>2, <3>1
    <3> QED
      BY <3>3 DEF l, r, u
  <2>3. \A t \in D : /\ lo1[t] = Swap(lo[Old(t)], p, q)
                     /\ hi1[t] = Swap(hi[Old(t)], p, q)
    BY DEF Renamed
  <2>4. \A t \in D : /\ Old(t) \in DOMAIN tree /\ As(Old(t)) = t
                     /\ Old(t) = ROOT <=> t = ROOT
    BY <2>1
  <2>5. \A t \in DOMAIN tree : As(t) \in D /\ Old(As(t)) = t
    BY <2>1
  <2>6. \A t \in Links(tree) : As(t) \in Links(new)
    BY <2>1, <1>2 DEF Links
  <2>7. \A t, u \in Links(tree) : As(t) = As(u) => t = u
    BY <2>1 DEF Links
  <2> QED
    BY <2>1, <2>2, <2>3, <2>4, <2>5, <2>6, <2>7
<1> HIDE DEF new, lo1, hi1
<1>4. \A t \in DOMAIN tree : /\ Swap(lo[t] \cup {t}, p, q) = Swap(lo[t], p, q) \cup {As(t)}
                             /\ Swap(hi[t] \cup {t}, p, q) = Swap(hi[t], p, q) \cup {As(t)}
  <2>1. \A t \in DOMAIN tree : t \notin lo[t] /\ t \notin hi[t]
    BY <1>1 DEF BoundsOK
  <2> QED
    BY <2>1 DEF Swap
<1>5. \A t \in DOMAIN tree : /\ tree[t].left \in Links(tree)
                             /\ tree[t].right \in Links(tree)
                             /\ tree[t].parent \in Links(tree)
  BY <1>1 DEF Linked
<1> HIDE DEF As, Old
<1>6. ASSUME NEW t \in D PROVE LeftOK(new, lo1, hi1, t)
  <2> DEFINE o == Old(t)
             l == tree[o].left
  <2>1. o \in DOMAIN tree /\ LeftOK(tree, lo, hi, o) /\ l \in Links(tree)
    BY <1>1, <1>3, <1>5
  <2>2. new[t].left = As(l) /\ new[t].right = As(tree[o].right) /\ As(o) = t
    BY <1>3
  <2>6. lo1[t] = Swap(lo[o], p, q) /\ hi1[t] = Swap(hi[o], p, q)
    BY <1>3
  <2>3. SUFFICES ASSUME As(l) # NULL
                 PROVE  /\ As(l) \in D \ {ROOT} /\ As(l) # As(tree[o].right)
                        /\ new[As(l)].parent = t
                        /\ hi1[As(l)] = hi1[t] \cup {t} /\ lo1[As(l)] = lo1[t]
    BY <2>2, <1>2 DEF LeftOK
  <2>4. /\ l \in DOMAIN tree \ {ROOT} /\ l # tree[o].right /\ tree[l].parent = o
        /\ hi[l] = hi[o] \cup {o} /\ lo[l] = lo[o]
    BY <2>1, <2>3, <1>3 DEF LeftOK
  <2> HIDE DEF o, l
  <2>5. As(l) \in D \ {ROOT} /\ As(l) # As(tree[o].right) /\ Old(As(l)) = l
    BY <2>1, <2>4, <1>3, <1>5
  <2>7. new[As(l)].parent = t
    BY <2>2, <2>4, <2>5, <1>3
  <2>8. hi1[As(l)] = Swap(hi[l], p, q) /\ lo1[As(l)] = Swap(lo[l], p, q)
    BY <2>5, <1>3
  <2>9. hi1[As(l)] = hi1[t] \cup {t} /\ lo1[As(l)] = lo1[t]
    BY <2>1, <2>2, <2>4, <2>6, <2>8, <1>4
  <2> QED
    BY <2>5, <2>7, <2>9
<1>7. ASSUME NEW t \in D PROVE RightOK(new, lo1, hi1, t)
  <2> DEFINE o == Old(t)
             l == tree[o].right
  <2>1. o \in DOMAIN tree /\ RightOK(tree, lo, hi, o) /\ l \in Links(tree)
    BY <1>1, <1>3, <1>5
  <2>2. new[t].right = As(l) /\ new[t].left = As(tree[o].left) /\ As(o) = t
    BY <1>3
  <2>6. lo1[t] = Swap(lo[o], p, q) /\ hi1[t] = Swap(hi[o], p, q)
    BY <1>3
  <2>3. SUFFICES ASSUME As(l) # NULL
                 PROVE  /\ As(l) \in D \ {ROOT} /\ As(l) # As(tree[o].left)
                        /\ new[As(l)].parent = t
                        /\ lo1[As(l)] = lo1[t] \cup {t} /\ hi1[As(l)] = hi1[t]
    BY <2>2, <1>2 DEF RightOK
  <2>4. /\ l \in DOMAIN tree \ {ROOT} /\ l # tree[o].left /\ tree[l].parent = o
        /\ lo[l] = lo[o] \cup {o} /\ hi[l] = hi[o]
    BY <2>1, <2>3, <1>3 DEF RightOK
  <2> HIDE DEF o, l
  <2>5. As(l) \in D \ {ROOT} /\ As(l) # As(tree[o].left) /\ Old(As(l)) = l
    BY <2>1, <2>4, <1>3, <1>5
  <2>7. new[As(l)].parent = t
    BY <2>2, <2>4, <2>5, <1>3
  <2>8. hi1[As(l)] = Swap(hi[l], p, q) /\ lo1[As(l)] = Swap(lo[l], p, q)
    BY <2>5, <1>3
  <2>9. lo1[As(l)] = lo1[t] \cup {t} /\ hi1[As(l)] = hi1[t]
    BY <2>1, <2>2, <2>4, <2>6, <2>8, <1>4
  <2> QED
    BY <2>5, <2>7, <2>9
<1>8. ASSUME NEW t \in D PROVE BoundsOK(new, sz, lo1, hi1, t)
  <2>1. ASSUME NEW S, S \subseteq DOMAIN tree
        PROVE  /\ Swap(S, p, q) \subseteq D
               /\ \A y \in Swap(S, p, q) : y \in S \/ (y = q /\ p \in S)
    <3>1. CASE p \in S
      <4>1. Swap(S, p, q) = (S \ {p}) \cup {q} /\ q \in D
        BY <3>1 DEF Swap
      <4> QED
        BY <4>1, <3>1, <2>1
    <3>2. CASE p \notin S
      <4>1. Swap(S, p, q) = S
        BY <3>2 DEF Swap
      <4>2. S \subseteq D
        BY <3>2, <2>1
      <4> HIDE DEF D
      <4> QED
        BY <4>1, <4>2, Zenon
    <3> QED
      BY <3>1, <3>2
  <2>2. BoundsOK(tree, sz, lo, hi, Old(t))
    BY <1>3, <1>1
  <2>3. lo1[t] \subseteq D /\ hi1[t] \subseteq D
    BY <2>1, <2>2, <1>3 DEF BoundsOK
  <2>4. CASE t = q
    <3>1. Old(t) = p /\ p \notin lo[p] /\ p \notin hi[p]
      BY <2>2, <2>4 DEF Old, BoundsOK
    <3>2. lo1[t] = lo[p] /\ hi1[t] = hi[p]
      BY <3>1, <1>3 DEF Swap
    <3> QED
      BY <3>1, <3>2, <2>2, <2>3, <2>4, <1>2 DEF BoundsOK
  <2>5. CASE t # q
    <3>1. Old(t) = t /\ t \in DOMAIN tree \ {p}
      BY <2>5 DEF Old
    <3>2. lo1[t] = Swap(lo[t], p, q) /\ hi1[t] = Swap(hi[t], p, q)
      BY <3>1, <1>3
    <3>3. t \notin lo1[t] /\ t \notin hi1[t]
      BY <3>1, <3>2, <2>1, <2>2, <2>5 DEF BoundsOK
    <3>4. /\ \A y \in hi1[t] : sz[t] <= sz[y]
          /\ \A y \in lo1[t] : sz[t] > sz[y]
      BY <3>1, <3>2, <2>1, <2>2 DEF BoundsOK
    <3> QED
      BY <3>1, <3>3, <3>4, <2>2, <2>3, <1>2 DEF BoundsOK
  <2> QED
    BY <2>4, <2>5
<1>9. ASSUME NEW t \in D \ {ROOT} PROVE IsLinked(new, t)
  <2> DEFINE o == Old(t)
             u == tree[o].parent
  <2>1. o \in DOMAIN tree \ {ROOT} /\ IsLinked(tree, o) /\ As(o) = t
    BY <1>1, <1>3
  <2>2. u \in DOMAIN tree /\ o \in {tree[u].left, tree[u].right}
    BY <2>1 DEF IsLinked
  <2>3. new[t].parent = As(u) /\ As(u) \in D /\ Old(As(u)) = u
    BY <2>2, <1>3
  <2> HIDE DEF o, u
  <2>4. new[As(u)].left = As(tree[u].left) /\ new[As(u)].right = As(tree[u].right)
    BY <2>3, <1>3
  <2> QED
    BY <2>1, <2>2, <2>3, <2>4, <1>2 DEF IsLinked
<1>10. Linked(new)
  <2>1. \A t \in D : new[t] \in [left : Links(new), right : Links(new), parent : Links(new)]
    <3>1. ASSUME NEW t \in D
          PROVE  new[t] \in [left : Links(new), right : Links(new), parent : Links(new)]
      <4> DEFINE o == Old(t)
      <4>1. o \in DOMAIN tree
        BY <1>3
      <4> HIDE DEF o
      <4>2. /\ As(tree[o].left) \in Links(new) /\ As(tree[o].right) \in Links(new)
            /\ As(tree[o].parent) \in Links(new)
        BY <4>1, <1>3, <1>5
      <4>3. new[t] = [left |-> As(tree[o].left), right |-> As(tree[o].right),
                      parent |-> As(tree[o].parent)]
        BY <1>2 DEF o
      <4> QED
        BY <4>2, <4>3
    <3> QED
      BY <3>1
  <2>2. new = [t \in D |-> new[t]]
    BY DEF new, TakePlace
  <2> QED
    BY <2>1, <2>2, <1>2 DEF Linked
<1>11. /\ ROOT \in D /\ NULL \notin D
       /\ new[ROOT].left = NULL /\ new[ROOT].parent = NULL
       /\ lo1[ROOT] = {} /\ hi1[ROOT] = {}
  <2>1. ROOT \in D /\ NULL \notin D /\ Old(ROOT) = ROOT
    BY <1>1, <1>3 DEF Old
  <2> QED
    <3>1. p \notin {}
      OBVIOUS
    <3>2. lo1[ROOT] = Swap({}, p, q) /\ hi1[ROOT] = Swap({}, p, q)
      <4>1. /\ lo1[ROOT] = Swap(lo[Old(ROOT)], p, q)
            /\ hi1[ROOT] = Swap(hi[Old(ROOT)], p, q)
        BY <2>1, <1>3
      <4>2. lo[Old(ROOT)] = {} /\ hi[Old(ROOT)] = {}
        BY <2>1, <1>1
      <4> QED
        BY <4>1, <4>2, Zenon
    <3>3. new[ROOT].left = As(NULL) /\ new[ROOT].parent = As(NULL)
      BY <2>1, <1>1, <1>3
    <3> QED
      BY <2>1, <3>1, <3>2, <3>3, <1>3 DEF Swap
<1> QED
  BY <1>2, <1>6, <1>7, <1>8, <1>9, <1>10, <1>11 DEF SearchTree, new, lo1, hi1

----------------------------------------------------------------------------
(* Depth in the tree.                                                      *)

Above(lo, hi, t) == lo[t] \cup hi[t]
Depth(lo, hi, t) == Cardinality(Above(lo, hi, t))

(* A node is less deep than there are nodes, and a child is one deeper     *)
(* than its parent.                                                        *)
LEMMA DepthBound ==
    ASSUME NEW tree, NEW sz, NEW lo, NEW hi, SearchTree(tree, sz, lo, hi),
           IsFiniteSet(DOMAIN tree), NEW t \in DOMAIN tree
    PROVE  /\ Depth(lo, hi, t) \in Nat
           /\ Depth(lo, hi, t) < Cardinality(DOMAIN tree)
           /\ \A c \in DOMAIN tree \ {ROOT} :
                c \in {tree[t].left, tree[t].right} =>
                    /\ Depth(lo, hi, c) = Depth(lo, hi, t) + 1
                    /\ Above(lo, hi, c) = Above(lo, hi, t) \cup {t}
<1> DEFINE S == Above(lo, hi, t)
           D == DOMAIN tree
<1>1. /\ BoundsOK(tree, sz, lo, hi, t) /\ LeftOK(tree, lo, hi, t)
      /\ RightOK(tree, lo, hi, t) /\ NULL \notin D
  BY DEF SearchTree
<1>2. S \subseteq D \ {t}
  BY <1>1 DEF BoundsOK, Above
<1>3. /\ IsFiniteSet(D \ {t}) /\ Cardinality(D \ {t}) = Cardinality(D) - 1
      /\ Cardinality(D) \in Nat
  BY FS_RemoveElement, FS_CardinalityType
<1>4. IsFiniteSet(S) /\ Cardinality(S) <= Cardinality(D \ {t}) /\ Cardinality(S) \in Nat
  BY <1>2, <1>3, FS_Subset, FS_CardinalityType
<1>5. ASSUME NEW c \in D \ {ROOT}, c \in {tree[t].left, tree[t].right}
      PROVE  Above(lo, hi, c) = S \cup {t}
  BY <1>1, <1>5 DEF LeftOK, RightOK, Above
<1>6. Cardinality(S \cup {t}) = Cardinality(S) + 1
  <2>1. t \notin S
    BY <1>2
  <2> QED
    BY <1>4, <2>1, FS_AddElement
<1> HIDE DEF S, D
<1>7. Depth(lo, hi, t) = Cardinality(S)
  BY DEF Depth, S
<1>8. Depth(lo, hi, t) \in Nat /\ Depth(lo, hi, t) < Cardinality(D)
  BY <1>3, <1>4, <1>7
<1>9. ASSUME NEW c \in D \ {ROOT}, c \in {tree[t].left, tree[t].right}
      PROVE  Depth(lo, hi, c) = Depth(lo, hi, t) + 1
  BY <1>5, <1>6, <1>7, <1>9 DEF Depth
<1> QED
  BY <1>5, <1>8, <1>9 DEF D, S

(* The parent of a node: the node is in its left subtree, or in its right  *)
(* one.                                                                    *)
LEMMA ParentOf ==
    ASSUME NEW tree, NEW sz, NEW lo, NEW hi, SearchTree(tree, sz, lo, hi),
           IsFiniteSet(DOMAIN tree), NEW x \in DOMAIN tree \ {ROOT}
    PROVE  LET u == tree[x].parent
           IN  /\ u \in DOMAIN tree
               /\ Depth(lo, hi, x) = Depth(lo, hi, u) + 1
               /\ \/ x = tree[u].left /\ hi[x] = hi[u] \cup {u} /\ lo[x] = lo[u]
                  \/ x = tree[u].right /\ lo[x] = lo[u] \cup {u} /\ hi[x] = hi[u]
<1> DEFINE u == tree[x].parent
<1>1. IsLinked(tree, x) /\ NULL \notin DOMAIN tree
  BY DEF SearchTree
<1>2. u \in DOMAIN tree /\ x \in {tree[u].left, tree[u].right}
  BY <1>1 DEF IsLinked
<1>3. LeftOK(tree, lo, hi, u) /\ RightOK(tree, lo, hi, u)
  BY <1>2 DEF SearchTree
<1>4. Depth(lo, hi, x) = Depth(lo, hi, u) + 1
  BY <1>2, DepthBound
<1> QED
  BY <1>1, <1>2, <1>3, <1>4 DEF LeftOK, RightOK

(* The way down: a node in a subtree is its top, or further down.          *)
Down(tree, lo, hi, x) ==
    /\ \A t \in hi[x] : LET c == tree[t].left
                        IN  c # NULL /\ (x = c \/ c \in Above(lo, hi, x))
    /\ \A t \in lo[x] : LET c == tree[t].right
                        IN  c # NULL /\ (x = c \/ c \in Above(lo, hi, x))
    /\ x # ROOT => ROOT \in lo[x]

(* It leads to every node of a search tree.                                *)
LEMMA WayDown ==
    ASSUME NEW tree, NEW sz, NEW lo, NEW hi, SearchTree(tree, sz, lo, hi),
           IsFiniteSet(DOMAIN tree), NEW x \in DOMAIN tree
    PROVE  Down(tree, lo, hi, x)
<1> DEFINE D == DOMAIN tree
           K == Cardinality(D)
           A == {n \in 0 .. K : \A y \in D : Depth(lo, hi, y) <= n => Down(tree, lo, hi, y)}
<1>0. K \in Nat
  BY FS_CardinalityType
<1>1. /\ \A y \in D : Depth(lo, hi, y) \in Nat /\ Depth(lo, hi, y) < K
      /\ lo[ROOT] = {} /\ hi[ROOT] = {} /\ tree[ROOT].left = NULL /\ NULL \notin D
      /\ \A y \in D : BoundsOK(tree, sz, lo, hi, y)
  BY DepthBound DEF SearchTree
<1>2. Down(tree, lo, hi, ROOT)
  BY <1>1 DEF Down
<1>3. ASSUME NEW y \in D, y # ROOT, Down(tree, lo, hi, tree[y].parent)
      PROVE  Down(tree, lo, hi, y)
  <2> DEFINE u == tree[y].parent
  <2>1. /\ u \in D
        /\ \/ y = tree[u].left /\ hi[y] = hi[u] \cup {u} /\ lo[y] = lo[u]
           \/ y = tree[u].right /\ lo[y] = lo[u] \cup {u} /\ hi[y] = hi[u]
    BY <1>3, ParentOf
  <2>2. Down(tree, lo, hi, u) /\ y # NULL /\ u \in Above(lo, hi, y)
        /\ Above(lo, hi, u) \subseteq Above(lo, hi, y)
    BY <1>1, <1>3, <2>1 DEF Above
  <2> HIDE DEF u
  <2>3. CASE y = tree[u].left /\ hi[y] = hi[u] \cup {u} /\ lo[y] = lo[u]
    <3>1. u # ROOT
      BY <2>2, <2>3, <1>1
    <3> QED
      BY <2>2, <2>3, <3>1 DEF Down
  <2>4. CASE y = tree[u].right /\ lo[y] = lo[u] \cup {u} /\ hi[y] = hi[u]
    BY <2>2, <2>4 DEF Down
  <2> QED
    BY <2>1, <2>3, <2>4
<1>4. 0 \in A
  <2>1. ASSUME NEW y \in D, Depth(lo, hi, y) <= 0 PROVE y = ROOT
    <3>1. SUFFICES ASSUME y # ROOT PROVE FALSE
      OBVIOUS
    <3>2. /\ tree[y].parent \in D
          /\ Depth(lo, hi, y) = Depth(lo, hi, tree[y].parent) + 1
      BY <3>1, ParentOf
    <3> QED
      BY <2>1, <3>2, <1>1
  <2> QED
    BY <1>0, <1>2, <2>1
<1>5. ASSUME NEW n \in 0 .. (K - 1), n \in A PROVE n + 1 \in A
  <2>1. ASSUME NEW y \in D, Depth(lo, hi, y) <= n + 1 PROVE Down(tree, lo, hi, y)
    <3>1. CASE y = ROOT
      BY <3>1, <1>2
    <3>2. CASE y # ROOT
      <4>1. /\ tree[y].parent \in D
            /\ Depth(lo, hi, y) = Depth(lo, hi, tree[y].parent) + 1
        BY <3>2, ParentOf
      <4>2. Depth(lo, hi, tree[y].parent) <= n
        BY <4>1, <2>1, <1>1
      <4>3. Down(tree, lo, hi, tree[y].parent)
        BY <4>1, <4>2, <1>5
      <4> QED
        BY <3>2, <4>3, <1>3
    <3> QED
      BY <3>1, <3>2
  <2> QED
    BY <1>0, <2>1
<1> HIDE DEF A
<1>6. 0 .. K \subseteq A
  BY <1>0, <1>4, <1>5, UpTo
<1>7. K \in A
  BY <1>0, <1>6
<1>8. Depth(lo, hi, x) <= K
  BY <1>0, <1>1
<1> QED
  BY <1>7, <1>8 DEF A

----------------------------------------------------------------------------
(* The predecessor of a node.                                              *)

(* Another function of sizes that agrees on the nodes will do.             *)
LEMMA SameSizes ==
    ASSUME NEW tree, NEW sz, NEW lo, NEW hi, SearchTree(tree, sz, lo, hi),
           NEW s2, \A t \in DOMAIN tree : s2[t] = sz[t]
    PROVE  SearchTree(tree, s2, lo, hi)
<1>1. ASSUME NEW t \in DOMAIN tree PROVE BoundsOK(tree, s2, lo, hi, t)
  <2>1. BoundsOK(tree, sz, lo, hi, t)
    BY DEF SearchTree
  <2> QED
    BY <2>1 DEF BoundsOK
<1> QED
  BY <1>1 DEF SearchTree

(* Predecessor is a walk to the right.                                     *)
RightOf(tree) ==
    [x \in DOMAIN tree |-> IF tree[x].right = NULL THEN x ELSE tree[x].right]

(* It starts in the left child.                                            *)
LEMMA PredecessorWalk ==
    ASSUME NEW tree, NEW sz, NEW lo, NEW hi, SearchTree(tree, sz, lo, hi),
           IsFiniteSet(DOMAIN tree),
           NEW p \in DOMAIN tree, tree[p].left # NULL
    PROVE  \E v : /\ IsWalk(v, Cardinality(DOMAIN tree), DOMAIN tree,
                            RightOf(tree), tree[p].left)
                  /\ Predecessor(tree, p) = v[Cardinality(DOMAIN tree)]
<1> DEFINE K == Cardinality(DOMAIN tree)
           S == DOMAIN tree
           F == RightOf(tree)
           t == tree[p].left
           Body(u) == [n \in 0 .. K |->
                IF n = 0 THEN t
                ELSE IF tree[u[n - 1]].right = NULL THEN u[n - 1]
                ELSE tree[u[n - 1]].right]
           w == CHOOSE u : u = Body(u)
<1>0. K \in Nat
  BY FS_CardinalityType
<1>1. StaysIn(F, S) /\ t \in S
  <2>1. ASSUME NEW x \in S PROVE tree[x].right = NULL \/ tree[x].right \in S
    BY DEF SearchTree, RightOK
  <2>2. t \in S
    BY DEF SearchTree, LeftOK
  <2> QED
    BY <2>1, <2>2 DEF StaysIn, RightOf
<1>2. PICK v : IsWalk(v, K, S, F, t)
  <2> HIDE DEF F, S, K, t
  <2> QED
    BY <1>0, <1>1, WalkExists
<1>3. \A n \in 1 .. K : v[n - 1] \in S
  <2>1. \A n \in 1 .. K : n - 1 \in 0 .. K
    BY <1>0
  <2> HIDE DEF S, K
  <2> QED
    BY <2>1, <1>2 DEF IsWalk
<1>4. v = Body(v)
  <2>1. v = [n \in 0 .. K |-> v[n]] /\ v[0] = t
    BY <1>2 DEF IsWalk
  <2>2. \A n \in 1 .. K : v[n] = F[v[n - 1]]
    BY <1>2 DEF IsWalk
  <2>3. \A n \in 1 .. K : v[n] = IF tree[v[n - 1]].right = NULL THEN v[n - 1]
                                 ELSE tree[v[n - 1]].right
    BY <1>3, <2>2 DEF RightOf
  <2>4. \A n \in 0 .. K : n = 0 \/ n \in 1 .. K
    BY <1>0
  <2> HIDE DEF K, S, F, t
  <2> QED
    BY <2>1, <2>3, <2>4
<1>5. Predecessor(tree, p) = w[K]
  BY DEF Predecessor, Depths
<1>6. w = Body(w)
  <2> HIDE DEF Body
  <2> QED
    BY <1>4, Zenon
<1> HIDE DEF w
<1>7. DOMAIN w = 0 .. K /\ w[0] = t
      /\ \A n \in 1 .. K : w[n] = IF tree[w[n - 1]].right = NULL THEN w[n - 1]
                                  ELSE tree[w[n - 1]].right
  <2>1. 0 \in 0 .. K /\ \A n \in 1 .. K : n \in 0 .. K /\ n # 0
    BY <1>0
  <2> HIDE DEF K, t
  <2> QED
    BY <1>6, <2>1
<1> DEFINE A == {n \in 0 .. K : w[n] \in S}
<1>8. 0 .. K \subseteq A
  <2>1. 0 \in A
    BY <1>0, <1>1, <1>7
  <2>2. ASSUME NEW n \in 0 .. (K - 1), n \in A PROVE n + 1 \in A
    <3>1. n + 1 \in 1 .. K /\ n + 1 - 1 = n /\ w[n] \in S
      BY <1>0, <2>2
    <3>2. w[n + 1] = F[w[n]]
      BY <3>1, <1>7 DEF RightOf
    <3> QED
      BY <3>1, <3>2, <1>0, <1>1 DEF StaysIn
  <2> HIDE DEF A
  <2> QED
    BY <1>0, <2>1, <2>2, UpTo
<1>9. IsWalk(w, K, S, F, t)
  <2>1. \A n \in 0 .. K : w[n] \in S
    BY <1>8
  <2>2. \A n \in 1 .. K : n - 1 \in 0 .. K
    BY <1>0
  <2>3. \A n \in 1 .. K : w[n] = F[w[n - 1]]
    BY <1>7, <2>1, <2>2 DEF RightOf
  <2>4. w \in [0 .. K -> S]
    <3>1. w = [n \in 0 .. K |-> w[n]]
      BY <1>6
    <3> HIDE DEF K, S
    <3> QED
      BY <3>1, <2>1
  <2> QED
    BY <1>7, <2>3, <2>4 DEF IsWalk
<1> QED
  BY <1>5, <1>9

(* Node y is on the way from p to its predecessor: whatever is in the left *)
(* subtree of p is y, below y, or smaller than a node that y is right of.  *)
Follows(tree, lo, hi, p, y) ==
    /\ y \in DOMAIN tree \ {ROOT}
    /\ hi[y] = hi[p] \cup {p} /\ lo[p] \subseteq lo[y]
    /\ \A x \in DOMAIN tree : p \in hi[x] =>
            \/ x = y \/ x \in lo[y] \/ y \in Above(lo, hi, x)
            \/ \E z \in lo[y] : z \in hi[x]

(* The predecessor has no right child, and is at least as large as the     *)
(* whole left subtree.                                                     *)
LEMMA PredecessorLast ==
    ASSUME NEW tree, NEW sz, NEW lo, NEW hi, SearchTree(tree, sz, lo, hi),
           IsFiniteSet(DOMAIN tree),
           NEW p \in DOMAIN tree \ {ROOT}, tree[p].left # NULL
    PROVE  LET q == Predecessor(tree, p)
           IN  /\ q \in DOMAIN tree \ {ROOT, p} /\ tree[q].right = NULL
               /\ hi[q] = hi[p] \cup {p} /\ lo[p] \subseteq lo[q]
               /\ \A x \in DOMAIN tree : p \in hi[x] => sz[x] <= sz[q]
<1> DEFINE K == Cardinality(DOMAIN tree)
           D == DOMAIN tree
           q == Predecessor(tree, p)
           c == tree[p].left
<1>0. /\ K \in Nat
      /\ \A x \in D : Depth(lo, hi, x) \in Nat /\ Depth(lo, hi, x) < K
      /\ \A x \in D : Down(tree, lo, hi, x)
      /\ \A x \in D : /\ BoundsOK(tree, sz, lo, hi, x) /\ RightOK(tree, lo, hi, x)
                      /\ LeftOK(tree, lo, hi, x)
  BY FS_CardinalityType, DepthBound, WayDown DEF SearchTree
<1>1. PICK v : IsWalk(v, K, D, RightOf(tree), c) /\ q = v[K]
  <2>1. p \in DOMAIN tree
    OBVIOUS
  <2> QED
    BY <2>1, PredecessorWalk
<1> DEFINE A == {n \in 0 .. K : /\ Follows(tree, lo, hi, p, v[n])
                                /\ \/ tree[v[n]].right = NULL
                                   \/ Depth(lo, hi, v[n]) >= n}
<1>2. 0 \in A
  <2>1. v[0] = c /\ c \in D \ {ROOT} /\ hi[c] = hi[p] \cup {p} /\ lo[c] = lo[p]
    BY <1>0, <1>1 DEF IsWalk, LeftOK
  <2>2. \A x \in D : p \in hi[x] => x = c \/ c \in Above(lo, hi, x)
    BY <1>0 DEF Down
  <2>3. Follows(tree, lo, hi, p, c)
    BY <2>1, <2>2 DEF Follows
  <2>4. Depth(lo, hi, c) >= 0
    BY <2>1, <1>0
  <2> QED
    BY <1>0, <2>1, <2>3, <2>4
<1>3. ASSUME NEW n \in 0 .. (K - 1), n \in A PROVE n + 1 \in A
  <2> DEFINE y == v[n]
             r == tree[y].right
  <2>1. /\ Follows(tree, lo, hi, p, y) /\ y \in D
        /\ r = NULL \/ Depth(lo, hi, y) >= n
    BY <1>3 DEF Follows
  <2>2. v[n + 1] = IF r = NULL THEN y ELSE r
    <3>1. n + 1 \in 1 .. K /\ n + 1 - 1 = n
      BY <1>0
    <3>2. v[n + 1] = RightOf(tree)[v[n + 1 - 1]]
      BY <1>1, <3>1 DEF IsWalk
    <3> QED
      BY <2>1, <3>1, <3>2 DEF RightOf
  <2> HIDE DEF y
  <2>3. CASE r = NULL
    BY <2>1, <2>2, <2>3, <1>0
  <2>4. CASE r # NULL
    <3>1. /\ r \in D \ {ROOT} /\ lo[r] = lo[y] \cup {y} /\ hi[r] = hi[y]
      BY <2>1, <2>4, <1>0 DEF RightOK
    <3>2. Depth(lo, hi, r) = Depth(lo, hi, y) + 1
      BY <2>1, <3>1, DepthBound
    <3>3. ASSUME NEW x \in D, p \in hi[x]
          PROVE  \/ x = r \/ x \in lo[r] \/ r \in Above(lo, hi, x)
                 \/ \E z \in lo[r] : z \in hi[x]
      <4>1. CASE x = y \/ x \in lo[y] \/ \E z \in lo[y] : z \in hi[x]
        BY <3>1, <4>1
      <4>2. CASE y \in hi[x]
        BY <3>1, <4>2
      <4>3. CASE y \in lo[x]
        BY <4>3, <1>0 DEF Down
      <4> QED
        BY <2>1, <3>3, <4>1, <4>2, <4>3 DEF Follows, Above
    <3>4. Follows(tree, lo, hi, p, r)
      BY <2>1, <3>1, <3>3 DEF Follows
    <3> HIDE DEF r
    <3>5. Depth(lo, hi, r) >= n + 1
      BY <2>1, <2>4, <3>2, <1>0
    <3> QED
      BY <2>2, <2>4, <3>4, <3>5, <1>0
  <2> QED
    BY <2>3, <2>4
<1> HIDE DEF A
<1>4. 0 .. K \subseteq A
  BY <1>0, <1>2, <1>3, UpTo
<1>5. K \in A
  BY <1>0, <1>4
<1>6. Follows(tree, lo, hi, p, q) /\ tree[q].right = NULL
  BY <1>0, <1>1, <1>5 DEF A, Follows
<1> HIDE DEF q
<1>7. q \in D \ {ROOT} /\ q # p /\ hi[q] = hi[p] \cup {p} /\ lo[p] \subseteq lo[q]
  BY <1>0, <1>6 DEF Follows, BoundsOK
<1>8. ASSUME NEW x \in D, p \in hi[x] PROVE sz[x] <= sz[q]
  <2>0. /\ BoundsOK(tree, sz, lo, hi, x) /\ BoundsOK(tree, sz, lo, hi, q)
        /\ sz[x] \in Int /\ sz[q] \in Int
    BY <1>0, <1>7 DEF BoundsOK
  <2>1. CASE x = q
    BY <2>0, <2>1
  <2>2. CASE x \in lo[q]
    BY <2>0, <2>2 DEF BoundsOK
  <2>3. CASE q \in hi[x]
    BY <2>0, <2>3 DEF BoundsOK
  <2>4. q \notin lo[x]
    BY <1>0, <1>6 DEF Down
  <2>5. ASSUME NEW z \in lo[q], z \in hi[x] PROVE sz[x] <= sz[q]
    <3>1. sz[z] \in Int /\ sz[x] <= sz[z] /\ sz[q] > sz[z]
      BY <2>0, <2>5, <1>0 DEF BoundsOK
    <3> QED
      BY <2>0, <3>1
  <2> QED
    BY <1>6, <1>8, <2>1, <2>2, <2>3, <2>4, <2>5 DEF Follows, Above
<1> QED
  BY <1>6, <1>7, <1>8 DEF q

(* Some choice of bounds makes it a search tree.                           *)
Searchable(tree, sz) ==
    \E lo, hi : /\ DOMAIN lo = DOMAIN tree /\ DOMAIN hi = DOMAIN tree
                /\ SearchTree(tree, sz, lo, hi)

(* remove_tree_node takes p out of a search tree and leaves a search tree. *)
LEMMA RemoveNode ==
    ASSUME NEW h, NEW sz, Searchable(h.tree, sz), IsFiniteSet(DOMAIN h.tree),
           NEW p \in DOMAIN h.tree \ {ROOT}
    PROVE  \E new : /\ remove_tree_node(h, p) = [h EXCEPT !.tree = new]
                    /\ Searchable(new, sz)
                    /\ DOMAIN new = DOMAIN h.tree \ {p}
<1> DEFINE tree == h.tree
           D == DOMAIN tree
<1>0. p \in DOMAIN tree \ {ROOT} /\ IsFiniteSet(DOMAIN tree)
  OBVIOUS
<1>1. PICK lo, hi : /\ DOMAIN lo = D /\ DOMAIN hi = D
                    /\ SearchTree(tree, sz, lo, hi)
  BY DEF Searchable
<1>2. \A t \in D \ {ROOT} : IsLinked(tree, t)
  BY <1>1 DEF SearchTree
<1>3. \A r, c : DOMAIN Splice(tree, r, c) = D \ {r}
  BY DEF Splice
<1>4. \A r : DOMAIN Without(lo, r) = D \ {r} /\ DOMAIN Without(hi, r) = D \ {r}
  BY <1>1 DEF Without
<1>5. ASSUME NEW c, OnlyChild(tree, p, c)
      PROVE  Searchable(Splice(tree, p, c), sz)
  <2>1. SearchTree(Splice(tree, p, c), sz, Without(lo, p), Without(hi, p))
    <3> HIDE DEF tree
    <3> QED
      BY <1>0, <1>1, <1>5, SpliceTree
  <2> QED
    BY <2>1, <1>3, <1>4 DEF Searchable
<1>6. CASE tree[p].left = NULL
  <2>1. remove_tree_node(h, p) = [h EXCEPT !.tree = Splice(tree, p, tree[p].right)]
    BY <1>2, <1>6 DEF remove_tree_node
  <2>2. OnlyChild(tree, p, tree[p].right)
    BY <1>6 DEF OnlyChild
  <2> QED
    BY <2>1, <2>2, <1>3, <1>5
<1>7. CASE tree[p].left # NULL /\ tree[p].right = NULL
  <2>1. remove_tree_node(h, p) = [h EXCEPT !.tree = Splice(tree, p, tree[p].left)]
    BY <1>2, <1>7 DEF remove_tree_node
  <2>2. OnlyChild(tree, p, tree[p].left)
    BY <1>7 DEF OnlyChild
  <2> QED
    BY <2>1, <2>2, <1>3, <1>5
<1>8. CASE tree[p].left # NULL /\ tree[p].right # NULL
  <2> DEFINE q == Predecessor(tree, p)
             t1 == Splice(tree, q, tree[q].left)
             l1 == Without(lo, q)
             h1 == Without(hi, q)
             new == TakePlace(t1, p, q)
  <2>1. /\ q \in D \ {ROOT, p} /\ tree[q].right = NULL
        /\ hi[q] = hi[p] \cup {p} /\ lo[p] \subseteq lo[q]
        /\ \A x \in D : p \in hi[x] => sz[x] <= sz[q]
    <3> HIDE DEF tree
    <3> QED
      BY <1>0, <1>1, <1>8, PredecessorLast
  <2>2. remove_tree_node(h, p) = [h EXCEPT !.tree = new]
    BY <1>2, <1>8, <2>1 DEF remove_tree_node
  <2>3. OnlyChild(tree, q, tree[q].left)
    BY <2>1 DEF OnlyChild
  <2> HIDE DEF tree, q
  <2>4. SearchTree(t1, sz, l1, h1)
    BY <1>1, <2>1, <2>3, SpliceTree
  <2>5. DOMAIN t1 = D \ {q} /\ DOMAIN l1 = D \ {q} /\ DOMAIN h1 = D \ {q}
    BY <1>3, <1>4
  <2>6. /\ \A t \in D \ {q} : l1[t] = lo[t] \ {q} /\ h1[t] = hi[t] \ {q}
    BY <1>1 DEF Without
  <2>7. \A t \in D : BoundsOK(tree, sz, lo, hi, t)
    BY <1>1 DEF SearchTree
  <2>8. /\ p \in DOMAIN t1 \ {ROOT} /\ q \notin DOMAIN t1 /\ q # NULL /\ sz[q] \in Int
        /\ sz[p] \in Int /\ sz[q] <= sz[p]
    <3>1. NULL \notin D
      BY <1>1 DEF SearchTree
    <3> QED
      BY <2>1, <2>5, <2>7, <3>1 DEF BoundsOK
  <2>9. \A t \in DOMAIN t1 \ {p} : /\ p \in h1[t] => sz[t] <= sz[q]
                                   /\ p \in l1[t] => sz[t] > sz[q]
    <3>1. ASSUME NEW t \in D \ {p, q}, p \in lo[t] PROVE sz[t] > sz[q]
      <4>1. sz[t] > sz[p] /\ sz[t] \in Int
        BY <3>1, <2>7 DEF BoundsOK
      <4> QED
        BY <4>1, <2>8
    <3> QED
      BY <2>1, <2>5, <2>6, <3>1
  <2>10. \A y \in h1[p] : sz[q] <= sz[y]
    <3>1. ASSUME NEW y \in hi[p] PROVE sz[q] <= sz[y]
      <4>1. y \in D /\ sz[p] <= sz[y] /\ sz[y] \in Int
        BY <1>0, <3>1, <2>7 DEF BoundsOK
      <4> QED
        BY <4>1, <2>8
    <3> QED
      BY <3>1, <2>6, <2>8, <1>0, <2>5
  <2>11. \A y \in l1[p] : sz[q] > sz[y]
    BY <2>1, <2>6, <2>7 DEF BoundsOK
  <2> HIDE DEF t1, l1, h1
  <2>12. SearchTree(new, sz, Renamed(l1, p, q), Renamed(h1, p, q))
    BY <2>4, <2>5, <2>8, <2>9, <2>10, <2>11, TakePlaceTree
  <2>13. /\ DOMAIN new = D \ {p}
         /\ DOMAIN Renamed(l1, p, q) = D \ {p} /\ DOMAIN Renamed(h1, p, q) = D \ {p}
    BY <2>1, <2>5 DEF TakePlace, Renamed
  <2> HIDE DEF new
  <2> QED
    BY <2>2, <2>12, <2>13 DEF Searchable, tree
<1> QED
  BY <1>6, <1>7, <1>8

----------------------------------------------------------------------------
(* Searching the tree for a size.                                          *)

(* The sizes of the nodes.                                                 *)
Sizes(h) == [t \in DOMAIN h.tree |-> NodeSize(h, t)]

(* Size s may be at node y, or below it.                                   *)
Fits(sz, lo, hi, s, y) ==
    /\ \A z \in hi[y] : s <= sz[z]
    /\ \A z \in lo[y] : s > sz[z]

(* A search for s from node t on goes down through nodes that s fits, and  *)
(* out of the tree.                                                        *)
LEMMA SearchPath ==
    ASSUME NEW h, NEW lo, NEW hi, SearchTree(h.tree, Sizes(h), lo, hi),
           IsFiniteSet(DOMAIN h.tree), NEW s \in Int,
           NEW t \in Links(h.tree)
    PROVE  LET w == Walk(h, s, t)
               K == Cardinality(DOMAIN h.tree)
           IN  /\ K \in Nat /\ w[0] = t /\ w[K] = NULL
               /\ \A n \in 0 .. K : w[n] \in Links(h.tree)
               /\ \A n \in 0 .. (K - 1) : w[n + 1] = Turn(h, s, w[n])
               /\ (t # NULL => Fits(Sizes(h), lo, hi, s, t)) =>
                    \A n \in 0 .. K : w[n] # NULL => Fits(Sizes(h), lo, hi, s, w[n])
<1> DEFINE w == Walk(h, s, t)
           K == Cardinality(DOMAIN h.tree)
           D == DOMAIN h.tree
           sz == Sizes(h)
           Start == t # NULL => Fits(sz, lo, hi, s, t)
<1>0. /\ K \in Nat /\ NULL \notin D
      /\ \A x \in D : Depth(lo, hi, x) \in Nat /\ Depth(lo, hi, x) < K
      /\ \A x \in D : /\ BoundsOK(h.tree, sz, lo, hi, x) /\ RightOK(h.tree, lo, hi, x)
                      /\ LeftOK(h.tree, lo, hi, x)
      /\ \A x \in D : sz[x] = NodeSize(h, x)
  BY FS_CardinalityType, DepthBound DEF SearchTree, Sizes
<1>1. /\ w \in [0 .. K -> Links(h.tree)]
      /\ w[0] = t
      /\ \A n \in 1 .. K : w[n] = Turn(h, s, w[n - 1])
  BY <1>0, SearchWalk DEF SearchTree, Depths
<1> HIDE DEF w
<1>2. /\ \A n \in 0 .. K : w[n] \in Links(h.tree)
      /\ \A n \in 0 .. (K - 1) : w[n + 1] = Turn(h, s, w[n])
  <2>1. ASSUME NEW n \in 0 .. (K - 1) PROVE w[n + 1] = Turn(h, s, w[n])
    <3>1. n + 1 \in 1 .. K /\ n + 1 - 1 = n
      BY <1>0
    <3> QED
      BY <3>1, <1>1
  <2> QED
    BY <2>1, <1>1
<1> DEFINE A == {n \in 0 .. K : w[n] # NULL => /\ Start => Fits(sz, lo, hi, s, w[n])
                                               /\ Depth(lo, hi, w[n]) >= n}
<1>3. 0 \in A
  BY <1>0, <1>1 DEF Links
<1>4. ASSUME NEW n \in 0 .. (K - 1), n \in A PROVE n + 1 \in A
  <2> DEFINE x == w[n]
             y == w[n + 1]
  <2>1. n + 1 \in 0 .. K /\ y = Turn(h, s, x) /\ x \in Links(h.tree)
    BY <1>0, <1>2
  <2>2. SUFFICES ASSUME y # NULL
                 PROVE  (Start => Fits(sz, lo, hi, s, y)) /\ Depth(lo, hi, y) >= n + 1
    BY <2>1
  <2>3. x \in D /\ (Start => Fits(sz, lo, hi, s, x)) /\ Depth(lo, hi, x) >= n
    BY <1>4, <2>1, <2>2 DEF Turn, Links
  <2> HIDE DEF x, y, sz, Start
  <2>4. CASE NodeSize(h, x) < s
    <3>1. y = h.tree[x].right /\ y \in D \ {ROOT} /\ lo[y] = lo[x] \cup {x} /\ hi[y] = hi[x]
      BY <2>1, <2>2, <2>3, <2>4, <1>0 DEF Turn, RightOK
    <3>2. Depth(lo, hi, y) = Depth(lo, hi, x) + 1
      BY <2>3, <3>1, DepthBound
    <3>3. sz[x] = NodeSize(h, x) /\ sz[x] \in Int
      BY <2>3, <1>0 DEF BoundsOK
    <3> QED
      BY <2>3, <2>4, <3>1, <3>2, <3>3, <1>0 DEF Fits
  <2>5. CASE ~(NodeSize(h, x) < s)
    <3>1. y = h.tree[x].left /\ y \in D \ {ROOT} /\ hi[y] = hi[x] \cup {x} /\ lo[y] = lo[x]
      BY <2>1, <2>2, <2>3, <2>5, <1>0 DEF Turn, LeftOK
    <3>2. Depth(lo, hi, y) = Depth(lo, hi, x) + 1
      BY <2>3, <3>1, DepthBound
    <3>3. sz[x] = NodeSize(h, x) /\ sz[x] \in Int
      BY <2>3, <1>0 DEF BoundsOK
    <3> QED
      BY <2>3, <2>5, <3>1, <3>2, <3>3, <1>0 DEF Fits
  <2> QED
    BY <2>4, <2>5
<1> HIDE DEF A
<1>5. 0 .. K \subseteq A
  BY <1>0, <1>3, <1>4, UpTo
<1>6. Start => \A n \in 0 .. K : w[n] # NULL => Fits(sz, lo, hi, s, w[n])
  BY <1>5 DEF A
<1>7. w[K] = NULL
  <2>1. K \in 0 .. K /\ K \in A
    BY <1>0, <1>5
  <2>2. SUFFICES ASSUME w[K] # NULL PROVE FALSE
    OBVIOUS
  <2>3. w[K] \in D /\ Depth(lo, hi, w[K]) >= K
    BY <2>1, <2>2, <1>2 DEF A, Links
  <2> QED
    BY <2>3, <1>0
<1> QED
  BY <1>0, <1>1, <1>2, <1>6, <1>7 DEF w

(* SlotOwner finds a node that has a free slot for size s.                 *)
LEMMA SlotFits ==
    ASSUME NEW h, NEW lo, NEW hi, SearchTree(h.tree, Sizes(h), lo, hi),
           IsFiniteSet(DOMAIN h.tree), NEW s \in Int
    PROVE  LET tp == SlotOwner(h, s)
           IN  /\ tp \in DOMAIN h.tree /\ Fits(Sizes(h), lo, hi, s, tp)
               /\ Turn(h, s, tp) = NULL
<1> DEFINE w == Walk(h, s, ROOT)
           K == Cardinality(DOMAIN h.tree)
           T == {n \in Depths(h.tree) : w[n] # NULL}
           m == Max(T)
<1>0. /\ ROOT \in DOMAIN h.tree /\ lo[ROOT] = {} /\ hi[ROOT] = {}
  BY DEF SearchTree
<1>1. /\ K \in Nat /\ w[0] = ROOT /\ w[K] = NULL
      /\ \A n \in 0 .. K : w[n] \in Links(h.tree)
      /\ \A n \in 0 .. (K - 1) : w[n + 1] = Turn(h, s, w[n])
      /\ \A n \in 0 .. K : w[n] # NULL => Fits(Sizes(h), lo, hi, s, w[n])
  <2>1. ROOT \in Links(h.tree) /\ Fits(Sizes(h), lo, hi, s, ROOT)
    BY <1>0 DEF Links, Fits
  <2> QED
    BY ZenonT(30), <2>1, SearchPath
<1>2. SlotOwner(h, s) = w[m]
  BY DEF SlotOwner
<1> HIDE DEF w
<1>3. T \in SUBSET (0 .. K) /\ T # {}
  <2>1. 0 \in T
    BY <1>1 DEF Depths, ROOT, NULL
  <2> QED
    BY <2>1 DEF Depths
<1>4. m \in T /\ \A n \in T : m >= n
  <2> HIDE DEF T
  <2> QED
    BY <1>1, <1>3, MinMax
<1>5. m \in 0 .. (K - 1) /\ w[m] # NULL
  BY <1>1, <1>3, <1>4
<1>6. w[m + 1] = NULL
  <2>1. m + 1 \in 0 .. K /\ ~(m >= m + 1)
    BY <1>1, <1>5
  <2> HIDE DEF m
  <2> QED
    BY <2>1, <1>4 DEF Depths
<1> HIDE DEF T, m
<1>7. m \in 0 .. K
  BY <1>1, <1>5
<1> QED
  BY <1>1, <1>2, <1>5, <1>6, <1>7 DEF Links

(* InsertNode puts a new node of size s in a search tree, and keeps it one.*)
LEMMA InsertTree ==
    ASSUME NEW h, Searchable(h.tree, Sizes(h)), IsFiniteSet(DOMAIN h.tree),
           NEW s \in Int, s > RootUnits,
           NEW a, a \notin DOMAIN h.tree, a # NULL,
           NEW sz, sz[a] = s, \A t \in DOMAIN h.tree : sz[t] = NodeSize(h, t)
    PROVE  Searchable(InsertNode(h, a, s), sz)
<1> DEFINE tree == h.tree
           D == DOMAIN tree
           tp == SlotOwner(h, s)
           new == InsertNode(h, a, s)
           E == D \cup {a}
           right == NodeSize(h, tp) < s
<1>1. PICK lo, hi : /\ DOMAIN lo = D /\ DOMAIN hi = D
                    /\ SearchTree(tree, Sizes(h), lo, hi)
  BY DEF Searchable
<1> DEFINE l1 == [t \in E |-> IF t # a THEN lo[t]
                              ELSE IF right THEN lo[tp] \cup {tp} ELSE lo[tp]]
           h1 == [t \in E |-> IF t # a THEN hi[t]
                              ELSE IF right THEN hi[tp] ELSE hi[tp] \cup {tp}]
<1>2. tp \in D /\ Fits(Sizes(h), lo, hi, s, tp) /\ Turn(h, s, tp) = NULL
  <2> HIDE DEF tp
  <2> QED
    BY <1>1, SlotFits DEF tp
<1>3. new = [t \in E |->
            IF t = a THEN Node(NULL, NULL, tp)
            ELSE IF t # tp THEN tree[t]
            ELSE IF right THEN [tree[t] EXCEPT !.right = a]
            ELSE [tree[t] EXCEPT !.left = a]]
  BY DEF InsertNode
<1>4. /\ Linked(tree) /\ ROOT \in D /\ NULL \notin D
      /\ tree[ROOT].left = NULL /\ tree[ROOT].parent = NULL
      /\ lo[ROOT] = {} /\ hi[ROOT] = {}
      /\ \A t \in D : /\ LeftOK(tree, lo, hi, t) /\ RightOK(tree, lo, hi, t)
      /\ \A t \in D \ {ROOT} : IsLinked(tree, t)
      /\ \A t \in D : BoundsOK(tree, sz, lo, hi, t)
      /\ \A t \in D : Sizes(h)[t] = sz[t] /\ NodeSize(h, t) = sz[t]
  <2>1. \A t \in D : sz[t] = Sizes(h)[t]
    BY DEF Sizes
  <2>2. SearchTree(tree, sz, lo, hi)
    BY <1>1, <2>1, SameSizes
  <2> QED
    BY <2>1, <2>2 DEF SearchTree
<1>5. right => tree[tp].right = NULL
  BY <1>2, <1>4 DEF Turn
<1>6. ~right => tree[tp].left = NULL /\ tp # ROOT
  <2>1. ~right => tp # ROOT
    BY SizesAssumption DEF NodeSize
  <2> QED
    BY <2>1, <1>2, <1>4 DEF Turn
<1> HIDE DEF new, tp
<1>7. /\ DOMAIN new = E
      /\ new[a].left = NULL /\ new[a].right = NULL /\ new[a].parent = tp
      /\ \A t \in D : /\ new[t].left = IF t = tp /\ ~right THEN a ELSE tree[t].left
                      /\ new[t].right = IF t = tp /\ right THEN a ELSE tree[t].right
                      /\ new[t].parent = tree[t].parent
  <2>1. \A t \in D : DOMAIN tree[t] = {"left", "right", "parent"}
    BY <1>4 DEF Linked
  <2>2. new[a] = Node(NULL, NULL, tp)
    BY <1>3
  <2>3. ASSUME NEW t \in D
        PROVE  /\ new[t].left = IF t = tp /\ ~right THEN a ELSE tree[t].left
               /\ new[t].right = IF t = tp /\ right THEN a ELSE tree[t].right
               /\ new[t].parent = tree[t].parent
    <3>1. CASE t # tp
      BY <3>1, <1>3
    <3>2. CASE t = tp /\ right
      <4>1. new[t] = [tree[t] EXCEPT !.right = a]
        BY <3>2, <1>3
      <4> QED
        BY <3>2, <4>1, <2>1
    <3>3. CASE t = tp /\ ~right
      <4>1. new[t] = [tree[t] EXCEPT !.left = a]
        BY <3>3, <1>3
      <4> QED
        BY <3>3, <4>1, <2>1
    <3> QED
      BY <3>1, <3>2, <3>3
  <2> QED
    BY <1>3, <2>2, <2>3 DEF Node
<1>8. /\ \A t \in D : l1[t] = lo[t] /\ h1[t] = hi[t]
      /\ l1[a] = IF right THEN lo[tp] \cup {tp} ELSE lo[tp]
      /\ h1[a] = IF right THEN hi[tp] ELSE hi[tp] \cup {tp}
      /\ DOMAIN l1 = E /\ DOMAIN h1 = E
  OBVIOUS
<1>9. a \notin D /\ a # ROOT /\ a # NULL
  BY <1>4
<1> HIDE DEF l1, h1, right, tree
<1>10. ASSUME NEW t \in E PROVE LeftOK(new, l1, h1, t)
  <2>1. CASE t = a
    BY <2>1, <1>7 DEF LeftOK
  <2>2. CASE t = tp /\ ~right
    <3>1. tree[t].right # a
      BY <1>2, <1>4, <1>9, <2>2 DEF RightOK
    <3> QED
      BY <2>2, <3>1, <1>2, <1>7, <1>8, <1>9 DEF LeftOK
  <2>3. CASE t # a /\ ~(t = tp /\ ~right)
    BY <2>3, <1>4, <1>7, <1>8, <1>9 DEF LeftOK
  <2> QED
    BY <2>1, <2>2, <2>3
<1>11. ASSUME NEW t \in E PROVE RightOK(new, l1, h1, t)
  <2>1. CASE t = a
    BY <2>1, <1>7 DEF RightOK
  <2>2. CASE t = tp /\ right
    <3>1. tree[t].left # a
      BY <1>2, <1>4, <1>9, <2>2 DEF LeftOK
    <3> QED
      BY <2>2, <3>1, <1>2, <1>7, <1>8, <1>9 DEF RightOK
  <2>3. CASE t # a /\ ~(t = tp /\ right)
    <3>1. /\ t \in D /\ RightOK(tree, lo, hi, t)
          /\ new[t].right = tree[t].right
          /\ new[t].left = tree[t].left \/ new[t].left = a
      BY <2>3, <1>4, <1>7
    <3>2. \A c \in D : new[c].parent = tree[c].parent /\ c # a
      BY <1>7, <1>9
    <3> QED
      BY <3>1, <3>2, <1>7, <1>8 DEF RightOK
  <2> QED
    BY <2>1, <2>2, <2>3
<1>12. ASSUME NEW t \in E PROVE BoundsOK(new, sz, l1, h1, t)
  <2>1. CASE t \in D
    BY <2>1, <1>4, <1>7, <1>8 DEF BoundsOK
  <2>2. CASE t = a
    <3>1. /\ lo[tp] \subseteq D /\ hi[tp] \subseteq D
          /\ \A z \in hi[tp] : s <= sz[z]
          /\ \A z \in lo[tp] : s > sz[z]
      BY <1>2, <1>4 DEF BoundsOK, Fits
    <3>2. sz[tp] \in Int /\ (right <=> sz[tp] < s)
      BY <1>2, <1>4 DEF BoundsOK, right
    <3> QED
      <4>1. CASE right
        <5>1. l1[t] = lo[tp] \cup {tp} /\ h1[t] = hi[tp]
          BY <2>2, <4>1, <1>8
        <5> QED
          BY <2>2, <3>1, <3>2, <4>1, <5>1, <1>2, <1>7, <1>9 DEF BoundsOK
      <4>2. CASE ~right
        <5>1. l1[t] = lo[tp] /\ h1[t] = hi[tp] \cup {tp}
          BY <2>2, <4>2, <1>8
        <5> QED
          BY <2>2, <3>1, <3>2, <4>2, <5>1, <1>2, <1>7, <1>9 DEF BoundsOK
      <4> QED
        BY <4>1, <4>2
  <2> QED
    BY <2>1, <2>2
<1>13. ASSUME NEW t \in E \ {ROOT} PROVE IsLinked(new, t)
  <2>1. CASE t = a
    BY <2>1, <1>2, <1>7, <1>9 DEF IsLinked
  <2>2. CASE t # a
    <3> DEFINE u == tree[t].parent
    <3>1. t \in D \ {ROOT} /\ u \in D /\ t \in {tree[u].left, tree[u].right} /\ t # NULL
      BY <2>2, <1>4 DEF IsLinked
    <3>2. t \in {new[u].left, new[u].right}
      BY <3>1, <1>5, <1>6, <1>7
    <3> QED
      BY <3>1, <3>2, <1>7 DEF IsLinked
  <2> QED
    BY <2>1, <2>2
<1>14. Linked(new)
  <2>1. ASSUME NEW t \in E
        PROVE  new[t] \in [left : Links(new), right : Links(new), parent : Links(new)]
    <3>1. Links(new) = Links(tree) \cup {a}
      BY <1>7 DEF Links
    <3>2. t \in D => tree[t] \in [left : Links(tree), right : Links(tree), parent : Links(tree)]
      BY <1>4 DEF Linked
    <3>3. a \in Links(new) /\ NULL \in Links(new) /\ tp \in Links(new)
      BY <1>2, <1>7 DEF Links
    <3>4. CASE t = a
      BY <3>3, <3>4, <1>3 DEF Node
    <3>5. CASE t # a /\ t # tp
      <4>1. new[t] = tree[t] /\ t \in D
        BY <3>5, <1>3
      <4> QED
        BY <4>1, <3>1, <3>2
    <3>6. CASE t # a /\ t = tp /\ right
      <4>1. new[t] = [tree[t] EXCEPT !.right = a] /\ t \in D
        BY <3>6, <1>3
      <4> QED
        BY <4>1, <3>1, <3>2, <3>3
    <3>7. CASE t # a /\ t = tp /\ ~right
      <4>1. new[t] = [tree[t] EXCEPT !.left = a] /\ t \in D
        BY <3>7, <1>3
      <4> QED
        BY <4>1, <3>1, <3>2, <3>3
    <3> QED
      BY <3>4, <3>5, <3>6, <3>7
  <2>2. new = [t \in E |-> new[t]]
    BY <1>3
  <2> QED
    BY <2>1, <2>2, <1>7 DEF Linked
<1>15. /\ ROOT \in E /\ NULL \notin E
       /\ new[ROOT].left = NULL /\ new[ROOT].parent = NULL
       /\ l1[ROOT] = {} /\ h1[ROOT] = {}
  BY <1>4, <1>6, <1>7, <1>8, <1>9
<1>16. SearchTree(new, sz, l1, h1)
  BY <1>7, <1>10, <1>11, <1>12, <1>13, <1>14, <1>15 DEF SearchTree
<1> QED
  BY <1>7, <1>8, <1>16 DEF Searchable, new

(* BestFit finds the smallest node that is large enough.                   *)
LEMMA BestFitExact ==
    ASSUME NEW h, Searchable(h.tree, Sizes(h)), IsFiniteSet(DOMAIN h.tree),
           NEW s \in Int
    PROVE  LET tp == BestFit(h, s)
           IN  /\ tp = NULL => \A x \in TreeNodes(h) : NodeSize(h, x) < s
               /\ tp # NULL =>
                    /\ tp \in TreeNodes(h) /\ NodeSize(h, tp) >= s
                    /\ \A x \in TreeNodes(h) :
                        NodeSize(h, x) >= s => NodeSize(h, tp) <= NodeSize(h, x)
<1> DEFINE K == Cardinality(DOMAIN h.tree)
           D == DOMAIN h.tree
           t == h.tree[ROOT].right
           w == Walk(h, s, t)
           Sz(x) == NodeSize(h, x)
           Large == {x \in TreeNodes(h) : Sz(x) >= s}
           hits == {n \in Depths(h.tree) : /\ w[n] \in TreeNodes(h)
                                           /\ NodeSize(h, w[n]) >= s}
           tp == BestFit(h, s)
<1>1. PICK lo, hi : SearchTree(h.tree, Sizes(h), lo, hi)
  BY DEF Searchable
<1>2. /\ \A x \in D : Down(h.tree, lo, hi, x)
      /\ \A x \in D : /\ RightOK(h.tree, lo, hi, x) /\ LeftOK(h.tree, lo, hi, x)
                      /\ Sz(x) \in Int
                      /\ \A y \in hi[x] : y \in D /\ Sz(x) <= Sz(y)
                      /\ \A y \in lo[x] : y \in D /\ Sz(x) > Sz(y)
      /\ ROOT \in D /\ NULL \notin D
  <2>1. \A x \in D : Sizes(h)[x] = Sz(x)
    BY DEF Sizes
  <2>2. \A x \in D : BoundsOK(h.tree, Sizes(h), lo, hi, x)
    BY <1>1 DEF SearchTree
  <2> HIDE DEF Sz
  <2>3. ASSUME NEW x \in D
        PROVE  /\ Sz(x) \in Int
               /\ \A y \in hi[x] : y \in D /\ Sz(x) <= Sz(y)
               /\ \A y \in lo[x] : y \in D /\ Sz(x) > Sz(y)
    BY <2>1, <2>2 DEF BoundsOK
  <2> QED
    BY <1>1, <2>3, WayDown DEF SearchTree
<1>3. /\ K \in Nat /\ w[0] = t /\ w[K] = NULL
      /\ \A n \in 0 .. K : w[n] \in Links(h.tree)
      /\ \A n \in 0 .. (K - 1) : w[n + 1] = Turn(h, s, w[n])
  <2>1. t \in Links(h.tree)
    BY <1>2 DEF RightOK, Links
  <2> HIDE DEF t
  <2> QED
    BY ZenonT(30), <1>1, <2>1, SearchPath
<1> DEFINE Hit(j) == w[j] \in Large
           P0(n) == w[n] # NULL => w[n] \in TreeNodes(h)
           P1(n) == \A x \in Large :
                        \/ w[n] # NULL /\ (x = w[n] \/ w[n] \in Above(lo, hi, x))
                        \/ \E j \in 0 .. (n - 1) : Hit(j) /\ Sz(w[j]) <= Sz(x)
           P2(n) == w[n] # NULL => \A j \in 0 .. (n - 1) : Hit(j) => w[j] \in hi[w[n]]
           A == {n \in 0 .. K : P0(n) /\ P1(n) /\ P2(n)}
<1> HIDE DEF w
<1>4. 0 \in A
  <2>1. P0(0)
    BY <1>2, <1>3 DEF RightOK, TreeNodes
  <2>2. P1(0)
    BY <1>2, <1>3 DEF Down, TreeNodes
  <2>3. P2(0)
    OBVIOUS
  <2> QED
    BY <1>3, <2>1, <2>2, <2>3
<1>5. ASSUME NEW n \in 0 .. (K - 1), n \in A PROVE n + 1 \in A
  <2> DEFINE y == w[n]
             z == w[n + 1]
  <2>1. /\ n + 1 \in 0 .. K /\ n \in 0 .. n /\ n \in Nat /\ z = Turn(h, s, y)
        /\ 0 .. (n + 1 - 1) = (0 .. (n - 1)) \cup {n}
    BY <1>3
  <2>2. P0(n) /\ P1(n) /\ P2(n)
    BY <1>5
  <2>3. CASE y = NULL
    <3>1. z = NULL
      BY <2>1, <2>3 DEF Turn
    <3>2. P1(n + 1)
      BY <2>1, <2>2, <2>3
    <3> QED
      BY <2>1, <3>1, <3>2
  <2>4. CASE y # NULL /\ Sz(y) < s
    <3>1. y \in D /\ y \in TreeNodes(h) /\ z = h.tree[y].right /\ ~Hit(n)
      BY <2>1, <2>2, <2>4, <1>2 DEF Turn, TreeNodes
    <3>2. P0(n + 1)
      BY <3>1, <1>2 DEF RightOK, TreeNodes
    <3>3. ASSUME NEW x \in Large
          PROVE  \/ z # NULL /\ (x = z \/ z \in Above(lo, hi, x))
                 \/ \E j \in 0 .. (n + 1 - 1) : Hit(j) /\ Sz(w[j]) <= Sz(x)
      <4>0. x \in D /\ Sz(x) >= s /\ Sz(x) \in Int /\ Sz(y) \in Int
        BY <1>2, <3>1 DEF TreeNodes
      <4> HIDE DEF Sz, Large
      <4>1. x # y
        BY <2>4, <4>0
      <4>2. y \notin hi[x]
        BY <1>2, <2>4, <4>0
      <4>3. y \in lo[x] => z # NULL /\ (x = z \/ z \in Above(lo, hi, x))
        BY <1>2, <3>1, <4>0 DEF Down
      <4> QED
        BY <2>1, <2>2, <4>1, <4>2, <4>3 DEF Above
    <3>4. P2(n + 1)
      <4>1. z # NULL => hi[z] = hi[y]
        BY <3>1, <1>2 DEF RightOK
      <4> QED
        BY <2>1, <2>2, <2>4, <3>1, <4>1
    <3> QED
      BY <2>1, <3>2, <3>3, <3>4
  <2>5. CASE y # NULL /\ ~(Sz(y) < s)
    <3>1. y \in D /\ y \in TreeNodes(h) /\ z = h.tree[y].left /\ Sz(y) \in Int
      BY <2>1, <2>2, <2>5, <1>2 DEF Turn, TreeNodes
    <3>0. Hit(n)
      BY <2>5, <3>1
    <3>2. P0(n + 1)
      BY <3>1, <1>2 DEF LeftOK, TreeNodes
    <3>3. ASSUME NEW x \in Large
          PROVE  \/ z # NULL /\ (x = z \/ z \in Above(lo, hi, x))
                 \/ \E j \in 0 .. (n + 1 - 1) : Hit(j) /\ Sz(w[j]) <= Sz(x)
      <4>0. x \in D /\ Sz(x) >= s /\ Sz(x) \in Int /\ Sz(y) \in Int
        BY <1>2, <3>1 DEF TreeNodes
      <4> HIDE DEF Sz, Large
      <4>1. x = y \/ y \in lo[x] => Sz(y) <= Sz(x)
        BY <1>2, <4>0
      <4>2. y \in hi[x] => z # NULL /\ (x = z \/ z \in Above(lo, hi, x))
        BY <1>2, <3>1, <4>0 DEF Down
      <4> QED
        BY <2>1, <2>2, <3>0, <4>1, <4>2 DEF Above
    <3>4. P2(n + 1)
      <4>1. z # NULL => hi[z] = hi[y] \cup {y}
        BY <3>1, <1>2 DEF LeftOK
      <4> QED
        BY <2>1, <2>2, <2>5, <3>1, <4>1
    <3> QED
      BY <2>1, <3>2, <3>3, <3>4
  <2> QED
    BY <2>3, <2>4, <2>5
<1> HIDE DEF A
<1>6. 0 .. K \subseteq A
  BY <1>3, <1>4, <1>5, UpTo
<1>7. \A n \in 0 .. K : P0(n) /\ P1(n) /\ P2(n)
  BY <1>6 DEF A
<1>8. \A x \in Large : \E j \in 0 .. K : Hit(j) /\ Sz(w[j]) <= Sz(x)
  <2>1. K \in 0 .. K /\ 0 .. (K - 1) \subseteq 0 .. K
    BY <1>3
  <2>2. P1(K)
    BY <2>1, <1>7
  <2> QED
    BY <2>1, <2>2, <1>3
<1>9. hits = {n \in 0 .. K : Hit(n)} /\ tp = IF hits = {} THEN NULL ELSE w[Max(hits)]
  BY DEF BestFit, Depths, w
<1> HIDE DEF tp
<1>10. CASE hits = {}
  <2>1. Large = {}
    BY <1>8, <1>9, <1>10
  <2>2. \A x \in TreeNodes(h) : Sz(x) \in Int
    BY <1>2 DEF TreeNodes
  <2> QED
    BY <1>9, <1>10, <2>1, <2>2 DEF tp
<1>11. CASE hits # {}
  <2> DEFINE m == Max(hits)
  <2>1. m \in hits /\ \A j \in hits : m >= j
    <3>1. hits \in SUBSET (0 .. K)
      BY <1>9
    <3> HIDE DEF hits
    <3> QED
      BY <1>3, <1>11, <3>1, MinMax
  <2>2. tp = w[m] /\ m \in 0 .. K /\ Hit(m) /\ w[m] # NULL
    <3>1. tp = w[m] /\ m \in 0 .. K /\ Hit(m)
      BY <1>9, <1>11, <2>1
    <3> QED
      BY <3>1, <1>2 DEF TreeNodes
  <2> HIDE DEF m
  <2>3. ASSUME NEW j \in 0 .. K, Hit(j) PROVE Sz(w[m]) <= Sz(w[j])
    <3>1. m >= j
      BY <1>9, <2>1, <2>3
    <3>2. Sz(w[m]) \in Int /\ w[m] \in D
      BY <2>2, <1>2 DEF TreeNodes
    <3>3. CASE j = m
      BY <3>2, <3>3
    <3>4. CASE j # m
      <4>1. j \in 0 .. (m - 1)
        BY <2>2, <3>1, <3>4, <1>3
      <4>2. P2(m)
        BY <2>2, <1>7
      <4>3. w[j] \in hi[w[m]]
        BY <2>2, <2>3, <4>1, <4>2
      <4> HIDE DEF Sz
      <4> QED
        BY <3>2, <4>3, <1>2
    <3> QED
      BY <3>3, <3>4
  <2>4. ASSUME NEW x \in Large PROVE Sz(w[m]) <= Sz(x)
    <3>1. PICK j \in 0 .. K : Hit(j) /\ Sz(w[j]) <= Sz(x)
      BY <1>8
    <3>2. Sz(w[m]) <= Sz(w[j])
      BY <2>3, <3>1
    <3>3. Sz(w[m]) \in Int /\ Sz(w[j]) \in Int /\ Sz(x) \in Int
      BY <1>2, <2>2, <3>1 DEF TreeNodes
    <3> HIDE DEF Sz
    <3> QED
      BY <3>1, <3>2, <3>3
  <2> QED
    BY <2>2, <2>4 DEF tp
<1> QED
  BY <1>10, <1>11

----------------------------------------------------------------------------
(* The order of the tree.                                                  *)

(* TreeOrdered of one node.                                                *)
Ordered(h, x) ==
    LET K == Cardinality(DOMAIN h.tree)
        up[n \in 0 .. K] == IF n = 0 THEN x
                            ELSE IF up[n - 1] = ROOT THEN ROOT
                            ELSE h.tree[up[n - 1]].parent
    IN  /\ up[K] = ROOT
        /\ \A n \in 1 .. K :
            up[n - 1] # ROOT =>
                \/ /\ h.tree[up[n]].left = up[n - 1]
                   /\ NodeSize(h, x) <= NodeSize(h, up[n])
                \/ /\ h.tree[up[n]].right = up[n - 1]
                   /\ NodeSize(h, x) > NodeSize(h, up[n])

UpOf(tree) == [y \in DOMAIN tree |-> IF y = ROOT THEN ROOT ELSE tree[y].parent]

(* The nodes of a search tree are in order.                                *)
LEMMA SearchTreeOrdered ==
    ASSUME NEW h, Searchable(h.tree, Sizes(h)), IsFiniteSet(DOMAIN h.tree),
           NEW x \in TreeNodes(h)
    PROVE  Ordered(h, x)
<1> DEFINE K == Cardinality(DOMAIN h.tree)
           D == DOMAIN h.tree
           F == UpOf(h.tree)
           Body(u) == [n \in 0 .. K |->
                IF n = 0 THEN x
                ELSE IF u[n - 1] = ROOT THEN ROOT
                ELSE h.tree[u[n - 1]].parent]
           w == CHOOSE u : u = Body(u)
<1>1. PICK lo, hi : SearchTree(h.tree, Sizes(h), lo, hi)
  BY DEF Searchable
<1>2. /\ K \in Nat /\ ROOT \in D /\ x \in D
      /\ \A y \in D : Depth(lo, hi, y) \in Nat /\ Depth(lo, hi, y) < K
      /\ \A y \in D : BoundsOK(h.tree, Sizes(h), lo, hi, y)
      /\ \A y \in D : Sizes(h)[y] = NodeSize(h, y)
  BY <1>1, FS_CardinalityType, DepthBound DEF SearchTree, TreeNodes, Sizes
<1>3. ASSUME NEW y \in D \ {ROOT}
      PROVE  LET u == h.tree[y].parent
             IN  /\ u \in D /\ Depth(lo, hi, y) = Depth(lo, hi, u) + 1
                 /\ \/ y = h.tree[u].left /\ hi[y] = hi[u] \cup {u} /\ lo[y] = lo[u]
                    \/ y = h.tree[u].right /\ lo[y] = lo[u] \cup {u} /\ hi[y] = hi[u]
  BY <1>1, ParentOf
<1>4. StaysIn(F, D)
  <2>1. \A y \in D : y # ROOT => h.tree[y].parent \in D
    BY <1>3
  <2> QED
    BY <1>2, <2>1 DEF StaysIn, UpOf
<1>5. PICK v : IsWalk(v, K, D, F, x)
  <2> HIDE DEF F, D, K
  <2> QED
    BY <1>2, <1>4, WalkExists
<1>6. v = Body(v)
  <2>1. v = [n \in 0 .. K |-> v[n]] /\ v[0] = x
    BY <1>5 DEF IsWalk
  <2>2. \A n \in 1 .. K : v[n] = F[v[n - 1]] /\ v[n - 1] \in D
    <3>1. \A n \in 1 .. K : n - 1 \in 0 .. K
      BY <1>2
    <3> HIDE DEF D, K
    <3> QED
      BY <3>1, <1>5 DEF IsWalk
  <2>3. \A n \in 1 .. K : v[n] = IF v[n - 1] = ROOT THEN ROOT
                                 ELSE h.tree[v[n - 1]].parent
    BY <2>2 DEF UpOf
  <2>4. \A n \in 0 .. K : n = 0 \/ n \in 1 .. K
    BY <1>2
  <2> HIDE DEF K, D, F
  <2> QED
    BY <2>1, <2>3, <2>4
<1>7. w = Body(w)
  <2> HIDE DEF Body
  <2> QED
    BY <1>6, Zenon
<1>8. Ordered(h, x) <=>
        /\ w[K] = ROOT
        /\ \A n \in 1 .. K :
            w[n - 1] # ROOT =>
                \/ /\ h.tree[w[n]].left = w[n - 1]
                   /\ NodeSize(h, x) <= NodeSize(h, w[n])
                \/ /\ h.tree[w[n]].right = w[n - 1]
                   /\ NodeSize(h, x) > NodeSize(h, w[n])
  BY DEF Ordered
<1> HIDE DEF w
<1>9. /\ w[0] = x
      /\ \A n \in 1 .. K : w[n] = IF w[n - 1] = ROOT THEN ROOT
                                  ELSE h.tree[w[n - 1]].parent
  <2>1. 0 \in 0 .. K /\ \A n \in 1 .. K : n \in 0 .. K /\ n # 0
    BY <1>2
  <2> HIDE DEF K
  <2> QED
    BY <1>7, <2>1
<1> DEFINE A == {n \in 0 .. K :
                    /\ w[n] \in D /\ hi[w[n]] \subseteq hi[x] /\ lo[w[n]] \subseteq lo[x]
                    /\ w[n] # ROOT => Depth(lo, hi, w[n]) + n <= Depth(lo, hi, x)}
<1>10. 0 \in A
  <2>1. Depth(lo, hi, x) + 0 <= Depth(lo, hi, x)
    BY <1>2
  <2> QED
    BY <1>2, <1>9, <2>1
<1>11. ASSUME NEW n \in 0 .. (K - 1), n \in A PROVE n + 1 \in A
  <2> DEFINE y == w[n]
             u == w[n + 1]
  <2>1. /\ n + 1 \in 0 .. K /\ n \in Nat
        /\ u = IF y = ROOT THEN ROOT ELSE h.tree[y].parent
    <3>1. n + 1 \in 1 .. K /\ n + 1 - 1 = n /\ n + 1 \in 0 .. K
      BY <1>2
    <3> QED
      BY <3>1, <1>9
  <2>2. /\ y \in D /\ hi[y] \subseteq hi[x] /\ lo[y] \subseteq lo[x]
        /\ y # ROOT => Depth(lo, hi, y) + n <= Depth(lo, hi, x)
    BY <1>11
  <2> HIDE DEF y, u
  <2>3. SUFFICES /\ u \in D /\ hi[u] \subseteq hi[x] /\ lo[u] \subseteq lo[x]
                 /\ u # ROOT => Depth(lo, hi, u) + (n + 1) <= Depth(lo, hi, x)
    BY <2>1 DEF u
  <2>4. CASE y = ROOT
    BY <2>1, <2>2, <2>4
  <2>5. CASE y # ROOT
    <3>1. /\ u \in D /\ Depth(lo, hi, y) = Depth(lo, hi, u) + 1
          /\ hi[u] \subseteq hi[y] /\ lo[u] \subseteq lo[y]
      BY <2>1, <2>2, <2>5, <1>3
    <3> QED
      BY <2>1, <2>2, <2>5, <3>1, <1>2
  <2> QED
    BY <2>4, <2>5
<1> HIDE DEF A
<1>12. 0 .. K \subseteq A
  BY <1>2, <1>10, <1>11, UpTo
<1>13. w[K] = ROOT
  <2>1. K \in A
    BY <1>2, <1>12
  <2>2. SUFFICES ASSUME w[K] # ROOT PROVE FALSE
    OBVIOUS
  <2>3. w[K] \in D /\ Depth(lo, hi, w[K]) + K <= Depth(lo, hi, x)
    BY <2>1, <2>2 DEF A
  <2> QED
    BY <2>3, <1>2
<1>14. ASSUME NEW n \in 1 .. K, w[n - 1] # ROOT
       PROVE  \/ /\ h.tree[w[n]].left = w[n - 1]
                 /\ NodeSize(h, x) <= NodeSize(h, w[n])
              \/ /\ h.tree[w[n]].right = w[n - 1]
                 /\ NodeSize(h, x) > NodeSize(h, w[n])
  <2> DEFINE y == w[n - 1]
             u == h.tree[y].parent
  <2>1. n - 1 \in A /\ w[n] = u
    <3>1. n - 1 \in 0 .. K
      BY <1>2
    <3> QED
      BY <3>1, <1>9, <1>12, <1>14
  <2>2. y \in D /\ hi[y] \subseteq hi[x] /\ lo[y] \subseteq lo[x]
    BY <2>1 DEF A
  <2> HIDE DEF y
  <2>3. /\ u \in D
        /\ \/ y = h.tree[u].left /\ hi[y] = hi[u] \cup {u} /\ lo[y] = lo[u]
           \/ y = h.tree[u].right /\ lo[y] = lo[u] \cup {u} /\ hi[y] = hi[u]
    BY <2>2, <1>3, <1>14 DEF y
  <2> HIDE DEF u
  <2>4. CASE y = h.tree[u].left /\ u \in hi[x]
    BY <2>1, <2>3, <2>4, <1>2 DEF BoundsOK, y
  <2>5. CASE y = h.tree[u].right /\ u \in lo[x]
    BY <2>1, <2>3, <2>5, <1>2 DEF BoundsOK, y
  <2> QED
    BY <2>2, <2>3, <2>4, <2>5
<1> QED
  BY <1>8, <1>13, <1>14

----------------------------------------------------------------------------
(* The KFC is whole.                                                       *)

TreeOK(h) == Searchable(h.tree, Sizes(h))

(* Chunk a is where unlink_hmu and alloc_hmu look for it.                  *)
Listed(h, a) ==
    LET size == h.hmu[a].size
    IN  IF IsFcNormal(size)
        THEN \E k \in 1 .. Len(h.list[size]) : h.list[size][k] = <<a, h.base>>
        ELSE a \in TreeNodes(h)

(* The tree is a search tree. Until the pool is moved, the heap is not     *)
(* found corrupted, and all free chunks but those of X are in the KFC.     *)
Whole(h, X) ==
    /\ TreeOK(h)
    /\ h.base = 0 => /\ h.corrupted = FALSE
                     /\ \A a \in Free(h) \ X : Listed(h, a)

(* The tree has at most one node per unit of the pool.                     *)
LEMMA FiniteTree ==
    ASSUME NEW h, HeapOK(h)
    PROVE  IsFiniteSet(DOMAIN h.tree)
<1>1. DOMAIN h.tree \subseteq Units \cup {ROOT}
  BY DEF HeapOK
<1>2. IsFiniteSet(Units)
  BY SizesAssumption, FS_Interval DEF Units
<1>3. IsFiniteSet(Units \cup {ROOT})
  BY <1>2, FS_AddElement
<1> QED
  BY <1>1, <1>3, FS_Subset

(* A search tree stays one as long as its links and sizes do.              *)
LEMMA SameTree ==
    ASSUME NEW h, TreeOK(h), NEW g, g.tree = h.tree,
           \A t \in DOMAIN h.tree \ {ROOT} : g.hmu[t].size = h.hmu[t].size
    PROVE  TreeOK(g)
<1>1. PICK lo, hi : /\ DOMAIN lo = DOMAIN h.tree /\ DOMAIN hi = DOMAIN h.tree
                    /\ SearchTree(h.tree, Sizes(h), lo, hi)
  BY DEF TreeOK, Searchable
<1>2. \A t \in DOMAIN h.tree : Sizes(g)[t] = Sizes(h)[t]
  BY DEF Sizes, NodeSize
<1>3. SearchTree(h.tree, Sizes(g), lo, hi)
  BY <1>1, <1>2, SameSizes
<1> QED
  BY <1>1, <1>3 DEF TreeOK, Searchable

(* P bits and counters do not matter.                                      *)
LEMMA SameShapeWhole ==
    ASSUME NEW h, NEW g, SameShape(h, g), g.base = h.base, KfcOK(h),
           NEW X, Whole(h, X)
    PROVE  Whole(g, X)
<1>1. TreeSound(h.hmu, h.tree)
  BY DEF KfcOK
<1>2. TreeOK(g)
  BY <1>1, SameTree DEF Whole, SameShape, TreeSound
<1>3. Free(g) = Free(h)
  BY DEF SameShape, Free, Starts
<1>4. \A a \in Free(h) : Listed(h, a) => Listed(g, a)
  BY DEF SameShape, Free, Starts, Listed, TreeNodes
<1> QED
  BY <1>2, <1>3, <1>4 DEF Whole, SameShape

(* Taking one entry out of a list leaves the other chunks where they are.  *)
LEMMA CutListed ==
    ASSUME NEW h, Sane(h), NEW size \in DOMAIN h.list,
           NEW k \in 1 .. Len(h.list[size]), NEW a,
           h.list[size][k] = <<a, h.base>>,
           NEW g, ListCut(h, g, size, k),
           NEW X, Whole(h, X)
    PROVE  Whole(g, X \cup {a})
<1> DEFINE s == h.list[size]
           r == RemoveAt(s, k)
           Entries == Units \X (0 .. h.base)
<1>1. /\ HeapOK(h) /\ DOMAIN h = HeapFields
      /\ h.list \in [0 .. (NormalNodeCnt - 1) -> Seq(Entries)]
  BY DEF Sane, HeapOK
<1>2. s \in Seq(Entries) /\ Len(s) \in Nat
  <2> HIDE DEF Entries
  <2>1. s \in Seq(Entries)
    BY <1>1
  <2> QED
    BY <2>1, LenProperties
<1>3. /\ r \in Seq(Entries) /\ Len(r) = Len(s) - 1
      /\ \A j \in 1 .. (Len(s) - 1) : r[j] = IF j < k THEN s[j] ELSE s[j + 1]
  <2> HIDE DEF s, Entries
  <2> QED
    BY <1>2, RemoveAtProps DEF s
<1> HIDE DEF r
<1>4. /\ g.hmu = h.hmu /\ g.tree = h.tree /\ g.base = h.base /\ g.corrupted = h.corrupted
      /\ g.list = [h.list EXCEPT ![size] = r]
  BY <1>1 DEF ListCut, HeapFields, r
<1>5. TreeOK(g)
  BY <1>4, SameTree DEF Whole
<1>6. ASSUME NEW b \in Free(h), b # a, Listed(h, b)
      PROVE  Listed(g, b)
  <2> DEFINE i == h.hmu[b].size
  <2>1. CASE IsFcNormal(i) /\ i = size
    <3>1. PICK j \in 1 .. Len(s) : s[j] = <<b, h.base>>
      BY <1>6, <2>1 DEF Listed
    <3>2. j # k
      BY <1>6, <3>1
    <3>3. \E n \in 1 .. Len(r) : r[n] = s[j]
      <4>1. CASE j < k
        <5>1. j \in 1 .. (Len(s) - 1)
          BY <4>1, <1>2
        <5> QED
          BY <4>1, <5>1, <1>3
      <4>2. CASE ~(j < k)
        <5>1. j - 1 \in 1 .. (Len(s) - 1) /\ ~(j - 1 < k) /\ j - 1 + 1 = j
          BY <4>2, <3>2, <1>2
        <5>2. r[j - 1] = s[j]
          BY <5>1, <1>3
        <5> QED
          BY <5>1, <5>2, <1>3
      <4> QED
        BY <4>1, <4>2
    <3>4. g.list[size] = r
      BY <1>4
    <3> QED
      BY <2>1, <3>1, <3>3, <3>4, <1>4 DEF Listed
  <2>2. CASE IsFcNormal(i) /\ i # size
    <3>1. g.list[i] = h.list[i]
      BY <2>2, <1>4
    <3> QED
      BY <2>2, <3>1, <1>4, <1>6 DEF Listed
  <2>3. CASE ~IsFcNormal(i)
    BY <2>3, <1>4, <1>6 DEF Listed, TreeNodes
  <2> QED
    BY <2>1, <2>2, <2>3
<1> QED
  BY <1>4, <1>5, <1>6 DEF Whole, Free, Starts

(* unlink_hmu takes its chunk out of a KFC that is whole and leaves the    *)
(* rest; only a pool that was moved can be found corrupted.                *)
LEMMA UnlinkWhole ==
    ASSUME NEW h, Sane(h), h.corrupted = FALSE, NEW a \in Free(h),
           NEW X, Whole(h, X), a \notin X
    PROVE  Whole(unlink_hmu(h, a), X \cup {a})
<1> USE SizesAssumption
<1> DEFINE g == unlink_hmu(h, a)
           size == h.hmu[a].size
           s == h.list[size]
           Entries == Units \X (0 .. h.base)
           at == {k \in 1 .. Len(s) : /\ s[k] = <<a, h.base>>
                                      /\ \A j \in 1 .. k : s[j][2] = h.base}
           stale == \E j \in 1 .. Len(s) : s[j][2] # h.base
<1>1. /\ HeapOK(h) /\ DOMAIN h = HeapFields /\ IsFiniteSet(DOMAIN h.tree)
      /\ h.hmu[a].ut = "FC" /\ a \in Units /\ a # ROOT /\ size \in 1 .. HeapUnits
  <2>1. HeapOK(h) /\ a \in DOMAIN h.hmu /\ h.hmu[a].ut = "FC"
    BY DEF Sane, Free, Starts
  <2>2. h.hmu[a] \in Chunks /\ a \in Units /\ DOMAIN h = HeapFields
    BY <2>1 DEF HeapOK, HmuOK
  <2>3. a # ROOT /\ size \in 1 .. HeapUnits
    BY <2>2 DEF Units, ROOT, Chunks
  <2> QED
    BY <2>1, <2>2, <2>3, FiniteTree
<1>2. CASE ~IsFcNormal(size)
  <2>1. g = remove_tree_node(h, a)
    BY <1>1, <1>2 DEF unlink_hmu
  <2>2. CASE a \in DOMAIN h.tree
    <3>1. PICK new : /\ g = [h EXCEPT !.tree = new]
                     /\ Searchable(new, Sizes(h))
                     /\ DOMAIN new = DOMAIN h.tree \ {a}
      <4>1. a \in DOMAIN h.tree \ {ROOT} /\ Searchable(h.tree, Sizes(h))
        BY <2>2, <1>1 DEF Whole, TreeOK
      <4> HIDE DEF g
      <4> QED
        BY <4>1, <2>1, <1>1, RemoveNode
    <3> HIDE DEF g
    <3>2. /\ g.tree = new /\ g.hmu = h.hmu /\ g.list = h.list /\ g.base = h.base
          /\ g.corrupted = h.corrupted
      BY <3>1, <1>1 DEF HeapFields
    <3>3. TreeOK(g)
      <4>1. PICK lo, hi : /\ DOMAIN lo = DOMAIN new /\ DOMAIN hi = DOMAIN new
                          /\ SearchTree(new, Sizes(h), lo, hi)
        BY <3>1 DEF Searchable
      <4>2. \A t \in DOMAIN new : Sizes(g)[t] = Sizes(h)[t]
        BY <3>1, <3>2 DEF Sizes, NodeSize
      <4>3. SearchTree(new, Sizes(g), lo, hi)
        BY <4>1, <4>2, SameSizes
      <4> QED
        BY <3>2, <4>1, <4>3 DEF TreeOK, Searchable
    <3>4. \A b \in Free(h) : b # a /\ Listed(h, b) => Listed(g, b)
      BY <3>1, <3>2 DEF Listed, TreeNodes
    <3> QED
      BY <3>2, <3>3, <3>4 DEF Whole, Free, Starts, g
  <2>3. CASE a \notin DOMAIN h.tree
    <3>1. g = [h EXCEPT !.corrupted = TRUE]
      BY <2>1, <2>3 DEF remove_tree_node, IsLinked
    <3>2. g.tree = h.tree /\ g.hmu = h.hmu /\ g.base = h.base
      BY <3>1, <1>1 DEF HeapFields
    <3>3. TreeOK(g)
      BY <3>2, SameTree DEF Whole
    <3>4. h.base # 0
      BY <1>2, <2>3 DEF Whole, Listed, TreeNodes
    <3> QED
      BY <3>2, <3>3, <3>4 DEF Whole
  <2> QED
    BY <2>2, <2>3
<1>3. CASE IsFcNormal(size)
  <2>0. /\ size \in DOMAIN h.list /\ s \in Seq(Entries) /\ Len(s) \in Nat
        /\ h.base \in 0 .. MaxMigrations
    <3>1. /\ h.list \in [0 .. (NormalNodeCnt - 1) -> Seq(Entries)]
          /\ h.base \in 0 .. MaxMigrations
      BY <1>1 DEF HeapOK
    <3>2. size \in 0 .. (NormalNodeCnt - 1)
      BY <1>1, <1>3 DEF IsFcNormal
    <3> HIDE DEF Entries
    <3>3. s \in Seq(Entries)
      BY <3>1, <3>2
    <3> QED
      BY <3>1, <3>2, <3>3, LenProperties
  <2>2. CASE at # {}
    <3>1. at \in SUBSET (0 .. Len(s))
      BY SMTT(30), <2>0
    <3>2. Min(at) \in at
      <4> HIDE DEF at
      <4> QED
        BY <2>0, <2>2, <3>1, MinMax
    <3>3. g = [h EXCEPT !.list = [h.list EXCEPT ![size] = RemoveAt(s, Min(at))]]
      BY <1>1, <1>3, <2>2 DEF unlink_hmu
    <3> DEFINE k == Min(at)
    <3>4. k \in 1 .. Len(h.list[size]) /\ h.list[size][k] = <<a, h.base>>
      BY <3>2
    <3>5. ListCut(h, g, size, k)
      BY <3>3 DEF ListCut
    <3> HIDE DEF g, k, size
    <3> QED
      BY <2>0, <3>4, <3>5, CutListed DEF g
  <2>3. CASE at = {} /\ stale
    <3>1. g = [h EXCEPT !.corrupted = TRUE]
      BY <1>1, <1>3, <2>3 DEF unlink_hmu
    <3>2. g.tree = h.tree /\ g.hmu = h.hmu /\ g.base = h.base
      BY <3>1, <1>1 DEF HeapFields
    <3>3. TreeOK(g)
      BY <3>2, SameTree DEF Whole
    <3>4. h.base # 0
      <4>1. SUFFICES ASSUME h.base = 0 PROVE FALSE
        OBVIOUS
      <4>2. PICK j \in 1 .. Len(s) : s[j][2] # h.base
        BY <2>3
      <4>3. s[j] \in Entries
        <5> HIDE DEF Entries, s
        <5> QED
          BY <2>0, ElementOfSeq
      <4> QED
        BY <4>1, <4>2, <4>3
    <3> QED
      BY <3>2, <3>3, <3>4 DEF Whole
  <2>4. CASE at = {} /\ ~stale
    <3>1. g = h
      BY <1>1, <1>3, <2>4 DEF unlink_hmu
    <3> QED
      BY <3>1 DEF Whole
  <2> QED
    BY <2>2, <2>3, <2>4
<1> QED
  BY <1>2, <1>3

(* A chunk in the KFC is not out of it.                                    *)
LEMMA ListedIn ==
    ASSUME NEW h, HeapOK(h), NEW a \in Free(h), Listed(h, a)
    PROVE  ~OffKfc(h, a)
<1> USE SizesAssumption
<1> DEFINE size == h.hmu[a].size
<1>1. h.hmu[a] \in Chunks
  BY DEF HeapOK, HmuOK, Free, Starts
<1>2. CASE IsFcNormal(size)
  <2>1. size \in 0 .. (NormalNodeCnt - 1)
    BY <1>1, <1>2 DEF Chunks, IsFcNormal
  <2>2. size \in DOMAIN h.list
    BY <2>1 DEF HeapOK
  <2> QED
    BY <1>2, <2>2 DEF Listed, OffKfc
<1>3. CASE ~IsFcNormal(size)
  BY <1>3 DEF Listed, OffKfc, TreeNodes
<1> QED
  BY <1>2, <1>3

(* A VO chunk written over chunks that are out of the KFC hides the        *)
(* missing ones among them.                                                *)
LEMMA SetChunkWhole ==
    ASSUME NEW h, HeapOK(h), KfcOK(h), NEW a \in Units, NEW c \in Chunks,
           c.ut = "VO", OffRange(h, a, c.size),
           NEW X, Whole(h, X)
    PROVE  Whole(SetChunk(h, a, c), X \ (a .. (a + c.size - 1)))
<1> DEFINE g == SetChunk(h, a, c)
           R == a .. (a + c.size - 1)
<1>1. /\ HeapOK(g) /\ KfcOK(g) /\ g.base = h.base
      /\ g.hmu = SetHmu(h.hmu, a, c)
      /\ g.list = h.list /\ g.tree = h.tree /\ g.corrupted = h.corrupted
  BY SetChunkKfc DEF SameRest
<1> HIDE DEF g, R
<1>2. /\ DOMAIN g.hmu = (DOMAIN h.hmu \ R) \cup {a}
      /\ \A x \in DOMAIN g.hmu : g.hmu[x] = IF x = a THEN c ELSE h.hmu[x]
  BY <1>1 DEF SetHmu, R
<1>3. \A b \in Free(g) : b \in Free(h) /\ b \notin R /\ g.hmu[b] = h.hmu[b]
  BY <1>2 DEF Free, Starts
<1>4. \A t \in DOMAIN h.tree \ {ROOT} : t \in Free(g)
  BY <1>1 DEF KfcOK, TreeSound, Free, Starts
<1>5. TreeOK(g)
  BY <1>1, <1>3, <1>4, SameTree DEF Whole
<1>6. \A b \in Free(g) : Listed(h, b) => Listed(g, b)
  BY <1>1, <1>3 DEF Listed, TreeNodes
<1> QED
  BY <1>1, <1>3, <1>5, <1>6 DEF Whole, g, R

(* gci_add_fc puts the chunk it writes into the KFC.                       *)
LEMMA AddFcWhole ==
    ASSUME NEW h, HeapOK(h), KfcOK(h), NEW a \in Units,
           NEW size \in 1 .. HeapUnits, NEW p \in BOOLEAN,
           OffRange(h, a, size), NEW X, Whole(h, X)
    PROVE  Whole(gci_add_fc(h, a, size, p), X \ (a .. (a + size - 1)))
<1> USE SizesAssumption
<1> DEFINE g == gci_add_fc(h, a, size, p)
           R == a .. (a + size - 1)
           c == Chunk("FC", size, p)
           f == SetChunk(h, a, c)
           Entries == Units \X (0 .. h.base)
<1>0. c \in Chunks /\ c.size = size /\ c.ut = "FC"
  BY DEF Chunk, Chunks
<1> HIDE DEF c
<1>1. /\ HeapOK(f) /\ KfcOK(f) /\ f.base = h.base
      /\ f.hmu = SetHmu(h.hmu, a, c)
      /\ f.list = h.list /\ f.tree = h.tree /\ f.corrupted = h.corrupted
  BY <1>0, SetChunkKfc DEF SameRest
<1>2. /\ DOMAIN f = HeapFields /\ a \in R /\ a \in Int /\ a # NULL /\ a # ROOT
  BY <1>1 DEF HeapOK, Units, NULL, ROOT
<1>3. /\ DOMAIN f.hmu = (DOMAIN h.hmu \ R) \cup {a}
      /\ \A x \in DOMAIN f.hmu : f.hmu[x] = IF x = a THEN c ELSE h.hmu[x]
  BY <1>0, <1>1 DEF SetHmu
<1>4. \A t \in DOMAIN h.tree \ {ROOT} :
        t \in Free(h) /\ t \in DOMAIN f.hmu /\ t # a /\ f.hmu[t] = h.hmu[t]
  <2>1. \A t \in DOMAIN h.tree \ {ROOT} : t \in Free(h)
    BY DEF KfcOK, TreeSound, Free, Starts
  <2>2. \A t \in DOMAIN h.tree : t \notin R
    BY DEF OffRange, OffKfc
  <2> QED
    BY <2>1, <2>2, <1>2, <1>3 DEF Free, Starts
<1>5. \A b \in Free(f) : b # a => b \in Free(h) /\ b \notin R /\ f.hmu[b] = h.hmu[b]
  BY <1>3 DEF Free, Starts
<1>6. OffKfc(h, a)
  BY <1>2 DEF OffRange
<1> HIDE DEF f, R, g
<1>7. CASE ~IsFcNormal(size)
  <2>1. g = [f EXCEPT !.tree = InsertNode(h, a, size)]
    BY <1>7 DEF gci_add_fc, c, f, g
  <2>2. DOMAIN InsertNode(h, a, size) = DOMAIN h.tree \cup {a}
    BY DEF InsertNode
  <2>3. /\ g.hmu = f.hmu /\ g.list = f.list /\ g.base = f.base
        /\ g.corrupted = f.corrupted /\ g.tree = InsertNode(h, a, size)
    BY <2>1, <1>2 DEF HeapFields
  <2>4. TreeOK(g)
    <3>1. Searchable(h.tree, Sizes(h)) /\ IsFiniteSet(DOMAIN h.tree)
      BY FiniteTree DEF Whole, TreeOK
    <3>2. size \in Int /\ size > RootUnits
      BY <1>7 DEF IsFcNormal
    <3>3. a \notin DOMAIN h.tree
      BY <1>6 DEF OffKfc
    <3>4. \A t \in DOMAIN h.tree : Sizes(g)[t] = NodeSize(h, t)
      BY <2>2, <2>3, <1>4 DEF Sizes, NodeSize
    <3>5. Sizes(g)[a] = size
      BY <2>2, <2>3, <1>0, <1>2, <1>3 DEF Sizes, NodeSize
    <3>6. Searchable(InsertNode(h, a, size), Sizes(g))
      <4> HIDE DEF Whole
      <4> QED
        BY <3>1, <3>2, <3>3, <3>4, <3>5, <1>2, InsertTree
    <3> QED
      BY <3>6, <2>3 DEF TreeOK
  <2>5. \A b \in Free(f) : b # a /\ Listed(h, b) => Listed(g, b)
    BY <2>2, <2>3, <1>1, <1>5 DEF Listed, TreeNodes
  <2>6. Listed(g, a)
    BY <2>2, <2>3, <1>0, <1>2, <1>3, <1>7 DEF Listed, TreeNodes
  <2>7. Free(g) = Free(f)
    BY <2>3 DEF Free, Starts
  <2> QED
    BY <1>1, <1>2, <1>5, <2>3, <2>4, <2>5, <2>6, <2>7 DEF Whole, g, R
<1>8. CASE IsFcNormal(size)
  <2> DEFINE e == <<a, h.base>>
             s == h.list[size]
             new == <<e>> \o s
  <2>1. g = [f EXCEPT !.list = [f.list EXCEPT ![size] = new]]
    BY <1>1, <1>8 DEF gci_add_fc, c, f, g
  <2>2. /\ size \in DOMAIN h.list
        /\ s \in Seq(Entries) /\ e \in Entries /\ Len(s) \in Nat
    <3>1. h.list \in [0 .. (NormalNodeCnt - 1) -> Seq(Entries)]
          /\ h.base \in 0 .. MaxMigrations
      BY DEF HeapOK
    <3>2. size \in 0 .. (NormalNodeCnt - 1)
      BY <1>8 DEF IsFcNormal
    <3>3. e \in Entries
      BY <3>1
    <3> HIDE DEF Entries
    <3>4. s \in Seq(Entries)
      BY <3>1, <3>2
    <3> QED
      BY <3>1, <3>2, <3>3, <3>4, LenProperties
  <2>3. /\ Len(new) = Len(s) + 1 /\ new[1] = e
        /\ \A j \in 1 .. Len(s) : new[j + 1] = s[j]
    <3> HIDE DEF Entries, e, s
    <3>1. <<e>> \in Seq(Entries) /\ Len(<<e>>) = 1 /\ <<e>>[1] = e
      BY <2>2
    <3>2. /\ Len(new) = Len(<<e>>) + Len(s)
          /\ \A i \in 1 .. Len(<<e>>) + Len(s) :
                new[i] = IF i <= Len(<<e>>) THEN <<e>>[i] ELSE s[i - Len(<<e>>)]
      BY <3>1, <2>2, ConcatProperties
    <3> HIDE DEF new
    <3> QED
      BY <3>1, <3>2, <2>2
  <2> HIDE DEF new
  <2>4. /\ g.hmu = f.hmu /\ g.tree = f.tree /\ g.base = f.base
        /\ g.corrupted = f.corrupted /\ g.list = [h.list EXCEPT ![size] = new]
    BY <2>1, <1>1, <1>2 DEF HeapFields
  <2>5. g.list[size] = new /\ \A i : i \in DOMAIN h.list /\ i # size => g.list[i] = h.list[i]
    BY <2>2, <2>4
  <2>6. TreeOK(g)
    BY <2>4, <1>1, <1>4, SameTree DEF Whole
  <2>7. Listed(g, a)
    <3>1. g.hmu[a].size = size
      BY <2>4, <1>0, <1>3
    <3>2. 1 \in 1 .. Len(new)
      BY <2>2, <2>3
    <3> QED
      BY <3>1, <3>2, <2>3, <2>4, <2>5, <1>1, <1>8 DEF Listed
  <2>8. ASSUME NEW b \in Free(f), b # a, Listed(h, b)
        PROVE  Listed(g, b)
    <3> DEFINE i == h.hmu[b].size
    <3>1. g.hmu[b].size = i /\ b \in Free(h)
      BY <2>4, <2>8, <1>5
    <3>2. CASE IsFcNormal(i)
      <4>1. PICK j \in 1 .. Len(h.list[i]) : h.list[i][j] = <<b, h.base>>
        BY <2>8, <3>2 DEF Listed
      <4>2. \E k \in 1 .. Len(g.list[i]) : g.list[i][k] = <<b, h.base>>
        <5>1. CASE i = size
          <6>1. j + 1 \in 1 .. Len(new) /\ new[j + 1] = s[j]
            BY <5>1, <4>1, <2>2, <2>3
          <6> QED
            BY <6>1, <5>1, <4>1, <2>5
        <5>2. CASE i # size
          <6>1. h.hmu[b] \in Chunks
            BY <3>1 DEF HeapOK, HmuOK, Free, Starts
          <6>2. i \in 0 .. (NormalNodeCnt - 1)
            BY <6>1, <3>2 DEF Chunks, IsFcNormal
          <6>3. i \in DOMAIN h.list
            BY <6>2 DEF HeapOK
          <6> QED
            BY <6>3, <5>2, <4>1, <2>5
        <5> QED
          BY <5>1, <5>2
      <4> QED
        BY <4>2, <3>1, <3>2, <2>4, <1>1 DEF Listed
    <3>3. CASE ~IsFcNormal(i)
      BY <3>1, <3>3, <2>4, <2>8, <1>1 DEF Listed, TreeNodes
    <3> QED
      BY <3>2, <3>3
  <2>9. Free(g) = Free(f)
    BY <2>4 DEF Free, Starts
  <2> QED
    BY <1>1, <1>2, <1>5, <2>4, <2>6, <2>7, <2>8, <2>9 DEF Whole, g, R
<1> QED
  BY <1>7, <1>8

(* Carve leaves every chunk it does not hand out in the KFC.               *)
LEMMA CarveWhole ==
    ASSUME NEW h, Sane(h), NEW p \in Free(h), OffKfc(h, p),
           NEW avail, avail = h.hmu[p].size,
           NEW size \in 1 .. avail, Whole(h, {p})
    PROVE  Whole(Carve(h, p, avail, size), {})
<1> USE SizesAssumption
<1> DEFINE P == h.hmu[p].pinuse
           split == avail >= size + GC_SMALLEST_SIZE
           got == IF split THEN size ELSE avail
           g1 == IF split THEN gci_add_fc(h, p + size, avail - size, TRUE)
                 ELSE SetPinuse(h, p + avail, TRUE)
           c == Chunk("VO", got, P)
           g2 == SetChunk(g1, p, c)
           free == (h.total_free_size - got) % WordUnits
           used == (HeapUnits - free) % WordUnits
           high == IF used > g2.highmark_size THEN used ELSE g2.highmark_size
           g == Carve(h, p, avail, size)
<1>1. CountersSet(g2, g, free, high)
  BY DEF Carve, CountersSet
<1>2. /\ HeapOK(h) /\ HmuOK(h.hmu) /\ Tiled(h.hmu) /\ KfcOK(h)
  BY DEF Sane, HeapOK
<1>3. /\ p \in DOMAIN h.hmu /\ p \in Units /\ p \in Int /\ p >= 0
      /\ avail \in 1 .. HeapUnits /\ P \in BOOLEAN
      /\ p \in Starts(h) /\ p + avail <= HeapUnits
  BY <1>2 DEF Free, Starts, HmuOK, Chunks, Units, Tiled, ChunksEnd
<1>4. OffRange(h, p, avail)
  BY <1>3, ChunkRangeOff
<1>5. HeapOK(g2) /\ KfcOK(g2) /\ Whole(g2, {})
  <2>1. CASE split
    <3> DEFINE b == p + size
               n == avail - size
    <3>1. /\ b \in Units /\ n \in 1 .. HeapUnits /\ b + n = p + avail
          /\ size \in 1 .. HeapUnits /\ size <= avail /\ b > p
      BY <2>1, <1>3 DEF GC_SMALLEST_SIZE, Units
    <3>2. c \in Chunks /\ c.size = size /\ c.ut = "VO"
      BY <2>1, <3>1, <1>3 DEF Chunk, Chunks
    <3>3. OffRange(h, b, n)
      BY <1>3, <1>4, <3>1 DEF OffRange
    <3>4. g1 = gci_add_fc(h, b, n, TRUE)
      BY <2>1
    <3> HIDE DEF c, g1
    <3>5. /\ HeapOK(g1) /\ KfcOK(g1)
          /\ \A x : x # b /\ OffKfc(h, x) => OffKfc(g1, x)
          /\ Whole(g1, {p} \ (b .. (b + n - 1)))
      <4> HIDE DEF b, n
      <4> QED
        BY <3>1, <3>3, <3>4, <1>2, AddFc, AddFcWhole
    <3>6. OffRange(g1, p, size)
      BY <1>3, <1>4, <3>1, <3>5 DEF OffRange
    <3>7. {p} \ (b .. (b + n - 1)) = {p}
      BY <3>1, <1>3
    <3>8. /\ HeapOK(g2) /\ KfcOK(g2)
          /\ Whole(g2, {p} \ (p .. (p + size - 1)))
      <4> HIDE DEF b, n
      <4> QED
        BY <1>3, <3>2, <3>5, <3>6, <3>7, SetChunkKfc, SetChunkWhole
    <3>9. {p} \ (p .. (p + size - 1)) = {}
      BY <1>3, <3>1
    <3> HIDE DEF g2
    <3> QED
      BY <3>8, <3>9
  <2>2. CASE ~split
    <3>1. g1 = SetPinuse(h, p + avail, TRUE) /\ got = avail
      BY <2>2
    <3>2. c \in Chunks /\ c.size = avail /\ c.ut = "VO"
      BY <2>2, <1>3 DEF Chunk, Chunks
    <3> HIDE DEF g1, c
    <3>3. /\ Sane(g1) /\ SameRest(h, g1) /\ SameShape(h, g1)
      BY <3>1, SetPinuseSane
    <3>4. OffRange(g1, p, c.size)
      BY <1>4, <3>2, <3>3 DEF OffRange, OffKfc, SameShape, SameRest
    <3>5. HeapOK(g1) /\ KfcOK(g1) /\ g1.base = h.base
      BY <3>3 DEF Sane, SameRest
    <3>6. Whole(g1, {p})
      BY <1>2, <3>3, <3>5, SameShapeWhole
    <3>7. /\ HeapOK(g2) /\ KfcOK(g2)
          /\ Whole(g2, {p} \ (p .. (p + c.size - 1)))
      BY <1>3, <3>2, <3>4, <3>5, <3>6, SetChunkKfc, SetChunkWhole
    <3>8. {p} \ (p .. (p + c.size - 1)) = {}
      BY <1>3, <3>2
    <3> HIDE DEF g2
    <3> QED
      BY <3>7, <3>8
  <2> QED
    BY <2>1, <2>2
<1> HIDE DEF g2, g1, c
<1>6. /\ g.hmu = g2.hmu /\ g.tree = g2.tree /\ g.list = g2.list
      /\ g.base = g2.base /\ g.corrupted = g2.corrupted
  <2>1. DOMAIN g2 = HeapFields
    BY <1>5 DEF HeapOK
  <2> HIDE DEF g, free, high
  <2> QED
    BY <1>1, <2>1 DEF CountersSet, HeapFields
<1> HIDE DEF g
<1>7. TreeOK(g)
  BY <1>5, <1>6, SameTree DEF Whole
<1> QED
  BY ZenonT(30), <1>5, <1>6, <1>7 DEF Whole, Free, Starts, Listed, TreeNodes, g

(* A pool that is whole and yet corrupted was moved: nothing is claimed of *)
(* its lists.                                                              *)
LEMMA WholeCorrupted ==
    ASSUME NEW h, NEW X, Whole(h, X), h.corrupted = TRUE
    PROVE  Whole(h, {})
BY DEF Whole

(* hmu_mark_pinuse and hmu_unmark_pinuse leave the KFC whole.              *)
LEMMA PinuseWhole ==
    ASSUME NEW h, HeapOK(h), KfcOK(h), NEW a, NEW p, NEW X, Whole(h, X)
    PROVE  Whole(SetPinuse(h, a, p), X)
<1> DEFINE g == SetPinuse(h, a, p)
<1>1. DOMAIN h = HeapFields
  BY DEF HeapOK
<1>2. CASE a \notin Starts(h)
  BY <1>2 DEF SetPinuse
<1>3. CASE a \in Starts(h)
  <2> DEFINE c == [h.hmu[a] EXCEPT !.pinuse = p]
  <2>1. g = [h EXCEPT !.hmu = [h.hmu EXCEPT ![a] = c]]
    BY <1>3 DEF SetPinuse
  <2>2. h.hmu[a] \in Chunks
    BY <1>3 DEF HeapOK, HmuOK, Starts
  <2>3. c.ut = h.hmu[a].ut /\ c.size = h.hmu[a].size
    BY <2>2 DEF Chunks
  <2> HIDE DEF g, c
  <2>4. SameShape(h, g) /\ g.base = h.base
    BY <2>1, <2>3, <1>1 DEF SameShape, HeapFields
  <2> QED
    BY <2>4, SameShapeWhole DEF g
<1> QED
  BY <1>2, <1>3

(* The end of gc_free_vo puts the whole merge into the KFC.                *)
LEMMA FreeFromWhole ==
    ASSUME NEW h, Sane(h), h.corrupted = FALSE, NEW start \in Starts(h),
           NEW size \in 1 .. HeapUnits,
           start + size \in Starts(h) \cup {HeapUnits},
           OffRange(h, start, size),
           NEW X, X \subseteq start .. (start + size - 1), Whole(h, X)
    PROVE  Whole(FreeFrom(h, start, size), {})
<1> USE SizesAssumption
<1> DEFINE next == start + size
           grow == next \in Free(h)
           g == IF grow THEN unlink_hmu(h, next) ELSE h
           tot == IF grow THEN size + h.hmu[next].size ELSE size
           P == h.hmu[start].pinuse
           f == gci_add_fc(g, start, tot, P)
           r == FreeFrom(h, start, size)
           Y == IF grow THEN X \cup {next} ELSE X
<1>1. /\ HmuOK(h.hmu) /\ Tiled(h.hmu) /\ DOMAIN h = HeapFields
      /\ start \in DOMAIN h.hmu /\ start \in Units /\ start \in Int /\ start >= 0
      /\ P \in BOOLEAN /\ next \in Int /\ next > start
      /\ \A x \in DOMAIN h.hmu : x \in Int /\ h.hmu[x].size \in 1 .. HeapUnits
  <2>1. /\ HmuOK(h.hmu) /\ Tiled(h.hmu) /\ DOMAIN h = HeapFields
        /\ start \in DOMAIN h.hmu
    BY DEF Sane, HeapOK, Starts
  <2> QED
    BY <2>1 DEF HmuOK, Units, Chunks
<1>2. tot \in 1 .. HeapUnits /\ tot >= size
  <2>1. CASE grow
    <3>1. next \in DOMAIN h.hmu
      BY <2>1 DEF Free, Starts
    <3>2. next + h.hmu[next].size <= HeapUnits
      BY <3>1, <1>1 DEF Tiled, ChunksEnd
    <3> QED
      BY <2>1, <3>1, <3>2, <1>1
  <2>2. CASE ~grow
    BY <2>2
  <2> QED
    BY <2>1, <2>2
<1>3. r = IF g.corrupted THEN g ELSE SetPinuse(f, start + tot, FALSE)
  BY DEF FreeFrom
<1>4. /\ Sane(g) /\ Whole(g, Y) /\ Y \subseteq start .. (start + tot - 1)
      /\ g.corrupted = FALSE => OffRange(g, start, tot)
  <2>1. CASE grow
    <3>1. g = unlink_hmu(h, next)
      BY <2>1
    <3> HIDE DEF g
    <3>2. /\ Sane(g) /\ SameChunks(h, g)
          /\ g.corrupted = FALSE => OffKfc(g, next)
          /\ \A x : OffKfc(h, x) => OffKfc(g, x)
      BY <2>1, <3>1, UnlinkHmu
    <3>3. next \in Starts(g)
      BY <2>1, <3>2 DEF Free, Starts, SameChunks
    <3>4. ASSUME g.corrupted = FALSE PROVE OffRange(g, start, tot)
      <4>0. OffKfc(g, next)
        BY <3>2, <3>4
      <4>1. OffRange(g, next, g.hmu[next].size)
        BY <3>2, <3>3, <4>0, ChunkRangeOff
      <4>2. g.hmu[next].size = h.hmu[next].size /\ h.hmu[next].size \in Int
        BY <2>1, <3>2, <1>1 DEF SameChunks, Free, Starts
      <4>3. tot = size + h.hmu[next].size
        BY <2>1
      <4> HIDE DEF tot
      <4>4. ASSUME NEW x \in start .. (start + tot - 1)
            PROVE  \/ x \in start .. (start + size - 1)
                   \/ x \in next .. (next + g.hmu[next].size - 1)
        BY <1>1, <4>2, <4>3
      <4> QED
        BY <3>2, <4>1, <4>4 DEF OffRange
    <3>5. next \notin X
      BY <1>1
    <3>6. Whole(g, X \cup {next})
      <4> HIDE DEF next
      <4> QED
        BY <2>1, <3>1, <3>5, UnlinkWhole
    <3>7. X \cup {next} \subseteq start .. (start + tot - 1)
      <4>1. tot >= size + 1
        BY <2>1, <1>1 DEF Free, Starts
      <4>2. \A x \in X : x \in start .. (start + size - 1)
        OBVIOUS
      <4>3. size \in Int /\ tot \in Int
        BY <1>2
      <4> HIDE DEF tot
      <4>4. \A x \in start .. (start + size - 1) : x \in start .. (start + tot - 1)
        BY <4>1, <4>3, <1>1
      <4>5. next \in start .. (start + tot - 1)
        BY <4>1, <4>3, <1>1
      <4> QED
        BY <4>2, <4>4, <4>5
    <3> QED
      BY <2>1, <3>2, <3>4, <3>6, <3>7
  <2>2. CASE ~grow
    BY <2>2
  <2> QED
    BY <2>1, <2>2
<1>5. g.corrupted \in BOOLEAN
  BY <1>4 DEF Sane, HeapOK
<1>6. CASE g.corrupted = TRUE
  <2>1. r = g
    BY <1>3, <1>6
  <2> HIDE DEF g, r, Y
  <2> QED
    BY <2>1, <1>4, <1>6, WholeCorrupted DEF r
<1>7. CASE g.corrupted = FALSE
  <2>1. r = SetPinuse(f, start + tot, FALSE)
    BY <1>3, <1>7
  <2> HIDE DEF g, tot, P, r, Y
  <2>2. HeapOK(g) /\ KfcOK(g) /\ OffRange(g, start, tot)
    BY <1>4, <1>7 DEF Sane
  <2>3. /\ HeapOK(f) /\ KfcOK(f)
        /\ Whole(f, Y \ (start .. (start + tot - 1)))
    BY <1>1, <1>2, <1>4, <2>2, AddFc, AddFcWhole
  <2>4. Y \ (start .. (start + tot - 1)) = {}
    BY <1>4
  <2> HIDE DEF f
  <2> QED
    BY <2>1, <2>3, <2>4, PinuseWhole DEF r
<1> QED
  BY <1>5, <1>6, <1>7

(* gc_free_vo leaves no free chunk outside the KFC.                        *)
LEMMA FreeChunkWhole ==
    ASSUME NEW h, Sane(h), h.corrupted = FALSE, NEW a \in VoChunks(h),
           NEW merge \in BOOLEAN,
           merge => HasFooter(h, a) /\ Prev(h, a) \in Free(h),
           Whole(h, {})
    PROVE  Whole(FreeChunk(h, a, merge), {})
<1> USE SizesAssumption
<1> DEFINE size == h.hmu[a].size
           n == (h.total_free_size + size) % WordUnits
           h1 == [h EXCEPT !.total_free_size = n]
           prev == Prev(h, a)
           g == unlink_hmu(h1, prev)
           r == FreeChunk(h, a, merge)
<1>1. /\ HeapOK(h) /\ DOMAIN h = HeapFields /\ Tiled(h.hmu) /\ HmuOK(h.hmu)
      /\ a \in DOMAIN h.hmu /\ h.hmu[a].ut = "VO" /\ a \in Int /\ a >= 0
      /\ size \in 1 .. HeapUnits
      /\ a + size \in DOMAIN h.hmu \cup {HeapUnits} /\ a + size <= HeapUnits
  <2>1. /\ HeapOK(h) /\ DOMAIN h = HeapFields /\ Tiled(h.hmu) /\ HmuOK(h.hmu)
        /\ a \in DOMAIN h.hmu /\ h.hmu[a].ut = "VO"
    BY DEF Sane, HeapOK, VoChunks, Starts
  <2>2. a \in Units /\ h.hmu[a] \in Chunks
    BY <2>1 DEF HmuOK
  <2>3. a \in Int /\ a >= 0 /\ size \in 1 .. HeapUnits
    BY <2>2 DEF Units, Chunks
  <2>4. a + size \in DOMAIN h.hmu \cup {HeapUnits} /\ a + size <= HeapUnits
    BY <2>1 DEF Tiled, ChunksEnd
  <2> QED
    BY <2>1, <2>3, <2>4
<1>2. /\ Sane(h1) /\ h1.hmu = h.hmu /\ h1.foot = h.foot
      /\ h1.corrupted = FALSE /\ Whole(h1, {})
  <2>1. /\ h.highmark_size \in 0 .. (WordUnits - 1) /\ h.total_free_size \in Int
    <3>1. /\ h.highmark_size \in 0 .. (WordUnits - 1)
          /\ h.total_free_size \in 0 .. (WordUnits - 1)
      BY <1>1 DEF HeapOK
    <3> QED
      BY <3>1
  <2>2. n \in 0 .. (WordUnits - 1)
    BY <1>1, <2>1, ModBound
  <2>3. CountersSet(h, h1, n, h.highmark_size)
    BY <1>1 DEF CountersSet, HeapFields
  <2> HIDE DEF h1, n
  <2>4. Sane(h1) /\ SameShape(h, h1) /\ h1.hmu = h.hmu /\ h1.base = h.base
    BY <2>1, <2>2, <2>3, SetCounters
  <2>5. Whole(h1, {})
    BY <2>4, SameShapeWhole DEF Sane
  <2> QED
    BY <2>4, <2>5 DEF SameShape
<1>3. r = IF ~merge THEN FreeFrom(h1, a, size)
          ELSE IF g.corrupted THEN g
          ELSE FreeFrom(g, prev, size + h.hmu[prev].size)
  BY DEF FreeChunk
<1> HIDE DEF h1, r
<1>4. a \in VoChunks(h1)
  BY <1>2 DEF VoChunks, Starts
<1>5. OffRange(h1, a, size)
  <2>1. OffKfc(h1, a) /\ a \in Starts(h1) /\ size = h1.hmu[a].size
    BY <1>2, <1>4, VoOff DEF VoChunks
  <2> QED
    BY <1>2, <2>1, ChunkRangeOff
<1>7. CASE merge = FALSE
  <2>1. r = FreeFrom(h1, a, size)
    BY <1>3, <1>7
  <2>2. a \in Starts(h1) /\ a + size \in Starts(h1) \cup {HeapUnits}
    BY <1>1, <1>2 DEF Starts
  <2>3. {} \subseteq a .. (a + size - 1)
    OBVIOUS
  <2> HIDE DEF size
  <2> QED
    BY <1>1, <1>2, <1>5, <2>1, <2>2, <2>3, FreeFromWhole DEF r
<1>8. CASE merge = TRUE
  <2> DEFINE m == h.hmu[prev].size
             f == h.foot[a - 1]
  <2>1. /\ prev \in DOMAIN h.hmu /\ prev \in Free(h1) /\ prev + m = a
        /\ m \in 1 .. HeapUnits /\ prev \in Int /\ prev >= 0
    <3>1. a > 0 /\ f # 0 /\ prev = a - f /\ prev \in Free(h)
      BY <1>8 DEF HasFooter, Prev
    <3>2. a - 1 \in Units /\ f \in Int /\ FootsSound(h.hmu, h.foot)
      <4>1. FootsSound(h.hmu, h.foot) /\ h.foot \in [Units -> 0 .. HeapUnits]
        BY <1>1 DEF HeapOK, FootOK, Sane
      <4>2. a - 1 \in Units
        BY <1>1, <3>1 DEF HmuOK, Units
      <4> QED
        BY <4>1, <4>2
    <3>3. /\ a - 1 + 1 - f \in DOMAIN h.hmu
          /\ h.hmu[a - 1 + 1 - f].size = f
      BY <3>1, <3>2 DEF FootsSound
    <3>4. a - 1 + 1 - f = prev
      BY <3>1, <3>2, <1>1
    <3>5. m = f /\ prev \in DOMAIN h.hmu
      BY <3>3, <3>4
    <3>6. h.hmu[prev].size \in 1 .. HeapUnits /\ prev \in Units
      BY <3>5, <1>1 DEF HmuOK, Chunks
    <3> QED
      BY <3>1, <3>2, <3>5, <3>6, <1>1, <1>2 DEF Free, Starts, Units
  <2> HIDE DEF prev
  <2>2. /\ Sane(g) /\ SameChunks(h1, g)
        /\ g.corrupted = FALSE => OffKfc(g, prev)
        /\ \A x : OffKfc(h1, x) => OffKfc(g, x)
    BY <1>2, <2>1, UnlinkHmu
  <2>3. /\ g.hmu = h.hmu /\ g.corrupted \in BOOLEAN
        /\ Whole(g, {prev})
    <3>1. Whole(g, {} \cup {prev})
      BY <1>2, <2>1, UnlinkWhole
    <3>2. {} \cup {prev} = {prev}
      OBVIOUS
    <3> HIDE DEF g
    <3> QED
      BY <1>2, <2>2, <3>1, <3>2 DEF SameChunks, Sane, HeapOK
  <2>4. CASE g.corrupted = TRUE
    <3>1. r = g
      BY <1>3, <1>8, <2>4
    <3> HIDE DEF g
    <3> QED
      BY <2>3, <2>4, <3>1, WholeCorrupted DEF r
  <2>5. CASE g.corrupted = FALSE
    <3> DEFINE t == size + m
    <3>1. r = FreeFrom(g, prev, t)
      BY <1>3, <1>8, <2>5
    <3> HIDE DEF g
    <3>2. OffRange(g, prev, t)
      <4>1. OffRange(g, prev, g.hmu[prev].size)
        <5>1. prev \in Starts(g) /\ OffKfc(g, prev)
          BY <2>1, <2>2, <2>3, <2>5 DEF Starts
        <5> QED
          BY <2>2, <5>1, ChunkRangeOff
      <4>2. g.hmu[prev].size = m
        BY <2>3
      <4>3. ASSUME NEW x \in prev .. (prev + t - 1)
            PROVE  x \in prev .. (prev + m - 1) \/ x \in a .. (a + size - 1)
        BY <1>1, <2>1
      <4> QED
        BY <1>5, <2>2, <4>1, <4>2, <4>3 DEF OffRange
    <3>3. /\ prev \in Starts(g) /\ t \in 1 .. HeapUnits /\ prev + t = a + size
          /\ prev + t \in Starts(g) \cup {HeapUnits}
      BY <1>1, <2>1, <2>3 DEF Starts
    <3>4. {prev} \subseteq prev .. (prev + t - 1)
      BY <2>1, <3>3
    <3> HIDE DEF t
    <3> QED
      BY <2>2, <2>3, <2>5, <3>1, <3>2, <3>3, <3>4, FreeFromWhole DEF r
  <2> QED
    BY <2>3, <2>4, <2>5
<1> QED
  BY <1>7, <1>8

(* gc_realloc_vo in place puts the rest of what it absorbs into the KFC.   *)
LEMMA AbsorbWhole ==
    ASSUME NEW h, Sane(h), h.corrupted = FALSE, NEW a \in VoChunks(h),
           NEW tot \in Nat, CanAbsorb(h, a, tot), NEW garbage \in BOOLEAN,
           Whole(h, {})
    PROVE  Whole(Absorb(h, a, tot, garbage), {})
<1> USE SizesAssumption
<1> DEFINE m == h.hmu[a].size
           next == a + m
           n == h.hmu[next].size
           both == m + n
           P == h.hmu[a].pinuse
           g == unlink_hmu(h, next)
           c == Chunk("VO", tot, P)
           g1 == SetChunk(g, a, c)
           b == a + tot
           k == both - tot
           r == Absorb(h, a, tot, garbage)
<1>1. /\ HeapOK(h) /\ Tiled(h.hmu) /\ HmuOK(h.hmu)
      /\ a \in DOMAIN h.hmu /\ h.hmu[a].ut = "VO"
      /\ next \in Free(h) /\ next \in DOMAIN h.hmu /\ h.hmu[next].ut = "FC"
      /\ tot > m /\ tot <= both
  BY DEF Sane, HeapOK, VoChunks, Starts, CanAbsorb, Free
<1>2. /\ a \in Units /\ a \in Int /\ a >= 0 /\ m \in 1 .. HeapUnits
      /\ P \in BOOLEAN /\ n \in 1 .. HeapUnits /\ next \in Int
  BY <1>1 DEF HmuOK, Units, Chunks
<1>3. /\ a + both = next + n /\ a + both <= HeapUnits
      /\ both \in 1 .. HeapUnits /\ tot \in 1 .. HeapUnits
  <2>1. a + both = next + n
    BY <1>2
  <2>2. next + n <= HeapUnits
    BY <1>1 DEF Tiled, ChunksEnd
  <2> HIDE DEF n
  <2> QED
    BY <2>1, <2>2, <1>1, <1>2
<1>4. r = IF g.corrupted THEN g
          ELSE IF tot < both THEN gci_add_fc(g1, b, k, garbage)
          ELSE g1
  BY DEF Absorb
<1>5. /\ Sane(g) /\ SameChunks(h, g)
      /\ g.corrupted = FALSE => OffKfc(g, next)
      /\ \A x : OffKfc(h, x) => OffKfc(g, x)
      /\ Whole(g, {next})
  <2>1. {} \cup {next} = {next} /\ next \notin {}
    OBVIOUS
  <2> HIDE DEF next
  <2>2. Whole(g, {} \cup {next})
    BY <1>1, <2>1, UnlinkWhole
  <2>3. /\ Sane(g) /\ SameChunks(h, g)
        /\ g.corrupted = FALSE => OffKfc(g, next)
        /\ \A x : OffKfc(h, x) => OffKfc(g, x)
    BY <1>1, UnlinkHmu
  <2> HIDE DEF g
  <2> QED
    BY <2>1, <2>2, <2>3
<1> HIDE DEF r, g
<1>6. g.corrupted \in BOOLEAN /\ g.hmu = h.hmu
  BY <1>5 DEF Sane, HeapOK, SameChunks
<1>7. CASE g.corrupted = TRUE
  <2>1. r = g
    BY <1>4, <1>7
  <2> QED
    BY <2>1, <1>5, <1>7, WholeCorrupted DEF r
<1>8. CASE g.corrupted = FALSE
  <2>1. OffRange(g, a, both)
    <3>1. OffRange(h, a, m)
      BY VoOff, ChunkRangeOff DEF VoChunks
    <3>2. OffRange(g, next, g.hmu[next].size)
      <4>1. next \in Starts(g) /\ OffKfc(g, next)
        BY <1>1, <1>5, <1>6, <1>8 DEF Starts
      <4> HIDE DEF next
      <4> QED
        BY <1>5, <4>1, ChunkRangeOff
    <3>3. g.hmu[next].size = n
      BY <1>6
    <3>4. ASSUME NEW x \in a .. (a + both - 1)
          PROVE  x \in a .. (a + m - 1) \/ x \in next .. (next + n - 1)
      <4> HIDE DEF n, m
      <4> QED
        BY <1>2
    <3> QED
      BY <1>5, <3>1, <3>2, <3>3, <3>4 DEF OffRange
  <2>2. c \in Chunks /\ c.size = tot /\ c.ut = "VO"
    BY <1>2, <1>3 DEF Chunk, Chunks
  <2>3. HeapOK(g) /\ KfcOK(g)
    BY <1>5 DEF Sane
  <2>4. OffRange(g, a, tot)
    BY <2>1, <1>1, <1>2, <1>3 DEF OffRange
  <2>5. {next} \ (a .. (a + tot - 1)) = {}
    BY <1>1, <1>2, <1>3
  <2> HIDE DEF c, next
  <2>6. /\ HeapOK(g1) /\ KfcOK(g1) /\ SameRest(g, g1)
        /\ g1.list = g.list /\ g1.tree = g.tree
        /\ Whole(g1, {next} \ (a .. (a + tot - 1)))
    BY <2>2, <2>3, <2>4, <1>2, <1>5, SetChunkKfc, SetChunkWhole
  <2> HIDE DEF g1
  <2>7. Whole(g1, {})
    BY <2>5, <2>6
  <2>8. CASE tot < both
    <3>1. /\ b \in Units /\ k \in 1 .. HeapUnits /\ b + k = a + both /\ b > a
          /\ b \in Int
      <4> HIDE DEF both
      <4> QED
        BY <2>8, <1>1, <1>2, <1>3 DEF Units
    <3>2. OffRange(g1, b, k)
      <4>1. OffRange(g, b, k)
        <5> HIDE DEF both
        <5> QED
          BY <2>1, <3>1, <1>2, <1>3 DEF OffRange
      <4> QED
        BY <4>1, <2>6 DEF OffRange, OffKfc, SameRest
    <3>3. r = gci_add_fc(g1, b, k, garbage)
      BY <1>4, <1>8, <2>8
    <3> HIDE DEF b, k
    <3>4. Whole(r, {} \ (b .. (b + k - 1)))
      BY <2>6, <2>7, <3>1, <3>2, <3>3, AddFcWhole
    <3>5. {} \ (b .. (b + k - 1)) = {}
      OBVIOUS
    <3> QED
      BY <3>4, <3>5 DEF r
  <2>9. CASE ~(tot < both)
    <3>1. r = g1
      BY <2>9, <1>4, <1>8
    <3> QED
      BY <3>1, <2>7 DEF r
  <2> QED
    BY <2>8, <2>9
<1> QED
  BY <1>6, <1>7, <1>8

(* The lists that alloc_hmu looks through for a size.                      *)
FitLists(h, size) ==
    {i \in size .. (NormalNodeCnt - 1) : h.list[i] # <<>>}

(* The head of the first list that is not empty is the only way to a list  *)
(* entry of alloc_hmu.                                                     *)
LEMMA FitHead ==
    ASSUME NEW h, Sane(h), NEW size \in Nat, FitLists(h, size) # {}
    PROVE  LET i == Min(FitLists(h, size))
               e == Head(h.list[i])
           IN  /\ i \in DOMAIN h.list /\ i \in Nat /\ i >= size
               /\ \A j \in FitLists(h, size) : i <= j
               /\ Tail(h.list[i]) = RemoveAt(h.list[i], 1)
               /\ 1 \in 1 .. Len(h.list[i]) /\ h.list[i][1] = e
               /\ e = <<e[1], e[2]>> /\ e[2] \in 0 .. h.base
               /\ e[2] = h.base => /\ e[1] \in Free(h) /\ h.hmu[e[1]].size = i
                                   /\ IsFcNormal(i)
<1> USE SizesAssumption
<1> DEFINE fit == FitLists(h, size)
           i == Min(fit)
           e == Head(h.list[i])
           Entries == Units \X (0 .. h.base)
<1>1. /\ HeapOK(h) /\ ListsSound(h.hmu, h.list, h.base)
  BY DEF Sane, KfcOK
<1>2. i \in fit /\ \A j \in fit : i <= j
  <2>1. /\ fit \in SUBSET (0 .. (NormalNodeCnt - 1)) /\ fit # {}
        /\ NormalNodeCnt - 1 \in Nat
    BY DEF FitLists
  <2> HIDE DEF fit
  <2> QED
    BY <2>1, MinMax
<1>3. i \in 0 .. (NormalNodeCnt - 1) /\ i >= size /\ h.list[i] # <<>>
  <2> HIDE DEF i
  <2> QED
    BY <1>2 DEF FitLists
<1>4. h.list \in [0 .. (NormalNodeCnt - 1) -> Seq(Entries)]
  BY <1>1 DEF HeapOK
<1> HIDE DEF Entries, i, fit
<1>5. h.list[i] \in Seq(Entries) /\ i \in DOMAIN h.list
  BY <1>3, <1>4
<1>6. /\ Tail(h.list[i]) = RemoveAt(h.list[i], 1) /\ e = h.list[i][1]
      /\ 1 \in 1 .. Len(h.list[i]) /\ e \in Entries
  BY <1>3, <1>5, TailIsCut, HeadTailProperties
<1>7. e = <<e[1], e[2]>> /\ e[2] \in 0 .. h.base
  BY <1>6 DEF Entries
<1>8. ASSUME e[2] = h.base
      PROVE  e[1] \in Free(h) /\ h.hmu[e[1]].size = i /\ IsFcNormal(i)
  <2>1. h.list[i][1][2] = h.base /\ h.list[i][1][1] = e[1]
    BY <1>6, <1>8
  <2>2. /\ IsFcNormal(i) /\ h.list[i][1][1] \in DOMAIN h.hmu
        /\ h.hmu[h.list[i][1][1]].ut = "FC"
        /\ h.hmu[h.list[i][1][1]].size = i
    BY <1>1, <1>5, <1>6, <2>1, ListEntry
  <2> QED
    BY <2>1, <2>2 DEF Free, Starts
<1> QED
  BY <1>2, <1>3, <1>5, <1>6, <1>7, <1>8 DEF fit, i

(* The free chunks of at least size units.                                 *)
Large(h, size) == {a \in Free(h) : h.hmu[a].size >= size}

(* obj is the answer to a request for size units.                          *)
Smallest(h, size, obj) ==
    IF Large(h, size) = {} THEN obj = NULL
    ELSE /\ obj \in Large(h, size)
         /\ \A a \in Large(h, size) : h.hmu[obj].size <= h.hmu[a].size

(* A free chunk of a whole pool is in a list that alloc_hmu looks through  *)
(* or in the tree.                                                         *)
LEMMA LargeListed ==
    ASSUME NEW h, Sane(h), Whole(h, {}), h.base = 0, NEW size \in Nat,
           NEW a \in Large(h, size)
    PROVE  /\ h.hmu[a].size \in Nat /\ h.hmu[a].size >= size
           /\ IsFcNormal(h.hmu[a].size) =>
                IsFcNormal(size) /\ h.hmu[a].size \in FitLists(h, size)
           /\ ~IsFcNormal(h.hmu[a].size) => a \in TreeNodes(h)
<1> USE SizesAssumption
<1> DEFINE s == h.hmu[a].size
<1>1. a \in Free(h) /\ s >= size /\ HeapOK(h) /\ Listed(h, a)
  BY DEF Large, Sane, Whole
<1>2. s \in 1 .. HeapUnits
  <2>1. h.hmu[a] \in Chunks
    BY <1>1 DEF HeapOK, HmuOK, Free, Starts
  <2> QED
    BY <2>1 DEF Chunks
<1>3. ASSUME IsFcNormal(s)
      PROVE  IsFcNormal(size) /\ s \in FitLists(h, size)
  <2>1. s \in size .. (NormalNodeCnt - 1)
    BY <1>1, <1>2, <1>3 DEF IsFcNormal
  <2>2. \E k \in 1 .. Len(h.list[s]) : h.list[s][k] = <<a, h.base>>
    BY <1>1, <1>3 DEF Listed
  <2>3. h.list[s] # <<>>
    <3>1. Len(<<>>) = 0
      BY EmptySeq
    <3> QED
      BY <2>2, <3>1
  <2> HIDE DEF s
  <2> QED
    BY <1>1, <1>2, <1>3, <2>1, <2>3 DEF FitLists, IsFcNormal
<1> QED
  BY <1>1, <1>2, <1>3 DEF Listed

(* alloc_hmu keeps the KFC whole, and answers exactly until the pool is    *)
(* moved.                                                                  *)
LEMMA AllocWhole ==
    ASSUME NEW h, Sane(h), h.corrupted = FALSE, NEW units \in Nat,
           Whole(h, {})
    PROVE  LET r == alloc_hmu(h, units)
               size == IF units < GC_SMALLEST_SIZE THEN GC_SMALLEST_SIZE
                                                   ELSE units
           IN  /\ Whole(r.heap, {})
               /\ h.base = 0 => Smallest(h, size, r.obj)
<1> USE SizesAssumption
<1> DEFINE size == IF units < GC_SMALLEST_SIZE THEN GC_SMALLEST_SIZE ELSE units
           fit  == FitLists(h, size)
           i    == Min(fit)
           head == Head(h.list[i])
           tp   == BestFit(h, size)
           g    == remove_tree_node(h, tp)
           r    == alloc_hmu(h, units)
<1>0. r = IF IsFcNormal(size) /\ fit # {}
          THEN IF head[2] # h.base
               THEN Result(NULL, [h EXCEPT !.corrupted = TRUE])
               ELSE Result(head[1], Carve([h EXCEPT !.list[i] = Tail(@)],
                                          head[1], i, size))
          ELSE IF tp = NULL THEN Result(NULL, h)
          ELSE IF g.corrupted THEN Result(NULL, g)
          ELSE Result(tp, Carve(g, tp, h.hmu[tp].size, size))
  BY DEF alloc_hmu, FitLists
<1>1. size \in Nat /\ 1 <= size
  BY DEF GC_SMALLEST_SIZE
<1>2. HeapOK(h) /\ DOMAIN h = HeapFields /\ TreeSound(h.hmu, h.tree)
  BY DEF Sane, HeapOK, KfcOK
<1> HIDE DEF r, size
<1>3. CASE IsFcNormal(size) /\ fit # {}
  <2>1. /\ i \in DOMAIN h.list /\ i \in Nat /\ i >= size
        /\ \A j \in fit : i <= j
        /\ Tail(h.list[i]) = RemoveAt(h.list[i], 1)
        /\ 1 \in 1 .. Len(h.list[i]) /\ h.list[i][1] = head
        /\ head = <<head[1], head[2]>> /\ head[2] \in 0 .. h.base
        /\ head[2] = h.base => /\ head[1] \in Free(h) /\ h.hmu[head[1]].size = i
                               /\ IsFcNormal(i)
    BY <1>1, <1>3, FitHead
  <2> HIDE DEF head, i, fit
  <2>2. CASE head[2] # h.base
    <3> DEFINE bad == [h EXCEPT !.corrupted = TRUE]
    <3>1. r.heap = bad
      BY <1>0, <1>3, <2>2 DEF Result
    <3>2. h.base # 0
      BY <2>1, <2>2
    <3>3. bad.tree = h.tree /\ bad.hmu = h.hmu /\ bad.base = h.base
      BY <1>2 DEF HeapFields
    <3> HIDE DEF bad
    <3>4. TreeOK(bad)
      BY <3>3, SameTree DEF Whole
    <3> QED
      BY <3>1, <3>2, <3>3, <3>4 DEF Whole, r
  <2>3. CASE head[2] = h.base
    <3> DEFINE p == head[1]
               f == [h EXCEPT !.list = [h.list EXCEPT ![i] = Tail(h.list[i])]]
    <3>1. r = Result(p, Carve(f, p, i, size))
      BY <1>0, <1>3, <2>3
    <3>2. ListCut(h, f, i, 1)
      BY <2>1 DEF ListCut
    <3>3. h.list[i][1] = <<p, h.base>>
      BY <2>1, <2>3
    <3>4. r.heap = Carve(f, p, i, size) /\ r.obj = p
      BY <3>1 DEF Result
    <3> HIDE DEF p, f
    <3>5. /\ Sane(f) /\ SameChunks(h, f) /\ OffKfc(f, p)
          /\ Whole(f, {} \cup {p})
      BY <2>1, <3>2, <3>3, CutList, CutListed
    <3>6. {} \cup {p} = {p}
      OBVIOUS
    <3>7. p \in Free(f) /\ i = f.hmu[p].size /\ size \in 1 .. i
      BY <2>1, <2>3, <3>5, <1>1 DEF Free, Starts, SameChunks, p
    <3>8. Whole(Carve(f, p, i, size), {})
      BY <3>5, <3>6, <3>7, CarveWhole
    <3>9. ASSUME h.base = 0 PROVE Smallest(h, size, p)
      <4>1. p \in Large(h, size) /\ h.hmu[p].size = i /\ IsFcNormal(i)
        BY <2>1, <2>3 DEF Large, p
      <4>2. ASSUME NEW a \in Large(h, size) PROVE i <= h.hmu[a].size
        <5>1. /\ h.hmu[a].size \in Nat
              /\ IsFcNormal(h.hmu[a].size) => h.hmu[a].size \in fit
          BY <3>9, <1>1, LargeListed DEF fit
        <5>2. CASE IsFcNormal(h.hmu[a].size)
          BY <5>1, <5>2, <2>1
        <5>3. CASE ~IsFcNormal(h.hmu[a].size)
          BY <5>1, <5>3, <4>1, <2>1 DEF IsFcNormal
        <5> QED
          BY <5>2, <5>3
      <4> QED
        BY <4>1, <4>2 DEF Smallest
    <3> QED
      BY <3>4, <3>8, <3>9 DEF r, size
  <2> QED
    BY <2>2, <2>3
<1>4. CASE ~(IsFcNormal(size) /\ fit # {})
  <2>1. /\ tp = NULL => \A x \in TreeNodes(h) : NodeSize(h, x) < size
        /\ tp # NULL =>
             /\ tp \in TreeNodes(h) /\ NodeSize(h, tp) >= size
             /\ \A x \in TreeNodes(h) :
                 NodeSize(h, x) >= size => NodeSize(h, tp) <= NodeSize(h, x)
    <3>1. Searchable(h.tree, Sizes(h)) /\ IsFiniteSet(DOMAIN h.tree) /\ size \in Int
      BY <1>1, <1>2, FiniteTree DEF Whole, TreeOK
    <3> QED
      BY <3>1, BestFitExact
  <2>2. \A x \in TreeNodes(h) : x \in Free(h) /\ NodeSize(h, x) = h.hmu[x].size
    BY <1>2 DEF TreeNodes, NodeSize, TreeSound, Free, Starts
  <2>3. ASSUME h.base = 0, NEW a \in Large(h, size)
        PROVE  a \in TreeNodes(h) /\ h.hmu[a].size >= size /\ h.hmu[a].size \in Nat
    <3>1. /\ h.hmu[a].size \in Nat /\ h.hmu[a].size >= size
          /\ IsFcNormal(h.hmu[a].size) => IsFcNormal(size) /\ fit # {}
          /\ ~IsFcNormal(h.hmu[a].size) => a \in TreeNodes(h)
      BY <2>3, <1>1, LargeListed
    <3> QED
      BY <3>1, <1>4
  <2> HIDE DEF tp, fit
  <2>4. CASE tp = NULL
    <3>1. r.heap = h /\ r.obj = NULL
      BY <1>0, <1>4, <2>4 DEF Result
    <3>2. ASSUME h.base = 0 PROVE Large(h, size) = {}
      <4>1. ASSUME NEW a \in Large(h, size) PROVE FALSE
        BY <3>2, <4>1, <2>1, <2>2, <2>3, <2>4, <1>1
      <4> QED
        BY <4>1
    <3> QED
      BY <3>1, <3>2 DEF Smallest, r, size
  <2>5. CASE tp # NULL
    <3>1. /\ tp \in TreeNodes(h) /\ tp \in Free(h) /\ h.hmu[tp].size >= size
          /\ ~IsFcNormal(h.hmu[tp].size) /\ h.hmu[tp].ut = "FC"
      BY <2>1, <2>2, <2>5, <1>2 DEF TreeSound, TreeNodes
    <3>2. g = unlink_hmu(h, tp)
      BY <3>1, Zenon DEF unlink_hmu
    <3>3. /\ Sane(g) /\ SameChunks(h, g)
          /\ g.corrupted = FALSE => OffKfc(g, tp)
          /\ Whole(g, {} \cup {tp})
      BY <3>1, <3>2, UnlinkHmu, UnlinkWhole
    <3>4. g.corrupted = FALSE
      <4>1. PICK new : g = [h EXCEPT !.tree = new]
        <5>1. /\ Searchable(h.tree, Sizes(h)) /\ IsFiniteSet(DOMAIN h.tree)
              /\ tp \in DOMAIN h.tree \ {ROOT}
          BY <3>1, <1>2, FiniteTree DEF Whole, TreeOK, TreeNodes
        <5> QED
          BY <5>1, RemoveNode
      <4> HIDE DEF g
      <4> QED
        BY <4>1, <1>2 DEF HeapFields
    <3>5. {} \cup {tp} = {tp}
      OBVIOUS
    <3> DEFINE n == h.hmu[tp].size
    <3>6. r.heap = Carve(g, tp, n, size) /\ r.obj = tp
      <4> HIDE DEF g
      <4> QED
        BY <1>0, <1>4, <2>5, <3>4 DEF Result
    <3> HIDE DEF g
    <3>7. tp \in Free(g) /\ n = g.hmu[tp].size /\ n \in Nat
      <4>1. h.hmu[tp] \in Chunks
        BY <3>1, <1>2 DEF HeapOK, HmuOK, Free, Starts
      <4> QED
        BY <3>1, <3>3, <4>1 DEF Free, Starts, SameChunks, Chunks
    <3>8. size \in 1 .. n
      BY <3>1, <3>7, <1>1
    <3> HIDE DEF n
    <3>9. Whole(Carve(g, tp, n, size), {})
      BY <3>3, <3>4, <3>5, <3>7, <3>8, CarveWhole
    <3>10. ASSUME h.base = 0 PROVE Smallest(h, size, tp)
      <4>1. tp \in Large(h, size)
        BY <3>1 DEF Large
      <4>2. \A a \in Large(h, size) : h.hmu[tp].size <= h.hmu[a].size
        BY <3>10, <2>1, <2>2, <2>3, <2>5
      <4> QED
        BY <4>1, <4>2 DEF Smallest
    <3> QED
      BY <3>6, <3>9, <3>10 DEF r, size
  <2> QED
    BY <2>4, <2>5
<1> QED
  BY <1>3, <1>4

----------------------------------------------------------------------------
(* The invariant.                                                          *)

TInv == IInv /\ Whole(heap, {})

(* A new pool is one node below the root of the tree.                      *)
LEMMA InitWhole == Init => Whole(heap, {})
<1> SUFFICES ASSUME Init PROVE Whole(heap, {})
  OBVIOUS
<1> USE SizesAssumption
<1> DEFINE tree == heap.tree
           lo == [t \in {ROOT, 0} |-> IF t = ROOT THEN {} ELSE {ROOT}]
           hi == [t \in {ROOT, 0} |-> {}]
<1>1. /\ heap.hmu = [a \in {0} |-> Chunk("FC", HeapUnits, TRUE)]
      /\ tree = [t \in {ROOT, 0} |-> IF t = ROOT THEN Node(NULL, 0, NULL)
                                               ELSE Node(NULL, NULL, ROOT)]
      /\ heap.base = 0 /\ heap.corrupted = FALSE
  BY DEF Init, InitHeap
<1>2. /\ DOMAIN tree = {ROOT, 0} /\ ROOT # 0 /\ NULL # 0 /\ NULL # ROOT
      /\ tree[ROOT] = [left |-> NULL, right |-> 0, parent |-> NULL]
      /\ tree[0] = [left |-> NULL, right |-> NULL, parent |-> ROOT]
  BY <1>1 DEF Node, ROOT, NULL
<1>3. /\ Free(heap) = {0} /\ heap.hmu[0].size = HeapUnits
      /\ ~IsFcNormal(HeapUnits) /\ RootUnits < HeapUnits
  BY <1>1 DEF Free, Starts, Chunk, IsFcNormal
<1>4. /\ Sizes(heap)[ROOT] = RootUnits /\ Sizes(heap)[0] = HeapUnits
  BY <1>2, <1>3 DEF Sizes, NodeSize
<1>5. /\ DOMAIN lo = {ROOT, 0} /\ DOMAIN hi = {ROOT, 0}
      /\ lo[ROOT] = {} /\ lo[0] = {ROOT} /\ hi[ROOT] = {} /\ hi[0] = {}
  BY <1>2
<1> HIDE DEF tree, lo, hi
<1>6. SearchTree(tree, Sizes(heap), lo, hi)
  <2>1. Linked(tree)
    <3>1. /\ tree = [t \in DOMAIN tree |-> tree[t]]
          /\ \A t \in DOMAIN tree : t = ROOT \/ t = 0
      BY <1>1, <1>2 DEF tree
    <3>2. \A t \in DOMAIN tree :
            tree[t] \in [left : Links(tree), right : Links(tree), parent : Links(tree)]
      BY <1>2, <3>1 DEF Links
    <3> QED
      BY <3>1, <3>2 DEF Linked
  <2>2. LeftOK(tree, lo, hi, ROOT) /\ LeftOK(tree, lo, hi, 0)
    BY <1>2 DEF LeftOK
  <2>3. RightOK(tree, lo, hi, ROOT) /\ RightOK(tree, lo, hi, 0)
    BY <1>2, <1>5 DEF RightOK
  <2>4. BoundsOK(tree, Sizes(heap), lo, hi, ROOT)
    BY <1>2, <1>4, <1>5 DEF BoundsOK
  <2>5. BoundsOK(tree, Sizes(heap), lo, hi, 0)
    BY <1>2, <1>3, <1>4, <1>5 DEF BoundsOK
  <2>6. IsLinked(tree, 0)
    BY <1>2 DEF IsLinked
  <2> QED
    BY <1>2, <1>5, <2>1, <2>2, <2>3, <2>4, <2>5, <2>6 DEF SearchTree
<1>7. TreeOK(heap)
  BY <1>2, <1>5, <1>6 DEF TreeOK, Searchable, tree
<1>8. Listed(heap, 0)
  BY <1>2, <1>3 DEF Listed, TreeNodes, tree
<1> QED
  BY <1>1, <1>3, <1>7, <1>8 DEF Whole

(* A free leaves the KFC whole.                                            *)
LEMMA FreeObjWhole ==
    ASSUME TInv, NEW a \in VoChunks(heap), FreeObj(a)
    PROVE  Whole(heap', {})
<1> DEFINE m == HasFooter(heap, a) /\ Prev(heap, a) \in Free(heap)
<1>1. Sane(heap) /\ Whole(heap, {}) /\ heap.corrupted \in BOOLEAN
  BY CorruptedBool DEF TInv, IInv
<1>2. CASE heap' = heap
  BY <1>1, <1>2
<1>3. CASE heap.corrupted = FALSE /\ heap' = FreeChunk(heap, a, m)
  <2>1. m \in BOOLEAN /\ (m => HasFooter(heap, a) /\ Prev(heap, a) \in Free(heap))
    BY DEF HasFooter
  <2> HIDE DEF m
  <2>2. Whole(FreeChunk(heap, a, m), {})
    BY <1>1, <1>3, <2>1, FreeChunkWhole
  <2> QED
    BY <1>3, <2>2
<1> QED
  BY <1>1, <1>2, <1>3 DEF FreeObj

(* Every step of the heap leaves the KFC whole.                            *)
LEMMA NextWhole ==
    ASSUME TInv, [Next]_vars
    PROVE  Whole(heap', {})
<1>0. /\ IInv /\ Sane(heap) /\ Whole(heap, {}) /\ Held(heap, live, pend)
      /\ heap.corrupted \in BOOLEAN
  BY CorruptedBool, HeldIsPayloadFits DEF TInv, IInv
<1>1. ASSUME NEW size \in Requests, ~Overflows(size), heap.corrupted = FALSE,
             heap' = alloc_hmu(heap, TotUnits(size)).heap
      PROVE  Whole(heap', {})
  <2>1. TotUnits(size) \in Nat
    BY <1>1, TotUnitsEnough
  <2>2. Whole(alloc_hmu(heap, TotUnits(size)).heap, {})
    BY <1>0, <1>1, <2>1, AllocWhole
  <2> QED
    BY <1>1, <2>2
<1>2. ASSUME NEW size \in Requests, gc_alloc_vo(size)
      PROVE  Whole(heap', {})
  BY <1>0, <1>1, <1>2 DEF gc_alloc_vo
<1>3. ASSUME NEW a \in DOMAIN live, gc_free_vo(a)
      PROVE  Whole(heap', {})
  <2>1. a \in VoChunks(heap) /\ FreeObj(a)
    BY <1>0, <1>3 DEF Held, gc_free_vo
  <2> QED
    BY <2>1, FreeObjWhole
<1>4. ASSUME NEW a \in DOMAIN live, NEW size \in Requests,
             gc_realloc_vo(a, size)
      PROVE  Whole(heap', {})
  <2>1. ~Overflows(size) /\ heap.corrupted = FALSE
    BY <1>0, <1>4 DEF gc_realloc_vo
  <2>2. CASE ReallocSame(a, size)
    BY <1>0, <2>2 DEF ReallocSame
  <2>3. CASE ReallocInPlace(a, size)
    <3>1. PICK garbage \in BOOLEAN :
            heap' = Absorb(heap, a, TotUnits(size), garbage)
      BY <2>3 DEF ReallocInPlace
    <3>2. CanAbsorb(heap, a, TotUnits(size)) /\ TotUnits(size) \in Nat
      BY <2>1, <2>3, TotUnitsEnough DEF ReallocInPlace
    <3>3. a \in VoChunks(heap)
      BY <1>0 DEF Held
    <3>4. Whole(Absorb(heap, a, TotUnits(size), garbage), {})
      BY <1>0, <2>1, <3>2, <3>3, AbsorbWhole
    <3> QED
      BY <3>1, <3>4
  <2>4. CASE ReallocMove(a, size)
    BY <2>1, <2>4, <1>1 DEF ReallocMove
  <2> QED
    BY <1>4, <2>2, <2>3, <2>4 DEF gc_realloc_vo
<1>5. ASSUME NEW a \in pend, ReallocFree(a)
      PROVE  Whole(heap', {})
  <2>1. a \in VoChunks(heap) /\ FreeObj(a)
    BY <1>0, <1>5 DEF Held, ReallocFree
  <2> QED
    BY <2>1, FreeObjWhole
<1>6. CASE gc_migrate
  <2> DEFINE bad == ~ChunksEnd(heap.hmu)
  <2>1. /\ DOMAIN heap = HeapFields /\ heap.base \in Nat
    BY <1>0, SizesAssumption DEF Sane, HeapOK
  <2>2. heap' = [heap EXCEPT !.base = heap.base + 1, !.corrupted = bad]
    BY <1>6 DEF gc_migrate
  <2> HIDE DEF bad
  <2>3. /\ heap'.tree = heap.tree /\ heap'.hmu = heap.hmu
        /\ heap'.base = heap.base + 1
    BY <2>1, <2>2 DEF HeapFields
  <2>4. ASSUME NEW g, g = heap' PROVE TreeOK(g)
    BY <1>0, <2>3, <2>4, SameTree DEF Whole
  <2>5. heap'.base # 0
    BY <2>1, <2>3
  <2> QED
    BY <2>4, <2>5 DEF Whole
<1>7. CASE Refuse \/ UNCHANGED vars
  <2>1. heap' = heap
    BY <1>7 DEF Refuse, vars
  <2> QED
    BY <1>0, <2>1
<1> QED
  BY <1>2, <1>3, <1>4, <1>5, <1>6, <1>7 DEF Next, CoreNext

(* Every reachable heap is whole, whatever the operations are called with. *)
THEOREM WholeInvariance == Spec => []TInv
<1>1. Init => TInv
  BY InitIInv, InitWhole DEF TInv
<1>2. TInv /\ [Next]_vars => TInv'
  <2>1. SUFFICES ASSUME TInv, [Next]_vars PROVE TInv'
    OBVIOUS
  <2>2. IInv'
    BY <2>1, StepNext DEF TInv
  <2>3. Whole(heap', {})
    BY <2>1, NextWhole
  <2> QED
    BY <2>2, <2>3 DEF TInv
<1> QED
  BY <1>1, <1>2, PTL DEF Spec

(* kfc_tree is a search tree, ordered as ems_gc_internal.h:226 says, and   *)
(* its parent links lead from every node to the root.                      *)
THEOREM AlwaysTreeOrdered == Spec => []TreeOrdered
<1>1. TInv => TreeOrdered
  <2>1. SUFFICES ASSUME TInv PROVE TreeOrdered
    OBVIOUS
  <2>2. /\ Searchable(heap.tree, Sizes(heap)) /\ IsFiniteSet(DOMAIN heap.tree)
    BY <2>1, FiniteTree DEF TInv, IInv, Sane, Whole, TreeOK
  <2>3. \A x \in TreeNodes(heap) : Ordered(heap, x)
    BY <2>2, SearchTreeOrdered
  <2> QED
    BY <2>3 DEF Ordered, TreeOrdered
<1> QED
  BY <1>1, WholeInvariance, PTL

(* Until the pool is moved, unlink_hmu and alloc_hmu can find every free   *)
(* chunk, whatever was allocated, freed and resized.                       *)
THEOREM AlwaysKfcComplete == Spec => []KfcComplete
<1>1. TInv => KfcComplete
  BY DEF TInv, Whole, Listed, KfcComplete
<1> QED
  BY <1>1, WholeInvariance, PTL

(* Until the pool is moved, alloc_hmu takes a free chunk of the smallest   *)
(* sufficient size, fails only when there is none, and is_heap_corrupted   *)
(* stays false.                                                            *)
THEOREM AlwaysAllocExact == Spec => []AllocExact
<1>1. TInv => AllocExact
  <2>1. SUFFICES ASSUME TInv, heap.base = 0 PROVE AllocExact
    BY DEF AllocExact
  <2>2. heap.corrupted = FALSE /\ Sane(heap) /\ Whole(heap, {})
    BY <2>1 DEF TInv, IInv, Whole
  <2>3. ASSUME NEW r \in Requests, ~Overflows(r)
        PROVE  LET units == IF TotUnits(r) < GC_SMALLEST_SIZE
                            THEN GC_SMALLEST_SIZE ELSE TotUnits(r)
               IN  Smallest(heap, units, alloc_hmu(heap, TotUnits(r)).obj)
    <3>1. TotUnits(r) \in Nat
      BY <2>3, TotUnitsEnough
    <3> QED
      BY <2>1, <2>2, <3>1, AllocWhole
  <2> QED
    BY <2>2, <2>3 DEF AllocExact, Smallest, Large
<1> QED
  BY <1>1, WholeInvariance, PTL
============================================================================
