------------------------- MODULE LinearMemoryProofs -------------------------
(***************************************************************************)
(* BoundsSafe, BoundsExact, HeapInside, ValidateExact and Referenced of    *)
(* LinearMemory, for pages, heaps and modules of any size and any number   *)
(* of instances.                                                           *)
(*                                                                         *)
(* Two things make the argument.  The reference count of a shared memory   *)
(* is the number of its users, and the host's instance is one of them as   *)
(* long as there are others (Lives).  And a memory that does not yet reach *)
(* 2^32 - 1 bytes still has the page size it was made with, in the memory, *)
(* in every activation of the interpreter and in every half-done grow, so  *)
(* the products that wasm_enlarge_memory and the interpreter form are      *)
(* products of the same page size (Fits, SharedFits, PrivateFits).         *)
(***************************************************************************)
EXTENDS LinearMemory, FiniteSetTheorems, SequenceTheorems, TLAPS

----------------------------------------------------------------------------
(* Arithmetic *)

(* Division with remainder.                                                *)
LEMMA DivMod ==
    ASSUME NEW n \in Int, NEW a \in Nat \ {0}
    PROVE  /\ n \div a \in Int /\ n % a \in Int
           /\ n % a = n - a * (n \div a)
           /\ 0 =< n % a /\ n % a < a
           /\ n >= 0 => n \div a \in Nat
<1>1. n % a \in 0 .. (a - 1) /\ n \div a \in Int
  OBVIOUS
<1>2. n % a = n - a * (n \div a)
  OBVIOUS
<1>3. n >= 0 => n \div a \in Nat
  OBVIOUS
<1> QED
  BY <1>1, <1>2, <1>3

(* A product grows with its factors.                                       *)
LEMMA MulMono ==
    ASSUME NEW a \in Nat, NEW b \in Nat, NEW c \in Nat, b =< c
    PROVE  a * b \in Nat /\ a * c \in Nat /\ a * b =< a * c
OBVIOUS

(* The constants are positive numbers, and 2^32 is one.                    *)
LEMMA Constants ==
    /\ PageSize \in Nat \ {0} /\ MaxPages \in Nat \ {0} /\ OsPage \in Nat \ {0}
    /\ KB \in Nat \ {0} /\ Align \in Nat \ {0} /\ HeapSizeMax \in Nat
    /\ PageSize > 1 /\ OsPage > 1 /\ KB < PageSize /\ PageSize % OsPage = 0
    /\ HeapSizeMax + PageSize =< U32
    /\ U32 \in Nat \ {0} /\ UINT32_MAX \in Nat /\ UINT32_MAX = U32 - 1
    /\ U32 = PageSize * MaxPages /\ MaxPages < U32 /\ PageSize =< U32
<1>1. /\ PageSize \in Nat \ {0} /\ MaxPages \in Nat \ {0} /\ OsPage \in Nat \ {0}
      /\ KB \in Nat \ {0} /\ Align \in Nat \ {0} /\ HeapSizeMax \in Nat
      /\ OsPage > 1 /\ KB < PageSize /\ PageSize % OsPage = 0
      /\ HeapSizeMax + PageSize =< U32
  BY SizesAssumption
<1>2. PageSize >= 2
  BY <1>1
<1>3. /\ PageSize * MaxPages \in Nat /\ PageSize * MaxPages >= 2 * MaxPages
      /\ PageSize * MaxPages >= PageSize * 1
  BY <1>1, <1>2
<1> QED
  BY <1>1, <1>2, <1>3 DEF U32, UINT32_MAX

(* w32 is a uint32, and leaves one as it is.                               *)
LEMMA Wrap ==
    ASSUME NEW n \in Int
    PROVE  /\ w32(n) \in 0 .. UINT32_MAX
           /\ n \in 0 .. UINT32_MAX => w32(n) = n
           /\ n >= 0 => w32(n) =< n
           /\ U32 =< n /\ n < 2 * U32 => w32(n) = n - U32
<1> DEFINE q == n \div U32
<1>1. /\ U32 \in Nat \ {0} /\ UINT32_MAX = U32 - 1
  BY Constants
<1>2. /\ w32(n) \in 0 .. (U32 - 1) /\ w32(n) = n - U32 * q /\ q \in Int
      /\ n >= 0 => q \in Nat
  BY <1>1, DivMod DEF w32
<1> HIDE DEF q
<1>3. n >= 0 => U32 * q >= 0
  BY <1>1, <1>2
<1>4. n \in 0 .. (U32 - 1) => w32(n) = n
  <2> SUFFICES ASSUME n \in 0 .. (U32 - 1)
               PROVE  n % U32 = n
    BY DEF w32
  <2> QED
    BY <1>1
<1>5. U32 =< n /\ n < 2 * U32 => w32(n) = n - U32
  <2> SUFFICES ASSUME U32 =< n, n < 2 * U32
               PROVE  q = 1
    BY <1>1, <1>2
  <2>1. ~(q >= 2)
    <3> SUFFICES ASSUME q >= 2
                 PROVE  U32 * q >= U32 * 2
      BY <1>1, <1>2
    <3> QED
      BY <1>1, <1>2, MulMono
  <2>2. ~(q =< 0)
    <3> SUFFICES ASSUME q =< 0
                 PROVE  U32 * q =< 0
      BY <1>1, <1>2
    <3> QED
      BY <1>1, <1>2
  <2> QED
    BY <2>1, <2>2, <1>2
<1> QED
  BY <1>1, <1>2, <1>3, <1>4, <1>5

(* RoundUp is the next multiple.                                           *)
LEMMA RoundUpFacts ==
    ASSUME NEW n \in Nat, NEW a \in Nat \ {0}
    PROVE  /\ RoundUp(n, a) \in Nat /\ RoundUp(n, a) >= n /\ RoundUp(n, a) < n + a
           /\ \E q \in Nat : RoundUp(n, a) = a * q
<1> DEFINE m == n + a - 1
           q == m \div a
<1>1. m \in Nat /\ m >= 0 /\ m = n + a - 1
  OBVIOUS
<1>3. RoundUp(n, a) = q * a
  BY DEF RoundUp
<1> HIDE DEF m
<1>2. /\ q \in Nat /\ m % a = m - a * q /\ m % a \in Int
      /\ 0 =< m % a /\ m % a < a
  <2>1. m \in Int
    BY <1>1
  <2> QED
    BY <1>1, <2>1, DivMod, Zenon
<1> HIDE DEF q
<1>4. q * a = a * q /\ a * q \in Nat
  BY <1>2
<1> QED
  BY <1>1, <1>2, <1>3, <1>4

(* A multiple is rounded to itself.                                        *)
LEMMA RoundUpMultiple ==
    ASSUME NEW q \in Nat, NEW a \in Nat \ {0}
    PROVE  a * q \in Nat /\ RoundUp(a * q, a) = a * q
<1>1. a * q \in Nat
  OBVIOUS
<1>2. PICK r \in Nat : RoundUp(a * q, a) = a * r
  BY <1>1, RoundUpFacts
<1>3. a * r >= a * q /\ a * r < a * q + a
  BY <1>1, <1>2, RoundUpFacts
<1>4. ~(r > q)
  <2> SUFFICES ASSUME r >= q + 1
               PROVE  a * r >= a * q + a
    BY <1>1, <1>3
  <2>1. a * (q + 1) = a * q + a
    OBVIOUS
  <2> QED
    BY <2>1, MulMono
<1>5. ~(r < q)
  <2> SUFFICES ASSUME r + 1 =< q
               PROVE  a * r + a =< a * q
    BY <1>1, <1>3
  <2>1. a * (r + 1) = a * r + a
    OBVIOUS
  <2> QED
    BY <2>1, MulMono
<1> QED
  BY <1>1, <1>2, <1>4, <1>5

(* A larger number is not rounded to a smaller one.                        *)
LEMMA RoundUpMono ==
    ASSUME NEW m \in Nat, NEW n \in Nat, m =< n, NEW a \in Nat \ {0}
    PROVE  RoundUp(m, a) =< RoundUp(n, a)
<1>1. PICK q \in Nat : RoundUp(m, a) = a * q
  BY RoundUpFacts
<1>2. PICK r \in Nat : RoundUp(n, a) = a * r
  BY RoundUpFacts
<1>3. a * q < m + a /\ a * r >= n /\ a * q \in Nat /\ a * r \in Nat
  BY <1>1, <1>2, RoundUpFacts
<1>4. ~(r < q)
  <2> SUFFICES ASSUME r + 1 =< q
               PROVE  a * r + a =< a * q
    BY <1>3
  <2>1. a * (r + 1) = a * r + a
    OBVIOUS
  <2> QED
    BY <2>1, MulMono
<1> QED
  BY <1>1, <1>2, <1>4, MulMono

----------------------------------------------------------------------------
(* What memory_instantiate computes *)

PagesType == [page : Nat, init : Nat, max : Nat]
Own(m) == PageSize * m.init
Known(m) == m.base # NULL /\ m.base < Own(m)
Wraps(m) == m.base # NULL /\ RoundUp(m.base, Align) > UINT32_MAX

(* The heap is inside the pages and behind the static data of the app.     *)
HeapPlaced(m, l) ==
    /\ l.off + l.heap =< l.page * l.init
    /\ l.off + l.heap =< UINT32_MAX
    /\ l.off >= 0
    /\ Known(m) => l.off >= m.base
    /\ Known(m) \/ l.off >= Own(m)

LayoutOk(m, l) ==
    /\ l.page \in Nat /\ l.init \in Nat /\ l.max \in Nat /\ l.init =< l.max
    /\ l.off \in Int /\ l.heap \in Int
    /\ m.possible_memory_grow => l.page = PageSize \/ l.init = l.max
    /\ l.heap > 0 /\ ~Wraps(m) => HeapPlaced(m, l)

(* The fields of a module are what ModuleType says.                        *)
LEMMA ModuleFacts ==
    ASSUME NEW m \in Modules
    PROVE  /\ m.init \in 0 .. MaxPages /\ m.max \in 0 .. MaxPages /\ m.init =< m.max
           /\ m.heap \in Nat /\ m.base \in (0 .. UINT32_MAX) \cup {NULL}
           /\ m.possible_memory_grow \in BOOLEAN /\ m.malloc \in BOOLEAN
           /\ m.shared \in BOOLEAN /\ m.hw \in BOOLEAN
           /\ Own(m) \in Nat /\ Own(m) =< U32
<1>1. m \in ModuleType /\ m.init =< m.max
  BY ModulesAssumption
<1>2. m.init \in Nat /\ m.init =< MaxPages
  BY <1>1, Constants DEF ModuleType
<1>3. Own(m) \in Nat /\ Own(m) =< U32
  BY <1>2, MulMono, Constants DEF Own
<1> QED
  BY <1>1, <1>3 DEF ModuleType

(* The distance to the end of a page: the end is a multiple, and no number *)
(* of pages that holds the address ends before it.                         *)
LEMMA PageEnd ==
    ASSUME NEW addr \in Nat, NEW page \in Nat \ {0}
    PROVE  /\ ToPageEnd(addr, page) \in 0 .. page - 1
           /\ \A n \in Nat : addr < page * n => addr + ToPageEnd(addr, page) =< page * n
<1> DEFINE d == addr \div page
           r == addr % page
<1>1. addr \in Int /\ addr >= 0
  OBVIOUS
<1>2. d \in Nat /\ r \in Int /\ r = addr - page * d /\ 0 =< r /\ r < page
  BY <1>1, DivMod, Zenon
<1>3. ToPageEnd(addr, page) = page - (IF r = 0 THEN page ELSE r)
  BY DEF ToPageEnd
<1> HIDE DEF d, r
<1>4. page * d \in Nat
  BY <1>2
<1>5. ASSUME NEW n \in Nat, addr < page * n
      PROVE  addr + ToPageEnd(addr, page) =< page * n
  <2>1. page * n \in Nat
    OBVIOUS
  <2>2. d < n
    <3> SUFFICES ASSUME n =< d
                 PROVE  page * n =< page * d
      BY <1>2, <1>4, <1>5, <2>1
    <3> QED
      BY <1>2, MulMono
  <2>3. page * (d + 1) =< page * n /\ page * (d + 1) = page * d + page
    <3>1. d + 1 \in Nat /\ d + 1 =< n
      BY <1>2, <2>2
    <3>2. page * (d + 1) = page * d + page
      BY <1>2
    <3> QED
      BY <3>1, <3>2, MulMono
  <2> QED
    BY <1>2, <1>3, <1>4, <1>5, <2>1, <2>3
<1> QED
  BY <1>2, <1>3, <1>5

(* The host's heap size after alignment and capping.                       *)
LEMMA HeapSizeFacts ==
    ASSUME NEW m \in Modules
    PROVE  /\ HeapSize(m) \in Nat /\ HeapSize(m) =< HeapSizeMax
           /\ HeapSize(m) + PageSize =< U32
<1>1. RoundUp(m.heap, Align) \in Nat
  BY ModuleFacts, RoundUpFacts, Constants
<1>2. align_uint(m.heap, Align) \in Nat
  BY <1>1, Wrap, Constants DEF align_uint
<1> QED
  BY <1>2, Constants DEF HeapSize

(* CountPages either counts the pages or makes one page of all of them.    *)
LEMMA Counted ==
    ASSUME NEW p \in PagesType, NEW off \in Int, NEW heap \in Int, NEW base,
           NEW inc \in Nat, p.init =< p.max,
           CountPages(Layout(p, off, heap, base), inc).ok
    PROVE  LET c == CountPages(Layout(p, off, heap, base), inc)
           IN /\ c.off = off /\ c.heap = heap
              /\ c.max \in Nat /\ c.init =< c.max
              /\ p.init + inc =< MaxPages
              /\ \/ /\ p.init + inc = MaxPages
                    /\ c.page = UINT32_MAX /\ c.init = 1 /\ c.max = 1
                 \/ /\ p.init + inc < MaxPages
                    /\ c.page = p.page /\ c.init = p.init + inc
                    /\ c.max = p.max + inc \/ c.max = MaxPages
<1> DEFINE c == CountPages(Layout(p, off, heap, base), inc)
           init == p.init + inc
           max == p.max + inc
<1>1. /\ p.page \in Nat /\ p.init \in Nat /\ p.max \in Nat /\ MaxPages \in Nat \ {0}
      /\ init \in Nat /\ max \in Nat /\ init =< max
  BY Constants DEF PagesType
<1>2. /\ c.off = off /\ c.heap = heap
      /\ c.ok = (init =< MaxPages)
      /\ c.page = IF init = MaxPages THEN UINT32_MAX ELSE p.page
      /\ c.init = IF init = MaxPages THEN 1 ELSE init
      /\ c.max = IF init = MaxPages THEN 1 ELSE IF max > MaxPages THEN MaxPages ELSE max
  BY DEF CountPages, Layout
<1> HIDE DEF c
<1>3. init =< MaxPages
  BY <1>2 DEF c
<1>4. CASE init = MaxPages
  BY <1>1, <1>2, <1>4 DEF c
<1>5. CASE init < MaxPages
  BY <1>1, <1>2, <1>5 DEF c
<1> QED
  BY <1>1, <1>3, <1>4, <1>5

(* Loaded: without memory.grow at most one page remains, and it covers the *)
(* static data unless the aligned heap base wrapped.                       *)
LEMMA LoadedFacts ==
    ASSUME NEW m \in Modules
    PROVE  LET p == Loaded(m)
           IN /\ p \in PagesType /\ p.init =< p.max
              /\ m.possible_memory_grow =>
                    p.page = PageSize /\ p.init = m.init /\ p.max = m.max
              /\ ~m.possible_memory_grow =>
                    /\ p.page =< UINT32_MAX
                    /\ (p.init = 1 /\ p.max = 1) \/ (p.init = 0 /\ p.max = 0 /\ m.init = 0)
                    /\ p.init = 1 /\ ~Wraps(m) =>
                          /\ Known(m) => p.page >= m.base
                          /\ Known(m) \/ p.page >= Own(m) \/ p.page = UINT32_MAX
<1> DEFINE p == Loaded(m)
<1>1. /\ PageSize \in Nat \ {0} /\ MaxPages \in Nat \ {0} /\ UINT32_MAX \in Nat
      /\ UINT32_MAX = U32 - 1 /\ U32 \in Nat
      /\ m.init \in Nat /\ m.max \in Nat /\ m.init =< m.max /\ m.init =< MaxPages
      /\ Own(m) \in Nat /\ Own(m) =< U32
      /\ m.base \in (0 .. UINT32_MAX) \cup {NULL}
  BY Constants, ModuleFacts
<1>2. CASE m.possible_memory_grow
  <2>1. p = [page |-> PageSize, init |-> m.init, max |-> m.max]
    BY <1>2 DEF Loaded
  <2> QED
    BY <1>1, <1>2, <2>1 DEF PagesType
<1>3. CASE ~m.possible_memory_grow
  <2> DEFINE shrunk == align_uint(m.base, Align)
             shrink == m.base # NULL /\ shrunk =< PageSize * m.init
             page == IF shrink THEN shrunk ELSE PageSize
             init == IF shrink THEN 1 ELSE m.init
  <2>1. /\ p.page = IF init < MaxPages THEN w32(page * init) ELSE UINT32_MAX
        /\ p.init = IF init > 0 THEN 1 ELSE 0
        /\ p.max = IF init > 0 THEN 1 ELSE 0
        /\ p = [page |-> p.page, init |-> p.init, max |-> p.max]
    BY <1>3 DEF Loaded, MergePages
  <2>2. m.base # NULL =>
           /\ m.base \in Nat
           /\ shrunk \in 0 .. UINT32_MAX
           /\ ~Wraps(m) => shrunk >= m.base
    <3> SUFFICES ASSUME m.base # NULL
                 PROVE  /\ m.base \in Nat
                        /\ shrunk \in 0 .. UINT32_MAX
                        /\ ~Wraps(m) => shrunk >= m.base
      OBVIOUS
    <3>1. m.base \in Nat
      BY <1>1
    <3>2. RoundUp(m.base, Align) \in Nat /\ RoundUp(m.base, Align) >= m.base
      BY <3>1, RoundUpFacts, Constants
    <3>3. /\ w32(RoundUp(m.base, Align)) \in 0 .. UINT32_MAX
          /\ RoundUp(m.base, Align) \in 0 .. UINT32_MAX
                => w32(RoundUp(m.base, Align)) = RoundUp(m.base, Align)
      BY <3>2, Wrap
    <3> QED
      BY <1>1, <3>1, <3>2, <3>3 DEF align_uint, Wraps
  <2>3. CASE shrink
    <3>1. init = 1 /\ page = shrunk /\ shrunk \in 0 .. UINT32_MAX
      BY <2>2, <2>3
    <3> HIDE DEF shrunk, init, page
    <3>2. page * init = shrunk /\ page * init \in Int
      BY <1>1, <3>1
    <3>3. w32(page * init) = shrunk
      BY <3>1, <3>2, Wrap
    <3>4. /\ p.page = shrunk \/ p.page = UINT32_MAX
          /\ p.init = 1 /\ p.max = 1
      BY <2>1, <3>1, <3>3, <1>1
    <3>5. p.page \in 0 .. UINT32_MAX
      BY <1>1, <3>4, <3>1
    <3>6. ~Wraps(m) => p.page >= m.base
      BY <1>1, <2>2, <2>3, <3>4, <3>5
    <3>7. ~Known(m) => m.base >= Own(m)
      BY <1>1, <2>2, <2>3 DEF Known
    <3> HIDE DEF p
    <3>8. p \in PagesType
      BY <2>1, <3>4, <3>5 DEF PagesType
    <3> QED
      BY <1>1, <1>3, <2>2, <2>3, <3>4, <3>5, <3>6, <3>7, <3>8 DEF p
  <2>4. CASE ~shrink
    <3>1. init = m.init /\ page = PageSize
      BY <2>4
    <3> HIDE DEF shrunk, init, page, shrink
    <3>2. page * init = Own(m)
      BY <3>1 DEF Own
    <3>3. init < MaxPages => Own(m) < U32
      <4> SUFFICES ASSUME m.init + 1 =< MaxPages
                   PROVE  Own(m) < U32
        BY <1>1, <3>1
      <4>1. PageSize * (m.init + 1) =< PageSize * MaxPages
        BY <1>1, MulMono
      <4>2. PageSize * (m.init + 1) = Own(m) + PageSize
        BY <1>1 DEF Own
      <4> QED
        BY <1>1, <4>1, <4>2, Constants
    <3>4. w32(Own(m)) \in 0 .. UINT32_MAX /\ (Own(m) < U32 => w32(Own(m)) = Own(m))
      BY <1>1, Wrap
    <3>5. /\ p.page \in 0 .. UINT32_MAX
          /\ p.page = Own(m) \/ p.page = UINT32_MAX
      BY <1>1, <2>1, <3>2, <3>3, <3>4
    <3>6. (p.init = 1 /\ p.max = 1) \/ (p.init = 0 /\ p.max = 0 /\ m.init = 0)
      <4>1. init > 0 \/ m.init = 0
        BY <1>1, <3>1
      <4>2. m.init = 0 => ~(init > 0)
        BY <3>1
      <4> HIDE DEF p
      <4> QED
        BY <2>1, <4>1, <4>2
    <3>7. Known(m) => p.page >= m.base
      BY <1>1, <3>5 DEF Known
    <3> HIDE DEF p
    <3>8. p \in PagesType
      BY <2>1, <3>5, <3>6 DEF PagesType
    <3> QED
      BY <1>1, <1>3, <3>5, <3>6, <3>7, <3>8 DEF p
  <2> QED
    BY <2>3, <2>4
<1> QED
  BY <1>2, <1>3

(* A heap behind the one page there is.                                    *)
LEMMA AppendHeapOk ==
    ASSUME NEW m \in Modules, Loaded(m).init = 1, Loaded(m).max = 1,
           NEW l, l = AppendHeap(Loaded(m), HeapSize(m), m.base), l.ok
    PROVE  LayoutOk(m, l)
<1> DEFINE p == Loaded(m)
           h == HeapSize(m)
           page == w32(p.page + h)
<1>1. /\ PageSize \in Nat \ {0} /\ UINT32_MAX \in Nat /\ U32 \in Nat /\ UINT32_MAX = U32 - 1
      /\ Own(m) \in Nat /\ m.init \in Nat /\ MaxPages \in Nat \ {0} /\ PageSize =< U32
      /\ m.base \in (0 .. UINT32_MAX) \cup {NULL}
      /\ m.possible_memory_grow \in BOOLEAN
  BY Constants, ModuleFacts
<1>2. h \in Nat /\ h + PageSize =< U32
  BY HeapSizeFacts
<1>3. /\ p \in PagesType /\ p.init = 1 /\ p.max = 1
      /\ m.possible_memory_grow => p.page = PageSize /\ m.init = 1
      /\ ~m.possible_memory_grow =>
           /\ p.page =< UINT32_MAX
           /\ ~Wraps(m) => /\ Known(m) => p.page >= m.base
                           /\ Known(m) \/ p.page >= Own(m) \/ p.page = UINT32_MAX
  BY LoadedFacts
<1>4. p.page \in Nat /\ p.page =< U32
  BY <1>1, <1>3 DEF PagesType
<1>5. /\ l.page = page /\ l.init = p.init /\ l.max = p.max
      /\ l.off = p.page /\ l.heap = h /\ l.ok = (page >= h)
  <2>1. [p EXCEPT !.page = page] = [page |-> page, init |-> p.init, max |-> p.max]
    BY <1>3 DEF PagesType
  <2> HIDE DEF p, h, page
  <2>2. l = [Layout([p EXCEPT !.page = page], p.page, h, m.base) EXCEPT !.ok = page >= h]
    BY DEF AppendHeap, p, h, page
  <2> QED
    BY <2>1, <2>2 DEF Layout
<1> HIDE DEF p, h, page
<1>6. page \in 0 .. UINT32_MAX /\ page >= h
  <2>1. p.page + h \in Int
    BY <1>2, <1>4
  <2> QED
    BY <2>1, <1>5, Wrap DEF page
<1>7. h > 0 => page = p.page + h /\ p.page + h =< UINT32_MAX
  <2> SUFFICES ASSUME h > 0, p.page + h >= U32
               PROVE  FALSE
    <3>1. p.page + h < U32 => page = p.page + h
      BY <1>1, <1>2, <1>4, Wrap DEF page
    <3> QED
      BY <1>1, <1>2, <1>4, <3>1
  <2>1. U32 =< p.page + h /\ p.page + h < 2 * U32 /\ p.page + h \in Int
    BY <1>1, <1>2, <1>4
  <2> DEFINE n == p.page + h
  <2>2. page = n - U32
    <3>1. n \in Int /\ U32 =< n /\ n < 2 * U32 /\ page = w32(n)
      BY <2>1 DEF page
    <3> HIDE DEF n
    <3> QED
      BY <3>1, Wrap
  <2>3. p.page = U32
    BY <2>2, <1>1, <1>2, <1>4, <1>6
  <2> QED
    BY <1>1, <1>2, <1>3, <2>3
<1>8. m.possible_memory_grow => Own(m) = PageSize
  BY <1>1, <1>3 DEF Own
<1>9. ASSUME h > 0, ~Wraps(m)
      PROVE  HeapPlaced(m, l)
  <2>1. p.page < UINT32_MAX \/ h = 0
    BY <1>1, <1>2, <1>4, <1>7
  <2>2. Known(m) => p.page >= m.base
    BY <1>1, <1>3, <1>8, <1>9, <1>4 DEF Known
  <2>3. Known(m) \/ p.page >= Own(m)
    BY <1>1, <1>3, <1>8, <1>9, <1>4, <2>1, <1>2
  <2>4. l.page * l.init = l.off + l.heap
    BY <1>3, <1>5, <1>6, <1>7, <1>9, <1>2, <1>4
  <2> QED
    BY <2>2, <2>3, <2>4, <1>4, <1>5, <1>7, <1>9, <1>1, <1>2 DEF HeapPlaced
<1> QED
  BY <1>1, <1>2, <1>3, <1>4, <1>5, <1>6, <1>9 DEF LayoutOk

(* A heap that is the only page of a module without memory.                *)
LEMMA OnlyHeapOk ==
    ASSUME NEW m \in Modules, Loaded(m).init = 0, Loaded(m).max = 0,
           NEW l, l.ok,
           l = CountPages(Layout([Loaded(m) EXCEPT !.page = HeapSize(m)],
                                 0, HeapSize(m), m.base), 1)
    PROVE  LayoutOk(m, l)
<1> DEFINE h == HeapSize(m)
           p == [Loaded(m) EXCEPT !.page = h]
<1>1. /\ PageSize \in Nat \ {0} /\ UINT32_MAX \in Nat /\ U32 \in Nat /\ UINT32_MAX = U32 - 1
      /\ MaxPages \in Nat \ {0} /\ m.init \in Nat
      /\ m.base \in (0 .. UINT32_MAX) \cup {NULL}
  BY Constants, ModuleFacts
<1>2. h \in Nat /\ h + PageSize =< U32
  BY HeapSizeFacts
<1>3. p \in PagesType /\ p.page = h /\ p.init = 0 /\ p.max = 0
  BY <1>2, LoadedFacts DEF PagesType
<1>4. m.init = 0
  BY LoadedFacts
<1>5. l = CountPages(Layout(p, 0, h, m.base), 1)
  OBVIOUS
<1> HIDE DEF p, h
<1>6. /\ l.off = 0 /\ l.heap = h /\ l.max \in Nat
      /\ l.page = UINT32_MAX \/ l.page = h
      /\ l.init = 1 /\ l.max = 1
  <2>1. /\ l.off = 0 /\ l.heap = h
        /\ l.page = IF p.init + 1 = MaxPages THEN UINT32_MAX ELSE p.page
        /\ l.init = IF p.init + 1 = MaxPages THEN 1 ELSE p.init + 1
        /\ l.max = IF p.init + 1 = MaxPages THEN 1
                   ELSE IF p.max + 1 > MaxPages THEN MaxPages ELSE p.max + 1
    BY <1>5 DEF CountPages, Layout
  <2> QED
    BY <1>1, <1>3, <2>1
<1>7. Own(m) = 0 /\ ~Known(m)
  BY <1>1, <1>4 DEF Own, Known
<1>8. l.page * l.init = l.page /\ l.page >= h /\ h =< UINT32_MAX /\ l.page \in Nat
  BY <1>1, <1>2, <1>6
<1>9. HeapPlaced(m, l)
  BY <1>2, <1>6, <1>7, <1>8 DEF HeapPlaced
<1> QED
  BY <1>2, <1>6, <1>8, <1>9 DEF LayoutOk

(* A heap at __heap_base, in front of what the app allocates.              *)
LEMMA HeapBeforeBaseOk ==
    ASSUME NEW m \in Modules, m.possible_memory_grow,
           m.base # NULL, m.base < w32(Loaded(m).page * Loaded(m).init),
           NEW l, l.ok, l = HeapBeforeBase(Loaded(m), HeapSize(m), m.base)
    PROVE  LayoutOk(m, l)
<1> DEFINE h == HeapSize(m)
           p == Loaded(m)
           base == m.base
           e == ToPageEnd(base, PageSize)
           top == h - e + PageSize - 1
           inc == top \div PageSize
           end == w32(base + h)
           tight == ToPageEnd(end, PageSize) < KB
           new_base == IF tight THEN w32(end + KB) ELSE end
           added == IF tight THEN inc + 1 ELSE inc
<1>1. /\ PageSize \in Nat \ {0} /\ UINT32_MAX \in Nat /\ U32 \in Nat /\ UINT32_MAX = U32 - 1
      /\ MaxPages \in Nat \ {0} /\ m.init \in Nat /\ KB \in Nat \ {0} /\ U32 = PageSize * MaxPages
      /\ Own(m) \in Nat /\ Own(m) =< U32
  BY Constants, ModuleFacts
<1>2. h \in Nat /\ h + PageSize =< U32
  BY HeapSizeFacts
<1>3. p \in PagesType /\ p.page = PageSize /\ p.init = m.init /\ p.init =< p.max
  BY LoadedFacts
<1>4. base \in Nat /\ base < Own(m) /\ Own(m) = PageSize * m.init
  <2>1. w32(PageSize * m.init) =< Own(m) /\ w32(PageSize * m.init) \in Nat
    BY <1>1, Wrap DEF Own
  <2>2. base \in Nat
    BY ModuleFacts
  <2> QED
    BY <1>1, <1>3, <2>1, <2>2 DEF Own
<1>5. e \in Nat /\ e < PageSize /\ base + e =< Own(m)
  <2>1. /\ base \in Nat /\ m.init \in Nat /\ base < PageSize * m.init
        /\ PageSize \in Nat \ {0}
    BY <1>1, <1>4
  <2> HIDE DEF base
  <2>2. e \in 0 .. PageSize - 1 /\ base + e =< PageSize * m.init
    BY <2>1, PageEnd
  <2> QED
    BY <1>1, <1>4, <2>2
<1>6. top \in Nat /\ top =< UINT32_MAX /\ top >= 0 /\ w32(top) = top
  <2>1. top \in 0 .. UINT32_MAX
    BY <1>1, <1>2, <1>5
  <2> HIDE DEF top
  <2> QED
    BY <2>1, <1>1, Wrap
<1>7. l = CountPages(Layout(p, base, h, new_base), added)
  <2>1. w32(h - ToPageEnd(base, p.page) + p.page - 1) = top
    BY <1>3, <1>6
  <2> HIDE DEF p, h, top
  <2> QED
    BY <1>3, <2>1 DEF HeapBeforeBase, p, h
<1>8. inc \in Nat /\ PageSize * inc + e >= h
  <2> HIDE DEF top
  <2>1. inc \in Nat /\ top % PageSize = top - PageSize * inc /\ top % PageSize \in Int
        /\ top % PageSize < PageSize
    <3>1. top \in Int
      BY <1>6
    <3> QED
      BY <3>1, <1>6, <1>1, DivMod, Zenon
  <2>2. top = h - e + PageSize - 1
    BY DEF top
  <2> HIDE DEF h, e, inc
  <2>3. PageSize * inc \in Nat
    BY <1>1, <2>1
  <2> QED
    BY <1>1, <1>2, <1>5, <2>1, <2>2, <2>3
<1> HIDE DEF h, p, e, top, inc, end, tight, new_base
<1>9. added \in Nat /\ inc =< added
  BY <1>8
<1>10. /\ l.off = base /\ l.heap = h /\ l.max \in Nat /\ l.init =< l.max
       /\ m.init + added =< MaxPages
       /\ \/ /\ m.init + added = MaxPages
             /\ l.page = UINT32_MAX /\ l.init = 1 /\ l.max = 1
          \/ /\ m.init + added < MaxPages
             /\ l.page = PageSize /\ l.init = m.init + added
  <2> HIDE DEF added
  <2>1. base \in Int /\ h \in Int
    BY <1>2, <1>4
  <2> QED
    BY <2>1, <1>3, <1>7, <1>9, Counted
<1>11. base + h =< PageSize * (m.init + inc) /\ m.init + inc \in Nat
  <2>1. PageSize * (m.init + inc) = PageSize * m.init + PageSize * inc
    BY <1>1, <1>8
  <2>2. PageSize * inc \in Nat
    BY <1>1, <1>8
  <2> QED
    BY <1>1, <1>2, <1>4, <1>5, <1>8, <2>1, <2>2
<1>12. base + h =< PageSize * (m.init + added)
  <2>1. PageSize * (m.init + inc) =< PageSize * (m.init + added)
    <3> HIDE DEF added
    <3>1. m.init + inc \in Nat /\ m.init + added \in Nat /\ m.init + inc =< m.init + added
      BY <1>1, <1>8, <1>9
    <3> QED
      BY <3>1, <1>1, MulMono
  <2> HIDE DEF added
  <2>2. PageSize * (m.init + inc) \in Nat /\ PageSize * (m.init + added) \in Nat
    BY <1>1, <1>8, <1>9
  <2> QED
    BY <1>2, <1>4, <1>11, <2>1, <2>2
<1>13. base + h =< UINT32_MAX
  <2>1. PageSize * (m.init + added) =< PageSize * MaxPages
    <3> HIDE DEF added
    <3>1. m.init + added \in Nat
      BY <1>1, <1>9
    <3> QED
      BY <3>1, <1>1, <1>10, MulMono
  <2>2. base + h =< U32
    <3> HIDE DEF added
    <3>1. PageSize * (m.init + added) \in Nat
      BY <1>1, <1>9
    <3> QED
      BY <1>1, <1>2, <1>4, <1>12, <2>1, <3>1
  <2>3. base + h # U32
    <3> SUFFICES ASSUME base + h = U32
                 PROVE  FALSE
      OBVIOUS
    <3>1. end = 0
      BY <1>1 DEF end, w32
    <3>2. tight
      BY <3>1, <1>1 DEF tight, ToPageEnd
    <3>3. m.init + inc + 1 =< MaxPages
      BY <3>2, <1>1, <1>8, <1>10
    <3>4. PageSize * (m.init + inc + 1) =< PageSize * MaxPages
      BY <3>3, <1>1, <1>8, MulMono
    <3>5. PageSize * (m.init + inc + 1) = PageSize * (m.init + inc) + PageSize
      BY <1>1, <1>8
    <3>6. PageSize * (m.init + inc) \in Nat
      BY <1>1, <1>11
    <3> QED
      BY <1>1, <1>11, <3>4, <3>5, <3>6
  <2> QED
    BY <1>1, <1>2, <1>4, <2>2, <2>3
<1>14. l.page \in Nat /\ l.init \in Nat /\ base + h =< l.page * l.init
  <2> HIDE DEF added
  <2> QED
    BY <1>1, <1>9, <1>10, <1>12, <1>13
<1>15. Known(m)
  BY <1>4 DEF Known
<1>16. HeapPlaced(m, l)
  BY <1>4, <1>10, <1>13, <1>14, <1>15 DEF HeapPlaced
<1> QED
  BY <1>2, <1>4, <1>10, <1>14, <1>16 DEF LayoutOk

(* A heap in pages of its own behind the memory.                           *)
LEMMA HeapInNewPagesOk ==
    ASSUME NEW m \in Modules, m.possible_memory_grow, HeapSize(m) # 0,
           m.base # NULL => m.base >= w32(Loaded(m).page * Loaded(m).init),
           NEW l, l.ok, l = HeapInNewPages(Loaded(m), HeapSize(m), m.base)
    PROVE  LayoutOk(m, l)
<1> DEFINE h == HeapSize(m)
           p == Loaded(m)
           top == h + PageSize - 1
           inc == top \div PageSize
           off == w32(PageSize * m.init)
           heap == w32(PageSize * inc) - KB
<1>1. /\ PageSize \in Nat \ {0} /\ UINT32_MAX \in Nat /\ U32 \in Nat /\ UINT32_MAX = U32 - 1
      /\ MaxPages \in Nat \ {0} /\ m.init \in Nat /\ KB \in Nat \ {0} /\ U32 = PageSize * MaxPages
      /\ Own(m) \in Nat /\ Own(m) =< U32 /\ m.base \in (0 .. UINT32_MAX) \cup {NULL}
  BY Constants, ModuleFacts
<1>2. h \in Nat \ {0} /\ h + PageSize =< U32
  BY HeapSizeFacts
<1>3. p \in PagesType /\ p.page = PageSize /\ p.init = m.init /\ p.init =< p.max
  BY LoadedFacts
<1>4. l = CountPages(Layout(p, off, heap, m.base), inc)
  <2> HIDE DEF p, h
  <2> QED
    BY <1>3 DEF HeapInNewPages, p, h
<1>5. inc \in Nat /\ inc > 0
  <2>1. top \in Nat /\ top \in Int /\ top >= 0 /\ top >= PageSize
    BY <1>1, <1>2
  <2> HIDE DEF top
  <2>2. inc \in Nat /\ top % PageSize = top - PageSize * inc /\ top % PageSize < PageSize
        /\ top % PageSize \in Int
    BY <2>1, <1>1, DivMod, Zenon
  <2>3. inc # 0
    BY <1>1, <2>1, <2>2
  <2> QED
    BY <2>2, <2>3
<1> HIDE DEF h, p, inc
<1>6. off \in 0 .. UINT32_MAX /\ w32(PageSize * inc) \in 0 .. UINT32_MAX /\ PageSize * inc \in Nat
      /\ PageSize * m.init \in Nat
  <2>1. PageSize * m.init \in Nat /\ PageSize * inc \in Nat
    BY <1>1, <1>5
  <2>2. PageSize * m.init \in Int /\ PageSize * inc \in Int
    BY <2>1
  <2> QED
    BY <2>1, <2>2, Wrap
<1> HIDE DEF off
<1>7. heap \in Int
  BY <1>1, <1>6
<1>8. /\ l.off = off /\ l.heap = heap /\ l.max \in Nat /\ l.init =< l.max
      /\ m.init + inc =< MaxPages
      /\ \/ /\ m.init + inc = MaxPages
            /\ l.page = UINT32_MAX /\ l.init = 1 /\ l.max = 1
         \/ /\ m.init + inc < MaxPages
            /\ l.page = PageSize /\ l.init = m.init + inc
  <2> HIDE DEF heap
  <2>1. off \in Int
    BY <1>6
  <2> QED
    BY <2>1, <1>3, <1>4, <1>5, <1>7, Counted
<1>9. PageSize * m.init + PageSize * inc =< U32
      /\ PageSize * (m.init + inc) = PageSize * m.init + PageSize * inc
  <2>1. PageSize * (m.init + inc) = PageSize * m.init + PageSize * inc
    BY <1>1, <1>5
  <2>2. m.init + inc \in Nat
    BY <1>1, <1>5
  <2>3. PageSize * (m.init + inc) =< PageSize * MaxPages
    BY <1>1, <1>8, <2>2, MulMono
  <2> QED
    BY <1>1, <2>1, <2>3
<1>10. PageSize * inc >= PageSize
  BY <1>1, <1>5
<1>11. off = Own(m) /\ Own(m) = PageSize * m.init
  <2>1. PageSize * m.init \in 0 .. UINT32_MAX
    BY <1>1, <1>6, <1>9, <1>10
  <2>2. w32(PageSize * m.init) = PageSize * m.init
    BY <2>1, Wrap
  <2> QED
    BY <2>2 DEF Own, off
<1>12. heap =< PageSize * inc - KB
  <2>1. w32(PageSize * inc) =< PageSize * inc
    BY <1>6, Wrap
  <2> QED
    BY <2>1, <1>1, <1>6
<1> HIDE DEF heap
<1>13. off + heap =< PageSize * (m.init + inc) /\ off + heap =< UINT32_MAX
  BY <1>1, <1>6, <1>7, <1>9, <1>11, <1>12
<1>14. l.page \in Nat /\ l.init \in Nat /\ off + heap =< l.page * l.init
  <2>1. CASE l.page = UINT32_MAX /\ l.init = 1
    BY <1>1, <1>13, <2>1
  <2>2. CASE l.page = PageSize /\ l.init = m.init + inc
    BY <1>1, <1>5, <1>13, <2>2
  <2> QED
    BY <1>8, <2>1, <2>2
<1>15. Known(m) => off >= m.base
  BY <1>1, <1>11 DEF Known
<1>16. HeapPlaced(m, l)
  BY <1>1, <1>6, <1>8, <1>11, <1>13, <1>14, <1>15 DEF HeapPlaced
<1> QED
  BY <1>6, <1>7, <1>8, <1>14, <1>16 DEF LayoutOk

(* memory_instantiate places the heap inside the memory and behind the     *)
(* data of the app, in every way it has of inserting one.                  *)
LEMMA InsertHeapOk ==
    ASSUME NEW m \in Modules, InsertHeap(m).ok
    PROVE  LayoutOk(m, InsertHeap(m))
<1> DEFINE p == Loaded(m)
           h == HeapSize(m)
           l == InsertHeap(m)
<1>1. /\ p \in PagesType /\ p.init =< p.max
      /\ m.possible_memory_grow => p.page = PageSize
      /\ ~m.possible_memory_grow => (p.init = 1 /\ p.max = 1) \/ (p.init = 0 /\ p.max = 0)
  BY LoadedFacts
<1>2. CASE p.init = 1 /\ p.max = 1
  <2>1. l = AppendHeap(p, h, m.base)
    BY <1>2 DEF InsertHeap
  <2> QED
    BY <1>2, <2>1, AppendHeapOk
<1>3. CASE ~(p.init = 1 /\ p.max = 1) /\ h = 0
  <2>1. l = Layout(p, w32(p.page * p.init), 0, m.base)
    BY <1>3 DEF InsertHeap
  <2>2. l.off \in Int /\ l.heap = 0 /\ l.page = p.page /\ l.init = p.init /\ l.max = p.max
    <3>1. p.page * p.init \in Int
      BY <1>1 DEF PagesType
    <3>2. w32(p.page * p.init) \in Int
      BY <3>1, Wrap
    <3> QED
      BY <2>1, <3>2 DEF Layout
  <2> QED
    BY <1>1, <1>3, <2>2 DEF LayoutOk, PagesType
<1>4. CASE h # 0 /\ p.init = 0 /\ p.max = 0
  <2>1. l = CountPages(Layout([p EXCEPT !.page = h], 0, h, m.base), 1)
    BY <1>4 DEF InsertHeap
  <2> QED
    BY <1>4, <2>1, OnlyHeapOk
<1>5. CASE /\ ~(p.init = 1 /\ p.max = 1) /\ ~(p.init = 0 /\ p.max = 0) /\ h # 0
           /\ m.base # NULL /\ m.base < w32(p.page * p.init)
  <2>1. l = HeapBeforeBase(p, h, m.base)
    BY <1>5 DEF InsertHeap
  <2> QED
    BY <1>1, <1>5, <2>1, HeapBeforeBaseOk
<1>6. CASE /\ ~(p.init = 1 /\ p.max = 1) /\ ~(p.init = 0 /\ p.max = 0) /\ h # 0
           /\ ~(m.base # NULL /\ m.base < w32(p.page * p.init))
  <2>1. l = HeapInNewPages(p, h, m.base)
    BY <1>6 DEF InsertHeap
  <2>2. m.base # NULL => m.base >= w32(p.page * p.init)
    <3>1. w32(p.page * p.init) \in Int
      BY <1>1, Wrap DEF PagesType
    <3>2. m.base \in (0 .. UINT32_MAX) \cup {NULL}
      BY ModuleFacts
    <3> QED
      BY <1>6, <3>1, <3>2, Constants
  <2> QED
    BY <1>1, <1>6, <2>1, <2>2, HeapInNewPagesOk
<1> QED
  BY <1>2, <1>3, <1>4, <1>5, <1>6

----------------------------------------------------------------------------
(* The inductive invariant *)

PcType == {"new", "found", "memory", "live", "failed", "remove", "gone"}
Activation == [page : Nat, size : 0 .. UINT32_MAX]

MemTypes ==
    /\ module \in Modules
    /\ memory \in MemoryType \cup {NULL}
    /\ node \in Int \cup {NULL}
    /\ pc \in [Instances -> PcType]
    /\ grow \in [Instances -> GrowType \cup {NULL}]
    /\ act \in [Instances -> Seq(Activation)]

Users == {i \in Instances : pc[i] \in {"memory", "live"}}

(* Who has the memory: the host's instance from its instantiation to its   *)
(* end, the others only meanwhile and only when it is shared.              *)
Lives ==
    /\ memory = NULL <=> pc[Main] \in {"new", "failed", "gone"}
    /\ pc[Main] # "found"
    /\ \A i \in Instances \ {Main} :
          /\ pc[i] \notin {"failed", "remove"}
          /\ pc[i] \in {"found", "memory", "live"} => module.shared /\ pc[Main] = "live"
    /\ ~module.shared \/ memory = NULL => node = NULL
    /\ module.shared /\ memory # NULL => node = Cardinality(Users)
    /\ \A i \in Instances : act[i] # << >> => pc[i] = "live"
    /\ \A i \in Instances : grow[i] # NULL => act[i] # << >>

(* Where the heap must be.                                                 *)
HasHeap == memory.heap > 0 /\ ~BaseWraps
HeapEnd == memory.off + memory.heap

HeapOk ==
    memory # NULL /\ HasHeap =>
        LET own == PageSize * module.init
            known == module.base # NULL /\ module.base < own
        IN /\ HeapEnd =< Bytes /\ HeapEnd =< UINT32_MAX
           /\ memory.off >= 0
           /\ known => memory.off >= module.base
           /\ known \/ memory.off >= own

(* A memory that can still grow has pages of PageSize bytes.               *)
PagesOk ==
    memory # NULL =>
        /\ memory.cur =< memory.max
        /\ module.possible_memory_grow => memory.page = PageSize \/ memory.cur = memory.max

(* What a half-done wasm_enlarge_memory will write.                        *)
GrowOk ==
    \A i \in Instances : grow[i] # NULL =>
        /\ grow[i].new = grow[i].page * grow[i].total
        /\ grow[i].new =< UINT32_MAX
        /\ grow[i].total =< grow[i].max
        /\ \/ grow[i].page = PageSize
           \/ grow[i].new = UINT32_MAX /\ grow[i].total = grow[i].max
        /\ HasHeap => HeapEnd =< grow[i].new

(* Sizes that were read never exceed what can be accessed, and below       *)
(* 2^32 - 1 bytes the page size never changed.                             *)
Fits ==
    memory # NULL =>
        /\ memory.size =< memory.accessible /\ memory.size =< UINT32_MAX
        /\ \A i \in Instances : \A k \in 1 .. Len(act[i]) :
              /\ act[i][k].size =< memory.accessible
              /\ memory.accessible < UINT32_MAX => act[i][k].page = memory.page

(* A shared memory: all it may ever have is accessible from the start.     *)
SharedFits ==
    memory # NULL /\ module.shared /\ memory.accessible < UINT32_MAX =>
        /\ memory.page * memory.max =< memory.accessible
        /\ \A i \in Instances : grow[i] # NULL =>
              grow[i].page = memory.page /\ grow[i].max = memory.max

(* An unshared memory: nothing changes between the read and the write of a *)
(* grow, and its sizes are exact until it is Whole.                        *)
PrivateFits ==
    memory # NULL /\ ~module.shared =>
        /\ ~module.hw => memory.accessible = Bytes /\ memory.size = Bytes
        /\ module.hw /\ memory.accessible < UINT32_MAX => Bytes =< memory.size
        /\ grow[Main] # NULL =>
              /\ grow[Main].old = w32(Bytes)
              /\ \/ grow[Main].page = memory.page /\ Bytes =< grow[Main].new
                 \/ grow[Main].new = UINT32_MAX

Exact ==
    memory # NULL /\ ~module.shared /\ ~Whole =>
        /\ memory.size = IF module.hw THEN RoundUp(Bytes, OsPage) ELSE Bytes
        /\ \A k \in 1 .. Len(act[Main]) : act[Main][k].page = memory.page
        /\ act[Main] # << >> => act[Main][Len(act[Main])].size = Bytes

MemInv ==
    /\ MemTypes /\ Lives /\ HeapOk /\ PagesOk /\ GrowOk
    /\ Fits /\ SharedFits /\ PrivateFits /\ Exact

Sizes ==
    /\ HeapOk /\ PagesOk /\ GrowOk /\ Fits /\ SharedFits /\ PrivateFits /\ Exact

(* The fields of a memory.                                                 *)
LEMMA MemoryFacts ==
    ASSUME NEW mem \in MemoryType
    PROVE  /\ mem.page \in Nat /\ mem.cur \in Nat /\ mem.max \in Nat /\ mem.size \in Nat
           /\ mem.accessible \in Nat /\ mem.off \in Int /\ mem.heap \in Int
           /\ mem # NULL
           /\ mem.page * mem.cur \in Nat
<1>1. /\ mem.page \in Nat /\ mem.cur \in Nat /\ mem.max \in Nat /\ mem.size \in Nat
      /\ mem.accessible \in Nat /\ mem.off \in Int /\ mem.heap \in Int
  BY DEF MemoryType
<1>2. mem # NULL
  BY NullAssumption
<1> QED
  BY <1>1, <1>2

(* The fields of a half-done grow.                                         *)
LEMMA GrowFacts ==
    ASSUME NEW g \in GrowType
    PROVE  /\ g.ok \in BOOLEAN /\ g.page \in Nat /\ g.total \in Nat /\ g.max \in Nat
           /\ g.old \in Nat /\ g.new \in Nat /\ g # NULL
           /\ g.page * g.total \in Nat
<1>1. /\ g.ok \in BOOLEAN /\ g.page \in Nat /\ g.total \in Nat /\ g.max \in Nat
      /\ g.old \in Nat /\ g.new \in Nat
  BY DEF GrowType
<1>2. g # NULL
  BY NullAssumption
<1> QED
  BY <1>1, <1>2

(* The interpreter refreshes the size of its innermost activation only.    *)
LEMMA RefreshedFacts ==
    ASSUME NEW stack \in Seq(Activation), NEW mem, mem.cur \in Nat
    PROVE  LET r == Refreshed(stack, mem)
           IN /\ r \in Seq(Activation) /\ Len(r) = Len(stack)
              /\ r = << >> <=> stack = << >>
              /\ \A k \in 1 .. Len(stack) :
                    /\ r[k].page = stack[k].page /\ stack[k].page \in Nat
                    /\ r[k].size = IF k = Len(stack) THEN w32(stack[k].page * mem.cur)
                                                     ELSE stack[k].size
<1> DEFINE r == Refreshed(stack, mem)
           el(k) == IF k = Len(stack)
                    THEN [stack[k] EXCEPT !.size = w32(stack[k].page * mem.cur)]
                    ELSE stack[k]
<1>1. Len(stack) \in Nat /\ DOMAIN stack = 1 .. Len(stack)
  OBVIOUS
<1>2. r = [k \in 1 .. Len(stack) |-> el(k)]
  BY <1>1 DEF Refreshed
<1>3. ASSUME NEW k \in 1 .. Len(stack)
      PROVE  /\ el(k) \in Activation /\ el(k).page = stack[k].page /\ stack[k].page \in Nat
             /\ el(k).size = IF k = Len(stack) THEN w32(stack[k].page * mem.cur)
                                               ELSE stack[k].size
  <2>1. stack[k] \in Activation
    OBVIOUS
  <2>2. stack[k].page * mem.cur \in Int
    BY <2>1 DEF Activation
  <2>3. w32(stack[k].page * mem.cur) \in 0 .. UINT32_MAX
    BY <2>2, Wrap
  <2> QED
    BY <2>1, <2>3 DEF Activation
<1> HIDE DEF el, r
<1>4. r \in Seq(Activation) /\ Len(r) = Len(stack)
  <2>1. r \in [1 .. Len(stack) -> Activation]
    BY <1>2, <1>3
  <2> HIDE DEF Activation
  <2>2. r \in Seq(Activation)
    BY <1>1, <2>1, SeqDef
  <2> QED
    BY <1>1, <2>1, <2>2, LenProperties
<1>5. r = << >> <=> stack = << >>
  BY <1>1, <1>4
<1>6. \A k \in 1 .. Len(stack) : r[k] = el(k)
  BY <1>2
<1> QED
  BY <1>3, <1>4, <1>5, <1>6 DEF r

(* Front drops the innermost activation.                                   *)
LEMMA FrontFacts ==
    ASSUME NEW stack \in Seq(Activation), stack # << >>
    PROVE  /\ Front(stack) \in Seq(Activation) /\ Len(Front(stack)) = Len(stack) - 1
           /\ \A k \in 1 .. Len(Front(stack)) : Front(stack)[k] = stack[k]
<1> DEFINE n == Len(stack) - 1
<1>1. Len(stack) \in Nat /\ Len(stack) >= 1
  OBVIOUS
<1>2. Front(stack) = SubSeq(stack, 1, n)
  BY DEF Front
<1>3. n \in Nat /\ n = Len(stack) - 1 /\ \A k \in 1 .. n : stack[k] \in Activation
  BY <1>1
<1> HIDE DEF n, Activation
<1>4. /\ SubSeq(stack, 1, n) \in Seq(Activation)
      /\ Len(SubSeq(stack, 1, n)) = IF 1 =< n THEN n - 1 + 1 ELSE 0
      /\ \A k \in 1 .. n - 1 + 1 : SubSeq(stack, 1, n)[k] = stack[1 + k - 1]
  BY <1>3, SubSeqProperties
<1>5. Len(Front(stack)) = n
  BY <1>2, <1>3, <1>4
<1>6. ASSUME NEW k \in 1 .. n
      PROVE  Front(stack)[k] = stack[k]
  <2>1. k \in 1 .. n - 1 + 1 /\ 1 + k - 1 = k
    BY <1>3
  <2> QED
    BY <1>2, <1>4, <2>1
<1> QED
  BY <1>2, <1>3, <1>4, <1>5, <1>6

----------------------------------------------------------------------------
(* Initially and on a stutter *)

(* Before memory_instantiate there is nothing to get wrong.                *)
LEMMA MemInit ==
    Init => MemInv
<1> SUFFICES ASSUME Init
             PROVE  MemInv
  OBVIOUS
<1>1. Main \in Instances
  BY MainAssumption
<1>2. MemTypes
  BY <1>1 DEF Init, MemTypes, PcType
<1>3. Lives
  BY <1>1 DEF Init, Lives
<1>4. HeapOk /\ PagesOk /\ Fits /\ SharedFits /\ PrivateFits /\ Exact
  BY DEF Init, HeapOk, PagesOk, Fits, SharedFits, PrivateFits, Exact
<1>5. GrowOk
  BY DEF Init, GrowOk
<1> QED
  BY <1>2, <1>3, <1>4, <1>5 DEF MemInv

(* What a step that leaves the memory, the grows and the activations alone *)
(* keeps.                                                                  *)
LEMMA SizesKept ==
    Sizes /\ UNCHANGED <<module, memory, grow, act>> => Sizes'
BY DEF Sizes, HeapOk, PagesOk, GrowOk, Fits, SharedFits, PrivateFits, Exact,
       HasHeap, HeapEnd, BaseWraps, Bytes, Whole

----------------------------------------------------------------------------
(* Types *)

(* memory_instantiate makes a memory with the layout InsertHeap computed.  *)
LEMMA NewMemoryType ==
    ASSUME module \in Modules, NEW i \in Instances, MemoryInstantiate(i)
    PROVE  memory' \in MemoryType /\ LayoutOk(module, InsertHeap(module))
<1> DEFINE l == InsertHeap(module)
<1>2. CanInstantiate(module, l) /\ memory' = NewMemory(module, l)
  BY DEF MemoryInstantiate
<1>3. LayoutOk(module, l)
  BY <1>2, InsertHeapOk DEF CanInstantiate
<1> HIDE DEF l
<1>4. DataSize(module, l) \in Nat
  <2>1. l.page * (IF module.shared THEN l.max ELSE l.init) \in Nat
    BY <1>3 DEF LayoutOk
  <2> QED
    BY <2>1, RoundUpFacts, Constants DEF DataSize
<1>5. w32(DataSize(module, l)) \in Nat
  BY <1>4, Wrap, Constants
<1>6. memory' \in MemoryType
  BY <1>2, <1>3, <1>4, <1>5 DEF NewMemory, MemoryType, LayoutOk
<1> QED
  BY <1>3, <1>6 DEF l

(* wasm_enlarge_memory writes a memory.                                    *)
LEMMA EnlargedMemoryType ==
    ASSUME NEW i \in Instances, memory \in MemoryType, grow[i] \in GrowType, EnlargeWrite(i)
    PROVE  memory' \in MemoryType
<1> DEFINE g == grow[i]
<1>2. Opened(g) \in Nat
  <2>1. /\ memory.size \in Nat /\ memory.accessible \in Nat /\ g.new \in Nat
        /\ g.old \in Nat /\ OsPage \in Nat \ {0}
    BY MemoryFacts, GrowFacts, Constants
  <2>2. RoundUp(memory.size + g.new - g.old, OsPage) \in Int
    <3>1. memory.size + g.new - g.old + OsPage - 1 \in Int
      BY <2>1
    <3>2. (memory.size + g.new - g.old + OsPage - 1) \div OsPage \in Int
      BY <3>1, <2>1, DivMod
    <3> QED
      BY <3>2, <2>1 DEF RoundUp
  <2> QED
    BY <2>1, <2>2 DEF Opened
<1>3. memory' \in MemoryType
  BY <1>2 DEF EnlargeWrite, MemoryType, GrowType
<1> QED
  BY <1>3

(* Every step keeps the types.                                             *)
LEMMA MemTypesStep ==
    MemInv /\ [Next]_vars => MemTypes'
<1> SUFFICES ASSUME MemInv, [Next]_vars
             PROVE  MemTypes'
  OBVIOUS
<1> USE DEF MemInv
<1>0. Main \in Instances
  BY MainAssumption
<1>1. ASSUME NEW i \in Instances, SearchModule(i)
      PROVE  MemTypes'
  BY <1>1 DEF SearchModule, MemTypes, PcType
<1>2. ASSUME NEW i \in Instances, IncReference(i)
      PROVE  MemTypes'
  BY <1>2 DEF IncReference, MemTypes, PcType
<1>3. ASSUME NEW i \in Instances, MemoryInstantiate(i)
      PROVE  MemTypes'
  <2>6. memory' \in MemoryType
    BY <1>3, NewMemoryType DEF MemTypes
  <2> QED
    BY <1>3, <2>6 DEF MemoryInstantiate, MemTypes, PcType
<1>4. ASSUME NEW i \in Instances, InstantiateFails(i)
      PROVE  MemTypes'
  BY <1>4 DEF InstantiateFails, MemTypes, PcType
<1>5. ASSUME NEW i \in Instances, InitGlobals(i)
      PROVE  MemTypes'
  BY <1>5 DEF InitGlobals, MemTypes, PcType
<1>6. ASSUME NEW i \in Instances, DecReference(i)
      PROVE  MemTypes'
  <2>1. memory # NULL
    BY <1>6, <1>0 DEF DecReference, Leaving, Lives
  <2>2. node \in Int
    <3>1. node = Cardinality(Users)
      BY <1>6, <2>1 DEF DecReference, Lives
    <3>2. IsFiniteSet(Users)
      BY MainAssumption, FS_Subset DEF Users
    <3> QED
      BY <3>1, <3>2, FS_CardinalityType
  <2> QED
    BY <1>6, <2>2 DEF DecReference, MemTypes, PcType
<1>7. ASSUME NEW i \in Instances, RemoveNode(i)
      PROVE  MemTypes'
  BY <1>7 DEF RemoveNode, MemTypes, PcType
<1>8. ASSUME NEW i \in Instances, FreeMemory(i)
      PROVE  MemTypes'
  BY <1>8 DEF FreeMemory, MemTypes, PcType
<1>9. ASSUME NEW i \in Instances, pc[i] = "live"
      PROVE  memory \in MemoryType
  BY <1>9, <1>0 DEF Lives, MemTypes
<1>10. ASSUME NEW i \in Instances, act[i] # << >> \/ grow[i] # NULL
       PROVE  memory \in MemoryType
  BY <1>9, <1>10 DEF Lives
<1>11. ASSUME NEW i \in Instances, EnterInterp(i)
       PROVE  MemTypes'
  <2> DEFINE a == [page |-> memory.page, size |-> w32(memory.page * memory.cur)]
  <2>1. memory \in MemoryType
    BY <1>11, <1>9 DEF EnterInterp
  <2>2. a \in Activation
    <3>1. memory.page * memory.cur \in Int /\ memory.page \in Nat
      BY <2>1, MemoryFacts
    <3> QED
      BY <3>1, Wrap DEF Activation
  <2> HIDE DEF a
  <2>3. act' = [act EXCEPT ![i] = Append(act[i], a)]
    BY <1>11 DEF EnterInterp, a
  <2>4. Append(act[i], a) \in Seq(Activation)
    BY <2>2 DEF MemTypes
  <2> QED
    BY <1>11, <2>3, <2>4 DEF EnterInterp, MemTypes
<1>12. ASSUME NEW i \in Instances, LeaveInterp(i)
       PROVE  MemTypes'
  <2>1. memory \in MemoryType /\ act[i] \in Seq(Activation) /\ act[i] # << >>
    BY <1>12, <1>9 DEF LeaveInterp, MemTypes
  <2>2. Front(act[i]) \in Seq(Activation) /\ memory.cur \in Nat
    BY <2>1, FrontFacts, MemoryFacts
  <2>3. Refreshed(Front(act[i]), memory) \in Seq(Activation)
    BY <2>2, RefreshedFacts
  <2> QED
    BY <1>12, <2>3 DEF LeaveInterp, MemTypes
<1>13. ASSUME NEW i \in Instances, NEW inc \in Incs, EnlargeRead(i, inc)
       PROVE  MemTypes'
  <2>1. memory \in MemoryType
    BY <1>13, <1>10 DEF EnlargeRead
  <2>2. /\ memory.page \in Nat /\ memory.cur \in Nat /\ memory.max \in Nat
        /\ memory.page * memory.cur \in Int /\ inc \in Nat
    BY <2>1, MemoryFacts, MainAssumption
  <2>3. w32(inc + memory.cur) \in Nat /\ w32(memory.page * memory.cur) \in Nat
    <3>1. inc + memory.cur \in Int
      BY <2>2
    <3> QED
      BY <3>1, <2>2, Wrap, Constants
  <2>4. memory.page * w32(inc + memory.cur) \in Nat
    BY <2>2, <2>3
  <2>5. Enlarged(inc) \in GrowType
    BY <2>2, <2>3, <2>4, Constants DEF Enlarged, GrowType
  <2> QED
    BY <1>13, <2>5 DEF EnlargeRead, MemTypes
<1>14. ASSUME NEW i \in Instances, EnlargeNothing(i)
       PROVE  MemTypes'
  <2>1. memory \in MemoryType /\ act[i] \in Seq(Activation)
    BY <1>14, <1>10 DEF EnlargeNothing, MemTypes
  <2>2. Refreshed(act[i], memory) \in Seq(Activation)
    BY <2>1, MemoryFacts, RefreshedFacts
  <2>3. act' = act \/ act' = [act EXCEPT ![i] = Refreshed(act[i], memory)]
    BY <1>14 DEF EnlargeNothing
  <2> QED
    BY <1>14, <2>2, <2>3 DEF EnlargeNothing, MemTypes
<1>15. ASSUME NEW i \in Instances, EnlargeWrite(i)
       PROVE  MemTypes'
  <2> DEFINE g == grow[i]
  <2>1. memory \in MemoryType /\ g \in GrowType /\ act[i] \in Seq(Activation)
    BY <1>15, <1>10 DEF EnlargeWrite, MemTypes
  <2>3. memory' \in MemoryType
    BY <1>15, <2>1, EnlargedMemoryType
  <2>4. Refreshed(act[i], memory') \in Seq(Activation)
    BY <2>1, <2>3, MemoryFacts, RefreshedFacts
  <2> QED
    BY <1>15, <2>3, <2>4 DEF EnlargeWrite, MemTypes
<1>16. CASE UNCHANGED vars
  BY <1>16 DEF vars, MemTypes
<1> QED
  BY <1>1, <1>2, <1>3, <1>4, <1>5, <1>6, <1>7, <1>8, <1>11, <1>12, <1>13, <1>14,
     <1>15, <1>16 DEF Next, Done

----------------------------------------------------------------------------
(* Who has the memory *)

(* Every step keeps the reference count equal to the number of users.      *)
LEMMA LivesStep ==
    MemInv /\ [Next]_vars => Lives'
<1> SUFFICES ASSUME MemInv, [Next]_vars
             PROVE  Lives'
  OBVIOUS
<1>0. /\ MemTypes /\ Lives /\ MemTypes' /\ Main \in Instances
      /\ pc \in [Instances -> PcType]
      /\ module.shared \in BOOLEAN
  <2>1. MemTypes /\ Lives
    BY DEF MemInv
  <2> QED
    BY <2>1, MemTypesStep, MainAssumption, ModuleFacts DEF MemTypes
<1>f. IsFiniteSet(Users) /\ Cardinality(Users) \in Nat
  <2>1. IsFiniteSet(Users)
    BY MainAssumption, FS_Subset DEF Users
  <2> QED
    BY <2>1, FS_CardinalityType
<1>g. NULL \notin Int
  BY NullAssumption
<1>1. ASSUME NEW i \in Instances, SearchModule(i)
      PROVE  Lives'
  <2>1. Users' = Users
    BY <1>1, <1>0 DEF SearchModule, Users
  <2> QED
    BY <1>1, <1>0, <2>1 DEF SearchModule, Lives
<1>2. ASSUME NEW i \in Instances, IncReference(i)
      PROVE  Lives'
  <2>1. i # Main /\ module.shared /\ pc[Main] = "live" /\ memory # NULL
    BY <1>2, <1>0 DEF IncReference, Lives
  <2>2. Users' = Users \cup {i} /\ i \notin Users
    BY <1>2, <1>0 DEF IncReference, Users
  <2>3. Cardinality(Users') = Cardinality(Users) + 1
    BY <2>2, <1>f, FS_AddElement
  <2>4. node' = Cardinality(Users')
    BY <1>2, <1>0, <1>f, <1>g, <2>1, <2>3 DEF IncReference, Lives
  <2> QED
    BY <1>2, <1>0, <2>1, <2>4 DEF IncReference, Lives
<1>3. ASSUME NEW i \in Instances, MemoryInstantiate(i)
      PROVE  Lives'
  <2>1. i = Main /\ memory = NULL /\ pc[Main] = "new"
    BY <1>3, <1>0 DEF MemoryInstantiate, Lives
  <2>2. Users' = {Main}
    BY <1>3, <1>0, <2>1 DEF MemoryInstantiate, Users, Lives
  <2>3. Cardinality(Users') = 1
    BY <2>2, FS_Singleton
  <2>4. memory' # NULL
    BY <1>0, <1>3, NewMemoryType, NullAssumption DEF MemTypes
  <2> QED
    BY <1>3, <1>0, <2>1, <2>3, <2>4 DEF MemoryInstantiate, Lives
<1>4. ASSUME NEW i \in Instances, InstantiateFails(i)
      PROVE  Lives'
  BY <1>4, <1>0 DEF InstantiateFails, Lives
<1>5. ASSUME NEW i \in Instances, InitGlobals(i)
      PROVE  Lives'
  <2>1. Users' = Users
    BY <1>5, <1>0 DEF InitGlobals, Users
  <2> QED
    BY <1>5, <1>0, <2>1 DEF InitGlobals, Lives
<1>6. ASSUME NEW i \in Instances, DecReference(i)
      PROVE  Lives'
  <2>1. /\ pc[i] = "live" /\ act[i] = << >> /\ module.shared /\ memory # NULL
        /\ i # Main => pc[Main] = "live"
        /\ i = Main => \A j \in Instances \ {Main} : pc[j] \in {"new", "gone"}
        /\ pc' = [pc EXCEPT ![i] = IF node - 1 > 0 THEN "gone" ELSE "remove"]
        /\ node' = node - 1 /\ node = Cardinality(Users)
    BY <1>6, <1>0 DEF DecReference, Leaving, Lives
  <2>2. Users' = Users \ {i} /\ i \in Users
    BY <2>1, <1>0 DEF Users
  <2>3. Cardinality(Users') = Cardinality(Users) - 1
    BY <2>2, <1>f, FS_RemoveElement
  <2>4. CASE i = Main
    <3>1. Users = {Main}
      BY <2>1, <2>4, <1>0 DEF Users
    <3>2. node = 1
      BY <3>1, <2>1, FS_Singleton
    <3> QED
      BY <1>6, <1>0, <2>1, <2>3, <2>4, <3>2 DEF DecReference, Lives
  <2>5. CASE i # Main
    <3>1. Main \in Users'
      BY <2>1, <2>2, <2>5, <1>0 DEF Users
    <3>2. Cardinality(Users') # 0 /\ Cardinality(Users') \in Nat
      <4>1. IsFiniteSet(Users')
        BY <2>2, <1>f, FS_RemoveElement
      <4> QED
        BY <3>1, <4>1, FS_EmptySet, FS_CardinalityType
    <3>3. node - 1 > 0
      BY <2>1, <2>3, <3>2, <1>f
    <3> QED
      BY <1>6, <1>0, <2>1, <2>3, <2>5, <3>3 DEF DecReference, Lives
  <2> QED
    BY <2>4, <2>5
<1>7. ASSUME NEW i \in Instances, RemoveNode(i)
      PROVE  Lives'
  BY <1>7, <1>0 DEF RemoveNode, Lives
<1>8. ASSUME NEW i \in Instances, FreeMemory(i)
      PROVE  Lives'
  BY <1>8, <1>0 DEF FreeMemory, Leaving, Lives
<1>9. ASSUME UNCHANGED <<module, node, pc, memory>>,
             \A j \in Instances : act'[j] # << >> => pc[j] = "live",
             \A j \in Instances : grow'[j] # NULL => act'[j] # << >>
      PROVE  Lives'
  <2>1. Users' = Users
    BY <1>9 DEF Users
  <2> QED
    BY <1>9, <1>0, <2>1 DEF Lives
<1>10. ASSUME NEW i \in Instances, EnterInterp(i)
       PROVE  Lives'
  <2>1. Append(act[i], [page |-> memory.page, size |-> w32(memory.page * memory.cur)]) # << >>
    <3>1. act[i] \in Seq(Activation)
      BY <1>0 DEF MemTypes
    <3> QED
      BY <3>1
  <2> QED
    BY <1>0, <1>9, <1>10, <2>1 DEF EnterInterp, Lives, MemTypes
<1>11. ASSUME NEW i \in Instances, LeaveInterp(i)
       PROVE  Lives'
  BY <1>0, <1>9, <1>11 DEF LeaveInterp, Lives, MemTypes
<1>12. ASSUME NEW i \in Instances, NEW inc \in Incs, EnlargeRead(i, inc)
       PROVE  Lives'
  BY <1>0, <1>9, <1>12 DEF EnlargeRead, Lives, MemTypes
<1>13. ASSUME NEW i \in Instances, act[i] # << >>
       PROVE  memory \in MemoryType /\ act[i] \in Seq(Activation)
  BY <1>0, <1>13 DEF Lives, MemTypes
<1>14. ASSUME NEW i \in Instances, EnlargeNothing(i)
       PROVE  Lives'
  <2>1. Refreshed(act[i], memory) # << >>
    BY <1>13, <1>14, MemoryFacts, RefreshedFacts DEF EnlargeNothing
  <2>2. act' = act \/ act' = [act EXCEPT ![i] = Refreshed(act[i], memory)]
    BY <1>14 DEF EnlargeNothing
  <2> QED
    BY <1>0, <1>9, <1>14, <2>1, <2>2 DEF EnlargeNothing, Lives, MemTypes
<1>15. ASSUME NEW i \in Instances, EnlargeWrite(i)
       PROVE  Lives'
  <2>1. grow[i] # NULL /\ act[i] # << >> /\ memory # NULL /\ pc[i] = "live"
    BY <1>0, <1>15 DEF EnlargeWrite, Lives
  <2>2. memory' \in MemoryType /\ memory' # NULL
    BY <1>0, <1>15, <2>1, EnlargedMemoryType, NullAssumption DEF MemTypes
  <2>3. Refreshed(act[i], memory') # << >>
    BY <1>13, <2>1, <2>2, MemoryFacts, RefreshedFacts
  <2>4. Users' = Users
    BY <1>15 DEF EnlargeWrite, Users
  <2> QED
    BY <1>0, <1>15, <2>1, <2>2, <2>3, <2>4 DEF EnlargeWrite, Lives, MemTypes
<1>16. CASE UNCHANGED vars
  BY <1>0, <1>9, <1>16 DEF vars, Lives
<1> QED
  BY <1>1, <1>2, <1>3, <1>4, <1>5, <1>6, <1>7, <1>8, <1>10, <1>11, <1>12, <1>14,
     <1>15, <1>16 DEF Next, Done

----------------------------------------------------------------------------
(* Sizes *)

(* All pages of a memory are accessible while it is short of 2^32 - 1.     *)
LEMMA BytesFit ==
    ASSUME module \in Modules, memory \in MemoryType, Sizes
    PROVE  memory.accessible < UINT32_MAX => Bytes =< memory.accessible
<1> SUFFICES ASSUME memory.accessible < UINT32_MAX
             PROVE  Bytes =< memory.accessible
  OBVIOUS
<1>1. /\ memory.page \in Nat /\ memory.cur \in Nat /\ memory.max \in Nat /\ memory.size \in Nat
      /\ memory.accessible \in Nat /\ memory # NULL /\ Bytes \in Nat
      /\ memory.cur =< memory.max /\ memory.size =< memory.accessible
  BY MemoryFacts DEF Sizes, PagesOk, Fits, Bytes
<1>2. CASE module.shared
  <2>1. memory.page * memory.max =< memory.accessible
    BY <1>1, <1>2 DEF Sizes, SharedFits
  <2>2. /\ memory.page * memory.cur =< memory.page * memory.max
        /\ memory.page * memory.max \in Nat
    BY <1>1, MulMono
  <2> QED
    BY <1>1, <2>1, <2>2 DEF Bytes
<1>3. CASE ~module.shared
  <2>1. /\ ~module.hw => memory.accessible = Bytes
        /\ module.hw => Bytes =< memory.size
    BY <1>1, <1>3 DEF Sizes, PrivateFits
  <2> QED
    BY <1>1, <2>1
<1> QED
  BY <1>2, <1>3

(* The size an activation computes from its page size fits.                *)
LEMMA ComputedSizeFits ==
    ASSUME module \in Modules, memory \in MemoryType, Sizes,
           NEW page \in Nat, memory.accessible < UINT32_MAX => page = memory.page
    PROVE  w32(page * memory.cur) =< memory.accessible
<1>1. /\ memory.page \in Nat /\ memory.cur \in Nat /\ memory.accessible \in Nat /\ Bytes \in Nat
      /\ UINT32_MAX \in Nat
  BY MemoryFacts, Constants DEF Bytes
<1>2. page * memory.cur \in Nat
  BY <1>1
<1>3. /\ w32(page * memory.cur) \in 0 .. UINT32_MAX
      /\ w32(page * memory.cur) =< page * memory.cur
  <2>1. page * memory.cur \in Int
    BY <1>2
  <2> QED
    BY <1>2, <2>1, Wrap
<1>4. CASE memory.accessible >= UINT32_MAX
  BY <1>1, <1>3, <1>4
<1>5. CASE memory.accessible < UINT32_MAX
  <2>1. page * memory.cur = Bytes
    BY <1>5 DEF Bytes
  <2> QED
    BY <1>1, <1>3, <1>5, <2>1, BytesFit
<1> QED
  BY <1>1, <1>4, <1>5

(* A memory that is not Whole has less than 2^32 bytes.                    *)
LEMMA NotWhole ==
    ASSUME memory \in MemoryType, ~Whole
    PROVE  Bytes \in Nat /\ Bytes =< UINT32_MAX /\ w32(Bytes) = Bytes
<1>1. Bytes \in Nat /\ UINT32_MAX \in Nat
  BY MemoryFacts, Constants DEF Bytes
<1>2. Bytes =< RoundUp(Bytes, OsPage) /\ RoundUp(Bytes, OsPage) \in Nat
  BY <1>1, RoundUpFacts, Constants
<1>3. Bytes \in 0 .. UINT32_MAX
  BY <1>1, <1>2 DEF Whole
<1> QED
  BY <1>1, <1>3, Wrap

(* 2^32 - 1 bytes are not whole OS pages.                                  *)
LEMMA MaxIsWhole ==
    RoundUp(UINT32_MAX, OsPage) > UINT32_MAX
<1>1. /\ PageSize \in Nat \ {0} /\ MaxPages \in Nat \ {0} /\ OsPage \in Nat \ {0} /\ OsPage > 1
      /\ UINT32_MAX \in Nat /\ UINT32_MAX = U32 - 1 /\ U32 = PageSize * MaxPages
      /\ PageSize % OsPage = 0
  BY Constants
<1> DEFINE c == PageSize \div OsPage
<1>2. c \in Nat /\ PageSize = OsPage * c
  <2>1. PageSize \in Int /\ PageSize >= 0
    BY <1>1
  <2>2. c \in Nat /\ PageSize % OsPage = PageSize - OsPage * c
    BY <1>1, <2>1, DivMod, Zenon
  <2> HIDE DEF c
  <2>3. OsPage * c \in Nat
    BY <1>1, <2>2
  <2> QED
    BY <1>1, <2>2, <2>3
<1> HIDE DEF c
<1>3. U32 = OsPage * (c * MaxPages) /\ c * MaxPages \in Nat
  BY <1>1, <1>2
<1>4. /\ RoundUp(UINT32_MAX, OsPage) \in Nat /\ RoundUp(UINT32_MAX, OsPage) >= UINT32_MAX
      /\ \E q \in Nat : RoundUp(UINT32_MAX, OsPage) = OsPage * q
  BY <1>1, RoundUpFacts
<1>5. PICK q \in Nat : RoundUp(UINT32_MAX, OsPage) = OsPage * q
  BY <1>4
<1>6. OsPage * q # UINT32_MAX
  <2> SUFFICES ASSUME OsPage * q = UINT32_MAX
               PROVE  FALSE
    OBVIOUS
  <2> DEFINE r == c * MaxPages
  <2>1. OsPage * r = OsPage * q + 1 /\ r \in Nat
    BY <1>1, <1>3
  <2> HIDE DEF r
  <2>2. CASE r =< q
    <3>1. OsPage * r =< OsPage * q /\ OsPage * q \in Nat
      BY <1>1, <2>1, <2>2, MulMono
    <3> QED
      BY <2>1, <3>1
  <2>3. CASE q + 1 =< r
    <3>1. OsPage * (q + 1) =< OsPage * r /\ OsPage * (q + 1) = OsPage * q + OsPage
      BY <1>1, <2>1, <2>3, MulMono
    <3>2. OsPage * q \in Nat
      BY <1>1
    <3> QED
      BY <1>1, <2>1, <3>1, <3>2
  <2> QED
    BY <2>1, <2>2, <2>3
<1> QED
  BY <1>1, <1>4, <1>5, <1>6

(* memory_instantiate establishes the sizes.                               *)
LEMMA InstantiateSizes ==
    ASSUME MemTypes, Lives, NEW i \in Instances, MemoryInstantiate(i)
    PROVE  Sizes'
<1> DEFINE l == InsertHeap(module)
           bytes == l.page * (IF module.shared THEN l.max ELSE l.init)
           D == DataSize(module, l)
<1>1. /\ module \in Modules /\ module' = module /\ act' = act /\ grow' = grow
      /\ module.shared \in BOOLEAN /\ module.hw \in BOOLEAN
  BY ModuleFacts DEF MemTypes, MemoryInstantiate
<1>2. LayoutOk(module, l) /\ memory' \in MemoryType
  BY <1>1, NewMemoryType
<1>3. CanInstantiate(module, l) /\ memory' = NewMemory(module, l)
  BY DEF MemoryInstantiate
<1>4. \A j \in Instances : act[j] = << >> /\ grow[j] = NULL
  <2>1. memory = NULL
    BY DEF MemoryInstantiate, Lives
  <2> QED
    BY <2>1, MainAssumption DEF Lives
<1> HIDE DEF l
<1>5. /\ l.page \in Nat /\ l.init \in Nat /\ l.max \in Nat /\ l.init =< l.max
      /\ bytes \in Nat /\ UINT32_MAX \in Nat /\ OsPage \in Nat \ {0}
  BY <1>2, Constants DEF LayoutOk
<1>6. /\ memory'.page = l.page /\ memory'.cur = l.init /\ memory'.max = l.max
      /\ memory'.size = w32(D) /\ memory'.accessible = D
      /\ memory'.off = l.off /\ memory'.heap = l.heap
      /\ Bytes' = l.page * l.init
  BY <1>3 DEF NewMemory, Bytes
<1>7. /\ D = IF module.hw THEN RoundUp(bytes, OsPage) ELSE bytes
      /\ ~module.hw => D < UINT32_MAX \/ D = 0
  BY <1>3 DEF DataSize, CanInstantiate
<1>8. D \in Nat /\ bytes =< D
  <2> HIDE DEF bytes
  <2>1. RoundUp(bytes, OsPage) \in Nat /\ RoundUp(bytes, OsPage) >= bytes
    BY <1>5, RoundUpFacts
  <2> HIDE DEF D
  <2> QED
    BY <1>5, <1>7, <2>1
<1> HIDE DEF D
<1>9. /\ w32(D) \in 0 .. UINT32_MAX /\ w32(D) =< D
      /\ D =< UINT32_MAX => w32(D) = D
  <2>1. D \in Int /\ D >= 0 /\ (D =< UINT32_MAX => D \in 0 .. UINT32_MAX)
    BY <1>5, <1>8
  <2> QED
    BY <2>1, Wrap
<1>10. HeapOk'
  <2>1. BaseWraps' = Wraps(module)
    BY <1>1 DEF BaseWraps, Wraps
  <2> QED
    BY <1>1, <1>2, <1>6, <2>1
    DEF HeapOk, HasHeap, HeapEnd, LayoutOk, HeapPlaced, Own, Known
<1>11. PagesOk'
  BY <1>1, <1>2, <1>6 DEF PagesOk, LayoutOk
<1>12. GrowOk'
  BY <1>1, <1>4 DEF GrowOk
<1>13. \A j \in Instances : \A k \in 1 .. Len(act'[j]) : FALSE
  <2> SUFFICES ASSUME NEW j \in Instances, NEW k \in 1 .. Len(act'[j])
               PROVE  FALSE
    OBVIOUS
  <2>1. act'[j] = << >>
    BY <1>1, <1>4
  <2>2. Len(act'[j]) = 0
    BY <2>1
  <2> QED
    BY <2>2
<1>14. Fits'
  BY <1>5, <1>6, <1>8, <1>9, <1>13 DEF Fits
<1>15. SharedFits'
  BY <1>1, <1>4, <1>6, <1>8 DEF SharedFits
<1>16. PrivateFits'
  <2> SUFFICES ASSUME ~module.shared
               PROVE  /\ ~module.hw => memory'.accessible = Bytes' /\ memory'.size = Bytes'
                      /\ module.hw /\ memory'.accessible < UINT32_MAX => Bytes' =< memory'.size
    BY <1>1, <1>4, MainAssumption DEF PrivateFits
  <2>1. bytes = Bytes'
    BY <1>6
  <2> HIDE DEF bytes
  <2> QED
    BY <1>5, <1>6, <1>7, <1>8, <1>9, <2>1
<1>17. Exact'
  <2> SUFFICES ASSUME ~module.shared, ~(RoundUp(Bytes', OsPage) > UINT32_MAX)
               PROVE  memory'.size = IF module.hw THEN RoundUp(Bytes', OsPage) ELSE Bytes'
    BY <1>1, <1>4, <1>13, MainAssumption DEF Exact, Whole
  <2>1. bytes = Bytes'
    BY <1>6
  <2> HIDE DEF bytes
  <2>2. RoundUp(bytes, OsPage) \in Nat
    BY <1>5, RoundUpFacts
  <2> QED
    BY <1>5, <1>6, <1>7, <1>8, <1>9, <2>1, <2>2
<1> QED
  BY <1>10, <1>11, <1>12, <1>14, <1>15, <1>16, <1>17 DEF Sizes

(* Without a memory there is nothing to get wrong.                         *)
LEMMA FreedSizes ==
    ASSUME MemTypes, Lives, NEW i \in Instances, RemoveNode(i) \/ FreeMemory(i)
    PROVE  Sizes'
<1>1. memory' = NULL /\ grow' = grow
  BY DEF RemoveNode, FreeMemory
<1>2. \A j \in Instances : act[j] = << >>
  <2>1. CASE RemoveNode(i)
    BY <2>1, MainAssumption DEF RemoveNode, Lives
  <2>2. CASE FreeMemory(i)
    BY <2>2, MainAssumption DEF FreeMemory, Leaving, Lives
  <2> QED
    BY <2>1, <2>2
<1>3. GrowOk'
  BY <1>1, <1>2 DEF Lives, GrowOk
<1> QED
  BY <1>1, <1>3 DEF Sizes, HeapOk, PagesOk, Fits, SharedFits, PrivateFits, Exact

(* A step of an interpreter that only changes activations.                 *)
LEMMA ActivationSizes ==
    ASSUME Sizes, memory # NULL, UNCHANGED <<module, memory>>,
           \A j \in Instances : grow'[j] = grow[j] \/ grow'[j] = NULL,
           \A j \in Instances : \A k \in 1 .. Len(act'[j]) :
               /\ act'[j][k].size =< memory.accessible
               /\ memory.accessible < UINT32_MAX => act'[j][k].page = memory.page,
           ~module.shared /\ ~Whole =>
               /\ \A k \in 1 .. Len(act'[Main]) : act'[Main][k].page = memory.page
               /\ act'[Main] # << >> => act'[Main][Len(act'[Main])].size = Bytes
    PROVE  Sizes'
<1>1. Bytes' = Bytes /\ Whole' = Whole /\ HasHeap' = HasHeap /\ HeapEnd' = HeapEnd
  BY DEF Bytes, Whole, HasHeap, HeapEnd, BaseWraps
<1>2. HeapOk' /\ PagesOk'
  BY <1>1 DEF Sizes, HeapOk, PagesOk
<1>3. GrowOk'
  BY <1>1 DEF Sizes, GrowOk
<1>4. Fits'
  BY DEF Sizes, Fits
<1>5. SharedFits'
  BY DEF Sizes, SharedFits
<1>6. PrivateFits'
  BY <1>1, MainAssumption DEF Sizes, PrivateFits
<1>7. Exact'
  BY <1>1 DEF Sizes, Exact
<1> QED
  BY <1>2, <1>3, <1>4, <1>5, <1>6, <1>7 DEF Sizes

(* An activation starts with the size of the memory, and the one that      *)
(* called a native function reads it again.                                *)
LEMMA EnterLeaveSizes ==
    ASSUME MemTypes, Lives, Sizes, NEW i \in Instances, EnterInterp(i) \/ LeaveInterp(i)
    PROVE  Sizes'
<1>1. /\ module \in Modules /\ act[i] \in Seq(Activation) /\ pc[i] = "live"
      /\ memory \in MemoryType /\ memory # NULL /\ UNCHANGED <<module, memory, grow>>
  BY MainAssumption DEF EnterInterp, LeaveInterp, MemTypes, Lives
<1>2. /\ memory.page \in Nat /\ memory.cur \in Nat
  BY <1>1, MemoryFacts
<1>3. \A j \in Instances : \A k \in 1 .. Len(act[j]) :
          /\ act[j][k].size =< memory.accessible
          /\ memory.accessible < UINT32_MAX => act[j][k].page = memory.page
  BY <1>1 DEF Sizes, Fits
<1>4. ~module.shared /\ ~Whole =>
          /\ \A k \in 1 .. Len(act[Main]) : act[Main][k].page = memory.page
          /\ act[Main] # << >> => act[Main][Len(act[Main])].size = Bytes
  BY <1>1 DEF Sizes, Exact
<1>5. CASE EnterInterp(i)
  <2> DEFINE a == [page |-> memory.page, size |-> w32(memory.page * memory.cur)]
             s == Append(act[i], a)
  <2>1. a.page = memory.page /\ a.size =< memory.accessible
        /\ (~Whole => a.size = Bytes)
    BY <1>1, <1>2, ComputedSizeFits, NotWhole DEF Bytes
  <2>2. act' = [act EXCEPT ![i] = s]
    BY <1>5 DEF EnterInterp
  <2> HIDE DEF a
  <2>3. /\ Len(s) = Len(act[i]) + 1 /\ s[Len(s)] = a
        /\ Len(act[i]) \in Nat
        /\ \A k \in 1 .. Len(s) : k = Len(s) \/ (k \in 1 .. Len(act[i]) /\ s[k] = act[i][k])
    BY <1>1
  <2> HIDE DEF s
  <2>4. act'[i] = s /\ \A j \in Instances \ {i} : act'[j] = act[j]
    BY <2>2 DEF MemTypes
  <2>5. \A j \in Instances : \A k \in 1 .. Len(act'[j]) :
            /\ act'[j][k].size =< memory.accessible
            /\ memory.accessible < UINT32_MAX => act'[j][k].page = memory.page
    BY <1>3, <2>1, <2>3, <2>4
  <2>6. ~module.shared /\ ~Whole =>
            /\ \A k \in 1 .. Len(act'[Main]) : act'[Main][k].page = memory.page
            /\ act'[Main] # << >> => act'[Main][Len(act'[Main])].size = Bytes
    BY <1>4, <2>1, <2>3, <2>4, MainAssumption
  <2> QED
    BY <1>1, <2>5, <2>6, ActivationSizes
<1>6. CASE LeaveInterp(i)
  <2> DEFINE f == Front(act[i])
             s == Refreshed(f, memory)
  <2>1. act[i] # << >> /\ act' = [act EXCEPT ![i] = s]
    BY <1>6 DEF LeaveInterp
  <2>2. /\ f \in Seq(Activation) /\ Len(f) = Len(act[i]) - 1 /\ Len(act[i]) \in Nat
        /\ \A k \in 1 .. Len(f) : f[k] = act[i][k] /\ k \in 1 .. Len(act[i])
    BY <1>1, <2>1, FrontFacts
  <2> HIDE DEF f
  <2>3. /\ Len(s) = Len(f) /\ (s = << >> <=> f = << >>)
        /\ \A k \in 1 .. Len(f) :
              /\ s[k].page = f[k].page /\ f[k].page \in Nat
              /\ s[k].size = IF k = Len(f) THEN w32(f[k].page * memory.cur) ELSE f[k].size
    BY <1>2, <2>2, RefreshedFacts
  <2> HIDE DEF s
  <2>4. act'[i] = s /\ \A j \in Instances \ {i} : act'[j] = act[j]
    BY <2>1 DEF MemTypes
  <2>5. ASSUME NEW k \in 1 .. Len(f)
        PROVE  /\ w32(f[k].page * memory.cur) =< memory.accessible
               /\ f[k].size =< memory.accessible
               /\ memory.accessible < UINT32_MAX => f[k].page = memory.page
    <3>1. f[k] = act[i][k] /\ k \in 1 .. Len(act[i]) /\ f[k].page \in Nat
      BY <2>2, <2>3
    <3>2. /\ f[k].size =< memory.accessible
          /\ memory.accessible < UINT32_MAX => f[k].page = memory.page
      BY <1>3, <3>1
    <3> QED
      BY <1>1, <3>1, <3>2, ComputedSizeFits
  <2>6. \A j \in Instances : \A k \in 1 .. Len(act'[j]) :
            /\ act'[j][k].size =< memory.accessible
            /\ memory.accessible < UINT32_MAX => act'[j][k].page = memory.page
    BY <1>3, <2>3, <2>4, <2>5
  <2>7. ~module.shared /\ ~Whole =>
            /\ \A k \in 1 .. Len(act'[Main]) : act'[Main][k].page = memory.page
            /\ act'[Main] # << >> => act'[Main][Len(act'[Main])].size = Bytes
    <3> SUFFICES ASSUME ~module.shared, ~Whole, i = Main
                 PROVE  /\ \A k \in 1 .. Len(s) : s[k].page = memory.page
                        /\ s # << >> => s[Len(s)].size = Bytes
      BY <1>4, <2>4, MainAssumption
    <3>1. \A k \in 1 .. Len(s) : s[k].page = memory.page /\ f[k].page = memory.page
      BY <1>4, <2>2, <2>3
    <3>2. ASSUME s # << >>
          PROVE  s[Len(s)].size = Bytes
      <4>1. Len(f) \in 1 .. Len(f)
        BY <2>2, <2>3, <3>2
      <4>2. s[Len(s)].size = w32(Bytes)
        BY <2>3, <3>1, <4>1 DEF Bytes
      <4> QED
        BY <1>1, <4>2, NotWhole
    <3> QED
      BY <3>1, <3>2
  <2> QED
    BY <1>1, <2>6, <2>7, ActivationSizes
<1> QED
  BY <1>5, <1>6

(* memory.grow 0 reads the size again, and a failed memory.grow changes    *)
(* nothing.                                                                *)
LEMMA EnlargeNothingSizes ==
    ASSUME MemTypes, Lives, Sizes, NEW i \in Instances, EnlargeNothing(i)
    PROVE  Sizes'
<1>1. /\ module \in Modules /\ act[i] \in Seq(Activation) /\ act[i] # << >>
      /\ memory \in MemoryType /\ memory # NULL /\ UNCHANGED <<module, memory>>
      /\ \A j \in Instances : grow'[j] = grow[j] \/ grow'[j] = NULL
  BY MainAssumption DEF EnlargeNothing, MemTypes, Lives
<1>2. /\ memory.page \in Nat /\ memory.cur \in Nat
  BY <1>1, MemoryFacts
<1>3. \A j \in Instances : \A k \in 1 .. Len(act[j]) :
          /\ act[j][k].size =< memory.accessible
          /\ memory.accessible < UINT32_MAX => act[j][k].page = memory.page
  BY <1>1 DEF Sizes, Fits
<1>4. ~module.shared /\ ~Whole =>
          /\ \A k \in 1 .. Len(act[Main]) : act[Main][k].page = memory.page
          /\ act[Main] # << >> => act[Main][Len(act[Main])].size = Bytes
  BY <1>1 DEF Sizes, Exact
<1>5. CASE act' = act
  BY <1>1, <1>3, <1>4, <1>5, ActivationSizes
<1>6. CASE act' = [act EXCEPT ![i] = Refreshed(act[i], memory)]
  <2> DEFINE f == act[i]
             s == Refreshed(f, memory)
  <2>1. Len(f) \in Nat /\ Len(f) \in 1 .. Len(f)
    BY <1>1
  <2>2. /\ Len(s) = Len(f)
        /\ \A k \in 1 .. Len(f) :
              /\ s[k].page = f[k].page /\ f[k].page \in Nat
              /\ s[k].size = IF k = Len(f) THEN w32(f[k].page * memory.cur) ELSE f[k].size
    BY <1>1, <1>2, RefreshedFacts
  <2>3. act'[i] = s /\ \A j \in Instances \ {i} : act'[j] = act[j]
    BY <1>6 DEF MemTypes
  <2> HIDE DEF s
  <2>4. \A k \in 1 .. Len(f) :
            w32(f[k].page * memory.cur) =< memory.accessible
    BY <1>1, <1>3, <2>2, ComputedSizeFits
  <2>5. \A j \in Instances : \A k \in 1 .. Len(act'[j]) :
            /\ act'[j][k].size =< memory.accessible
            /\ memory.accessible < UINT32_MAX => act'[j][k].page = memory.page
    BY <1>3, <2>2, <2>3, <2>4
  <2>6. ~module.shared /\ ~Whole =>
            /\ \A k \in 1 .. Len(act'[Main]) : act'[Main][k].page = memory.page
            /\ act'[Main] # << >> => act'[Main][Len(act'[Main])].size = Bytes
    <3> SUFFICES ASSUME ~module.shared, ~Whole, i = Main
                 PROVE  /\ \A k \in 1 .. Len(s) : s[k].page = memory.page
                        /\ s[Len(s)].size = Bytes
      BY <1>4, <2>3, MainAssumption
    <3>1. \A k \in 1 .. Len(s) : s[k].page = memory.page /\ f[k].page = memory.page
      BY <1>4, <2>2
    <3>2. s[Len(s)].size = w32(Bytes)
      BY <2>1, <2>2, <3>1 DEF Bytes
    <3> QED
      BY <1>1, <3>1, <3>2, NotWhole
  <2> QED
    BY <1>1, <2>5, <2>6, ActivationSizes
<1> QED
  BY <1>5, <1>6 DEF EnlargeNothing

(* What wasm_enlarge_memory computes from the memory it reads.             *)
LEMMA EnlargeReadSizes ==
    ASSUME MemTypes, Lives, Sizes, NEW i \in Instances, NEW inc \in Incs, EnlargeRead(i, inc)
    PROVE  Sizes'
<1> DEFINE g == Enlarged(inc)
           total == w32(inc + memory.cur)
           bytes == memory.page * total
<1>1. /\ module \in Modules /\ memory \in MemoryType /\ memory # NULL
      /\ UNCHANGED <<module, memory, act>>
      /\ module.possible_memory_grow /\ inc > 0
      /\ total >= memory.cur /\ total =< memory.max
      /\ grow' = [grow EXCEPT ![i] = g]
  BY MainAssumption DEF EnlargeRead, Enlarged, MemTypes, Lives
<1>2. /\ memory.page \in Nat /\ memory.cur \in Nat /\ memory.max \in Nat /\ memory.size \in Nat
      /\ memory.accessible \in Nat /\ memory.off \in Int /\ memory.heap \in Int
      /\ inc \in 0 .. UINT32_MAX /\ Bytes \in Nat
      /\ UINT32_MAX \in Nat /\ UINT32_MAX = U32 - 1 /\ U32 \in Nat
  BY <1>1, MemoryFacts, MainAssumption, Constants DEF Bytes
<1>3. total \in 0 .. UINT32_MAX /\ total > memory.cur
  <2> DEFINE n == inc + memory.cur
  <2>1. n \in Nat /\ n \in Int /\ n = inc + memory.cur
    BY <1>2
  <2> HIDE DEF n
  <2>2. total = w32(n)
    BY DEF n
  <2>3. total \in 0 .. UINT32_MAX
    BY <2>1, <2>2, Wrap
  <2>4. CASE n =< UINT32_MAX
    <3>1. n \in 0 .. UINT32_MAX
      BY <1>2, <2>1, <2>4
    <3>2. total = n
      BY <2>2, <2>1, <3>1, Wrap
    <3> QED
      BY <1>1, <1>2, <2>1, <2>3, <3>2
  <2>5. CASE n >= U32
    <3>1. U32 =< n /\ n < 2 * U32
      BY <1>1, <1>2, <2>1, <2>3, <2>5
    <3>2. total = n - U32
      BY <2>2, <2>1, <3>1, Wrap
    <3> QED
      BY <1>1, <1>2, <2>1, <3>2
  <2> QED
    BY <1>2, <2>1, <2>4, <2>5
<1>4. /\ g.page = IF bytes > UINT32_MAX THEN UINT32_MAX ELSE memory.page
      /\ g.total = IF bytes > UINT32_MAX THEN 1 ELSE total
      /\ g.max = IF bytes > UINT32_MAX THEN 1 ELSE memory.max
      /\ g.old = w32(Bytes)
      /\ g.new = IF bytes > UINT32_MAX THEN UINT32_MAX ELSE bytes
  BY DEF Enlarged, Bytes
<1>5. grow'[i] = g /\ \A j \in Instances \ {i} : grow'[j] = grow[j]
  BY <1>1 DEF MemTypes
<1> HIDE DEF g
<1>6. /\ bytes \in Nat /\ Bytes =< bytes
      /\ memory.page * memory.max \in Nat /\ bytes =< memory.page * memory.max
  <2> HIDE DEF total
  <2>1. total \in Nat /\ memory.cur =< total
    BY <1>2, <1>3
  <2> QED
    BY <1>1, <1>2, <2>1, MulMono DEF Bytes
<1> HIDE DEF total
<1>7. memory.page = PageSize
  BY <1>1, <1>2, <1>3 DEF Sizes, PagesOk
<1> HIDE DEF bytes
<1>8. Bytes' = Bytes /\ Whole' = Whole /\ HasHeap' = HasHeap /\ HeapEnd' = HeapEnd
  BY <1>1 DEF Bytes, Whole, HasHeap, HeapEnd, BaseWraps
<1>9. HeapOk' /\ PagesOk'
  BY <1>1, <1>8 DEF Sizes, HeapOk, PagesOk
<1>10. GrowOk'
  <2>1. /\ g.new = g.page * g.total /\ g.new =< UINT32_MAX /\ g.total =< g.max
        /\ \/ g.page = PageSize
           \/ g.new = UINT32_MAX /\ g.total = g.max
    <3>1. CASE bytes > UINT32_MAX
      BY <1>2, <1>4, <3>1
    <3>2. CASE bytes =< UINT32_MAX
      <4>1. bytes = memory.page * total
        BY DEF bytes
      <4> QED
        BY <1>1, <1>2, <1>3, <1>4, <1>6, <1>7, <3>2, <4>1
    <3> QED
      BY <1>2, <1>6, <3>1, <3>2
  <2>2. HasHeap => HeapEnd =< g.new
    <3> SUFFICES ASSUME HasHeap
                 PROVE  HeapEnd =< g.new
      OBVIOUS
    <3>1. HeapEnd =< Bytes /\ HeapEnd =< UINT32_MAX /\ HeapEnd \in Int
      BY <1>1, <1>2 DEF Sizes, HeapOk, HeapEnd
    <3> QED
      BY <1>2, <1>4, <1>6, <3>1
  <2>3. \A j \in Instances \ {i} : grow'[j] # NULL =>
          /\ grow'[j].new = grow'[j].page * grow'[j].total
          /\ grow'[j].new =< UINT32_MAX
          /\ grow'[j].total =< grow'[j].max
          /\ \/ grow'[j].page = PageSize
             \/ grow'[j].new = UINT32_MAX /\ grow'[j].total = grow'[j].max
          /\ HasHeap => HeapEnd =< grow'[j].new
    BY <1>5 DEF Sizes, GrowOk
  <2> QED
    BY <1>5, <1>8, <2>1, <2>2, <2>3 DEF GrowOk
<1>11. Fits'
  BY <1>1 DEF Sizes, Fits
<1>12. SharedFits'
  <2> SUFFICES ASSUME module.shared, memory.accessible < UINT32_MAX
               PROVE  /\ memory.page * memory.max =< memory.accessible
                      /\ \A j \in Instances : grow'[j] # NULL =>
                            grow'[j].page = memory.page /\ grow'[j].max = memory.max
    BY <1>1 DEF SharedFits
  <2>1. /\ memory.page * memory.max =< memory.accessible
        /\ \A j \in Instances : grow[j] # NULL =>
              grow[j].page = memory.page /\ grow[j].max = memory.max
    BY <1>1 DEF Sizes, SharedFits
  <2>2. bytes =< UINT32_MAX
    BY <1>2, <1>6, <2>1
  <2>3. g.page = memory.page /\ g.max = memory.max
    BY <1>2, <1>4, <1>6, <2>2
  <2> QED
    BY <1>5, <2>1, <2>3
<1>13. PrivateFits'
  <2> SUFFICES ASSUME ~module.shared
               PROVE  /\ ~module.hw => memory.accessible = Bytes /\ memory.size = Bytes
                      /\ module.hw /\ memory.accessible < UINT32_MAX => Bytes =< memory.size
                      /\ grow'[Main] # NULL =>
                           /\ grow'[Main].old = w32(Bytes)
                           /\ \/ grow'[Main].page = memory.page /\ Bytes =< grow'[Main].new
                              \/ grow'[Main].new = UINT32_MAX
    BY <1>1, <1>8 DEF PrivateFits
  <2>1. /\ ~module.hw => memory.accessible = Bytes /\ memory.size = Bytes
        /\ module.hw /\ memory.accessible < UINT32_MAX => Bytes =< memory.size
        /\ grow[Main] # NULL =>
             /\ grow[Main].old = w32(Bytes)
             /\ \/ grow[Main].page = memory.page /\ Bytes =< grow[Main].new
                \/ grow[Main].new = UINT32_MAX
    BY <1>1 DEF Sizes, PrivateFits
  <2>2. /\ g.old = w32(Bytes)
        /\ (g.page = memory.page /\ Bytes =< g.new) \/ g.new = UINT32_MAX
    BY <1>2, <1>4, <1>6
  <2> QED
    BY <1>5, <2>1, <2>2, MainAssumption
<1>14. Exact'
  BY <1>1, <1>8 DEF Sizes, Exact
<1> QED
  BY <1>9, <1>10, <1>11, <1>12, <1>13, <1>14 DEF Sizes

(* wasm_enlarge_memory writes what it read, also when another thread has   *)
(* written meanwhile.                                                      *)
LEMMA EnlargeWriteSizes ==
    ASSUME MemTypes, Lives, Sizes, NEW i \in Instances, EnlargeWrite(i)
    PROVE  Sizes'
<1> DEFINE g == grow[i]
           A == memory.accessible
           A1 == memory'.accessible
           f == act[i]
           s == Refreshed(f, memory')
<1>1. /\ module \in Modules /\ memory \in MemoryType /\ memory # NULL
      /\ g \in GrowType /\ g # NULL /\ f \in Seq(Activation) /\ f # << >>
      /\ memory' \in MemoryType /\ module' = module
      /\ module.shared \in BOOLEAN /\ module.hw \in BOOLEAN
  BY MainAssumption, EnlargedMemoryType, ModuleFacts, NullAssumption
  DEF EnlargeWrite, MemTypes, Lives
<1>2. /\ memory.page \in Nat /\ memory.cur \in Nat /\ memory.max \in Nat /\ memory.size \in Nat
      /\ A \in Nat /\ memory.off \in Int /\ memory.heap \in Int /\ Bytes \in Nat
      /\ UINT32_MAX \in Nat /\ OsPage \in Nat \ {0} /\ PageSize \in Nat \ {0}
      /\ g.page \in Nat /\ g.total \in Nat /\ g.max \in Nat /\ g.old \in Nat /\ g.new \in Nat
      /\ A1 \in Nat
  BY <1>1, MemoryFacts, GrowFacts, Constants DEF Bytes
<1>3. /\ memory'.page = g.page /\ memory'.cur = g.total /\ memory'.max = g.max
      /\ memory'.off = memory.off /\ memory'.heap = memory.heap
      /\ memory'.size = IF ~module.hw /\ module.shared THEN memory.size ELSE g.new
      /\ A1 = IF module.hw THEN Opened(g) ELSE IF module.shared THEN A ELSE g.new
  BY <1>1 DEF EnlargeWrite, MemoryType
<1>4. /\ grow' = [grow EXCEPT ![i] = NULL] /\ act' = [act EXCEPT ![i] = s]
  BY DEF EnlargeWrite
<1>5. /\ grow'[i] = NULL /\ act'[i] = s
      /\ \A j \in Instances \ {i} : grow'[j] = grow[j] /\ act'[j] = act[j]
  BY <1>4 DEF MemTypes
<1>6. ~module.shared => i = Main
  BY <1>1 DEF Lives
<1>7. /\ Len(f) \in Nat /\ Len(f) \in 1 .. Len(f) /\ Len(s) = Len(f)
      /\ \A k \in 1 .. Len(f) :
            /\ s[k].page = f[k].page /\ f[k].page \in Nat
            /\ s[k].size = IF k = Len(f) THEN w32(f[k].page * g.total) ELSE f[k].size
  <2> DEFINE mem == memory'
  <2>1. mem.cur = g.total /\ mem.cur \in Nat /\ f \in Seq(Activation)
    BY <1>1, <1>2, <1>3
  <2>2. s = Refreshed(f, mem)
    OBVIOUS
  <2>3. Len(f) \in Nat /\ Len(f) \in 1 .. Len(f)
    BY <1>1
  <2> HIDE DEF mem, s, f, g
  <2>4. /\ Len(s) = Len(f)
        /\ \A k \in 1 .. Len(f) :
              /\ s[k].page = f[k].page /\ f[k].page \in Nat
              /\ s[k].size = IF k = Len(f) THEN w32(f[k].page * mem.cur) ELSE f[k].size
    BY <2>1, <2>2, RefreshedFacts
  <2> QED
    BY <2>1, <2>3, <2>4
<1> HIDE DEF s
<1>8. /\ g.new = g.page * g.total /\ g.new =< UINT32_MAX /\ g.total =< g.max
      /\ \/ g.page = PageSize
         \/ g.new = UINT32_MAX /\ g.total = g.max
      /\ HasHeap => HeapEnd =< g.new
  BY <1>1 DEF Sizes, GrowOk
<1>9. /\ memory.size =< A /\ memory.size =< UINT32_MAX
      /\ \A j \in Instances : \A k \in 1 .. Len(act[j]) :
            /\ act[j][k].size =< A
            /\ A < UINT32_MAX => act[j][k].page = memory.page
  BY <1>1 DEF Sizes, Fits
<1>10. module.shared /\ A < UINT32_MAX =>
          /\ memory.page * memory.max =< A
          /\ \A j \in Instances : grow[j] # NULL =>
                grow[j].page = memory.page /\ grow[j].max = memory.max
  BY <1>1 DEF Sizes, SharedFits
<1>11. ~module.shared =>
          /\ ~module.hw => A = Bytes /\ memory.size = Bytes
          /\ module.hw /\ A < UINT32_MAX => Bytes =< memory.size
          /\ g.old = w32(Bytes)
          /\ \/ g.page = memory.page /\ Bytes =< g.new
             \/ g.new = UINT32_MAX
  BY <1>1, <1>6 DEF Sizes, PrivateFits
<1>12. /\ Bytes' = g.new /\ HasHeap' = HasHeap /\ HeapEnd' = HeapEnd
  BY <1>1, <1>3, <1>8 DEF Bytes, HasHeap, HeapEnd, BaseWraps
<1>13. module.shared /\ A < UINT32_MAX => g.page = memory.page /\ g.max = memory.max /\ g.new =< A
  <2> SUFFICES ASSUME module.shared, A < UINT32_MAX
               PROVE  g.page = memory.page /\ g.max = memory.max /\ g.new =< A
    OBVIOUS
  <2>1. g.page = memory.page /\ g.max = memory.max
    BY <1>1, <1>10
  <2> HIDE DEF g
  <2>2. g.page * g.total =< g.page * g.max /\ g.page * g.max \in Nat
    BY <1>2, <1>8, MulMono
  <2> QED
    BY <1>2, <1>8, <1>10, <2>1, <2>2
<1>14. Opened(g) >= A /\ Opened(g) >= memory.size + g.new - g.old
  <2> DEFINE n == memory.size + g.new - g.old
  <2>1. n \in Int
    BY <1>2
  <2> HIDE DEF g
  <2>2. RoundUp(n, OsPage) \in Int /\ RoundUp(n, OsPage) >= n
    <3> HIDE DEF n
    <3> DEFINE top == n + OsPage - 1
               q == top \div OsPage
    <3>1. top \in Int /\ top = n + OsPage - 1
      BY <1>2, <2>1
    <3> HIDE DEF top
    <3>2. q \in Int /\ top % OsPage = top - OsPage * q /\ top % OsPage < OsPage
          /\ top % OsPage \in Int
      BY <3>1, <1>2, DivMod, Zenon
    <3>3. RoundUp(n, OsPage) = q * OsPage
      BY DEF RoundUp, top
    <3> HIDE DEF q
    <3>4. q * OsPage = OsPage * q /\ OsPage * q \in Int
      BY <1>2, <3>2
    <3> QED
      BY <1>2, <2>1, <3>1, <3>2, <3>3, <3>4
  <2>3. Opened(g) = IF RoundUp(n, OsPage) > A THEN RoundUp(n, OsPage) ELSE A
    BY DEF Opened
  <2> HIDE DEF n
  <2>4. Opened(g) >= A /\ Opened(g) >= n
    BY <1>2, <2>1, <2>2, <2>3
  <2> QED
    BY <2>4 DEF n
<1>15. Opened(g) = A1 \/ ~module.hw
  BY <1>3
<1>16. ~module.shared /\ module.hw /\ A < UINT32_MAX => g.old =< memory.size
  <2>1. w32(Bytes) =< Bytes /\ w32(Bytes) \in Nat
    <3>1. Bytes \in Int /\ Bytes >= 0
      BY <1>2
    <3> QED
      BY <3>1, Wrap, Constants
  <2> QED
    BY <1>2, <1>11, <2>1
<1> HIDE DEF g, A, A1, f
<1>17. A =< A1
  <2>1. CASE module.hw
    BY <1>14, <1>15, <2>1
  <2>2. CASE ~module.hw /\ module.shared
    BY <1>2, <1>3, <2>2
  <2>3. CASE ~module.hw /\ ~module.shared
    BY <1>2, <1>3, <1>9, <1>11, <2>3
  <2> QED
    BY <1>1, <2>1, <2>2, <2>3
<1>18. memory'.size =< A1 /\ memory'.size =< UINT32_MAX
  <2>1. CASE ~module.hw
    BY <1>2, <1>3, <1>8, <1>9, <2>1
  <2>2. CASE module.hw /\ A >= UINT32_MAX
    BY <1>2, <1>3, <1>8, <1>17, <2>2
  <2>3. CASE module.hw /\ A < UINT32_MAX /\ module.shared
    BY <1>2, <1>3, <1>8, <1>13, <1>17, <2>3
  <2>4. CASE module.hw /\ A < UINT32_MAX /\ ~module.shared
    BY <1>2, <1>3, <1>8, <1>14, <1>15, <1>16, <2>4
  <2> QED
    BY <1>1, <1>2, <2>1, <2>2, <2>3, <2>4
<1>19. A1 < UINT32_MAX => g.page = memory.page /\ g.new =< A1
  <2> SUFFICES ASSUME A1 < UINT32_MAX
               PROVE  g.page = memory.page /\ g.new =< A1
    OBVIOUS
  <2>1. A < UINT32_MAX
    BY <1>2, <1>17
  <2>2. CASE module.shared
    BY <1>2, <1>13, <1>17, <2>1, <2>2
  <2>3. CASE ~module.shared
    <3>1. g.new =< A1
      BY <1>1, <1>3, <1>18, <2>3
    <3> QED
      BY <1>2, <1>11, <2>3, <3>1
  <2> QED
    BY <1>1, <2>2, <2>3
<1>20. HeapOk'
  <2> SUFFICES ASSUME HasHeap
               PROVE  /\ HeapEnd =< Bytes' /\ HeapEnd =< UINT32_MAX
                      /\ memory.off >= 0
                      /\ LET own == PageSize * module.init
                             known == module.base # NULL /\ module.base < own
                         IN /\ known => memory.off >= module.base
                            /\ known \/ memory.off >= own
    BY <1>1, <1>3, <1>12 DEF HeapOk
  <2> QED
    BY <1>1, <1>8, <1>12 DEF Sizes, HeapOk
<1>21. PagesOk'
  <2>1. g.page = PageSize \/ g.total = g.max
    BY <1>8
  <2> QED
    BY <1>1, <1>3, <1>8, <2>1 DEF PagesOk
<1>22. GrowOk'
  BY <1>5, <1>12 DEF Sizes, GrowOk
<1>23. w32(g.new) = g.new
  <2>1. g.new \in 0 .. UINT32_MAX /\ g.new \in Int
    BY <1>2, <1>8
  <2> QED
    BY <2>1, Wrap
<1>24. Fits'
  <2>1. ASSUME NEW k \in 1 .. Len(f)
        PROVE  /\ s[k].size =< A1
               /\ A1 < UINT32_MAX => s[k].page = g.page
    <3>1. /\ f[k].size =< A /\ f[k].size \in Nat
          /\ A < UINT32_MAX => f[k].page = memory.page
      <4>1. f[k] \in Activation
        BY <1>1
      <4>2. f[k].size \in 0 .. UINT32_MAX
        BY <4>1 DEF Activation
      <4> QED
        BY <1>2, <1>9, <4>2 DEF f
    <3>2. w32(f[k].page * g.total) \in 0 .. UINT32_MAX
      <4>0. f[k].page \in Nat /\ g.total \in Nat
        BY <1>2, <1>7
      <4>1. f[k].page * g.total \in Int
        BY <4>0
      <4> QED
        BY <4>1, Wrap
    <3>0. /\ s[k].page = f[k].page
          /\ s[k].size = w32(f[k].page * g.total) \/ s[k].size = f[k].size
      BY <1>7
    <3>3. CASE A1 >= UINT32_MAX
      BY <1>2, <1>17, <3>0, <3>1, <3>2, <3>3
    <3>4. CASE A1 < UINT32_MAX
      <4>1. f[k].page = g.page /\ g.new =< A1
        BY <1>2, <1>17, <1>19, <3>1, <3>4
      <4>2. w32(f[k].page * g.total) = g.new
        BY <1>8, <1>23, <4>1
      <4> QED
        BY <1>2, <1>17, <3>0, <3>1, <4>1, <4>2
    <3> QED
      BY <1>2, <3>3, <3>4
  <2>2. ASSUME NEW j \in Instances, NEW k \in 1 .. Len(act'[j])
        PROVE  /\ act'[j][k].size =< A1
               /\ A1 < UINT32_MAX => act'[j][k].page = g.page
    <3>1. CASE j = i
      BY <1>5, <1>7, <2>1, <3>1
    <3>2. CASE j # i
      <4>1. act'[j] = act[j] /\ act[j] \in Seq(Activation)
        BY <1>5, <3>2 DEF MemTypes
      <4>2. act[j][k] \in Activation
        BY <4>1
      <4>3. act[j][k].size \in 0 .. UINT32_MAX
        BY <4>2 DEF Activation
      <4>4. /\ act[j][k].size =< A
            /\ A < UINT32_MAX => act[j][k].page = memory.page
        BY <1>9, <4>1
      <4> QED
        BY <1>2, <1>17, <1>19, <4>1, <4>3, <4>4
    <3> QED
      BY <3>1, <3>2
  <2> QED
    BY <1>3, <1>18, <2>2 DEF Fits, A1
<1>25. SharedFits'
  <2> SUFFICES ASSUME module.shared, A1 < UINT32_MAX
               PROVE  /\ g.page * g.max =< A1
                      /\ \A j \in Instances : grow'[j] # NULL =>
                            grow'[j].page = g.page /\ grow'[j].max = g.max
    BY <1>1, <1>3 DEF SharedFits, A1
  <2>1. A < UINT32_MAX
    BY <1>2, <1>17
  <2>2. g.page = memory.page /\ g.max = memory.max
    BY <1>13, <2>1
  <2>3. memory.page * memory.max \in Nat
    BY <1>2
  <2> QED
    BY <1>2, <1>5, <1>10, <1>17, <2>1, <2>2, <2>3
<1>26. PrivateFits'
  <2> SUFFICES ASSUME ~module.shared
               PROVE  /\ ~module.hw => A1 = Bytes' /\ memory'.size = Bytes'
                      /\ module.hw /\ A1 < UINT32_MAX => Bytes' =< memory'.size
                      /\ grow'[Main] = NULL
    BY <1>1 DEF PrivateFits, A1
  <2> QED
    BY <1>2, <1>3, <1>5, <1>6, <1>12
<1>27. Exact'
  <2> SUFFICES ASSUME ~module.shared, ~(RoundUp(g.new, OsPage) > UINT32_MAX)
               PROVE  /\ memory'.size = IF module.hw THEN RoundUp(g.new, OsPage) ELSE g.new
                      /\ \A k \in 1 .. Len(s) : s[k].page = g.page
                      /\ s[Len(s)].size = g.new
    BY <1>1, <1>3, <1>5, <1>6, <1>12 DEF Exact, Whole
  <2>1. g.new # UINT32_MAX
    BY MaxIsWhole
  <2>2. g.page = PageSize /\ g.page = memory.page /\ Bytes =< g.new
    BY <1>8, <1>11, <2>1
  <2>3. ~Whole
    <3>1. /\ RoundUp(Bytes, OsPage) =< RoundUp(g.new, OsPage)
          /\ RoundUp(Bytes, OsPage) \in Nat /\ RoundUp(g.new, OsPage) \in Nat
      BY <1>2, <2>2, RoundUpMono, RoundUpFacts
    <3> QED
      BY <1>2, <3>1 DEF Whole
  <2>4. RoundUp(g.new, OsPage) = g.new
    <3> DEFINE c == PageSize \div OsPage
    <3>1. c \in Nat /\ PageSize = OsPage * c
      <4>1. PageSize \in Int /\ PageSize >= 0 /\ PageSize % OsPage = 0
        BY Constants
      <4>2. c \in Nat /\ PageSize % OsPage = PageSize - OsPage * c
        BY <1>2, <4>1, DivMod, Zenon
      <4> HIDE DEF c
      <4>3. OsPage * c \in Nat
        BY <1>2, <4>2
      <4> QED
        BY <1>2, <4>1, <4>2, <4>3
    <3> HIDE DEF c
    <3>2. g.new = OsPage * (c * g.total) /\ c * g.total \in Nat
      <4>1. g.new = (OsPage * c) * g.total
        BY <1>8, <2>2, <3>1
      <4> QED
        BY <1>2, <3>1, <4>1
    <3> QED
      BY <1>2, <3>2, RoundUpMultiple
  <2>5. \A k \in 1 .. Len(f) : f[k].page = g.page
    BY <1>1, <2>2, <2>3, <1>6 DEF Sizes, Exact, f
  <2>6. s[Len(s)].size = w32(g.page * g.total)
    BY <1>7, <2>5
  <2> QED
    BY <1>3, <1>7, <1>8, <1>23, <2>4, <2>5, <2>6
<1> QED
  BY <1>20, <1>21, <1>22, <1>24, <1>25, <1>26, <1>27 DEF Sizes

----------------------------------------------------------------------------
(* The theorems *)

(* MemInv holds in every state: whatever the module, the interleaving of   *)
(* the instances' grows, activations, creations and destructions.          *)
THEOREM MemInvariant ==
    Spec => []MemInv
<1>1. Init => MemInv
  BY MemInit
<1>2. MemInv /\ [Next]_vars => MemInv'
  <2> SUFFICES ASSUME MemInv, [Next]_vars
               PROVE  MemInv'
    OBVIOUS
  <2>1. MemTypes' /\ Lives'
    BY MemTypesStep, LivesStep
  <2>2. MemTypes /\ Lives /\ Sizes
    BY DEF MemInv, Sizes
  <2>3. ASSUME UNCHANGED <<module, memory, grow, act>>
        PROVE  Sizes'
    BY <2>2, <2>3, SizesKept
  <2>4. ASSUME NEW i \in Instances,
               \/ SearchModule(i) \/ IncReference(i) \/ InstantiateFails(i)
               \/ InitGlobals(i) \/ DecReference(i)
        PROVE  Sizes'
    BY <2>3, <2>4
    DEF SearchModule, IncReference, InstantiateFails, InitGlobals, DecReference
  <2>5. ASSUME UNCHANGED vars
        PROVE  Sizes'
    BY <2>3, <2>5 DEF vars
  <2>6. ASSUME NEW i \in Instances,
               \/ MemoryInstantiate(i) \/ RemoveNode(i) \/ FreeMemory(i)
               \/ EnterInterp(i) \/ LeaveInterp(i)
               \/ \E inc \in Incs : EnlargeRead(i, inc)
               \/ EnlargeNothing(i) \/ EnlargeWrite(i)
        PROVE  Sizes'
    BY <2>2, <2>6, InstantiateSizes, FreedSizes, EnterLeaveSizes,
       EnlargeNothingSizes, EnlargeReadSizes, EnlargeWriteSizes
  <2>7. Sizes'
    BY <2>4, <2>5, <2>6 DEF Next, Done
  <2> QED
    BY <2>1, <2>7 DEF MemInv, Sizes
<1> QED
  BY <1>1, <1>2, PTL DEF Spec

(* No instance in use loses its memory, and ref_count of the shared memory *)
(* node is the number of the instances that use it, while threads          *)
(* instantiate and deinstantiate.                                          *)
THEOREM ReferencedHolds ==
    Spec => []Referenced
<1>1. MemInv => Referenced
  BY MainAssumption DEF MemInv, MemTypes, Lives, Users, Referenced
<1> QED
  BY <1>1, MemInvariant, PTL

(* CHECK_MEMORY_OVERFLOW of an interpreter that has cached the size of the *)
(* memory admits no address that faults, also when other threads enlarge   *)
(* the memory with stale values.                                           *)
THEOREM BoundsSafeHolds ==
    Spec => []BoundsSafe
<1>1. MemInv => BoundsSafe
  <2> SUFFICES ASSUME MemInv, NEW i \in Instances, act[i] # << >>
               PROVE  Last(act[i]).size =< memory.accessible
    BY DEF BoundsSafe
  <2>1. act[i] \in Seq(Activation) /\ memory # NULL
    BY MainAssumption DEF MemInv, MemTypes, Lives
  <2>2. Len(act[i]) \in 1 .. Len(act[i])
    BY <2>1
  <2> QED
    BY <2>1, <2>2 DEF MemInv, Fits, Last
<1> QED
  BY <1>1, MemInvariant, PTL

(* The interpreter of an unshared memory admits exactly the bytes          *)
(* memory.size promises, also after a grow by a nested activation.         *)
THEOREM BoundsExactHolds ==
    Spec => []BoundsExact
<1>1. MemInv => BoundsExact
  BY DEF MemInv, Exact, BoundsExact, Last
<1> QED
  BY <1>1, MemInvariant, PTL

(* memory_instantiate puts the app heap inside the memory and behind the   *)
(* static data, and no grow changes that.                                  *)
THEOREM HeapInsideHolds ==
    Spec => []HeapInside
<1>1. MemInv => HeapInside
  <2> SUFFICES ASSUME MemInv, memory # NULL, memory.heap > 0, ~BaseWraps
               PROVE  LET own == PageSize * module.init
                          known == module.base # NULL /\ module.base < own
                      IN /\ HeapEnd =< Bytes
                         /\ memory.off >= IF known THEN module.base ELSE 0
                         /\ known \/ memory.off >= own
    BY DEF HeapInside, HeapEnd
  <2> QED
    BY DEF MemInv, HeapOk, HasHeap
<1> QED
  BY <1>1, MemInvariant, PTL

(* wasm_runtime_validate_app_addr admits only accessible bytes, and of an  *)
(* unshared memory exactly those it has.                                   *)
THEOREM ValidateExactHolds ==
    Spec => []ValidateExact
<1>1. MemInv => ValidateExact
  <2> SUFFICES ASSUME MemInv, memory # NULL,
                      NEW off \in 0 .. UINT32_MAX, NEW n \in 0 .. UINT32_MAX
               PROVE  LET limit == IF module.hw THEN RoundUp(Bytes, OsPage) ELSE Bytes
                      IN /\ ValidateAppAddr(off, n) => off + n =< memory.accessible
                         /\ ~module.shared /\ ~Whole =>
                               (ValidateAppAddr(off, n) <=> off + n =< limit)
    BY DEF ValidateExact
  <2>1. /\ memory.size \in Nat /\ memory.accessible \in Nat /\ UINT32_MAX \in Nat
        /\ memory.size =< memory.accessible /\ memory.size =< UINT32_MAX
    BY MemoryFacts, Constants DEF MemInv, MemTypes, Fits
  <2>2. ValidateAppAddr(off, n) <=> off + n =< memory.size
    BY <2>1 DEF ValidateAppAddr
  <2>3. ~module.shared /\ ~Whole =>
           memory.size = IF module.hw THEN RoundUp(Bytes, OsPage) ELSE Bytes
    BY DEF MemInv, Exact
  <2> QED
    BY <2>1, <2>2, <2>3
<1> QED
  BY <1>1, MemInvariant, PTL
============================================================================
