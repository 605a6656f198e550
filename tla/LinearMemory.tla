--------------------------- MODULE LinearMemory ---------------------------
(***************************************************************************)
(* The linear memory of a module: how the loader sizes it, how             *)
(* memory_instantiate inserts the app heap into it, how memory.grow        *)
(* enlarges it under the two builds (with and without hardware bound       *)
(* check), how the interpreter caches its size, and how the instances that *)
(* threads make of one module share it through a reference count.          *)
(*                                                                         *)
(* Sizes are scaled: PageSize bytes a page, MaxPages pages in 2^32.        *)
(* Instance Main is made by the host and outlives the others, which are    *)
(* made for threads (the thread manager waits for them).                   *)
(***************************************************************************)
EXTENDS Integers, FiniteSets, Sequences, SequencesExt

CONSTANTS
    PageSize,         \* DEFAULT_NUM_BYTES_PER_PAGE, 64 KB
    MaxPages,         \* DEFAULT_MAX_PAGES, 65536
    OsPage,           \* os_getpagesize()
    KB,               \* BH_KB
    Align,            \* the 8 of align_uint(size, 8)
    HeapSizeMax,      \* APP_HEAP_SIZE_MAX
    Modules,          \* the modules explored, see ModuleType
    Instances, Main,  \* module instances; Main is the host's
    MaxDepth,         \* bound: nested activations of the interpreter
    Incs,             \* arguments of memory.grow
    NULL

U32 == PageSize * MaxPages
UINT32_MAX == U32 - 1
w32(n) == n % U32

ASSUME SizesAssumption ==
    /\ {PageSize, MaxPages, OsPage, KB, Align} \subseteq Nat \ {0}
    /\ HeapSizeMax \in Nat /\ HeapSizeMax + PageSize =< U32
    /\ OsPage > 1 /\ PageSize % OsPage = 0 /\ KB < PageSize
ASSUME MainAssumption ==
    /\ IsFiniteSet(Instances) /\ Main \in Instances
    /\ Incs \subseteq 0 .. UINT32_MAX

(* What a module and the host fix: page counts of the memory section, the  *)
(* host's heap_size, aux_heap_base (NULL without the aux globals), whether  *)
(* a memory.size or memory.grow occurs, whether malloc and free are         *)
(* exported, whether the memory is shared, and the build.                   *)
ModuleType ==
    [init : 0 .. MaxPages, max : 0 .. MaxPages, heap : Nat,
     base : 0 .. UINT32_MAX \cup {NULL}, possible_memory_grow : BOOLEAN,
     malloc : BOOLEAN, shared : BOOLEAN, hw : BOOLEAN]
ASSUME ModulesAssumption ==
    Modules \subseteq {m \in ModuleType : m.init =< m.max}

(* WASMMemoryInstance, and what wasm_enlarge_memory has computed before it  *)
(* writes; NULL is neither of them.                                         *)
MemoryType ==
    [page : Nat, cur : Nat, max : Nat, size : Nat, accessible : Nat,
     off : Int, heap : Int]
GrowType ==
    [ok : BOOLEAN, page : Nat, total : Nat, max : Nat, old : Nat, new : Nat]
ASSUME NullAssumption ==
    NULL \notin Int /\ NULL \notin MemoryType /\ NULL \notin GrowType

VARIABLES
    module,    \* the module loaded, a member of Modules
    memory,    \* the WASMMemoryInstance, or NULL
    node,      \* ref_count of the WASMSharedMemNode of the module, or NULL
    pc,        \* [Instances -> progress of wasm_instantiate/deinstantiate]
    grow,      \* [Instances -> values a wasm_enlarge_memory read, or NULL]
    act,       \* [Instances -> nested activations of the interpreter, outermost first:
               \*   its locals num_bytes_per_page and linear_mem_size]
    heap_base  \* [Instances -> the global __heap_base of the instance]

vars == <<module, memory, node, pc, grow, act, heap_base>>

-----------------------------------------------------------------------------
(* The loader *)

RoundUp(n, a) == ((n + a - 1) \div a) * a
align_uint(n, a) == w32(RoundUp(n, a))

(* Without memory.grow the pages are merged into one, shrunk to the heap    *)
(* base when it is known.                                                   *)
MergePages(m) ==
    LET shrunk == align_uint(m.base, Align)
        shrink == m.base # NULL /\ shrunk =< PageSize * m.init
        page == IF shrink THEN shrunk ELSE PageSize
        init == IF shrink THEN 1 ELSE m.init
    IN [page |-> IF init < MaxPages THEN w32(page * init) ELSE UINT32_MAX,
        init |-> IF init > 0 THEN 1 ELSE 0,
        max  |-> IF init > 0 THEN 1 ELSE 0]

Loaded(m) ==
    IF m.possible_memory_grow
    THEN [page |-> PageSize, init |-> m.init, max |-> m.max]
    ELSE MergePages(m)

-----------------------------------------------------------------------------
(* memory_instantiate: where the app heap goes.                             *)

HeapSize(m) ==
    LET h == align_uint(m.heap, Align)
        capped == IF h > HeapSizeMax THEN HeapSizeMax ELSE h
    IN IF m.malloc THEN 0 ELSE capped

(* A layout; base is the value memory_instantiate writes into __heap_base.  *)
Layout(p, off, heap, base) ==
    [page |-> p.page, init |-> p.init, max |-> p.max, off |-> off,
     heap |-> heap, base |-> base, ok |-> TRUE]

AppendHeap(p, h, base) ==
    LET page == w32(p.page + h)
    IN [Layout([p EXCEPT !.page = page], p.page, h, base) EXCEPT !.ok = page >= h]

(* The pages of the heap are counted; 2^32 becomes one page of 2^32 - 1.    *)
CountPages(l, inc) ==
    LET init == l.init + inc
        max == l.max + inc
        whole == init = MaxPages
    IN [l EXCEPT !.ok = init =< MaxPages,
                 !.page = IF whole THEN UINT32_MAX ELSE l.page,
                 !.init = IF whole THEN 1 ELSE init,
                 !.max = IF whole THEN 1
                         ELSE IF max > MaxPages THEN MaxPages ELSE max]

ToPageEnd(addr, page) ==
    page - (IF addr % page = 0 THEN page ELSE addr % page)

(* Mutant: the part of the heap in its last page is not counted.            *)
HeapBeforeBaseDown(p, h, base) ==
    LET inc == w32(h - ToPageEnd(base, p.page)) \div p.page
        end == w32(base + h)
        tight == ToPageEnd(end, p.page) < KB
    IN CountPages(Layout(p, base, h, IF tight THEN w32(end + KB) ELSE end),
                  IF tight THEN inc + 1 ELSE inc)

HeapBeforeBase(p, h, base) ==
    LET inc == w32(h - ToPageEnd(base, p.page) + p.page - 1) \div p.page
        end == w32(base + h)
        tight == ToPageEnd(end, p.page) < KB
    IN CountPages(Layout(p, base, h, IF tight THEN w32(end + KB) ELSE end),
                  IF tight THEN inc + 1 ELSE inc)

HeapInNewPages(p, h, base) ==
    LET inc == (h + p.page - 1) \div p.page
    IN CountPages(Layout(p, w32(p.page * p.init), w32(p.page * inc) - KB, base), inc)

InsertHeap(m) ==
    LET p == Loaded(m)
        h == HeapSize(m)
    IN IF p.init = 1 /\ p.max = 1 THEN AppendHeap(p, h, m.base)
       ELSE IF h = 0 THEN Layout(p, w32(p.page * p.init), 0, m.base)
       ELSE IF p.init = 0 /\ p.max = 0
       THEN CountPages(Layout([p EXCEPT !.page = h], 0, h, m.base), 1)
       ELSE IF m.base # NULL /\ m.base < w32(p.page * p.init)
       THEN HeapBeforeBase(p, h, m.base)
       ELSE HeapInNewPages(p, h, m.base)

(* The bytes reserved: all pages a shared memory may have; whole OS pages   *)
(* with hardware bound check, a block of less than 2^32 - 1 without.        *)
DataSize(m, l) ==
    LET bytes == l.page * (IF m.shared THEN l.max ELSE l.init)
    IN IF m.hw THEN RoundUp(bytes, OsPage) ELSE bytes

CanInstantiate(m, l) ==
    l.ok /\ (m.hw \/ DataSize(m, l) = 0 \/ DataSize(m, l) < UINT32_MAX)

(* accessible: the bytes from memory_data that do not fault.                *)
NewMemory(m, l) ==
    [page |-> l.page, cur |-> l.init, max |-> l.max,
     size |-> w32(DataSize(m, l)), accessible |-> DataSize(m, l),
     off |-> l.off, heap |-> l.heap]

Init ==
    /\ module \in Modules
    /\ memory = NULL /\ node = NULL
    /\ pc = [i \in Instances |-> "new"]
    /\ grow = [i \in Instances |-> NULL]
    /\ act = [i \in Instances |-> << >>]
    /\ heap_base = [i \in Instances |-> module.base]

-----------------------------------------------------------------------------
(* Mutant: the overflow of the sum is not checked.                          *)
ValidateAppAddrWraps(off, n) == w32(off + n) =< memory.size

(* wasm_runtime_validate_app_addr                                           *)
ValidateAppAddr(off, n) ==
    /\ off =< UINT32_MAX - n
    /\ off + n =< memory.size

-----------------------------------------------------------------------------
(* wasm_instantiate                                                         *)

(* shared_memory_get_shared_memory: the list is searched under its lock.    *)
SearchModule(i) ==
    /\ pc[i] = "new" /\ module.shared /\ node # NULL
    /\ pc[Main] = "live" /\ i # Main
    /\ pc' = [pc EXCEPT ![i] = "found"]
    /\ UNCHANGED <<module, memory, node, grow, act, heap_base>>

(* The second instance takes the memory as it is.                           *)
IncReference(i) ==
    /\ pc[i] = "found"
    /\ node' = IF node = NULL THEN NULL ELSE node + 1
    /\ pc' = [pc EXCEPT ![i] = "memory"]
    /\ UNCHANGED <<module, memory, grow, act, heap_base>>

MemoryInstantiate(i) ==
    /\ pc[i] = "new" /\ i = Main
    /\ LET l == InsertHeap(module)
       IN /\ CanInstantiate(module, l)
          /\ memory' = NewMemory(module, l)
          /\ heap_base' = [heap_base EXCEPT ![i] = l.base]
    /\ node' = IF module.shared THEN 1 ELSE NULL
    /\ pc' = [pc EXCEPT ![i] = "memory"]
    /\ UNCHANGED <<module, grow, act>>

(* After the memories, tables and functions the data of every global is set *)
(* to its initial value, __heap_base's too.                                 *)
InitGlobals(i) ==
    /\ pc[i] = "memory"
    /\ heap_base' = [heap_base EXCEPT ![i] = module.base]
    /\ pc' = [pc EXCEPT ![i] = "live"]
    /\ UNCHANGED <<module, memory, node, grow, act>>

(* The heap does not fit, or an allocation fails: everything is released.   *)
InstantiateFails(i) ==
    /\ pc[i] = "new" /\ i = Main
    /\ pc' = [pc EXCEPT ![i] = "failed"]
    /\ UNCHANGED <<module, memory, node, grow, act, heap_base>>

-----------------------------------------------------------------------------
(* wasm_deinstantiate, by a thread that is not in the interpreter; the      *)
(* host's instance goes last.                                               *)

Leaving(i) ==
    /\ pc[i] = "live" /\ act[i] = << >>
    /\ i = Main => \A j \in Instances \ {Main} : pc[j] \in {"new", "gone"}

(* Mutant: the test of ref_count is missing.                                *)
DecReferenceFrees(i) ==
    /\ Leaving(i) /\ module.shared
    /\ node' = node - 1
    /\ pc' = [pc EXCEPT ![i] = "remove"]
    /\ UNCHANGED <<module, memory, grow, act, heap_base>>

(* shared_memory_dec_reference, up to the unlock of the node.               *)
DecReference(i) ==
    /\ Leaving(i) /\ module.shared
    /\ node' = node - 1
    /\ pc' = [pc EXCEPT ![i] = IF node - 1 > 0 THEN "gone" ELSE "remove"]
    /\ UNCHANGED <<module, memory, grow, act, heap_base>>

RemoveNode(i) ==
    /\ pc[i] = "remove"
    /\ node' = NULL /\ memory' = NULL
    /\ pc' = [pc EXCEPT ![i] = "gone"]
    /\ UNCHANGED <<module, grow, act, heap_base>>

FreeMemory(i) ==
    /\ Leaving(i) /\ ~module.shared
    /\ memory' = NULL
    /\ pc' = [pc EXCEPT ![i] = "gone"]
    /\ UNCHANGED <<module, node, grow, act, heap_base>>

-----------------------------------------------------------------------------
(* The interpreter: an activation reads the page size and the size of the   *)
(* memory into locals; it reads the size again after memory.grow and after  *)
(* a native function returns (which may have run another activation).       *)

EnterInterp(i) ==
    /\ pc[i] = "live" /\ grow[i] = NULL /\ Len(act[i]) < MaxDepth
    /\ act' = [act EXCEPT ![i] = Append(@,
                  [page |-> memory.page, size |-> w32(memory.page * memory.cur)])]
    /\ UNCHANGED <<module, memory, node, pc, grow, heap_base>>

Refreshed(stack, mem) ==
    [k \in DOMAIN stack |->
        IF k = Len(stack)
        THEN [stack[k] EXCEPT !.size = w32(stack[k].page * mem.cur)]
        ELSE stack[k]]

(* Mutant: the size is not read again after a native function.              *)
LeaveInterpStale(i) ==
    /\ pc[i] = "live" /\ grow[i] = NULL /\ act[i] # << >>
    /\ act' = [act EXCEPT ![i] = Front(@)]
    /\ UNCHANGED <<module, memory, node, pc, grow, heap_base>>

LeaveInterp(i) ==
    /\ pc[i] = "live" /\ grow[i] = NULL /\ act[i] # << >>
    /\ act' = [act EXCEPT ![i] = Refreshed(Front(@), memory)]
    /\ UNCHANGED <<module, memory, node, pc, grow, heap_base>>

-----------------------------------------------------------------------------
(* wasm_enlarge_memory takes no lock: it reads the memory, then writes it.  *)

Enlarged(inc) ==
    LET total == w32(inc + memory.cur)
        bytes == memory.page * total
        whole == bytes > UINT32_MAX
    IN [ok |-> total >= memory.cur /\ total =< memory.max,
        page |-> IF whole THEN UINT32_MAX ELSE memory.page,
        total |-> IF whole THEN 1 ELSE total,
        max |-> IF whole THEN 1 ELSE memory.max,
        old |-> w32(memory.page * memory.cur),
        new |-> IF whole THEN UINT32_MAX ELSE bytes]

EnlargeRead(i, inc) ==
    /\ module.possible_memory_grow
    /\ act[i] # << >> /\ grow[i] = NULL /\ inc > 0
    /\ Enlarged(inc).ok
    /\ grow' = [grow EXCEPT ![i] = Enlarged(inc)]
    /\ UNCHANGED <<module, memory, node, pc, act, heap_base>>

(* memory.grow 0, which re-reads the size, or a failed one, which does not. *)
EnlargeNothing(i) ==
    /\ module.possible_memory_grow
    /\ act[i] # << >>
    /\ grow' = [grow EXCEPT ![i] = NULL]
    /\ act' = IF grow[i] = NULL THEN [act EXCEPT ![i] = Refreshed(@, memory)] ELSE act
    /\ UNCHANGED <<module, memory, node, pc, heap_base>>

(* Mutant: the added pages are opened from the start of the memory.         *)
OpenedFromStart(g) ==
    LET end == RoundUp(g.new - g.old, OsPage)
    IN IF end > memory.accessible THEN end ELSE memory.accessible

(* With hardware bound check the pages after memory_data_end are opened.    *)
Opened(g) ==
    LET end == RoundUp(memory.size + g.new - g.old, OsPage)
    IN IF end > memory.accessible THEN end ELSE memory.accessible

EnlargeWrite(i) ==
    /\ grow[i] # NULL
    /\ LET g == grow[i]
           pages == [memory EXCEPT !.page = g.page, !.cur = g.total, !.max = g.max]
       IN memory' = IF module.hw
                    THEN [pages EXCEPT !.size = g.new, !.accessible = Opened(g)]
                    ELSE IF module.shared THEN pages
                    ELSE [pages EXCEPT !.size = g.new, !.accessible = g.new]
    /\ grow' = [grow EXCEPT ![i] = NULL]
    /\ act' = [act EXCEPT ![i] = Refreshed(@, memory')]
    /\ UNCHANGED <<module, node, pc, heap_base>>

Done == /\ \A i \in Instances : pc[i] \in {"gone", "failed"} \/ (i # Main /\ pc[i] = "new")
        /\ UNCHANGED vars

Next ==
    \/ \E i \in Instances :
          \/ SearchModule(i) \/ IncReference(i)
          \/ MemoryInstantiate(i) \/ InstantiateFails(i) \/ InitGlobals(i)
          \/ DecReference(i) \/ RemoveNode(i) \/ FreeMemory(i)
          \/ EnterInterp(i) \/ LeaveInterp(i)
          \/ \E inc \in Incs : EnlargeRead(i, inc)
          \/ EnlargeNothing(i) \/ EnlargeWrite(i)
    \/ Done

Spec == Init /\ [][Next]_vars

-----------------------------------------------------------------------------
(* Properties                                                               *)

Bytes == memory.page * memory.cur

(* The memory reaches the last OS page below 2^32: memory_data_size is then *)
(* not kept exactly (it may become 2^32 - 1 or 0), see the README.          *)
Whole == RoundUp(Bytes, OsPage) > UINT32_MAX

(* An address the interpreter admits from its cached size never faults nor  *)
(* leaves the block, also when another thread grew the memory meanwhile     *)
(* (CHECK_MEMORY_OVERFLOW and the bulk operations).                         *)
BoundsSafe ==
    \A i \in Instances :
        pc[i] = "live" /\ act[i] # << >> => Last(act[i]).size =< memory.accessible

(* The interpreter of an unshared memory admits every byte memory.size      *)
(* promises and no other, also after a grow by a nested activation.         *)
BoundsExact ==
    memory # NULL /\ ~module.shared /\ act[Main] # << >> /\ ~Whole
        => Last(act[Main]).size = Bytes

(* __heap_base is so close to 2^32 that align_uint(aux_heap_base, 8) is 0:  *)
(* MergePages then leaves no memory in front of the app heap.               *)
BaseWraps == module.base # NULL /\ RoundUp(module.base, Align) > UINT32_MAX

(* The app heap lies inside the memory and after the static data of the app,*)
(* which ends at __heap_base or, when that is not known, with the pages the *)
(* module declares.                                                         *)
HeapInside ==
    memory # NULL /\ memory.heap > 0 /\ ~BaseWraps =>
        LET end == memory.off + memory.heap
            own == PageSize * module.init
            known == module.base # NULL /\ module.base < own
        IN /\ end =< Bytes
           /\ memory.off >= IF known THEN module.base ELSE 0
           /\ known \/ memory.off >= own

(* "Adjust __heap_base global value" (wasm_runtime.c:251): what the app     *)
(* takes from its __heap_base up is apart from the heap that was inserted   *)
(* there. InitGlobals undoes it.                                            *)
HeapBaseAdjusted ==
    pc[Main] = "live" /\ module.possible_memory_grow /\ memory.heap > 0
    /\ memory.off = module.base /\ module.base < PageSize * module.init
        => heap_base[Main] \notin memory.off .. memory.off + memory.heap - 1

(* wasm_runtime_validate_app_addr admits only bytes that can be accessed,   *)
(* and of an unshared memory exactly the bytes it has, in whole OS pages.   *)
ValidateExact ==
    memory # NULL =>
        LET limit == IF module.hw THEN RoundUp(Bytes, OsPage) ELSE Bytes
            probe == {0, 1, memory.size - 1, memory.size, memory.size + 1, UINT32_MAX}
                        \cap 0 .. UINT32_MAX
        IN \A off, n \in probe :
              /\ ValidateAppAddr(off, n) => off + n =< memory.accessible
              /\ ~module.shared /\ ~Whole => (ValidateAppAddr(off, n) <=> off + n =< limit)

(* No instance in use loses its memory while others are made and destroyed, *)
(* and the node counts exactly the instances that use it.                   *)
Referenced ==
    LET users == {i \in Instances : pc[i] \in {"memory", "live"}}
    IN /\ users # {} => memory # NULL
       /\ module.shared /\ memory # NULL => node = Cardinality(users)
=============================================================================
