# A TLA+ model of WamrTest

WamrTest embeds the WebAssembly Micro Runtime (WAMR, under `src/wamr`) in a host
program (`src/main.c`) that calls user-defined functions compiled to wasm
(`wasm-app/testapp.c`) and measures what it costs to pass their arguments, raw
or as protobuf messages. This directory holds TLA+ modules for the parts of it
whose correctness depends on long histories, on failures in the middle, or on
the order in which threads take their locks, or on one part trusting what
another has computed; the TLC runs that check them on small instances; and TLAPS
proofs, for all instances, about the allocator, the ring, the driver, wait and notify, linear memory,
descriptors and paths, threads, and modules with their instances.

Paths below are relative to the repository; WAMR's `core/` is
`src/wamr/core/`.

## Inventory

| Component | State | Operations | Hard because | Correct when |
|---|---|---|---|---|
| EMS allocator, `core/shared/mem-alloc/ems` | chunk headers and footers in the pool; KFC: lists by size, search tree; counters; `is_heap_corrupted` | `gc_alloc_vo`, `gc_free_vo`, `gc_realloc_vo`, `gc_migrate`, init | every call depends on marks left by all earlier ones; `gc_realloc_vo` works in two critical sections; sizes wrap at 2^32 | chunks tile the pool, objects are disjoint and large enough, free space can be found again |
| Ring buffer, `main.c`, `testapp.c` | `pHead`, `pTail`, `pValidRead`, `pValidWrite`; the app's head, tail, `tmp` | `InitRingBuff`, `FreeRingBuff`, `WriteRingBuff`, `ReadRingBuff`; `init_ringbuffer`, `readBuffer`, `writeBuffer` | wrap-around; full and empty look alike; two programs work on the same memory | bytes come out in order |
| Benchmark driver, `main.c`, `testapp.c` | runtime handles, four buffers in the app heap, the test case and its loop | `main`, `test_main`, ten tests, the functions of the app | any of a dozen calls can fail; results travel through memory both sides cache; of the memory it takes `main` tests little | handles are released in order, what is kept is known, and so is every case in which it is brought down |
| Atomic wait and notify, `core/iwasm/common/wasm_shared_memory.c` | `wait_map`, wait infos, wait nodes | `wasm_runtime_atomic_wait`, `wasm_runtime_atomic_notify` | pointers held between two locks; signals; timeouts | no lost wakeup, no use after free, notifications and waits with a timeout return |
| Shared memory nodes, same file | list with reference counts | set, get, inc, dec | search and update under different locks | freed once, after its last user |
| Thread manager, `core/iwasm/libraries/thread-mgr` | clusters: lists of execution environments, segments of auxiliary stack; join counts and flags in each environment | create, join, detach, cancel, exit, terminate others | threads that end while others walk the lists or wait for them | a native thread is reclaimed once, a stack segment has one owner |
| lib-pthread | a node per thread handle with status and result | create, join, detach, cancel, exit | the node and the environment it points to change under no common lock | a join waits and gives the result |
| Linear memory, `core/iwasm/common/wasm_memory.c`, `interpreter/wasm_runtime.c` | page size and counts, bytes reserved and accessible, place of the app heap, `__heap_base` | page merging, instantiate, enlarge, validate an address, deinstantiate | 32 bit arithmetic at 2^32; sizes cached by every activation of the interpreter; growth without a lock | nothing the interpreter admits is outside; the heap is inside |
| Loader and interpreter, `interpreter/wasm_loader.c`, `wasm_interp_classic.c` | loader: operand types and control stack per function; interpreter: frames, operand stack, control stack, block address cache | validation of each opcode; execution of each opcode, calls, returns | the interpreter checks nothing the loader was to check: dead code, branches with values, frame sizes | the two agree at every instruction |
| libc-wasi, `sandboxed-system-primitives/src/posix.c` | descriptor table, objects with reference counts, rights; directories a walk has open | open, close, renumber, read, write, sockets, paths | threads close what others use; other programs change the file system during a walk | an object lives while a descriptor or a call refers to it, and not longer; a path stays inside |
| Runtime core, module sections, instances, `interpreter/wasm_loader.c`, `wasm_runtime.c`, `common/wasm_runtime_common.c` | types with reference counts, imports, functions, tables, memories, globals, exports, segments; the parts of each instance and its WASI context | load from a buffer or from sections, unload, instantiate, deinstantiate, call | many allocations, reads and checks, each may fail; instantiation uses the indexes the loader admitted; instances share the module | everything is freed once, no index is out of range, an instance begins as its segments say |
| AOT, compiler, JIT | code | compile, relocate | size | semantics of wasm |
| libc-builtin | - | string and output functions | - | app addresses are validated |
| Utilities, `core/shared/utils` | blocking queue, timers, hash map | post, get, set, cancel | timeouts against arrivals | nothing lost |
| App manager, app framework, debug engine | - | - | not part of this build | - |
| Generated protobuf code | - | pack, unpack | - | assertions about types |

How they interact: `main` calls the runtime, and through it the functions of the
app. The runtime takes its own memory from a pool of 4 MB managed by one EMS
heap; each module instance carries a second EMS heap inside its linear memory,
from which `main` takes the ring, the result block and two argument buffers
(`wasm_runtime_module_malloc`). Host and app share these blocks by address: the
host translates a native address once and the app keeps it in a global. Growing
linear memory moves it, in a build without hardware bound check, and calls
`gc_migrate` on the heap in it. The loader hands the interpreter three numbers per
function (`max_stack_cell_num`, `max_block_num`, the offsets of locals) and code it
vouches for. Threads of a wasm program are created through lib-pthread and the thread
manager and meet in the shared-memory functions, in the descriptor table and in the allocator.

Everything that is hard to test is listed, at its line, under `hazards` in
`PROJECT.json`, with the properties aimed at it.

## Modules

| Module | What it is |
|---|---|
| `EmsHeap` | the allocator |
| `BlockHeap` | what an allocator promises: disjoint blocks handed out, grown, taken back |
| `EmsHeapProofs` | theorems about `EmsHeap`: what is safe, then the tree and what allocation finds |
| `RingBuffer`, `RingBufferProofs` | the ring, from both sides; theorems about it |
| `ByteQueue` | what the ring promises: a bounded queue of bytes |
| `UdfHost`, `UdfHostProofs` | the driver and the functions it calls; theorems about them |
| `AtomicWait`, `AtomicWaitProofs` | wait and notify on shared memory; theorems about them |
| `WasmOps` | what each plain opcode takes from and leaves on the operand stack, once as the loader and once as the interpreter has it |
| `WasmLoader` | validation of a function body |
| `WasmInterp` | the classic interpreter on what the loader accepts; extends the two above |
| `ThreadManager` | clusters and their threads |
| `LibPthread`, `LibPthreadProofs` | the pthread functions on top of `ThreadManager`, with the app and the host; theorems about them |
| `LinearMemory`, `LinearMemoryProofs` | a memory, its app heap, the instances that share it; theorems about them |
| `WasmModule`, `WasmModuleProofs` | a module's sections, its loading and unloading, its instances; theorems about them |
| `WasiFd` | the descriptor table |
| `WasiPath` | path walks and path operations on top of `WasiFd`, with a file system that changes |
| `WasiProofs` | theorems about `WasiPath`, and so about `WasiFd` |
| `MC...` | the instances that TLC checks |

Operators whose comment starts with "Mutant" are wrong versions of the definition
that follows them. No specification uses them; each shows that some property
notices the mistake (`mutants` in `PROJECT.json`).

### EmsHeap

`heap` is the `gc_heap_t` with the headers and footers in the pool: `hmu` maps the
start of each chunk to type, size and P bit; `foot` says what `gc_free_vo` would
find in the word before a chunk; `list` and `tree` are the KFC, the tree with its
parent links. An entry of a list is an offset and the base address it was computed
from, since the heads of the lists are absolute. Everything is counted in
units of 8 bytes except requests, which are bytes and pass through the size
computation with its wrap-around (`Word` stands for 2^32).

One call is one action, because the code holds `heap->lock` throughout, with one
exception: `gc_realloc_vo` releases the lock before it frees the old copy. That is a
second action, `ReallocFree`, and `pend` holds the objects in between. `live` is what
the owners asked for. The model leaves out the `VO freed` bit, the filling of
memory with zeros, and the statistics. Three reads that the code makes before taking the lock
(`is_heap_corrupted`, the size of the caller's own chunk, the base address) are
part of the action.

Two places need care. `gc_free_vo` reads the word before a chunk as a footer when the
P bit is clear. After a resize in place the bit may be clear although that word is user data:
then either nothing matches and the call goes on, or the data looks like a
footer and the heap is merged at an arbitrary place; `wild` records the second
outcome and the model stops there. And `gc_realloc_vo` puts the rest of a chunk back
without setting its P bit: the model takes either value.

### RingBuffer

Pointers are offsets from `pHead`; `pTail` is `BUFF_MAX_LEN`. The copying functions
of both programs share their arithmetic: `CopyIn`, `CopyOut`, `Advance`.
In the repository nobody calls the read and write functions, so the
callers are the environment: any payload, any length, one beyond the limit too; the app is given the
address of the first unread byte. `unread` and `sound` are history variables: the
bytes a reader is owed, and whether everybody has so far stayed within them. A write through
a freed or NULL pointer, or past the end of `tmp`, sets `undefined`, and no more is said.

### UdfHost

`pc` walks through `main`. Each call of the runtime succeeds or fails; `held` is
what the part after `fail:` must release. The app heap holds `room` more blocks of
8192 bytes; the unchecked `wasm_runtime_module_malloc` calls leave a pointer NULL.
How many fit depends on how the app is linked: without an exported `__heap_base`
the requested 8192 bytes are rounded up to a wasm page and four blocks fit; with it none
does. `Rooms` is therefore a set. A message is its type and the iteration
it belongs to: that is what tells a fresh result from a stale one. The functions of the app never free
what they unpack; after `GuestRoom` messages unpacking may fail.

`main` also takes from the host what it never gives back: for the two split tests a table, a stream and a string per
line (`malloc_split_str`, `open_split_file`, `read_split_str`), an array per iteration (`pack_arguments`) and every
message it unpacks. `kept` records these. Each allocation may fail; `nulls` is where one did, since none
of them is tested: the table and the strings are written to, and the message is looked into. A read through NULL ends the run as a crash.

### AtomicWait

One action per critical section. A thread acquires the wait info of an address under
`shared_memory_list_lock`, then holds a bare pointer until it has taken the lock
of the info (`Enlist`, `Notify`), sleeps on its own node, takes the lock of the info again
(`Delist`) and finally the list lock (`ReleaseWaitInfo`). When an info is destroyed all pointers to it
become `DANGLING`; using one sets `undefined`. Signals sent before the
sleep begins are lost, as they are for a condition variable. `Store` is the app:
it changes the word, and its thread notifies everybody next. `forever` says that a wait was asked to have no timeout; the code
loses this (below), so nothing but `FiniteCallsReturn` reads it.

### WasmOps, WasmLoader, WasmInterp

A function is a sequence of instructions, one per address. The loader's state is
the operand types (`ref`, a 64 bit type in two cells), the control stack (`csp`)
with the height at which each block began and whether it is polymorphic, and the running
maxima; `WasmLoader` has an operator per opcode group of
`wasm_loader_prepare_bytecode` and per helper. Loading chooses each instruction from
the set of its slot, so TLC explores the loader on all of them and executes every
function it accepts; the snapshots it took (`info[f].at`) are what `StackAgrees`
compares the interpreter with. In the interpreter a cell is its width, since the code pops words
and double words without knowing types. Conditions, table indexes and
`call_indirect` targets are chosen freely; an instruction that may trap may also do so. The
opcodes rewritten by the loader (`DROP_64`, `SELECT_64`, the fast local accesses, `EXT_OP_BLOCK`, the
aux stack's global) are rewritten in the model. `cache` is the block address cache with its rows and its moving of
entries; `find_block_addr` scans with its stack of open blocks.

The wasm stack is counted in cells with a small frame header. The frame that
`wasm_interp_call_wasm` makes for the entry reserves room for its result only; `OutsAreaFits` is about calls made by
wasm code. Natives return at most two cells. Labels deeper than 255
(`EXT_OP_BR_TABLE_CACHE`) are not modelled.

### ThreadManager, LibPthread

An execution environment is an address, which `malloc` may give out again after it is freed:
`env[a]` has its cluster data, `list` and `next` the cluster's list, `occupied` the stack segments,
`native[t]` what the operating system knows of a thread (running, ended and
waiting for its joiner, detached). One action per critical section of `cluster_list_lock`, `cluster->lock`,
`wait_lock` and of the lock-free stretches between them; `pc` and `loc` are each thread's place and locals. `Return`
sends a thread back to the call it came from. Using an environment, a list node or
a thread node that has been freed either finds its old contents or sets `undefined`,
after which nothing more is said.

The app is POSIX-conforming: a thread joins only threads created after it, each
thread is joined or detached once, only the main thread cancels. `os_thread_join` fails as glibc's does
(a second joiner, oneself). The wait in `pthread_create_wrapper` has no predicate; the
model has no spurious wakeups.

### LinearMemory

`Modules` are the shapes of a module: page counts, heap size, `__heap_base`, whether it can grow, whether it
exports malloc, whether its memory is shared, and the build (with hardware bound check or without). `Loaded`
is the loader's merging of pages, `InsertHeap` the placing of the heap with its six cases, `NewMemory` what is
reserved. `accessible` counts the bytes that do not fault. `act[i]` are the nested activations of the interpreter in
instance `i`, each with its cached page size and memory size. `wasm_enlarge_memory` takes no lock, so
it is a read and a write. `InitGlobals` is the loop of `wasm_instantiate` that gives the globals their initial values after the memory is there. All sizes
are scaled: a page is 8 bytes, 2^32 is 8 pages. The assumptions ask for what the real numbers satisfy: OS pages divide pages, a page is larger than the
kilobyte kept behind the heap, and the largest app heap (1 GB) and a page fit into 2^32.

### WasmModule

`binary` is what the bytes describe: the order of the sections and the contents of each. A loader of a section
(`load_type_section` and so on) is a sequence of steps: allocations, checks, the sharing of an equal type. `LoadStep` takes all of
them; `LoadFails` takes any number up to the first check that does not hold, since every step reads bytes that may be missing or
allocates, and goes on with `destroy_sections` and `wasm_loader_unload`. A check sees what is loaded so far (`Count`, `Total`), because
`wasm_loader_load_from_sections` takes sections in any order; a buffer passes through `create_sections`, which demands the order of `section_ids`, and
keeps the names where they are instead of copying them. `live` is the blocks that are
allocated, `module.ptr` and `inst[i].ptr` the pointers that are set, `module.types` which block each type is in.

`wasm_instantiate` is an action per part. Each part allocates some blocks, may fail at each of them, and frees what its own error
path frees (the argument `undo`); the rest is up to `wasm_deinstantiate`, which sees only the pointers stored in the
instance. Segments are applied to the memory and the table with the 32 bit sums of the code and with `bh_memcpy_s`, which copies nothing when there is no
room. `bad` records a block that is freed twice and an array accessed outside its bounds. The instances after the
first are those of threads; they are made and go while the host's is in use. Their memories are their own here: sharing is in
`LinearMemory`. The environments that a start function is called with are not counted as blocks.
`Binary` is the set of everything bytes can describe, of which `Binaries` is any subset; the one thing asked of it (`BinariesAssumption`) is that a host that passes a list of sections lists none
twice. In a buffer `create_sections` refuses that; `wasm_loader_load_from_sections` leaves it to its caller.

### WasiFd, WasiPath

`entries` is the table, `obj` the objects with their counts, `host` the host's open descriptors and the file
each is open on. A call takes an object under the table's lock, works, and releases it in a later step;
the host's answers are free. `poll_oneoff` takes a reference for each
subscription, two perhaps on one descriptor. `FdRights` has the rights each single-object call demands.
`path_get` is one action per component: `WalkSame`, `WalkUp`, `WalkDown`, `WalkLink`, `LastComponent`, with the
descriptors it has opened and the paths still to be walked, both bounded as in the code; between
two actions another program may replace a name (`SwapName`). `lost` holds the leases of `path_link` and
`path_symlink` that are never put back. `O_CREAT` on a name that is not there makes the file `NewFile` (`PathCreated`).

`fd_renumber` has two versions, because a descriptor renumbered onto itself is detached before its object is acquired: the code then writes through
NULL (`fd_renumber_same`), and the process ends (`stuck = CRASHED`, after which `Next` has no step). `stuck` is a thread when that thread looks for a free slot in a full table.

`RefsExact` and `HostExact` set the lost leases apart. A count is what refers to the object, entries and calls, *plus* one for each lost lease of it: this surplus is the leak of the code, and the property says that there is
no other. In the same way `HostExact` names the descriptors that stay open with nobody to close them: the directories a lost lease had walked into, and no others. `CallsEnd` is about termination alone.

## Runs

| Run | Shows |
|---|---|
| `ems_core` | With allocation and freeing only, in a pool large enough for trees of three nodes: the P bits are exact, free neighbours are merged, the tree is ordered along every path and linked both ways |
| `ems` | With resizing and a migration: tiling, soundness of KFC and footers, room for every object, and the refinement of `BlockHeap`; until the migration every free chunk is in the KFC, allocation is best fit and fails only if no chunk is large enough |
| `ring` | While nobody overruns, the cells hold the unread bytes in order, across wraps and across a pointer that stops at `pTail`, and every call is a step of `ByteQueue` |
| `host` | With room for 0 to 4 buffers and any allocation of the host failing: nested release; no handle held at a return but one, and a complete list of the memory and streams that are never given back; a complete list of the cases in which `main` may crash |
| `wait` | Three threads: waiters stay findable, no wakeup is lost, every notification and every wait with a timeout returns |
| `interp` | Every plain opcode, and families of functions with branches out of blocks, dead code, ifs, nested blocks and calls: the interpreter's stacks are the loader's at every instruction, frames stay within the room computed for them, block addresses are exact, arguments fit |
| `threads` | The main thread and two more, environments that may reuse an address: stack segments have one owner, native threads are reclaimed once, joins wait, and everything ends |
| `memory` | Some 2000 modules at the boundaries of pages and of 2^32, one instance or three that share the memory: cached sizes are safe and exact, the heap is inside, validation is exact, the shared memory lives as long as its users |
| `heap_base` | Violation: the instance whose app heap was put at `__heap_base` ends with the old value in that global, inside the heap |
| `module` | Nearly 300 modules, with a failure anywhere in load and instantiation, for the host's instance and two of threads: nothing is freed twice or left, the indexes that instantiation uses are in range, memory and table begin as the segments say |
| `wasi` | Two threads and another program: references and host descriptors are exact up to the leases that refused calls lose, nothing outside the preopened directory is opened, rights only shrink, calls end |
| `wasi_full` | Violation: after renumbering onto an open descriptor the table fills up unnoticed |

The violation runs are the `findings` of `PROJECT.json`. Each states what a comment or an assertion says, and TLC's trace
shows the steps that break it.

### Bounds

* EMS: pools of 8 and 15 units; `NormalNodeCnt` is 4 or 5 instead of 32, so that one or two
  sizes go to lists and the others to the tree. In 8 units there are trees of two nodes, chunks that touch on both sides, and rests of one unit; in 15 units a tree with a node that has two children is reached (`remove_tree_node`,
  case 3), which needs three tree chunks kept apart by objects. Requests
  include one that needs the smallest chunk, some in between and one that wraps around `Word`.
  One migration is enough: the second treats the heap as the first.
* Ring: four cells, two byte values, payloads of up to one byte more than the ring.
  Every pair of pointers, wraps with empty and non-empty first part, and full rings occur. `tmp` holds 3 bytes, fewer than the ring, as in the code.
* Interpreter: functions of up to 17 instructions with up to 12 choices at a position; frames of a few cells; two blocks per row of the cache; nesting up to `StackSlots`.
  Each family aims at one mechanism (a branch over values, an else that must be forgotten, a callee that just fits).
* Threads: two threads besides the main one, two calls among join, detach and cancel, two addresses for environments
  and two segments: enough for an address to be reused while a node still names it, for a join against an end, and for a creation that fails.
* Memory: pages of 8 bytes, OS pages of 4, 8 pages to 2^32; two nested activations; increments that reach, pass and wrap the limit.
* Module: one module with something in every section and its variations: each section left out, pairs of sections swapped, every segment at, before and behind the end of its memory or table,
  wrong indexes of every kind, imported and own tables and memories; from a buffer and from sections. `UINT16_MAX` is 3, so that the count of a shared type reaches it, and 2^32 is 8, so that a segment
  passes it. Three instances: the second and the third read what the first wrote into the module.
* WASI: two threads with one call each (or one with two), ten requests, one of which creates a file, one change of the file system during them; three open directories, two nested
  paths and three expansions instead of 128, 32 and 128, so that each limit is reached. `wasi_full` has one thread and only the standard descriptors.
* Driver: all ten tests and one id beyond; up to three iterations, one more than `GuestRoom`.
* Wait: three threads, one address, two values, counts 1 and `UINT32_MAX`. Infos of different addresses share nothing but the
  list lock, which is held for one step only. Three threads give one that destroys, one
  that is caught in between and one that notifies. No symmetry is used, because the run checks liveness.

### Deadlock and fairness

Deadlock is checked for the allocator, the ring, the memory and the module, whose end is a stuttering step. It is not checked where the system ends or where nothing is said after
undefined behaviour: the driver, the interpreter, wait and notify, the threads, and the descriptor table with its bounded number of calls.

In `AtomicWait` a thread in a call is scheduled again, and a finite timeout runs out: weak fairness of each thread's `Continue`, not of
beginning calls. `FiniteCallsReturn` asks for the return of notifications and of waits with a finite timeout. The waiter
does not look at its status before it sleeps, so a signal may come too early and be lost; it is the timeout that ends this sleep
(the mutant `TimeOutRepeats`, which sleeps again until it is notified, does not return). Of a wait without a timeout nothing is asked: if it
were really unlimited, it would never learn of such an early signal. In the code as it is, it is not (below). In `LibPthread` every thread is
scheduled and the functions of the app return: weak fairness of each thread's steps, not of its calls. In `WasiPath` a thread in
a call goes on; what bounds a walk is the code's count of expansions, not the number of changes to the file system, which have no fairness.

## Known deviations

Met while modelling; the models behave as the code does, and the properties exempt these cases by name where they must.

* Allocator. `gc_realloc_vo` that absorbs a whole chunk leaves the P bit of the next one clear (`ems_alloc.c:548`) and does not update `total_free_size` and `highmark_size`;
  `PinuseExact` is therefore checked without it. `gc_migrate` leaves the heads of the lists pointing into the old pool (`ems_kfc.c:191`), so the next allocation calls the heap corrupted.
* Ring. `FreeRingBuff` leaves `pHead` set (`main.c:104`): later calls pass the test and use the freed block. `WriteRingBuff` compares the length with the capacity and not with the room left (`main.c:117`), so a caller may overwrite unread bytes;
  `sound` exempts what follows.
* Driver. `main` returns with everything held when its argument buffer cannot be allocated (`main.c:268`); two messages are packed with another type's function (`testapp.c:115`, `main.c:480`);
  an id without a test case indexes `FuncName` before it is refused. The stream with the strings is never closed (`main.c:237`), the table, the strings, the arrays of `test_spliter` and the unpacked messages are never freed, and
  the allocations at `main.c:235`, `243` and `475` are used without a test. `Released` lists the first and `CrashFree` the second.
* Wait. A negative timeout, for which the code sets `timeout = BHT_WAIT_FOREVER`, becomes -1 in an `int64` and then -1 / 1000, which is 0 (`wasm_shared_memory.c:388-391`): a wait that is meant to be unlimited times out at once. The
  model does this too; no property counts it as right.
  `release_wait_info` destroys a wait info whose list is empty while another thread holds its pointer and has not enlisted yet (`wasm_shared_memory.c:305`); that thread then uses freed memory (`undefined`), and `bh_assert(check_ret)` does not hold.
* Threads. When `os_thread_create` fails, `wasm_exec_env_destroy` runs with the cluster set: it terminates all other threads and joins its own (`createFailed` exempts `Reclaimed` and `Settles`).
  Nodes of ended threads keep the address of a freed environment, which a new thread may have. `pthread_detach` may then detach the new thread instead of the one it was called for, so that a join of the new one does not wait (`aliased` exempts `JoinWaits`), or, when
  the new thread has not set its handle yet, call `os_thread_detach` with none (`undefined`). This takes three threads besides the main one; the proof showed it. `pthread_join` may read the status just before the thread stores its result (`lib_pthread_wrapper.c:687`): the environment is gone when it looks for it, and it returns success with a value nobody stored. `wasm_cluster_cancel_thread` writes the flag after it has unlocked the list; `traverse_list` reads the next
  link after the visitor, during which the element may be freed; `wasm_cluster_del_exec_env` tests the length after it has unlocked. Threads created during a traversal escape it.
* Memory. After `wasm_enlarge_memory` has turned 2^32 bytes into one page of 2^32 - 1, the interpreter multiplies the new page count by the page size it had cached (`wasm_interp_classic.c:2047`) and sees one old page, and
  `memory.size` reports 1. With hardware bound check a memory that reaches the last OS page below 2^32 is given `memory_data_size` 0 at instantiation. `Whole` exempts both from the exactness properties, not from `BoundsSafe`. A shared memory starts with the size of its maximum
  and gets a smaller one at the first growth; two concurrent growths may count as one. `__heap_base` is adjusted by `memory_instantiate` and then overwritten with its initial value (run `heap_base`). A failed `gc_migrate` makes `memory.grow` return -1 although the memory has grown.
  `align_uint(aux_heap_base, 8)` is 0 for a `__heap_base` in the last bytes below 2^32 (`wasm_loader.c:3507`); the merged memory is then empty and the app heap begins at 0, in front of the heap base (`BaseWraps` exempts `HeapInside`; an
  attempt to prove `HeapInside` showed it).
* WASI. `fd_renumber` of a descriptor to itself dereferences NULL after detaching it (`posix.c:1119`, a crash in the model); renumbering lowers `used` twice (run `wasi_full`). `path_link` and `path_symlink` return without `path_put` when `validate_path` fails
  (`posix.c:1858`, `2443`): the object's reference and the descriptors of the walk are lost for good; `RefsExact` and `HostExact` count them. `validate_path`
  resolves relative to the process's directory. `path_open` adds all rights of the file's type to those asked for. A trailing slash is checked before the file is opened, as a comment in the source says.
* Modules. The offset of an element segment that comes from a global is written over the global's index in the module that all instances share (`wasm_runtime.c:1741`): the next instance takes the offset for an index (`intact` exempts such tables
  from `InstanceExact`). Offset and length are added in 32 bits (`wasm_runtime.c:1645`): a segment that ends at or behind 2^32 may pass the test, in a memory of nearly 2^32 bytes or, if it is itself nearly that long, in any; it is then skipped by `bh_memcpy_s`
  (`Unwrapped` in `InstanceExact`). A section that stands twice in a list of sections overwrites the pointers of the first, which are never freed. A memory of 65536 pages
  of 64 KB has a `memory_size` of 0 there. `global.get` initialisers are not compared with the type of the global. An imported start function is never run.
* Read, not modelled: `__post_instantiate` and `__wasm_call_ctors` may name an imported function, whose type is then read from the wrong member of a union; `adjust_table_max_size` doubles in 32 bits; the result of
  `fd_table_insert_existing` is ignored for preopened directories; loading changes the buffer it loads from (names move, opcodes are rewritten).

## Proofs

Every theorem holds for all values of the constants that satisfy the `ASSUME`s of the module it is about.

| Module | Theorem | Statement |
|---|---|---|
| `EmsHeapProofs` | `Types` | `Spec => []TypeOK` |
| | `AlwaysTiled` | `Spec => []Tiling` |
| | `AlwaysKfcSound` | `Spec => []KfcSound` |
| | `AlwaysFootSound` | `Spec => []FootSound` |
| | `AlwaysPayloadFits` | `Spec => []PayloadFits` |
| | `AlwaysPinuseExact` | `CoreSpec => []PinuseExact` |
| | `AlwaysNoAdjacentFree` | `CoreSpec => []NoAdjacentFree` |
| | `Refinement` | `Spec => BlockHeapSpec` |
| | `AlwaysTreeOrdered` | `Spec => []TreeOrdered` |
| | `AlwaysKfcComplete` | `Spec => []KfcComplete` |
| | `AlwaysAllocExact` | `Spec => []AllocExact` |
| `RingBufferProofs` | `FifoHolds` | `Spec => []Fifo` |
| | `QueueStepsHold` | `Spec => QueueSteps` |
| `UdfHostProofs` | `NestedHolds` | `Spec => []Nested` |
| | `ReleasedHolds` | `Spec => []Released` |
| | `CrashFreeHolds` | `Spec => []CrashFree` |
| `AtomicWaitProofs` | `WaiterFindableHolds` | `Spec => []WaiterFindable` |
| | `NoLostWakeupHolds` | `Spec => []NoLostWakeup` |
| `LinearMemoryProofs` | `ReferencedHolds` | `Spec => []Referenced` |
| | `BoundsSafeHolds` | `Spec => []BoundsSafe` |
| | `BoundsExactHolds` | `Spec => []BoundsExact` |
| | `HeapInsideHolds` | `Spec => []HeapInside` |
| | `ValidateExactHolds` | `Spec => []ValidateExact` |
| `WasiProofs` | `WasiInvariant` | `Spec => []WasiInv` |
| | `RefsExactHolds` | `Spec => []RefsExact` |
| | `HostExactHolds` | `Spec => []HostExact` |
| | `ConfinedHolds` | `Spec => []Confined` |
| | `RightsShrinkHolds` | `Spec => RightsShrink` |
| `LibPthreadProofs` | `PthreadInvariant` | `Spec => []IInv` |
| | `AuxExactHolds` | `Spec => []AuxExact` |
| | `ReclaimedHolds` | `Spec => []Reclaimed` |
| | `JoinWaitsHolds` | `Spec => []JoinWaits` |
| `WasmModuleProofs` | `LoadInvariant` | `Spec => []LoadInv` |
| | `LoadBlocksExact` | `Spec => []BlocksExact` |
| | `LoadIndicesValid` | `Spec => []IndicesValid` |
| | `LoadInstanceExact` | `Spec => []InstanceExact` |

### EmsHeapProofs

All rest on one inductive invariant, `IInv == Sane(heap) /\ TypeOK /\ PayloadFits`, where
`Sane` is typing, tiling, soundness of the footers, and soundness of the KFC. None of these is inductive alone: a
chunk taken from the KFC can be cut only if it is a free chunk of the size
its list promises (KFC), the rest stays in the pool only if the chunk did (tiling); freeing merges with the
predecessor its footer names (footers), and the owners' objects survive because what is taken is free and theirs is
not. The tree's shape is not needed here: whatever node a search returns is
a free chunk that is large enough, which is all that safety asks for. What a heap loses when it is misshapen
is space and time, and that is the subject of the second part.

The argument follows the code. Lemmas about `SetHmu`, `SetFoot` and `SetChunk` say that replacing
chunks by a chunk, or splitting one, keeps a tiling; lemmas about the KFC say what `unlink_hmu`,
`remove_tree_node` and `gci_add_fc` keep; then come `Carve`, `alloc_hmu`,
`FreeChunk`, `Absorb` and the six actions. Each of these also records what the step does to the VO chunks (added,
dropped, grown, the same), from which `Refinement` follows.

While nobody resizes in place, `Exact` holds in addition: P bits are right, free chunks do not touch, every chunk has at least two units, and a free chunk in front of another one has written its footer. These need each
other: `gc_free_vo` finds a free predecessor only through a P bit and a footer, and the P bit that the merged chunk keeps is right only if what precedes the predecessor is in use.

The assumptions are those of the code: the root of the tree is smaller than any node (asserted in
`gc_init_internal`), a list exists for the smallest chunk, the pool is large enough to begin as a tree node, and its size is below 2^32.

### EmsHeapProofs: the tree

`TInv` adds to `IInv` that the KFC is `Whole`: the tree is a search tree, and until the pool is moved every free chunk is listed and the heap is not marked as corrupted. `Whole(h, X)` excepts the chunks
`X`, because in the middle of an operation one or two chunks have been taken out of the KFC and not yet been put back or written over; each operation ends with `X` empty.

A search tree is described by what no single link shows: `SearchTree` gives each node `t` two sets, `lo[t]` and `hi[t]`, of the nodes in whose right and left subtree it is; `t` is larger than all of `lo[t]` and not
larger than any of `hi[t]`. The order of the whole tree is then a fact about each node and its children, and the depth of a node is the number of nodes in its two sets, so that every walk, up or down, ends within as
many steps as there are nodes. The walks of the model are recursive functions; `WalkExists` and `UpTo` turn them into facts about each step, by the least counterexample, without an induction
scheme. From this come the three operations on the tree: `SpliceTree` (cases 1 and 2 of `remove_tree_node`), `PredecessorLast` with `TakePlaceTree` (case 3: the predecessor is the largest node of the left subtree,
so it can take the place of the node removed), and `InsertTree` (the search ends at an empty slot whose bounds the new size meets); and `BestFitExact`: the node recorded last by the search is the
smallest one that suffices. Equal sizes are what needs care: the order is `left <= node < right`, and a removal that took the successor, or an insertion that put an equal size to the right, would break it.

`KfcComplete` is more than tidiness: `remove_tree_node` and `unlink_hmu` mark the heap as corrupted, for good, if they do not find what they look for.
`AllocExact` follows from it with the order of the lists (a list that is not empty, of the smallest size, comes before the tree, whose nodes are all larger) and `BestFitExact`. After a
migration the heads of the lists keep the old base, and only `TreeOrdered` remains.

### RingBufferProofs

`Fifo` is inductive together with the types of the variables (`RingInv`), because it says where the unread bytes are and
where the write pointer is relative to the read pointer. What takes work is the arithmetic: a pointer may be 0 or `BUFF_MAX_LEN` for the same
cell, and each copy may be split in two. The lemmas therefore count cells from the read pointer (`Cell`), and say of `CopyIn`, `CopyOut` and `Advance`, once, which of these cells they
write, read, and end at. `QueueStepsHold` then shows that every action is a step of `ByteQueue` or leaves its state alone. The ring and the app's scratch buffer may have any size.

### UdfHostProofs

`HostInv` says, for every step of `main`, which handles are held at least (`Acquired`), which are gone (`Gone`), that each handle is held only with those it was made from (`Stacked`), which of
the pointers that are never tested, in the app and in the host, cannot be NULL nevertheless (`Pointers`), and how many messages the app has unpacked (`Counted`). `CrashFree` needs to know what `pResult` holds
when it is unpacked (`Fresh`): a test that found an old result of another type would look into a message it does not have. The second half of `Released`, what stays with `main` for good, has an invariant of its own.

### AtomicWaitProofs

`Pointers` is what makes `WaiterFindable` inductive: a thread that keeps a pointer to a wait info between the two locks has the one that `wait_map` holds for its address, or a dangling
one, and the latter is possible only while it has no node in the list; and no two addresses share an info. Notification takes the front of a list; since a list has no node twice, that and `bh_list_remove` leave the other waiters where they were.
Any number of threads, addresses, infos and values; `ALL`, which stands for `UINT32_MAX`, may be any number, so a list may also be longer than it.

### LinearMemoryProofs

`MemInv` has two halves. `Lives` says who uses the shared memory: the reference count is the number of those instances, and the host's instance is among them as long as there are others.
The other half says what sizes can be trusted. A memory that does not reach 2^32 - 1 bytes still has the page size it was made with, and so has every activation of the interpreter and every half-done grow; the products
they form are then products of the same page size, and only the counts can be stale (`Fits`, `SharedFits`, `PrivateFits`). A memory that does reach it admits every 32 bit address, so nothing is left to show.
`Exact` is the version for an unshared memory, where nothing comes between the read and the write of a grow. The heap's place (`HeapOk`) is established by `InsertHeap`: one lemma for each of
its cases, over all page sizes and all modules, with every 32 bit sum; no later step moves the heap or makes the memory smaller than its end.

### WasiProofs

`WasiInv` has six parts. `WasiTypes` and `Stepped` give the values of the variables and what a call holds at each of its steps. `Counted` splits the references of
an object into those of table entries, objects in use, leases and lost leases, counted separately; a step of one thread changes the parts of that thread only, and a lemma says by how
much. `Entered` says that no two entries share an object (otherwise the closed entry could leave the other one behind) and that no entry has a right its type cannot have. `Owned` says who has each
host descriptor (an object, a call, a lost lease) and that nobody shares one: the kernel may reuse a number as soon as it is closed, so one double close would be enough to close
somebody else's file. `Below` extends `Confined` from entries to directories that are only open during a walk.

`RefsExact` and `HostExact`, with the lost leases counted in both, need each other: an object is closed when its count becomes 0, and
only if the count is right is nobody using its descriptor. `Confined` needs both, and the rights: that a walk starts at a directory follows from
the right it asks for, which only directories have; `HostExact` says that this directory is still the one that was opened. From there on each step opens a name without following it.
Once a call looks for a slot in a full table (`stuck`, run `wasi_full`) it never lets go of its object, and after a crash nothing does; exactness is not claimed any more, `Confined` is.

The assumptions: at least one thread, finitely many threads and objects, an object for each descriptor at the start, which the embedder has opened once each; directories given to the module
are inside, and so are the files, directories and links that are named in directories inside. Where a link points to is not restricted: it is read, and its target is walked.

### LibPthreadProofs

`IInv` has ten parts. `PthreadTypes` and `Framed` give the values of the variables and what a thread keeps in its locals at each step. `Owners`, `Created` and `Listed` say whose each environment is: a thread that runs has
one of its own, a creation has its new one to itself, and which of them are in the cluster's list; since `malloc` gives addresses out again, an address says nothing by itself. `Handled` and `Waits` relate an
environment to the native thread: a handle that is set is that of its thread, the flag says that it is detached, and a count of joins above 0 says that somebody is at `os_thread_join`. `Ordered` (threads join
later ones only, and the addresses they hold are of later ones) keeps two threads from joining each other and the traversal at the end from joining the main thread. `Ends` is the reason for `JoinWaits`:
the environment that a node leads to is still that of the node's thread (`Leads`), or that thread has ended, and this holds for a pointer that `pthread_join` read some steps ago too.

`AuxExact` is a part of `IInv`: a segment is marked and unmarked under another lock than the list, so whose it is depends on the place of its thread in the code. Half of the lemmas say what the steps that only move one
thread keep (`MovedFramed` to `QuietInv`); the lemmas about the actions are left with what an action really changes. `bh_list_insert` and `bh_list_remove` have lemmas of their own.

The proof did not go through at first, and the model was wrong: `pthread_detach` tests the environment in the node and locks the list in two steps, and when the thread ends between them and a third thread is given its address, it is that thread
which is detached. TLC's instance has too few threads for this; a simulation with three showed it. `aliased` now records exactly this case.

### WasmModuleProofs

For every set of binaries, with any number of sections, types, imports, segments and instances. `BlocksInv` says which blocks there are. Its part `ModuleInv` equates the blocks of the
module with the pointers that are set and with the types: a block of a type exists exactly while some type is it, and its count is the number of types that are it. `destroy_wasm_type` frees a block with its last reference, so freeing all types in
order frees each block once, in whatever state a failing loader has left them. Its part `InstanceInv` equates the blocks of each instance with its pointers at each stage, so that what a part must undo
itself and what `wasm_deinstantiate` still sees are each freed by one of the two. `OrderInv` is what `create_sections` has checked or the host promises: no section is loaded twice, without which the second load would
overwrite the pointers of the first.

`LoadedInv` says what has been checked of the sections loaded so far, in whatever order they came. A check compares an index with a `Total`; that it stays true when further sections are loaded is because totals only
grow. `IndicesValid` needs no more than this and the table, which is `NULL` or an index of an element segment everywhere.

`MadeInv` says what an instance holds at each stage of its making. The heart is `SegmentsApplied`: applying segments one after the other yields the array that `Reference` describes as a whole. After `n`
segments each element shows the last of them over it (`Shown`), or is empty. This is a fact about each step of a recursive function, and `UpTo`, the least counterexample, takes it to the end without an induction scheme. A segment that ends below 2^32 is in
place if the test passed; a segment that does not is longer than what is left of the array, since every array is shorter than 2^32, and is not copied.

The proof changed the model in two places. Steps, types and segments were folded by library operators that take an operator as a parameter, and are now recursive functions over their number. And `InstanceExact` excepted a wrapping
segment only in a memory of 2^32 - 1 bytes; the proof of that failed, because a segment of nearly 2^32 bytes wraps in a memory of any size. It now excepts no memory, and says instead which segments leave nothing behind.

### Only model-checked

* Termination, wakeup and the end of calls (`Settles`, `FiniteCallsReturn`, `CallsEnd`) are about fairness, which is beyond the prover.
* `StackAgrees`, `WithinFrame`, `BlockAddrExact` and `OutsAreaFits` of `WasmInterp`. All but `BlockAddrExact` rest on `StackAgrees`, whose inductive invariant has to relate, for every function the loader accepts, each instruction to each of its
  successors over the folds of `WasmLoader` on lists of types; that is induction over the instructions of a body. `BlockAddrExact` is about a scan that is a fold over positions.

## Not modelled

* Decoding of bytes: a section is what it describes. The search for `__heap_base`, `malloc`, `free` and the like among the exports, of which `LinearMemory` has the result; linking with native symbols; what the WASI context's table, directories and address
  pool contain while it is made.
* Values of the interpreter, its fast variant, the builds with SIMD, reference types, tail calls, debugger or dumps; AOT, compiler, JIT: code generation with a state
  space out of TLC's reach.
* Suspension, spreading of exceptions, custom data and spawned environments of the thread manager; mutexes, conditions, semaphores and keys of lib-pthread.
* Memories linked from other modules and the bounds that compiled code keeps.
* libc-builtin, platform layer: calls of the operating system. In libc-wasi the contents that the host returns, polling timeouts, arguments and environment, address pools.
* App manager, app framework, debug engine: not configured in this build.
* Generated protobuf code.
* In EMS, `gc_destroy_with_pool`, the dumps, the statistics and the build with `BH_ENABLE_GC_VERIFY`.

Shared memory and threads are not enabled in the CMake configuration of this
repository, but they are part of its source, and programs that switch them on depend on them.

## Plan

1. Done: the allocator with its abstract specification and proofs; the ring with its abstract specification;
   the driver; wait and notify; loader and interpreter; threads; linear memory with shared memory; modules and instances; descriptors and paths.
2. `BhQueue` and `RuntimeTimer`: a bounded queue with timeouts; a timer list.
3. Proofs. Done: the allocator's safety, refinement, search tree and exactness; the ring with its refinement; the driver; wait and notify; linear memory; descriptors and paths; threads; modules and instances.
   Next: the loader and the interpreter, with recursive functions in place of their folds; first that the operand stack stays within the frame.
