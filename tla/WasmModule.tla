----------------------------- MODULE WasmModule -----------------------------
(***************************************************************************)
(* Loading a module from its sections, instantiating it, and giving back   *)
(* everything again: what the loader admits, what instantiation relies on, *)
(* and which blocks exist after any of the many allocations, reads and     *)
(* checks has failed.                                                      *)
(*                                                                         *)
(* The bytes of a section are abstracted to what they describe; a read may *)
(* fail between any two steps of a loader. Function bodies are validated   *)
(* in WasmLoader, the size of the memory is computed in LinearMemory.      *)
(* Instance Main is made by the host, the others by threads of the app.    *)
(***************************************************************************)
EXTENDS Integers, FiniteSets, Sequences, SequencesExt

CONSTANTS
    Binaries,         \* the binaries explored, see the MC module
    Instances, Main,  \* module instances; Main is the host's
    U32,              \* 2^32
    UINT16_MAX,       \* the largest ref_count of a type
    NULL

ASSUME WasmModuleAssumption ==
    /\ Main \in Instances
    /\ U32 \in Nat \ {0} /\ UINT16_MAX \in Nat \ {0}

VARIABLES
    binary,  \* what is loaded: order, the sequence of sections, and their contents
    live,    \* the blocks allocated
    module,  \* the WASMModule
    inst,    \* [Instances -> WASMModuleInstance]
    bad      \* what went wrong: "free" of a block that is not there,
             \*   "access" to an array outside its bounds

vars == <<binary, live, module, inst, bad>>

-----------------------------------------------------------------------------
(* Blocks. A heap h is the blocks that are live, the fields of a structure  *)
(* that are not NULL, and for the types which one types[i] points to, the   *)
(* block <<"type", j>>, or none (0), and how often each is referred to.     *)

Allocated(h, b) == [h EXCEPT !.live = @ \cup {b}, !.ptr = @ \cup {b}]

Freed(h, b) ==
    IF b \in h.live THEN [h EXCEPT !.live = @ \ {b}]
                    ELSE [h EXCEPT !.bad = @ \cup {"free"}]

(* if (x) wasm_runtime_free(x), once for each x of the set.                 *)
FreedIfSet(h, blocks) ==
    LET freed == blocks \cap h.ptr
    IN [h EXCEPT !.live = @ \ freed,
                 !.bad = @ \cup (IF freed \subseteq h.live THEN {} ELSE {"free"})]

(* Mutant: a shared type is freed with its first reference.                 *)
destroy_wasm_typeAlways(h, i) == Freed(h, <<"type", h.types[i]>>)

destroy_wasm_type(h, i) ==
    IF h.ref[h.types[i]] > 1 THEN [h EXCEPT !.ref[h.types[i]] = @ - 1]
                             ELSE Freed(h, <<"type", h.types[i]>>)

(* types[i] becomes an equal type found before.                             *)
SharedType(h, i, j) ==
    LET g == destroy_wasm_type(h, i)
    IN [g EXCEPT !.types[i] = h.types[j], !.ref[h.types[j]] = @ + 1]

-----------------------------------------------------------------------------
(* A loader is a sequence of steps: allocations, checks and the sharing of  *)
(* a type. It fails at a check that does not hold, and may fail anywhere.   *)

Alloc(b) == [op |-> "alloc", block |-> b]
Check(ok) == [op |-> "check", ok |-> ok]
AllocIf(c, b) == IF c THEN <<Alloc(b)>> ELSE << >>
ForEach(s, Steps(_)) == FlattenSeq([i \in DOMAIN s |-> Steps(i)])

Done(h, step) ==
    CASE step.op = "check" -> h
      [] step.op = "alloc" -> Allocated(h, step.block)
      [] step.op = "type"  ->
            [h EXCEPT !.live = @ \cup {<<"type", step.i>>},
                      !.types[step.i] = step.i, !.ref[step.i] = 1]
      [] step.op = "share" -> SharedType(h, step.i, step.j)

AfterSteps(h, steps) ==
    LET after[n \in 0 .. Len(steps)] ==
            IF n = 0 THEN h ELSE Done(after[n - 1], steps[n])
    IN after[Len(steps)]

(* How many of the steps are done before the first check that fails.        *)
Reach(steps) ==
    LET failing == {k \in DOMAIN steps : steps[k].op = "check" /\ ~steps[k].ok}
    IN IF failing = {} THEN Len(steps)
       ELSE (CHOOSE k \in failing : \A l \in failing : k =< l) - 1

Succeeds(steps) == Reach(steps) = Len(steps)

-----------------------------------------------------------------------------
(* What the module has when the sections loaded so far are those of loaded. *)

Count(s) == IF s \in module.loaded THEN Len(binary[s]) ELSE 0
ImportCount(k) == IF "import" \in module.loaded THEN Len(binary.import[k]) ELSE 0
Total(k) == ImportCount(k) + Count(k)

TypeOfFunction(f) ==
    binary.type[1 + (IF f < ImportCount("func") THEN binary.import.func[f + 1].type
                     ELSE binary.func[f - ImportCount("func") + 1].type)]

Has(s) == \E k \in DOMAIN binary.order : binary.order[k] = s
Bodies == IF Has("code") THEN binary.code ELSE 0

(* Mutant: one function too many.                                           *)
check_function_indexPast(f) == f =< Total("func")

check_function_index(f) == f < Total("func")
check_table_index(t) == t = 0 /\ t < Total("table")

(* const_str_list_insert: a name in the buffer stays there; otherwise it is *)
(* allocated unless it is empty or in the list already.                     *)
InsertName(n, before) ==
    AllocIf(~binary.from_buf /\ n # "" /\ n \notin before, <<"string", n>>)

Imports == binary.import.func \o binary.import.table \o binary.import.memory
               \o binary.import.global
NamesOf(imports) == UNION {{m.module, m.name} : m \in ToSet(imports)}

-----------------------------------------------------------------------------
(* The loaders of the sections *)

EqualTypes(i) == {j \in 1 .. i - 1 : binary.type[j] = binary.type[i]}

load_type_section ==
    AllocIf(binary.type # << >>, <<"types">>) \o
    ForEach(binary.type, LAMBDA i :
        <<[op |-> "type", i |-> i], Check(Cardinality(EqualTypes(i)) # UINT16_MAX)>> \o
        (IF EqualTypes(i) = {} THEN << >>
         ELSE <<[op |-> "share", i |-> i,
                 j |-> CHOOSE j \in EqualTypes(i) : \A l \in EqualTypes(i) : j =< l]>>))

load_import_section ==
    AllocIf(Imports # << >>, <<"imports">>) \o
    <<Check(Len(binary.import.table) =< 1), Check(Len(binary.import.memory) =< 1)>> \o
    ForEach(Imports, LAMBDA n :
        LET before == NamesOf(SubSeq(Imports, 1, n - 1))
        IN InsertName(Imports[n].module, before) \o
           InsertName(Imports[n].name, before \cup {Imports[n].module}) \o
           (IF n \in DOMAIN binary.import.func
            THEN <<Check(binary.import.func[n].type < Count("type"))>> ELSE << >>))

(* Loads the code as well.                                                  *)
load_function_section ==
    <<Check(Len(binary.func) = Bodies)>> \o
    AllocIf(binary.func # << >>, <<"functions">>) \o
    ForEach(binary.func, LAMBDA i :
        <<Check(binary.func[i].type < Count("type")), Alloc(<<"function", i>>)>> \o
        AllocIf(binary.func[i].locals, <<"local_offsets", i>>))

load_table_section ==
    <<Check(ImportCount("table") + Len(binary.table) =< 1)>> \o
    AllocIf(binary.table # << >>, <<"tables">>)

load_memory_section ==
    <<Check(ImportCount("memory") + Len(binary.memory) =< 1)>> \o
    AllocIf(binary.memory # << >>, <<"memories">>)

(* A constant has the type of the global; global.get is only told to refer  *)
(* to an import.                                                            *)
load_global_section ==
    AllocIf(binary.global # << >>, <<"globals">>) \o
    ForEach(binary.global, LAMBDA i :
        <<Check(binary.global[i].op = "get" =>
                    binary.global[i].arg < ImportCount("global"))>>)

load_export_section ==
    LET names == [k \in DOMAIN binary.export |-> binary.export[k].name]
        before(i) == {names[k] : k \in 1 .. i - 1}
    IN AllocIf(binary.export # << >>, <<"exports">>) \o
       ForEach(binary.export, LAMBDA i :
           <<Check(names[i] \notin before(i))>> \o
           InsertName(names[i], before(i) \cup
               (IF "import" \in module.loaded THEN NamesOf(Imports) ELSE {})) \o
           <<Check(binary.export[i].index < Total(binary.export[i].kind))>>)

(* Only a function () -> () can start a module.                             *)
load_start_section ==
    <<Check(binary.start < Total("func"))>> \o
    (IF binary.start < Total("func")
     THEN <<Check(TypeOfFunction(binary.start) = "void")>> ELSE << >>)

load_table_segment_section ==
    AllocIf(binary.elem # << >>, <<"table_segments">>) \o
    ForEach(binary.elem, LAMBDA i :
        <<Check(check_table_index(binary.elem[i].table))>> \o
        AllocIf(binary.elem[i].funcs # << >>, <<"func_indexes", i>>) \o
        ForEach(binary.elem[i].funcs, LAMBDA k :
            <<Check(check_function_index(binary.elem[i].funcs[k]))>>))

load_code_section ==
    <<Check((IF Has("func") THEN Len(binary.func) ELSE 0) = binary.code)>>

load_data_segment_section ==
    <<Check("datacount" \in module.loaded /\ binary.datacount # 0 =>
                Len(binary.data) = binary.datacount)>> \o
    AllocIf(binary.data # << >>, <<"data_segments">>) \o
    ForEach(binary.data, LAMBDA i :
        <<Check(binary.data[i].passive \/ binary.data[i].memory < Total("memory")),
          Alloc(<<"data_segment", i>>)>>)

(* The sections in the order the format prescribes; "user" is anywhere.     *)
section_ids ==
    <<"user", "type", "import", "func", "table", "memory", "global", "export",
      "start", "elem", "datacount", "code", "data">>

(* The bytes of a memory and the elements of a table fit a uint32.          *)
Size == 0 .. U32 - 1

(* What a binary describes. A host that passes a list of sections lists no  *)
(* section twice.                                                           *)
Binary ==
    [from_buf : BOOLEAN, heap : BOOLEAN, order : Seq(ToSet(section_ids)),
     type : Seq(STRING),
     import : [func : Seq([module : STRING, name : STRING, type : Nat]),
               table : Seq([module : STRING, name : STRING, size : Size]),
               memory : Seq([module : STRING, name : STRING, size : Size]),
               global : Seq([module : STRING, name : STRING, type : STRING,
                             mutable : BOOLEAN, value : Nat])],
     func : Seq([type : Nat, locals : BOOLEAN, deep : BOOLEAN]), code : Nat,
     table : Seq([size : Size]), memory : Seq([size : Size]),
     global : Seq([type : STRING, op : {"const", "get"}, arg : Nat]),
     export : Seq([name : STRING, kind : {"func", "table", "memory", "global"}, index : Nat]),
     start : Nat,
     elem : Seq([table : Nat, op : {"const", "get"}, arg : Nat, funcs : Seq(Nat)]),
     datacount : Nat,
     data : Seq([passive : BOOLEAN, memory : Nat, op : {"const", "get"}, arg : Nat, len : Nat])]

ASSUME BinariesAssumption ==
    /\ Binaries \subseteq Binary
    /\ \A b \in Binaries : \A k, l \in DOMAIN b.order :
          (~b.from_buf /\ b.order[k] # "user" /\ b.order[k] = b.order[l]) => k = l

get_section_index(s) == CHOOSE k \in DOMAIN section_ids : section_ids[k] = s

create_sections ==
    ForEach(binary.order, LAMBDA k :
        <<Check(binary.order[k] # "user" =>
                    \A l \in 1 .. k - 1 : binary.order[l] # "user" =>
                        get_section_index(binary.order[l]) < get_section_index(binary.order[k])),
          Alloc(<<"section", k>>)>>)

LoadSteps(s) ==
    CASE s = "type"   -> load_type_section
      [] s = "import" -> load_import_section
      [] s = "func"   -> load_function_section
      [] s = "table"  -> load_table_section
      [] s = "memory" -> load_memory_section
      [] s = "global" -> load_global_section
      [] s = "export" -> load_export_section
      [] s = "start"  -> load_start_section
      [] s = "elem"   -> load_table_segment_section
      [] s = "code"   -> load_code_section
      [] s = "data"   -> load_data_segment_section
      [] OTHER        -> << >>

(* What wasm_loader_prepare_bytecode leaves allocated: a table of branches  *)
(* for each br_table whose depths do not fit in a byte.                     *)
PrepareBytecode ==
    ForEach(binary.func, LAMBDA i : AllocIf(binary.func[i].deep, <<"br_table_cache", i>>))

-----------------------------------------------------------------------------
(* wasm_loader_unload and the failure of wasm_loader_load                   *)

destroy_sections(h) ==
    FreedIfSet(h, {<<"section", k>> : k \in DOMAIN binary.order})

FreeFunctions(h) ==
    FreedIfSet(h, {<<"functions">>} \cup
        {<<name, i>> : name \in {"local_offsets", "function"}, i \in DOMAIN binary.func})

FreeTypes(h) ==
    LET freed[n \in 0 .. Len(binary.type)] ==
            IF n = 0 THEN h
            ELSE IF h.types[n] = 0 THEN freed[n - 1]
            ELSE destroy_wasm_type(freed[n - 1], n)
    IN FreedIfSet(freed[Len(binary.type)], {<<"types">>})

wasm_loader_unload(h) ==
    FreedIfSet(FreeFunctions(FreedIfSet(FreeTypes(h), {<<"imports">>})),
        {<<"tables">>, <<"memories">>, <<"globals">>, <<"exports">>, <<"table_segments">>,
         <<"data_segments">>, <<"module">>} \cup
        {<<"func_indexes", i>> : i \in DOMAIN binary.elem} \cup
        {<<"data_segment", i>> : i \in DOMAIN binary.data} \cup
        {<<"br_table_cache", i>> : i \in DOMAIN binary.func} \cup
        {b \in h.ptr : b[1] = "string"})

ModuleHeap ==
    [live |-> live, bad |-> bad, ptr |-> module.ptr, types |-> module.types, ref |-> module.ref]

SetModuleHeap(h, pc, next, loaded) ==
    /\ live' = h.live /\ bad' = h.bad
    /\ module' = [module EXCEPT !.pc = pc, !.next = next, !.loaded = loaded,
                                !.ptr = h.ptr, !.types = h.types, !.ref = h.ref]
    /\ UNCHANGED <<binary, inst>>

(* A step of the load is taken in full, or fails after some of its parts.   *)
LoadStep(steps, pc, next, loaded) ==
    /\ Succeeds(steps)
    /\ SetModuleHeap(AfterSteps(ModuleHeap, steps), pc, next, loaded)

LoadFails(steps) ==
    \E n \in 0 .. Reach(steps) :
        SetModuleHeap(
            wasm_loader_unload(destroy_sections(AfterSteps(ModuleHeap, SubSeq(steps, 1, n)))),
            "gone", module.next, module.loaded)

-----------------------------------------------------------------------------
Init ==
    /\ binary \in Binaries
    /\ live = {} /\ bad = {}
    /\ module = [pc |-> "new", next |-> 1, loaded |-> {}, ptr |-> {},
                 types |-> [i \in DOMAIN binary.type |-> 0],
                 ref |-> [i \in DOMAIN binary.type |-> 0],
                 offsets |-> [k \in DOMAIN binary.elem |-> binary.elem[k].arg]]
    /\ inst = [i \in Instances |-> [pc |-> "new", ptr |-> {}, global |-> << >>,
                                    memory |-> << >>, table |-> << >>, intact |-> TRUE]]

create_module ==
    /\ module.pc = "new"
    /\ \/ LoadStep(<<Alloc(<<"module">>)>>,
                   IF binary.from_buf THEN "sections" ELSE "load", 1, {})
       \/ SetModuleHeap(ModuleHeap, "gone", 1, {})

CreateSections ==
    /\ module.pc = "sections"
    /\ LoadStep(create_sections, "load", 1, {}) \/ LoadFails(create_sections)

LoadSection ==
    /\ module.pc = "load" /\ module.next =< Len(binary.order)
    /\ LET s == binary.order[module.next]
       IN \/ LoadStep(LoadSteps(s), "load", module.next + 1, module.loaded \cup {s})
          \/ LoadFails(LoadSteps(s))

(* The bodies are prepared and the sections of a buffer destroyed.          *)
FinishLoad ==
    /\ module.pc = "load" /\ module.next > Len(binary.order)
    /\ LET steps == IF "func" \in module.loaded THEN PrepareBytecode ELSE << >>
       IN \/ SetModuleHeap(destroy_sections(AfterSteps(ModuleHeap, steps)),
                           "loaded", module.next, module.loaded)
          \/ LoadFails(steps)

(* The host unloads a module that has no instance.                          *)
Unload ==
    /\ module.pc = "loaded"
    /\ \A i \in Instances : inst[i].pc \in {"new", "gone"}
    /\ SetModuleHeap(wasm_loader_unload(ModuleHeap), "gone", module.next, module.loaded)

-----------------------------------------------------------------------------
(* wasm_instantiate. A part allocates some blocks and may fail at each, and *)
(* after the last one when late; its own cleanup then frees those in undo.  *)
(* Only wasi_ctx is in the instance before the part is complete.            *)

InstHeap(i) == [live |-> live, bad |-> bad, ptr |-> inst[i].ptr]

Blocks(names, i) == [k \in DOMAIN names |-> <<names[k], i>>]

wasi_fields ==
    <<"argv_list", "argv_buf", "env_list", "env_buf", "curfds", "prestats",
      "argv_environ", "addr_pool", "ns_lookup_list", "ns_lookup_buf">>

(* What an instance frees. The wasi_ctx of a thread is Main's to destroy.   *)
inst_fields ==
    {"wasi_ctx", "heap_handle", "memory_data", "memories", "import_func_ptrs", "tables",
     "functions", "globals", "export_functions", "inst"} \cup ToSet(wasi_fields)

wasm_deinstantiate(h, i) == FreedIfSet(h, {<<name, i>> : name \in inst_fields})

AfterPart(h, blocks) ==
    [h EXCEPT !.live = @ \cup ToSet(blocks), !.ptr = @ \cup ToSet(blocks)]

FailedPart(h, blocks, undo) ==
    LET got == ToSet(blocks)
        freed == {b \in got : b[1] \in undo}
    IN [h EXCEPT !.live = (@ \cup got) \ freed,
                 !.ptr = @ \cup {b \in got : b[1] = "wasi_ctx"}]

SetInstHeap(i, h, fields) ==
    /\ live' = h.live /\ bad' = h.bad
    /\ inst' = [inst EXCEPT ![i] = [fields EXCEPT !.ptr = h.ptr]]

(* goto fail: wasm_deinstantiate(module_inst, false)                        *)
Fails(i, h) == SetInstHeap(i, wasm_deinstantiate(h, i), [inst[i] EXCEPT !.pc = "gone"])

PartDone(i, names, next, fields) ==
    /\ SetInstHeap(i, AfterPart(InstHeap(i), Blocks(names, i)), [fields EXCEPT !.pc = next])
    /\ UNCHANGED <<binary, module>>

PartFails(i, names, undo, late) ==
    /\ \E n \in 0 .. Len(names) :
          /\ n < Len(names) \/ (late /\ names # << >>)
          /\ Fails(i, FailedPart(InstHeap(i), Blocks(SubSeq(names, 1, n), i), undo))
    /\ UNCHANGED <<binary, module>>

Names(cond, name) == IF cond THEN <<name>> ELSE << >>

-----------------------------------------------------------------------------
(* A thread makes its instance while Main's is in use.                      *)
AllocInstance(i) ==
    /\ inst[i].pc = "new" /\ module.pc = "loaded"
    /\ i # Main => inst[Main].pc = "live"
    /\ \/ PartDone(i, <<"inst">>, "globals", inst[i])
       \/ inst' = [inst EXCEPT ![i].pc = "gone"] /\ UNCHANGED <<binary, live, module, bad>>

check_global_init_expr(g) ==
    g < ImportCount("global") /\ ~binary.import.global[g + 1].mutable

(* The globals of an instance: type and initial value.                      *)
InitialGlobals ==
    [k \in 1 .. Total("global") |->
        LET imp(n) == [type |-> binary.import.global[n].type,
                       value |-> binary.import.global[n].value]
            g == binary.global[k - ImportCount("global")]
        IN IF k =< ImportCount("global") THEN imp(k)
           ELSE IF g.op = "get" THEN [imp(g.arg + 1) EXCEPT !.type = g.type]
           ELSE [type |-> g.type, value |-> g.arg]]

globals_instantiate(i) ==
    LET names == Names(Total("global") > 0, "globals")
        ok == \A k \in 1 .. Count("global") :
                  binary.global[k].op = "get" => check_global_init_expr(binary.global[k].arg)
    IN /\ inst[i].pc = "globals"
       /\ \/ ok /\ PartDone(i, names, "memories", [inst[i] EXCEPT !.global = InitialGlobals])
          \/ PartFails(i, names, {"globals"}, ~ok)

MemorySize ==
    LET all == (IF ImportCount("memory") > 0 THEN binary.import.memory ELSE << >>) \o
               (IF Count("memory") > 0 THEN binary.memory ELSE << >>)
    IN IF all = << >> THEN 0 ELSE Head(all).size

memories_instantiate(i) ==
    LET names == IF Total("memory") = 0 THEN << >>
                 ELSE <<"memories">> \o Names(MemorySize > 0, "memory_data")
                          \o Names(MemorySize > 0 /\ binary.heap, "heap_handle")
    IN /\ inst[i].pc = "memories"
       /\ \/ PartDone(i, names, "tables",
                      [inst[i] EXCEPT !.memory = [a \in 1 .. MemorySize |-> 0]])
          \/ PartFails(i, names, {"memories", "memory_data", "heap_handle"}, TRUE)

TableSize ==
    LET all == (IF ImportCount("table") > 0 THEN binary.import.table ELSE << >>) \o
               (IF Count("table") > 0 THEN binary.table ELSE << >>)
    IN IF all = << >> THEN 0 ELSE Head(all).size

tables_instantiate(i) ==
    LET names == Names(Total("table") > 0, "tables")
    IN /\ inst[i].pc = "tables"
       /\ \/ PartDone(i, names, "functions",
                      [inst[i] EXCEPT !.table = [e \in 1 .. TableSize |-> NULL]])
          \/ PartFails(i, names, {}, FALSE)

functions_instantiate(i) ==
    LET names == Names(Total("func") > 0, "functions") \o
                 Names(ImportCount("func") > 0, "import_func_ptrs")
    IN /\ inst[i].pc = "functions"
       /\ \/ PartDone(i, names, "exports", inst[i])
          \/ PartFails(i, names, {"functions"}, FALSE)

-----------------------------------------------------------------------------
ExportedFunctions ==
    IF Count("export") = 0 THEN {}
    ELSE {binary.export[k].index : k \in {l \in DOMAIN binary.export : binary.export[l].kind = "func"}}

Accessed(h, ok) == IF ok THEN h ELSE [h EXCEPT !.bad = @ \cup {"access"}]

(* Takes the address of each exported function.                             *)
export_functions_instantiate(i) ==
    /\ inst[i].pc = "exports"
    /\ LET h == Accessed(InstHeap(i), \A f \in ExportedFunctions : f < Total("func"))
           names == Names(ExportedFunctions # {}, "export_functions")
       IN \/ /\ SetInstHeap(i, AfterPart(h, Blocks(names, i)), [inst[i] EXCEPT !.pc = "data"])
             /\ UNCHANGED <<binary, module>>
          \/ PartFails(i, names, {}, FALSE)

(* Mutant: only the start of a segment is compared with the size.           *)
FitsStart(off, len, size) == off =< size

Fits(off, len, size) == off =< size /\ (off + len) % U32 =< size

(* bh_memcpy_s copies nothing when there is no room.                        *)
Written(array, off, contents) ==
    IF Len(contents) > Len(array) - off THEN array
    ELSE [a \in DOMAIN array |->
             IF a \in off + 1 .. off + Len(contents) THEN contents[a - off] ELSE array[a]]

(* The offset of a segment with init expression op: NULL when it is refused.*)
BaseOffset(i, op, arg) ==
    IF op = "const" THEN arg
    ELSE IF ~check_global_init_expr(arg) \/ inst[i].global[arg + 1].type # "i32" THEN NULL
    ELSE inst[i].global[arg + 1].value

(* One segment applied to s: the array so far, the offset each segment of   *)
(* the module has afterwards, and whether all segments fitted.              *)
Applied(i, s, k, seg, contents) ==
    LET off == BaseOffset(i, seg.op, s.offsets[k])
        ok == off # NULL /\ Fits(off, Len(contents), Len(s.array))
    IN IF ~s.ok THEN s
       ELSE [ok |-> ok,
             offsets |-> IF off = NULL THEN s.offsets ELSE [s.offsets EXCEPT ![k] = off],
             array |-> IF ok THEN Written(s.array, off, contents) ELSE s.array]

(* The segments in used, one after the other.                               *)
AllApplied(i, s, segs, used, contents) ==
    LET after[n \in 0 .. Len(segs)] ==
            IF n = 0 THEN s
            ELSE IF n \notin used THEN after[n - 1]
            ELSE Applied(i, after[n - 1], n, segs[n], contents[n])
    IN after[Len(segs)]

(* Segment k of the memory is len bytes k.                                  *)
DataContents == [k \in DOMAIN binary.data |-> [n \in 1 .. binary.data[k].len |-> k]]
ElemContents == [k \in DOMAIN binary.elem |-> binary.elem[k].funcs]
Active == {k \in 1 .. Count("data") : ~binary.data[k].passive}

DataInit(i) ==
    /\ inst[i].pc = "data"
    /\ LET s == AllApplied(i, [ok |-> TRUE, array |-> inst[i].memory,
                               offsets |-> [k \in DOMAIN binary.data |-> binary.data[k].arg]],
                           binary.data, Active, DataContents)
           h == Accessed(InstHeap(i), \A k \in Active : binary.data[k].memory < Total("memory"))
       IN IF s.ok THEN SetInstHeap(i, h, [inst[i] EXCEPT !.pc = "elem", !.memory = s.array])
                  ELSE Fails(i, h)
    /\ UNCHANGED <<binary, module>>

(* The offset that a global gives is written back into the segment of the   *)
(* module, whose init expression is still a global.get.                     *)
ElemInit(i) ==
    /\ inst[i].pc = "elem"
    /\ LET used == IF Total("table") > 0 THEN 1 .. Count("elem") ELSE {}
           s == AllApplied(i, [ok |-> TRUE, array |-> inst[i].table, offsets |-> module.offsets],
                           binary.elem, used, ElemContents)
           h == Accessed(InstHeap(i), \A k \in used : binary.elem[k].table < Total("table"))
       IN /\ module' = [module EXCEPT !.offsets = s.offsets]
          /\ IF s.ok
             THEN SetInstHeap(i, h, [inst[i] EXCEPT !.pc = "wasi", !.table = s.array,
                      !.intact = \A k \in used : module.offsets[k] = binary.elem[k].arg])
             ELSE Fails(i, h)
    /\ UNCHANGED binary

(* wasm_runtime_init_wasi, not for the instance of a thread.                *)
InitWasi(i) ==
    LET names == IF i = Main THEN <<"wasi_ctx">> \o wasi_fields ELSE << >>
    IN /\ inst[i].pc = "wasi"
       /\ \/ PartDone(i, names, "start", inst[i])
          \/ PartFails(i, names, ToSet(wasi_fields), TRUE)

(* __post_instantiate, the start function and the constructors return, or   *)
(* one traps.                                                               *)
RunStart(i) ==
    /\ inst[i].pc = "start"
    /\ LET h == Accessed(InstHeap(i),
                    "start" \in module.loaded => binary.start < Total("func"))
       IN SetInstHeap(i, h, [inst[i] EXCEPT !.pc = "live"]) \/ Fails(i, h)
    /\ UNCHANGED <<binary, module>>

(* Main's instance is the last to go.                                       *)
Deinstantiate(i) ==
    /\ inst[i].pc = "live"
    /\ i = Main => \A j \in Instances \ {Main} : inst[j].pc \in {"new", "gone"}
    /\ Fails(i, InstHeap(i))
    /\ UNCHANGED <<binary, module>>

Ended == module.pc = "gone" /\ UNCHANGED vars

Next ==
    \/ create_module \/ CreateSections \/ LoadSection \/ FinishLoad \/ Unload
    \/ \E i \in Instances :
          \/ AllocInstance(i) \/ globals_instantiate(i) \/ memories_instantiate(i)
          \/ tables_instantiate(i) \/ functions_instantiate(i)
          \/ export_functions_instantiate(i)
          \/ DataInit(i) \/ ElemInit(i) \/ InitWasi(i) \/ RunStart(i) \/ Deinstantiate(i)
    \/ Ended

Spec == Init /\ [][Next]_vars

-----------------------------------------------------------------------------
(* Properties                                                               *)

(* Whatever fails in whatever order, no block is freed twice (two types of  *)
(* a module may be one block), an instance that is gone and a module that   *)
(* is gone leave nothing allocated, and a load leaves no section behind.    *)
BlocksExact ==
    /\ "free" \notin bad
    /\ module.pc = "gone" => live = {}
    /\ module.pc # "load" => \A b \in live : b[1] # "section"
    /\ \A i \in Instances : inst[i].pc \in {"new", "gone"} =>
          live \cap {<<name, i>> : name \in inst_fields} = {}

(* What the loader has checked is all that instantiation relies on: it uses *)
(* every index of an export, a segment and the start section unchecked, and *)
(* a table never holds a function that is not there.                        *)
IndicesValid ==
    /\ "access" \notin bad
    /\ \A i \in Instances : inst[i].pc = "live" =>
          \A e \in DOMAIN inst[i].table : inst[i].table[e] \in {NULL} \cup 0 .. Total("func") - 1

(* What an array holds after the active segments: each element is that of   *)
(* the last segment over it, or empty; NULL when a segment does not fit.    *)
OffsetsOf(segs) ==
    [k \in DOMAIN segs |-> IF segs[k].op = "get" THEN binary.import.global[segs[k].arg + 1].value
                           ELSE segs[k].arg]

Reference(size, offsets, active, contents, empty) ==
    LET over(a) == {k \in active : a \in offsets[k] + 1 .. offsets[k] + Len(contents[k])}
        last(a) == CHOOSE k \in over(a) : \A l \in over(a) : l =< k
    IN IF \A k \in active : offsets[k] + Len(contents[k]) =< size
       THEN [a \in 1 .. size |->
                IF over(a) = {} THEN empty ELSE contents[last(a)][a - offsets[last(a)]]]
       ELSE NULL

(* The segments that end below 2^32. The end of any other wraps, and what   *)
(* passes the check then has no room and is skipped (see the README).       *)
Unwrapped(offsets, active, contents) ==
    {k \in active : offsets[k] + Len(contents[k]) < U32}

(* An instance in use began with the memory and the table that its segments *)
(* describe, and every segment fitted: all but those whose end wraps, which *)
(* leave nothing behind, and but a table whose offsets an earlier instance  *)
(* has overwritten.                                                         *)
InstanceExact ==
    LET entries == OffsetsOf(binary.elem)
        data == OffsetsOf(binary.data)
    IN \A i \in Instances : inst[i].pc = "live" =>
          /\ inst[i].intact =>
                inst[i].table = Reference(TableSize, entries,
                    Unwrapped(entries, 1 .. Count("elem"), ElemContents), ElemContents, NULL)
          /\ inst[i].memory = Reference(MemorySize, data,
                    Unwrapped(data, Active, DataContents), DataContents, 0)
=============================================================================
