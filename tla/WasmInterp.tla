---------------------------- MODULE WasmInterp ----------------------------
(***************************************************************************)
(* The classic interpreter (core/iwasm/interpreter/wasm_interp_classic.c)  *)
(* running the code WasmLoader has accepted and rewritten: frames on the   *)
(* wasm stack of the execution environment, the operand stack and the      *)
(* block stack of a frame, branches through the cache of block addresses,  *)
(* calls, returns and exceptions.  It checks nothing that validation is    *)
(* meant to guarantee.  A popped condition or index is any value; memory   *)
(* and arithmetic are only what they push and whether they trap.           *)
(***************************************************************************)
EXTENDS WasmLoader, FiniteSets

CONSTANTS
    WasmStackCells,  \* size of exec_env->wasm_stack
    FrameHeader,     \* cells of a WASMInterpFrame before lp
    BlockCells,      \* cells of a WASMBranchBlock
    CacheSize,       \* BLOCK_ADDR_CACHE_SIZE
    ConflictSize,    \* BLOCK_ADDR_CONFLICT_SIZE
    StackSlots       \* entries of block_stack in wasm_loader_find_block_addr

VARIABLES
    frames,  \* the frames on the wasm stack, the running one last
    cache,   \* exec_env->block_addr_cache
    status   \* "idle", "running", "returned", "exception", "terminated"

interpVars == <<frames, cache, status>>
vars == <<loaderVars, interpVars>>

NULL == 0

\* Code addresses of different functions differ.
FunctionSpan == 64
Addr(f, pos) == f * FunctionSpan + pos

Cells(types) == FlattenSeq([k \in DOMAIN types |-> CellsOfType(types[k])])

Frame == Last(frames)
Instr == code[Frame.fn][Frame.ip]
Running == phase = "ready" /\ status = "running"

PopCells(f, n) == [f EXCEPT !.sp = SubSeq(@, 1, Len(@) - n)]
PushCells(f, cells) == [f EXCEPT !.sp = @ \o cells]
Advance(f) == [f EXCEPT !.ip = @ + 1]

SetFrame(f) ==
    /\ frames' = Append(Front(frames), f)
    /\ UNCHANGED <<loaderVars, status>>

Step(f) == SetFrame(f) /\ UNCHANGED cache

Stop(s) == status' = s /\ UNCHANGED <<loaderVars, frames, cache>>

-----------------------------------------------------------------------------
(* Block addresses.                                                         *)

NoBlock == [start |-> NULL, else |-> NULL, end |-> NULL]
CacheRow(addr) == addr % CacheSize

\* The entry for a start address, or NoBlock.
Lookup(addr) ==
    LET row == cache[CacheRow(addr)]
    IN  IF \E j \in 1..ConflictSize : row[j].start = addr
        THEN row[CHOOSE j \in 1..ConflictSize :
                    row[j].start = addr /\ \A k \in 1..(j - 1) : row[k].start # addr]
        ELSE NoBlock

Opens == {"BLOCK", "LOOP", "IF", "EXT_OP_BLOCK", "EXT_OP_LOOP", "EXT_OP_IF"}

\* Mutant: a block met after another at the same depth keeps the other's ELSE.
ScanOpKeepElse(f, s, pos) ==
    LET op == code[f][pos].op
        d == s.depth
        At(k, field) == IF k < StackSlots
                        THEN [s.stack EXCEPT ![k][field] = Addr(f, IF field = "start"
                                                                   THEN pos + 1 ELSE pos)]
                        ELSE s.stack
    IN  IF s.done THEN s
        ELSE IF op \in Opens THEN [s EXCEPT !.depth = d + 1, !.stack = At(d, "start")]
        ELSE IF op = "ELSE" THEN [s EXCEPT !.stack = At(d - 1, "else")]
        ELSE IF op = "END" THEN [s EXCEPT !.depth = d - 1, !.done = d = 1,
                                          !.stack = At(d - 1, "end")]
        ELSE s

\* One opcode of the scan of wasm_loader_find_block_addr.  s.stack[d] describes
\* the last block met at nesting depth d; s.stack[0] is the one looked for.
ScanOp(f, s, pos) ==
    LET op == code[f][pos].op
        d == s.depth
    IN  IF s.done THEN s
        ELSE IF op \in Opens
             THEN [s EXCEPT !.depth = d + 1,
                            !.stack = IF d < StackSlots
                                      THEN [@ EXCEPT ![d].start = Addr(f, pos + 1),
                                                     ![d].else = NULL]
                                      ELSE @]
        ELSE IF op = "ELSE"
             THEN [s EXCEPT !.stack = IF d - 1 < StackSlots
                                      THEN [@ EXCEPT ![d - 1].else = Addr(f, pos)] ELSE @]
        ELSE IF op = "END"
             THEN [s EXCEPT !.depth = d - 1,
                            !.done = d = 1,
                            !.stack = IF d - 1 < StackSlots
                                      THEN [@ EXCEPT ![d - 1].end = Addr(f, pos)] ELSE @]
        ELSE s

Scan(f, start) ==
    FoldLeft(LAMBDA s, pos : ScanOp(f, s, pos),
             [depth |-> 1, done |-> FALSE,
              stack |-> [d \in 0..(StackSlots - 1) |->
                            IF d = 0 THEN [NoBlock EXCEPT !.start = Addr(f, start)]
                            ELSE NoBlock]],
             [k \in 1..(Len(code[f]) - start + 1) |-> start + k - 1]).stack

\* A free entry of the row if there is one, else the oldest makes room.
CacheInsert(c, block) ==
    LET row == c[CacheRow(block.start)]
        free == {j \in 1..ConflictSize : row[j].start = NULL}
        j == CHOOSE x \in free : \A y \in free : x <= y
    IN  [c EXCEPT ![CacheRow(block.start)] =
            IF free # {} THEN [row EXCEPT ![j] = block]
            ELSE [k \in 1..ConflictSize |-> IF k = 1 THEN block ELSE row[k - 1]]]

\* The blocks found by a scan go into the cache, up to the first unused slot.
CacheScanned(c, stack) ==
    FoldLeft(LAMBDA acc, d : IF \E e \in 0..d : stack[e].start = NULL THEN acc
                             ELSE CacheInsert(acc, stack[d]),
             c, [k \in 1..StackSlots |-> k - 1])

\* wasm_loader_find_block_addr: the block and the cache afterwards.
find_block_addr(f, start) ==
    LET hit == Lookup(Addr(f, start))
        stack == Scan(f, start)
    IN  IF hit # NoBlock THEN [block |-> hit, cache |-> cache]
        ELSE [block |-> stack[0], cache |-> CacheScanned(cache, stack)]

-----------------------------------------------------------------------------
(* Frames.                                                                  *)

FrameSize(cells) == FrameHeader + cells

\* All cells of a function's frame: locals, operand stack, block stack.
FunctionCells(f) ==
    CellNum(LocalTypes(mod.funcs[f])) + info[f].max_stack_cell_num
    + info[f].max_block_num * BlockCells

StackTop(fs) == FoldLeft(LAMBDA acc, f : acc + f.size, 0, fs)

\* Mutant: room for the frame only.
CanAllocOnce(fs, size) == StackTop(fs) + size <= WasmStackCells

\* wasm_exec_env_alloc_wasm_frame: room for the frame and again as much.
CanAlloc(fs, size) == StackTop(fs) + 2 * size <= WasmStackCells

PUSH_CSP(f, begin, params, results, target) ==
    [f EXCEPT !.csp = Append(@, [cell_num |-> Len(results), begin |-> begin,
                                 target |-> target, sp |-> Len(f.sp) - Len(params)])]

\* The frame of a function whose arguments the caller left in the outs area.
NewFrame(f, outs) ==
    PUSH_CSP([fn |-> f, ip |-> 1, size |-> FrameSize(FunctionCells(f)),
              lp |-> outs \o Cells(mod.funcs[f].locals), sp |-> <<>>, csp |-> <<>>],
             1, <<>>, Cells(mod.funcs[f].type.results), Addr(f, Len(code[f])))

InterpInit ==
    /\ frames = <<>>
    /\ cache = [r \in 0..(CacheSize - 1) |-> [j \in 1..ConflictSize |-> NoBlock]]
    /\ status = "idle"

\* wasm_interp_call_wasm: a frame for the results, then the function called,
\* its arguments in the outs area above that frame.
EntryFrame(f) ==
    LET ret == CellNum(mod.funcs[f].type.results)
    IN  [fn |-> NULL, ip |-> NULL, size |-> FrameSize(IF ret > 2 THEN ret ELSE 2),
         lp |-> <<>>, sp |-> <<>>, csp |-> <<>>]

CallWasm ==
    /\ phase = "ready"
    /\ status = "idle"
    /\ LET entry == EntryFrame(1)
           frame == NewFrame(1, Cells(mod.funcs[1].type.params))
       IN  IF ~CanAlloc(frames, entry.size) \/ ~CanAlloc(<<entry>>, frame.size)
           THEN Stop("exception")
           ELSE /\ frames' = <<entry, frame>>
                /\ status' = "running"
                /\ UNCHANGED <<loaderVars, cache>>

-----------------------------------------------------------------------------
(* The opcodes.                                                             *)

Fetch(ops) == Running /\ Instr.op \in ops

\* A type index gives a block parameters; a plain block type has none.
BlockParams == IF Instr.arg.ext THEN Cells(Instr.arg.params) ELSE <<>>

Block ==
    /\ Fetch({"BLOCK", "EXT_OP_BLOCK"})
    /\ Step(PUSH_CSP(Advance(Frame), Frame.ip + 1, BlockParams, Cells(Instr.arg.results),
                     Lookup(Addr(Frame.fn, Frame.ip + 1)).end))

Loop ==
    /\ Fetch({"LOOP", "EXT_OP_LOOP"})
    /\ Step(PUSH_CSP(Advance(Frame), Frame.ip + 1, BlockParams, BlockParams,
                     Addr(Frame.fn, Frame.ip + 1)))

If ==
    /\ Fetch({"IF", "EXT_OP_IF"})
    /\ LET f == Frame.fn
           found == find_block_addr(f, Frame.ip + 1)
           popped == PopCells(Advance(Frame), 1)
           entered == PUSH_CSP(popped, Frame.ip + 1, BlockParams,
                               Cells(Instr.arg.results), found.block.end)
       IN  /\ cache' = found.cache
           /\ \E cond \in BOOLEAN :
                SetFrame(IF cond THEN entered
                         ELSE IF found.block.else = NULL
                              THEN [popped EXCEPT !.ip = found.block.end - Addr(f, 0) + 1]
                              ELSE [entered EXCEPT !.ip = found.block.else - Addr(f, 0) + 1])

Else ==
    /\ Fetch({"ELSE"})
    /\ Step([Frame EXCEPT !.ip = Last(Frame.csp).target - Addr(Frame.fn, 0)])

\* return_func: the results go to the caller's operand stack.
ReturnFunc ==
    LET n == CellNum(mod.funcs[Frame.fn].type.results)
        results == SubSeq(Frame.sp, Len(Frame.sp) - n + 1, Len(Frame.sp))
        caller == PushCells(frames[Len(frames) - 1], results)
    IN  /\ frames' = Append(SubSeq(frames, 1, Len(frames) - 2), caller)
        /\ status' = IF caller.ip = NULL THEN "returned" ELSE status
        /\ UNCHANGED <<loaderVars, cache>>

End ==
    /\ Fetch({"END"})
    /\ IF Len(Frame.csp) > 1
       THEN Step([Advance(Frame) EXCEPT !.csp = Front(@)])
       ELSE ReturnFunc

Return == Fetch({"RETURN"}) /\ ReturnFunc

\* POP_CSP_N and the rest of label_pop_csp_n: the values of the branch move
\* down to where the target block began; a target that is not known yet (only
\* WASM_OP_BLOCK leaves it so) is looked up.
BranchTo(f, depth) ==
    LET csp == SubSeq(f.csp, 1, Len(f.csp) - depth)
        block == Last(csp)
        kept == SubSeq(f.sp, Len(f.sp) - block.cell_num + 1, Len(f.sp))
        found == find_block_addr(f.fn, block.begin)
        target == IF block.target = NULL THEN found.block.end ELSE block.target
    IN  /\ SetFrame([f EXCEPT !.csp = csp, !.ip = target - Addr(f.fn, 0),
                              !.sp = SubSeq(@, 1, block.sp) \o kept])
        /\ cache' = IF block.target = NULL THEN found.cache ELSE cache

Br == Fetch({"BR"}) /\ BranchTo(Frame, Instr.arg)

BrIf ==
    /\ Fetch({"BR_IF"})
    /\ \/ BranchTo(PopCells(Frame, 1), Instr.arg)
       \/ Step(PopCells(Advance(Frame), 1))

\* The index is clamped to the last label.
BrTable ==
    /\ Fetch({"BR_TABLE"})
    /\ \E lidx \in 1..(Len(Instr.arg) + 1) :
          BranchTo(PopCells(Frame, 1),
                   Instr.arg[IF lidx > Len(Instr.arg) THEN Len(Instr.arg) ELSE lidx])

\* call_func_from_interp and call_func_from_entry for a function of the module.
\* The parameters leave the caller's stack before the frame is allocated.
CallBytecode(f, g) ==
    LET n == CellNum(mod.funcs[g].type.params)
        outs == SubSeq(f.sp, Len(f.sp) - n + 1, Len(f.sp))
        caller == PopCells(f, n)
        below == Append(Front(frames), caller)
        frame == NewFrame(g, outs)
    IN  IF CanAlloc(below, frame.size)
        THEN /\ frames' = Append(below, frame)
             /\ UNCHANGED <<loaderVars, cache, status>>
        ELSE Stop("exception")

\* wasm_interp_call_func_native: at most two result cells come back; the native
\* function may raise an exception instead.
CallNative(f, g) ==
    LET type == mod.imports[g]
        caller == PopCells(f, CellNum(type.params))
        ret == Cells(type.results)
    IN  \/ Stop("exception")
        \/ /\ CanAlloc(frames, FrameSize(2))
           /\ Step(IF Len(ret) \in 1..2 THEN PushCells(caller, ret) ELSE caller)

CallFunction(f, g) ==
    IF g <= Len(mod.imports) THEN CallNative(f, g) ELSE CallBytecode(f, g - Len(mod.imports))

Call == Fetch({"CALL"}) /\ CallFunction(Advance(Frame), Instr.arg)

\* The table element may be missing or have another type: an exception.
CallIndirect ==
    /\ Fetch({"CALL_INDIRECT"})
    /\ \/ Stop("exception")
       \/ \E g \in 1..FuncCount(mod) :
             /\ FuncType(mod, g) = [params |-> Instr.arg.params, results |-> Instr.arg.results]
             /\ CallFunction(PopCells(Advance(Frame), 1), g)

Drop == Fetch({"DROP"}) /\ Step(PopCells(Advance(Frame), 1))

Drop64 == Fetch({"DROP_64"}) /\ Step(PopCells(Advance(Frame), 2))

Select == Fetch({"SELECT"}) /\ Step(PopCells(Advance(Frame), 2))

Select64 == Fetch({"SELECT_64"}) /\ Step(PopCells(Advance(Frame), 3))

\* Reads n cells of lp at an offset, or writes them from the top of the stack.
ReadLocal(f, offset, n) == PushCells(f, SubSeq(f.lp, offset + 1, offset + n))
WriteLocal(f, offset, n) ==
    [f EXCEPT !.lp = [k \in DOMAIN @ |-> IF k \in (offset + 1)..(offset + n)
                                         THEN f.sp[Len(f.sp) - n + k - offset] ELSE @[k]]]

AccessLocal(op, offset, n) ==
    CASE op \in {"GET_LOCAL", "EXT_OP_GET_LOCAL_FAST"} -> ReadLocal(Advance(Frame), offset, n)
      [] op \in {"SET_LOCAL", "EXT_OP_SET_LOCAL_FAST"} ->
            PopCells(WriteLocal(Advance(Frame), offset, n), n)
      [] op \in {"TEE_LOCAL", "EXT_OP_TEE_LOCAL_FAST"} -> WriteLocal(Advance(Frame), offset, n)

Local ==
    /\ Fetch({"GET_LOCAL", "SET_LOCAL", "TEE_LOCAL"})
    /\ LET fn == mod.funcs[Frame.fn]
       IN  Step(AccessLocal(Instr.op, local_offsets(fn, Instr.arg),
                            Len(CellsOfType(LocalTypes(fn)[Instr.arg]))))

LocalFast ==
    /\ Fetch({"EXT_OP_GET_LOCAL_FAST", "EXT_OP_SET_LOCAL_FAST", "EXT_OP_TEE_LOCAL_FAST"})
    /\ Step(AccessLocal(Instr.op, Instr.arg.offset, IF Instr.arg.wide THEN 2 ELSE 1))

GetGlobal ==
    /\ Fetch({"GET_GLOBAL", "GET_GLOBAL_64"})
    /\ Step(PushCells(Advance(Frame), IF Instr.op = "GET_GLOBAL" THEN W ELSE D))

SetGlobal ==
    /\ Fetch({"SET_GLOBAL", "SET_GLOBAL_64"})
    /\ Step(PopCells(Advance(Frame), IF Instr.op = "SET_GLOBAL" THEN 1 ELSE 2))

\* The stack pointer of the app must stay within its auxiliary stack.
SetGlobalAuxStack ==
    /\ Fetch({"SET_GLOBAL_AUX_STACK"})
    /\ Stop("exception") \/ Step(PopCells(Advance(Frame), 1))

\* The result is written where the operands began, then frame_sp moves.
Apply(sp, e) ==
    LET base == Len(sp) - Len(e.pop)
        memory == SubSeq(sp, 1, base) \o e.push
                  \o SubSeq(sp, base + Len(e.push) + 1, Len(sp))
    IN  SubSeq(memory, 1, Len(sp) + e.move)

Plain ==
    /\ Fetch(DOMAIN InterpEffect)
    /\ LET e == InterpEffect[Instr.op]
       IN  \/ Step([Advance(Frame) EXCEPT !.sp = Apply(@, e)])
           \/ e.trap /\ Stop("exception")

Nop == Fetch({"NOP"}) /\ Step(Advance(Frame))

Unreachable == Fetch({"UNREACHABLE"}) /\ Stop("exception")

\* CHECK_SUSPEND_FLAGS: another thread asked this one to terminate.
CheckSuspendFlags ==
    /\ Fetch({"BR", "BR_IF", "BR_TABLE", "CALL", "CALL_INDIRECT"})
    /\ Stop("terminated")

InterpNext ==
    \/ CallWasm \/ Block \/ Loop \/ If \/ Else \/ End \/ Return
    \/ Br \/ BrIf \/ BrTable \/ Call \/ CallIndirect
    \/ Drop \/ Drop64 \/ Select \/ Select64
    \/ Local \/ LocalFast \/ GetGlobal \/ SetGlobal \/ SetGlobalAuxStack
    \/ Plain \/ Nop \/ Unreachable \/ CheckSuspendFlags

Init == LoaderInit /\ InterpInit

Next == (LoaderNext /\ UNCHANGED interpVars) \/ InterpNext

Spec == Init /\ [][Next]_vars

-----------------------------------------------------------------------------
(* Properties.                                                              *)

\* The cells of a snapshot's operand types: a 64-bit type marks two cells.
WidthOf(ref) ==
    [k \in DOMAIN ref |->
        IF ~is_64bit_type(ref[k]) THEN "w"
        ELSE IF Cardinality({j \in 1..k : is_64bit_type(ref[j])}) % 2 = 1 THEN "lo" ELSE "hi"]

\* Whatever the interpreter is about to execute, its stacks are the ones the
\* loader had when it validated that instruction: the same operand cells, the
\* same blocks open, each begun at the same height, the locals of their types;
\* and code the loader took to be unreachable is never reached.  The END of a
\* block can be branched to: there the stack holds the block's results.  This is
\* what lets wasm_interp_call_func_bytecode pop, branch and index unchecked.
StackAgrees ==
    Running =>
        LET at == info[Frame.fn].at[Frame.ip]
        IN  /\ Frame.ip \in DOMAIN info[Frame.fn].at
            /\ IF Instr.op = "END"
               THEN Frame.sp = WidthOf(SubSeq(at.ref, 1, Last(at.heights))) \o Cells(at.results)
               ELSE ~at.dead /\ Frame.sp = WidthOf(at.ref)
            /\ [k \in DOMAIN Frame.csp |-> Frame.csp[k].sp] = at.heights
            /\ Frame.lp = Cells(LocalTypes(mod.funcs[Frame.fn]))

\* No frame outgrows the room that was allocated for it from the numbers the
\* loader computed (sp_boundary, csp_boundary: only asserted in the code), and
\* the frames together stay within the wasm stack.
WithinFrame ==
    /\ \A k \in DOMAIN frames :
          frames[k].fn # NULL =>
             /\ Len(frames[k].sp) <= info[frames[k].fn].max_stack_cell_num
             /\ Len(frames[k].csp) <= info[frames[k].fn].max_block_num
    /\ StackTop(frames) <= WasmStackCells

\* The block that starts at a position, found by counting nesting.
NestingAt(f, start, pos) ==
    1 + Cardinality({q \in start..pos : code[f][q].op \in Opens})
      - Cardinality({q \in start..pos : code[f][q].op = "END"})

BlockFrom(f, start) ==
    LET ends == {q \in start..Len(code[f]) : NestingAt(f, start, q) = 0}
        end == CHOOSE q \in ends : \A r \in ends : q <= r
        elses == {q \in start..end : code[f][q].op = "ELSE" /\ NestingAt(f, start, q) = 1}
    IN  [start |-> Addr(f, start),
         else |-> IF elses = {} THEN NULL ELSE Addr(f, CHOOSE q \in elses : TRUE),
         end |-> Addr(f, end)]

\* Every entry of the cache of block addresses gives the ELSE and the END that
\* match its block, however it got there: scanned for, found nested in a scan
\* of an outer block, or moved when its row was full.
BlockAddrExact ==
    \A r \in DOMAIN cache : \A j \in 1..ConflictSize :
        LET entry == cache[r][j]
        IN  entry # NoBlock =>
                entry = BlockFrom(entry.start \div FunctionSpan, entry.start % FunctionSpan)

\* Arguments are copied above the caller's frame before anything is allocated
\* for the callee, unchecked: wasm_exec_env_alloc_wasm_frame reserved twice the
\* caller's size because the outs area "cannot be larger than the frame size".
\* So whenever a call is reached, its arguments fit in the wasm stack.
OutsAreaFits ==
    Fetch({"CALL", "CALL_INDIRECT"}) =>
        LET params == IF Instr.op = "CALL" THEN FuncType(mod, Instr.arg).params
                      ELSE Instr.arg.params
        IN  StackTop(frames) + FrameHeader + CellNum(params) <= WasmStackCells
=============================================================================
