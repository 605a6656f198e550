---------------------------- MODULE WasmLoader ----------------------------
(***************************************************************************)
(* wasm_loader_prepare_bytecode (core/iwasm/interpreter/wasm_loader.c) of  *)
(* the build this project uses (classic interpreter, no SIMD, no reference *)
(* types): one pass over the code of each function that validates it with  *)
(* a stack of operand types and a stack of blocks, rewrites some opcodes   *)
(* in place for the interpreter, and computes the two numbers from which   *)
(* the interpreter sizes a frame.                                          *)
(*                                                                         *)
(* A function's code is not fixed in advance: at each position the loader  *)
(* reads some instruction of the set "slots" gives for that position, so   *)
(* one module of the instance stands for every function body of its shape. *)
(* An address is a position; immediates take no room.                      *)
(***************************************************************************)
EXTENDS WasmOps, SequencesExt

CONSTANTS
    Modules,      \* the modules to load: [imports, globals, funcs], see below
    FastOffsets   \* 0x80: locals at smaller cell offsets get a short opcode

(* A module has the types of its imported (native) functions, its globals
   [type, mutable, aux] and its functions [type, locals, slots]; a function
   type is [params, results], a block type [ext, params, results].           *)

VARIABLES
    mod,    \* the module being loaded and run
    ldr,    \* WASMLoaderContext of the function being validated
    code,   \* the code of every function validated so far, as rewritten
    info,   \* what the loader keeps of a function: max_stack_cell_num,
            \* max_block_num and (a history) the stacks at each instruction
    phase   \* "load", "ready" or "rejected"

loaderVars == <<mod, ldr, code, info, phase>>

FuncType(m, f) ==
    IF f <= Len(m.imports) THEN m.imports[f] ELSE m.funcs[f - Len(m.imports)].type

FuncCount(m) == Len(m.imports) + Len(m.funcs)

CellNum(types) == Len(FlattenSeq([k \in DOMAIN types |-> RefCells(types[k])]))

\* Parameters and locals are one index space; local_offsets are cell offsets.
LocalTypes(fn) == fn.type.params \o fn.locals
local_offsets(fn, l) == CellNum(SubSeq(LocalTypes(fn), 1, l - 1))

-----------------------------------------------------------------------------
(* The loader context and the helpers on it.                                *)

CurBlock(c) == Last(c.csp)
Available(c) == Len(c.ref) - CurBlock(c).stack_cell_num
Fail(c) == [c EXCEPT !.ok = FALSE]

push_frame_ref(c, t) ==
    LET ref == c.ref \o RefCells(t)
    IN  [c EXCEPT !.ref = ref,
                  !.max_stack_cell_num = IF Len(ref) > @ THEN Len(ref) ELSE @]

DropCells(c, n) == [c EXCEPT !.ref = SubSeq(@, 1, Len(@) - n)]

\* check_stack_top_values for a whole list of types.
TopMatches(c, types) ==
    LET cells == FlattenSeq([k \in DOMAIN types |-> RefCells(types[k])])
    IN  /\ Len(cells) <= Available(c)
        /\ SubSeq(c.ref, Len(c.ref) - Len(cells) + 1, Len(c.ref)) = cells

\* An empty stack of a block in polymorphic state yields any type; a value of
\* unknown type is one cell whatever it is popped as.
pop_frame_ref(c, t) ==
    IF ~c.ok \/ (Available(c) <= 0 /\ CurBlock(c).is_stack_polymorphic) THEN c
    ELSE IF Available(c) > 0 /\ Last(c.ref) = ANY THEN DropCells(c, 1)
    ELSE IF TopMatches(c, <<t>>) THEN DropCells(c, Len(RefCells(t)))
    ELSE Fail(c)

PopTypes(c, types) == FoldRight(LAMBDA t, acc : pop_frame_ref(acc, t), types, c)
PushTypes(c, types) == FoldLeft(push_frame_ref, c, types)

\* Mutant: the block being opened does not count.
push_frame_cspBefore(c, label, bt) ==
    [c EXCEPT !.csp = Append(@, [label_type |-> label, block_type |-> bt, has_else |-> FALSE,
                                 stack_cell_num |-> Len(c.ref), is_stack_polymorphic |-> FALSE]),
              !.max_csp_num = IF Len(c.csp) > @ THEN Len(c.csp) ELSE @]

push_frame_csp(c, label, bt) ==
    LET csp == Append(c.csp, [label_type |-> label, block_type |-> bt, has_else |-> FALSE,
                              stack_cell_num |-> Len(c.ref), is_stack_polymorphic |-> FALSE])
    IN  [c EXCEPT !.csp = csp,
                  !.max_csp_num = IF Len(csp) > @ THEN Len(csp) ELSE @]

pop_frame_csp(c) == IF Len(c.csp) < 1 THEN Fail(c) ELSE [c EXCEPT !.csp = Front(@)]

\* RESET_STACK and SET_CUR_BLOCK_STACK_POLYMORPHIC_STATE.
ResetStack(c, polymorphic) ==
    IF ~c.ok THEN c
    ELSE [c EXCEPT !.ref = SubSeq(@, 1, CurBlock(c).stack_cell_num),
                   !.csp[Len(c.csp)].is_stack_polymorphic = polymorphic]

\* Mutant: a loop is branched to with its results like any other block.
BranchTypesOfResults(block) == block.block_type.results

\* A branch to a loop takes the loop's parameters, to anything else its results.
BranchTypes(block) ==
    IF block.label_type = "LOOP" THEN block.block_type.params ELSE block.block_type.results

wasm_loader_check_br(c, depth) ==
    IF ~c.ok \/ Len(c.csp) < depth + 1 THEN Fail(c)
    ELSE LET types == BranchTypes(c.csp[Len(c.csp) - depth])
         IN  IF CurBlock(c).is_stack_polymorphic
             THEN PushTypes(PopTypes(c, types), types)
             ELSE IF TopMatches(c, types) THEN c ELSE Fail(c)

check_block_stack(c) ==
    LET block == CurBlock(c)
        results == block.block_type.results
        popped == PopTypes(c, results)
    IN  IF block.is_stack_polymorphic
        THEN IF ~popped.ok \/ Len(popped.ref) # block.stack_cell_num THEN Fail(c)
             ELSE PushTypes(popped, results)
        ELSE IF Available(c) = CellNum(results) /\ TopMatches(c, results) THEN c
             ELSE Fail(c)

-----------------------------------------------------------------------------
(* One operator per opcode of the validation loop: the context after it.    *)
(* c.ins is the instruction as it stays in the code.                        *)

Rewrite(c, op) == [c EXCEPT !.ins.op = op]

OpUnreachable(c, i) == ResetStack(c, TRUE)

OpNop(c, i) == c

\* A block whose type is a type index gets an opcode of its own.
ExtOp == ("BLOCK" :> "EXT_OP_BLOCK") @@ ("LOOP" :> "EXT_OP_LOOP") @@ ("IF" :> "EXT_OP_IF")

OpBlock(c, i) ==
    LET bt == i.arg
        entered == PushTypes(push_frame_csp(PopTypes(IF i.op = "IF" THEN pop_frame_ref(c, I32)
                                                     ELSE c, bt.params), i.op, bt), bt.params)
    IN  IF bt.ext THEN Rewrite(entered, ExtOp[i.op]) ELSE entered

OpElse(c, i) ==
    LET block == CurBlock(c)
        checked == check_block_stack(c)
    IN  IF Len(c.csp) < 2 \/ block.label_type # "IF" \/ ~checked.ok THEN Fail(c)
        ELSE PushTypes(ResetStack([checked EXCEPT !.csp[Len(c.csp)].has_else = TRUE], FALSE),
                       block.block_type.params)

\* The END of the function must be its last instruction.
OpEnd(c, i) ==
    LET block == CurBlock(c)
        checked == check_block_stack(c)
        popped == pop_frame_csp(checked)
    IN  IF \/ ~checked.ok
           \/ /\ block.label_type = "IF"
              /\ ~block.has_else
              /\ block.block_type.params # block.block_type.results
           \/ popped.csp = <<>> /\ c.p < c.code_size
        THEN Fail(c)
        ELSE popped

OpBr(c, i) == ResetStack(wasm_loader_check_br(c, i.arg), TRUE)

OpBrIf(c, i) == wasm_loader_check_br(pop_frame_ref(c, I32), i.arg)

\* Every target is checked against the stack; all must have the same results,
\* where a loop counts as having none.
OpBrTable(c, i) ==
    LET checked == FoldLeft(wasm_loader_check_br, pop_frame_ref(c, I32), i.arg)
        Results(depth) == LET block == c.csp[Len(c.csp) - depth]
                          IN  IF block.label_type = "LOOP" THEN <<>>
                              ELSE block.block_type.results
    IN  IF checked.ok /\ \A k \in DOMAIN i.arg : Results(i.arg[k]) = Results(i.arg[1])
        THEN ResetStack(checked, TRUE)
        ELSE Fail(c)

OpReturn(c, i) == ResetStack(PopTypes(c, c.csp[1].block_type.results), TRUE)

OpCall(c, i) ==
    IF i.arg > FuncCount(mod) THEN Fail(c)
    ELSE LET type == FuncType(mod, i.arg)
         IN  PushTypes(PopTypes(c, type.params), type.results)

OpCallIndirect(c, i) ==
    PushTypes(PopTypes(pop_frame_ref(c, I32), i.arg.params), i.arg.results)

\* DROP of a value of unknown type is refused.
OpDrop(c, i) ==
    IF Available(c) <= 0 THEN IF CurBlock(c).is_stack_polymorphic THEN c ELSE Fail(c)
    ELSE IF Last(c.ref) = ANY THEN Fail(c)
    ELSE IF is_64bit_type(Last(c.ref)) THEN Rewrite(DropCells(c, 2), "DROP_64")
    ELSE DropCells(c, 1)

OpSelect(c0, i) ==
    LET c == pop_frame_ref(c0, I32)
        type == Last(c.ref)
        selected == PushTypes(PopTypes(c, <<type, type>>), <<type>>)
    IN  IF ~c.ok THEN c
        ELSE IF Available(c) <= 0
             THEN IF CurBlock(c).is_stack_polymorphic THEN push_frame_ref(c, ANY) ELSE Fail(c)
        ELSE IF type = ANY THEN Fail(c)
        ELSE IF is_64bit_type(type) THEN Rewrite(selected, "SELECT_64") ELSE selected

\* A local at a small offset is accessed by offset and width from then on.
FastLocal(c, i, op) ==
    LET fn == mod.funcs[c.fn]
        offset == local_offsets(fn, i.arg)
    IN  IF offset < FastOffsets
        THEN [c EXCEPT !.ins = [op |-> op,
                                arg |-> [offset |-> offset,
                                         wide |-> is_64bit_type(LocalTypes(fn)[i.arg])]]]
        ELSE c

OpLocal(c, i) ==
    LET types == LocalTypes(mod.funcs[c.fn])
        type == types[i.arg]
    IN  IF i.arg > Len(types) THEN Fail(c)
        ELSE CASE i.op = "GET_LOCAL" ->
                    FastLocal(push_frame_ref(c, type), i, "EXT_OP_GET_LOCAL_FAST")
               [] i.op = "SET_LOCAL" ->
                    FastLocal(pop_frame_ref(c, type), i, "EXT_OP_SET_LOCAL_FAST")
               [] i.op = "TEE_LOCAL" ->
                    FastLocal(push_frame_ref(pop_frame_ref(c, type), type), i,
                              "EXT_OP_TEE_LOCAL_FAST")

OpGetGlobal(c, i) ==
    IF i.arg > Len(mod.globals) THEN Fail(c)
    ELSE LET pushed == push_frame_ref(c, mod.globals[i.arg].type)
         IN  IF is_64bit_type(mod.globals[i.arg].type)
             THEN Rewrite(pushed, "GET_GLOBAL_64") ELSE pushed

OpSetGlobal(c, i) ==
    IF i.arg > Len(mod.globals) THEN Fail(c)
    ELSE LET global == mod.globals[i.arg]
             popped == pop_frame_ref(c, global.type)
         IN  IF ~global.mutable THEN Fail(c)
             ELSE IF is_64bit_type(global.type) THEN Rewrite(popped, "SET_GLOBAL_64")
             ELSE IF global.aux THEN Rewrite(popped, "SET_GLOBAL_AUX_STACK")
             ELSE popped

OpPlain(c, i) == PushTypes(PopTypes(c, LoaderSig[i.op].pop), LoaderSig[i.op].push)

-----------------------------------------------------------------------------
(* The loop.                                                                *)

\* wasm_loader_ctx_init and the push of the function's own block.
ContextOf(m, f) ==
    push_frame_csp([fn |-> f, p |-> 1, code_size |-> Len(m.funcs[f].slots), ref |-> <<>>,
                    csp |-> <<>>, max_stack_cell_num |-> 0, max_csp_num |-> 0,
                    ins |-> [op |-> "NOP", arg |-> 0], ok |-> TRUE, at |-> <<>>],
                   "FUNCTION", m.funcs[f].type)

\* What the loader knows of the stacks before an instruction.
Snapshot(c) ==
    [ref |-> c.ref, heights |-> [k \in DOMAIN c.csp |-> c.csp[k].stack_cell_num],
     results |-> CurBlock(c).block_type.results, dead |-> CurBlock(c).is_stack_polymorphic]

LoaderInit ==
    /\ mod \in Modules
    /\ ldr = ContextOf(mod, 1)
    /\ code = <<<<>>>>
    /\ info = <<>>
    /\ phase = "load"

\* One iteration of the loop on some instruction with an opcode in ops.
Decode(ops, Op(_, _)) ==
    /\ phase = "load"
    /\ ldr.p <= ldr.code_size
    /\ \E i \in mod.funcs[ldr.fn].slots[ldr.p] :
          /\ i.op \in ops
          /\ LET c == Op([ldr EXCEPT !.ins = i, !.at = Append(@, Snapshot(ldr))], i)
             IN  IF c.ok
                 THEN /\ ldr' = [c EXCEPT !.p = @ + 1]
                      /\ code' = [code EXCEPT ![ldr.fn] = Append(@, c.ins)]
                      /\ UNCHANGED phase
                 ELSE /\ phase' = "rejected"
                      /\ UNCHANGED <<ldr, code>>
    /\ UNCHANGED <<mod, info>>

\* The end of the code: a missing END is an error, the next function follows.
FinishFunction ==
    /\ phase = "load"
    /\ ldr.p > ldr.code_size
    /\ UNCHANGED mod
    /\ IF ldr.csp # <<>>
       THEN phase' = "rejected" /\ UNCHANGED <<ldr, code, info>>
       ELSE /\ info' = Append(info, [max_stack_cell_num |-> ldr.max_stack_cell_num,
                                     max_block_num |-> ldr.max_csp_num, at |-> ldr.at])
            /\ IF ldr.fn < Len(mod.funcs)
               THEN /\ ldr' = ContextOf(mod, ldr.fn + 1)
                    /\ code' = Append(code, <<>>)
                    /\ UNCHANGED phase
               ELSE phase' = "ready" /\ UNCHANGED <<ldr, code>>

LoaderNext ==
    \/ Decode({"UNREACHABLE"}, OpUnreachable)
    \/ Decode({"NOP"}, OpNop)
    \/ Decode({"BLOCK", "LOOP", "IF"}, OpBlock)
    \/ Decode({"ELSE"}, OpElse)
    \/ Decode({"END"}, OpEnd)
    \/ Decode({"BR"}, OpBr)
    \/ Decode({"BR_IF"}, OpBrIf)
    \/ Decode({"BR_TABLE"}, OpBrTable)
    \/ Decode({"RETURN"}, OpReturn)
    \/ Decode({"CALL"}, OpCall)
    \/ Decode({"CALL_INDIRECT"}, OpCallIndirect)
    \/ Decode({"DROP"}, OpDrop)
    \/ Decode({"SELECT"}, OpSelect)
    \/ Decode({"GET_LOCAL", "SET_LOCAL", "TEE_LOCAL"}, OpLocal)
    \/ Decode({"GET_GLOBAL"}, OpGetGlobal)
    \/ Decode({"SET_GLOBAL"}, OpSetGlobal)
    \/ Decode(DOMAIN LoaderSig, OpPlain)
    \/ FinishFunction
=============================================================================
