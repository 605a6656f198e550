--------------------------- MODULE MCWasmInterp ---------------------------
(* Modules to load and run: one per straight-line opcode, and shapes of     *)
(* control flow whose positions each admit several instructions.            *)
EXTENDS WasmInterp

Ins(op) == [op |-> op, arg |-> 0]
With(op, arg) == [op |-> op, arg |-> arg]
Type(params, results) == [params |-> params, results |-> results]
BlockType(results) == [ext |-> FALSE, params |-> <<>>, results |-> results]
TypeIndex(params, results) == [ext |-> TRUE, params |-> params, results |-> results]

Module(imports, globals, funcs) == [imports |-> imports, globals |-> globals, funcs |-> funcs]
Func(type, locals, slots) == [type |-> type, locals |-> locals, slots |-> slots]

Const(t) == Ins(CASE t = I32 -> "I32_CONST" [] t = I64 -> "I64_CONST"
                  [] t = F32 -> "F32_CONST" [] t = F64 -> "F64_CONST")
END == Ins("END")

\* Constants for its operands, the opcode, the end.
OpcodeModules ==
    {Module(<<>>, <<>>,
        <<Func(Type(<<>>, LoaderSig[op].push), <<>>,
               [k \in DOMAIN LoaderSig[op].pop |-> {Const(LoaderSig[op].pop[k])}]
               \o <<{Ins(op)}, {END}>>)>>) : op \in DOMAIN LoaderSig}

Values == {Const(I32), Const(I64)}
Types == {BlockType(<<>>), BlockType(<<I32>>), TypeIndex(<<I64>>, <<I64>>),
          TypeIndex(<<I64>>, <<I64, I32>>)}
Blocks == {With(op, t) : op \in {"BLOCK", "LOOP", "IF"}, t \in Types}
Plains == {Const(I32), Const(I64), Ins("DROP"), Ins("SELECT"), Ins("NOP"),
           Ins("I64_ADD"), Ins("I32_WRAP_I64")}
Branches == {With("BR", 0), With("BR", 1), With("BR_IF", 0), With("BR_IF", 1),
             With("BR_TABLE", <<0, 1>>), With("BR_TABLE", <<1, 0>>),
             Ins("RETURN"), Ins("UNREACHABLE"), Ins("NOP")}

Main(results, slots) == Module(<<>>, <<>>, <<Func(Type(<<>>, results), <<>>, slots)>>)

\* A block with a branch out of its middle, dead code after it.
BranchModules ==
    {Main(r, <<{Const(I64)}, Values, {Const(I32)}, Plains, Blocks, Plains, Branches, Plains,
               {END}, Plains, {END}>>)
        : r \in {<<>>, <<I32>>, <<I64, I32>>}}

\* Ifs and blocks in sequence inside a block that is left by a branch: the
\* scan for its end meets all of them.
NestedModules ==
    {Main(<<>>, <<{With("LOOP", BlockType(<<>>))}, {With("BLOCK", BlockType(<<>>))},
                  {Const(I32)}, {With("IF", BlockType(<<>>))},
                  {Ins("NOP"), With("BLOCK", BlockType(<<>>))}, {Ins("ELSE"), END},
                  {Ins("NOP"), Ins("RETURN")}, {END}, {Const(I32)},
                  {With("IF", BlockType(<<>>))}, {Ins("ELSE"), Ins("NOP"), With("BR", 1)},
                  {END}, {Const(I32)}, {With("BR_IF", 1), With("BR_IF", 0)},
                  {END}, {END}, {END}>>)}

IfElseModules ==
    {Main(r, <<{Const(I64)}, {Const(I32)}, {With("IF", t) : t \in Types}, Plains,
               Branches, {Ins("ELSE")}, Plains, Plains, {END}, {Ins("DROP"), Ins("NOP")}, {END}>>)
        : r \in {<<I64>>, <<I64, I32>>}}

\* Calls between two functions with locals of both widths, and to a native.
CallModules ==
    LET callee == Type(<<I32, I64>>, <<I64>>)
    IN  {Module(<<Type(<<I64>>, <<I32>>)>>, <<[type |-> I64, mutable |-> TRUE, aux |-> FALSE],
                                              [type |-> I32, mutable |-> TRUE, aux |-> TRUE],
                                              [type |-> I32, mutable |-> TRUE, aux |-> FALSE]>>,
            <<Func(Type(<<I64>>, <<I32>>), <<I32>>,
                   <<{Const(I32), With("GET_GLOBAL", 2)}, {With("TEE_LOCAL", 2)},
                     {With("GET_LOCAL", 1), With("GET_GLOBAL", 1), With("GET_LOCAL", 2)},
                     {With("CALL", 3), Const(I32)},
                     {With("SET_LOCAL", 1), With("SET_GLOBAL", 1), With("CALL_INDIRECT", callee)},
                     {With("GET_LOCAL", 2), With("GET_GLOBAL", 3), Ins("NOP")},
                     {With("SET_GLOBAL", 2), With("SET_GLOBAL", 3), Ins("NOP"), With("CALL", 1)},
                     {Ins("NOP"), With("GET_LOCAL", 2)}, {END}>>),
              Func(callee, <<F64>>,
                   <<{With("GET_LOCAL", 2)}, {With("GET_LOCAL", 1), With("CALL", 1), With("CALL", 2)},
                     {Ins("I64_EXTEND_I32"), Ins("DROP")},
                     {Ins("I64_ADD"), Ins("DROP"), Ins("NOP")},
                     {END, Ins("RETURN")}>>)>>)}

MCModules == OpcodeModules \cup BranchModules \cup NestedModules \cup IfElseModules
             \cup CallModules
=============================================================================
