------------------------------ MODULE WasmOps ------------------------------
(***************************************************************************)
(* What the straight-line opcodes of a wasm function do to the operand     *)
(* stack, once as wasm_loader.c declares it when it validates the code     *)
(* (types pushed and popped) and once as wasm_interp_classic.c does it     *)
(* when it runs the code (cells moved).  The two are written from the two  *)
(* files separately: that they agree is a property of WasmInterp.          *)
(* Values are abstracted: an operand is its type, a cell is the part of    *)
(* the value it holds.  Opcodes with the same effect share one name        *)
(* (I32_CMP is any of I32_EQ .. I32_GE_U).                                 *)
(***************************************************************************)
EXTENDS Integers, Sequences, TLC

I32 == "i32"
I64 == "i64"
F32 == "f32"
F64 == "f64"
ANY == "any"

ValueTypes == {I32, I64, F32, F64}

\* is_64bit_type; every other type, ANY too, takes one cell.
is_64bit_type(t) == t \in {I64, F64}

\* The marks wasm_loader_push_frame_ref leaves on frame_ref for a value.
RefCells(t) == IF is_64bit_type(t) THEN <<t, t>> ELSE <<t>>

-----------------------------------------------------------------------------
(* The loader: POP_xxx, PUSH_xxx, POP_AND_PUSH, POP2_AND_PUSH per opcode.   *)

Sig(pop, push) == [pop |-> pop, push |-> push]

POP_AND_PUSH(t, u) == Sig(<<t>>, <<u>>)
POP2_AND_PUSH(t, u) == Sig(<<t, t>>, <<u>>)

LoaderMemoryAccess ==
    [I32_LOAD  |-> POP_AND_PUSH(I32, I32), I64_LOAD  |-> POP_AND_PUSH(I32, I64),
     F32_LOAD  |-> POP_AND_PUSH(I32, F32), F64_LOAD  |-> POP_AND_PUSH(I32, F64),
     I32_LOAD8 |-> POP_AND_PUSH(I32, I32), I64_LOAD8 |-> POP_AND_PUSH(I32, I64),
     I32_STORE  |-> Sig(<<I32, I32>>, <<>>), I64_STORE  |-> Sig(<<I32, I64>>, <<>>),
     F32_STORE  |-> Sig(<<I32, F32>>, <<>>), F64_STORE  |-> Sig(<<I32, F64>>, <<>>),
     I32_STORE8 |-> Sig(<<I32, I32>>, <<>>), I64_STORE8 |-> Sig(<<I32, I64>>, <<>>)]

LoaderMemorySize ==
    [MEMORY_SIZE |-> Sig(<<>>, <<I32>>), MEMORY_GROW |-> POP_AND_PUSH(I32, I32)]

LoaderConst ==
    [I32_CONST |-> Sig(<<>>, <<I32>>), I64_CONST |-> Sig(<<>>, <<I64>>),
     F32_CONST |-> Sig(<<>>, <<F32>>), F64_CONST |-> Sig(<<>>, <<F64>>)]

LoaderCompare ==
    [I32_EQZ |-> POP_AND_PUSH(I32, I32), I32_CMP |-> POP2_AND_PUSH(I32, I32),
     I64_EQZ |-> POP_AND_PUSH(I64, I32), I64_CMP |-> POP2_AND_PUSH(I64, I32),
     F32_CMP |-> POP2_AND_PUSH(F32, I32), F64_CMP |-> POP2_AND_PUSH(F64, I32)]

LoaderInteger ==
    [I32_CLZ |-> POP_AND_PUSH(I32, I32), I32_ADD |-> POP2_AND_PUSH(I32, I32),
     I32_DIV |-> POP2_AND_PUSH(I32, I32), I32_SHL |-> POP2_AND_PUSH(I32, I32),
     I64_CLZ |-> POP_AND_PUSH(I64, I64), I64_ADD |-> POP2_AND_PUSH(I64, I64),
     I64_DIV |-> POP2_AND_PUSH(I64, I64), I64_SHL |-> POP2_AND_PUSH(I64, I64)]

LoaderFloat ==
    [F32_ABS |-> POP_AND_PUSH(F32, F32), F32_NEG |-> POP_AND_PUSH(F32, F32),
     F32_ADD |-> POP2_AND_PUSH(F32, F32), F32_MIN |-> POP2_AND_PUSH(F32, F32),
     F64_ABS |-> POP_AND_PUSH(F64, F64), F64_NEG |-> POP_AND_PUSH(F64, F64),
     F64_ADD |-> POP2_AND_PUSH(F64, F64), F64_MIN |-> POP2_AND_PUSH(F64, F64)]

LoaderConvert ==
    [I32_WRAP_I64    |-> POP_AND_PUSH(I64, I32), I32_TRUNC_F32 |-> POP_AND_PUSH(F32, I32),
     I32_TRUNC_F64   |-> POP_AND_PUSH(F64, I32), I64_EXTEND_I32 |-> POP_AND_PUSH(I32, I64),
     I64_TRUNC_F32   |-> POP_AND_PUSH(F32, I64), I64_TRUNC_F64 |-> POP_AND_PUSH(F64, I64),
     F32_CONVERT_I32 |-> POP_AND_PUSH(I32, F32), F32_CONVERT_I64 |-> POP_AND_PUSH(I64, F32),
     F32_DEMOTE_F64  |-> POP_AND_PUSH(F64, F32), F64_CONVERT_I32 |-> POP_AND_PUSH(I32, F64),
     F64_CONVERT_I64 |-> POP_AND_PUSH(I64, F64), F64_PROMOTE_F32 |-> POP_AND_PUSH(F32, F64),
     I32_REINTERPRET_F32 |-> POP_AND_PUSH(F32, I32), I64_REINTERPRET_F64 |-> POP_AND_PUSH(F64, I64),
     F32_REINTERPRET_I32 |-> POP_AND_PUSH(I32, F32), F64_REINTERPRET_I64 |-> POP_AND_PUSH(I64, F64),
     I32_EXTEND8_S   |-> POP_AND_PUSH(I32, I32), I64_EXTEND8_S |-> POP_AND_PUSH(I64, I64)]

LoaderTruncSat ==
    [I32_TRUNC_SAT_F32 |-> POP_AND_PUSH(F32, I32), I32_TRUNC_SAT_F64 |-> POP_AND_PUSH(F64, I32),
     I64_TRUNC_SAT_F32 |-> POP_AND_PUSH(F32, I64), I64_TRUNC_SAT_F64 |-> POP_AND_PUSH(F64, I64)]

LoaderBulk ==
    [MEMORY_INIT |-> Sig(<<I32, I32, I32>>, <<>>), DATA_DROP   |-> Sig(<<>>, <<>>),
     MEMORY_COPY |-> Sig(<<I32, I32, I32>>, <<>>), MEMORY_FILL |-> Sig(<<I32, I32, I32>>, <<>>)]

LoaderAtomic ==
    [ATOMIC_NOTIFY |-> POP2_AND_PUSH(I32, I32), ATOMIC_FENCE |-> Sig(<<>>, <<>>),
     ATOMIC_WAIT32 |-> Sig(<<I32, I32, I64>>, <<I32>>),
     ATOMIC_WAIT64 |-> Sig(<<I32, I64, I64>>, <<I32>>),
     ATOMIC_I32_LOAD |-> POP_AND_PUSH(I32, I32), ATOMIC_I32_STORE |-> Sig(<<I32, I32>>, <<>>),
     ATOMIC_I64_LOAD |-> POP_AND_PUSH(I32, I64), ATOMIC_I64_STORE |-> Sig(<<I32, I64>>, <<>>),
     ATOMIC_RMW_I32 |-> POP2_AND_PUSH(I32, I32), ATOMIC_RMW_I64 |-> Sig(<<I32, I64>>, <<I64>>),
     ATOMIC_RMW_I32_CMPXCHG |-> Sig(<<I32, I32, I32>>, <<I32>>),
     ATOMIC_RMW_I64_CMPXCHG |-> Sig(<<I32, I64, I64>>, <<I64>>)]

LoaderSig ==
    LoaderMemoryAccess @@ LoaderMemorySize @@ LoaderConst @@ LoaderCompare
    @@ LoaderInteger @@ LoaderFloat @@ LoaderConvert @@ LoaderTruncSat
    @@ LoaderBulk @@ LoaderAtomic

-----------------------------------------------------------------------------
(* The interpreter: a 32-bit operand is one cell W, a 64-bit one two, the   *)
(* low half and the high half.  "move" is what happens to frame_sp.         *)

W == <<"w">>
D == <<"lo", "hi">>

CellsOfType(t) == IF is_64bit_type(t) THEN D ELSE W

Effect(pop, push, move, trap) ==
    [pop |-> pop, push |-> push, move |-> move, trap |-> trap]

\* POP_xxx of the cells "pop" (the first one popped last), PUSH_xxx of "push".
PopPush(pop, push) == Effect(pop, push, Len(push) - Len(pop), FALSE)
PopPushOrTrap(pop, push) == Effect(pop, push, Len(push) - Len(pop), TRUE)

DEF_OP_EQZ(src) == PopPush(src, W)
DEF_OP_CMP(src) == PopPush(src \o src, W)
DEF_OP_BIT_COUNT(src) == PopPush(src, src)
\* frame_sp drops the second operand; the result is written over the first.
DEF_OP_NUMERIC(src) == Effect(src \o src, src, -Len(src), FALSE)
DEF_OP_MATH(src) == PopPush(src, src)
DEF_OP_CONVERT(dst, src) == PopPush(src, dst)

\* trunc_f32_to_int and trunc_f64_to_int get frame_sp by value: they write the
\* result where the source was and leave frame_sp alone, and the opcode moves
\* frame_sp by hand afterwards ("adjust").
TruncToInt(dst, src, adjust, trap) == Effect(src, dst, adjust, trap)

InterpMemoryLoad ==
    [I32_LOAD  |-> PopPushOrTrap(W, W), I64_LOAD  |-> PopPushOrTrap(W, D),
     F32_LOAD  |-> PopPushOrTrap(W, W), F64_LOAD  |-> PopPushOrTrap(W, D),
     I32_LOAD8 |-> PopPushOrTrap(W, W), I64_LOAD8 |-> PopPushOrTrap(W, D)]

InterpMemoryStore ==
    [I32_STORE  |-> PopPushOrTrap(W \o W, <<>>), I64_STORE  |-> PopPushOrTrap(W \o D, <<>>),
     F32_STORE  |-> PopPushOrTrap(W \o W, <<>>), F64_STORE  |-> PopPushOrTrap(W \o D, <<>>),
     I32_STORE8 |-> PopPushOrTrap(W \o W, <<>>), I64_STORE8 |-> PopPushOrTrap(W \o D, <<>>)]

InterpMemorySize ==
    [MEMORY_SIZE |-> PopPush(<<>>, W), MEMORY_GROW |-> PopPush(W, W)]

InterpConst ==
    [I32_CONST |-> PopPush(<<>>, W), I64_CONST |-> PopPush(<<>>, D),
     F32_CONST |-> PopPush(<<>>, W), F64_CONST |-> PopPush(<<>>, D)]

InterpCompareInt ==
    [I32_EQZ |-> DEF_OP_EQZ(W), I32_CMP |-> DEF_OP_CMP(W),
     I64_EQZ |-> DEF_OP_EQZ(D), I64_CMP |-> DEF_OP_CMP(D)]

InterpCompareFloat ==
    [F32_CMP |-> DEF_OP_CMP(W), F64_CMP |-> DEF_OP_CMP(D)]

\* I32_DIV stands for DIV and REM, I32_SHL for the shifts and rotations.
InterpInt32 ==
    [I32_CLZ |-> DEF_OP_BIT_COUNT(W), I32_ADD |-> DEF_OP_NUMERIC(W),
     I32_DIV |-> PopPushOrTrap(W \o W, W), I32_SHL |-> DEF_OP_NUMERIC(W)]

InterpInt64 ==
    [I64_CLZ |-> DEF_OP_BIT_COUNT(D), I64_ADD |-> DEF_OP_NUMERIC(D),
     I64_DIV |-> PopPushOrTrap(D \o D, D), I64_SHL |-> DEF_OP_NUMERIC(D)]

\* F32_NEG flips the sign bit in place.
InterpFloat32 ==
    [F32_ABS |-> DEF_OP_MATH(W), F32_NEG |-> Effect(W, W, 0, FALSE),
     F32_ADD |-> DEF_OP_NUMERIC(W), F32_MIN |-> PopPush(W \o W, W)]

InterpFloat64 ==
    [F64_ABS |-> DEF_OP_MATH(D), F64_NEG |-> Effect(D, D, 0, FALSE),
     F64_ADD |-> DEF_OP_NUMERIC(D), F64_MIN |-> PopPush(D \o D, D)]

InterpTrunc ==
    [I32_WRAP_I64  |-> PopPush(D, W),
     I32_TRUNC_F32 |-> TruncToInt(W, W, 0, TRUE),
     I32_TRUNC_F64 |-> TruncToInt(W, D, -1, TRUE),
     I64_EXTEND_I32 |-> DEF_OP_CONVERT(D, W),
     I64_TRUNC_F32 |-> TruncToInt(D, W, 1, TRUE),
     I64_TRUNC_F64 |-> TruncToInt(D, D, 0, TRUE)]

InterpConvert ==
    [F32_CONVERT_I32 |-> DEF_OP_CONVERT(W, W), F32_CONVERT_I64 |-> DEF_OP_CONVERT(W, D),
     F32_DEMOTE_F64  |-> DEF_OP_CONVERT(W, D), F64_CONVERT_I32 |-> DEF_OP_CONVERT(D, W),
     F64_CONVERT_I64 |-> DEF_OP_CONVERT(D, D), F64_PROMOTE_F32 |-> DEF_OP_CONVERT(D, W),
     I32_REINTERPRET_F32 |-> PopPush(<<>>, <<>>), I64_REINTERPRET_F64 |-> PopPush(<<>>, <<>>),
     F32_REINTERPRET_I32 |-> PopPush(<<>>, <<>>), F64_REINTERPRET_I64 |-> PopPush(<<>>, <<>>),
     I32_EXTEND8_S |-> DEF_OP_CONVERT(W, W), I64_EXTEND8_S |-> DEF_OP_CONVERT(D, D)]

InterpTruncSat ==
    [I32_TRUNC_SAT_F32 |-> TruncToInt(W, W, 0, FALSE),
     I32_TRUNC_SAT_F64 |-> TruncToInt(W, D, -1, FALSE),
     I64_TRUNC_SAT_F32 |-> TruncToInt(D, W, 1, FALSE),
     I64_TRUNC_SAT_F64 |-> TruncToInt(D, D, 0, FALSE)]

InterpBulk ==
    [MEMORY_INIT |-> PopPushOrTrap(W \o W \o W, <<>>), DATA_DROP |-> PopPush(<<>>, <<>>),
     MEMORY_COPY |-> PopPushOrTrap(W \o W \o W, <<>>),
     MEMORY_FILL |-> PopPushOrTrap(W \o W \o W, <<>>)]

InterpAtomicWait ==
    [ATOMIC_NOTIFY |-> PopPushOrTrap(W \o W, W), ATOMIC_FENCE |-> PopPush(<<>>, <<>>),
     ATOMIC_WAIT32 |-> PopPushOrTrap(W \o W \o D, W),
     ATOMIC_WAIT64 |-> PopPushOrTrap(W \o D \o D, W)]

InterpAtomicAccess ==
    [ATOMIC_I32_LOAD |-> PopPushOrTrap(W, W), ATOMIC_I32_STORE |-> PopPushOrTrap(W \o W, <<>>),
     ATOMIC_I64_LOAD |-> PopPushOrTrap(W, D), ATOMIC_I64_STORE |-> PopPushOrTrap(W \o D, <<>>)]

InterpAtomicCmpxchg ==
    [ATOMIC_RMW_I32_CMPXCHG |-> PopPushOrTrap(W \o W \o W, W),
     ATOMIC_RMW_I64_CMPXCHG |-> PopPushOrTrap(W \o D \o D, D)]

DEF_ATOMIC_RMW_OPCODE ==
    [ATOMIC_RMW_I32 |-> PopPushOrTrap(W \o W, W),
     ATOMIC_RMW_I64 |-> PopPushOrTrap(W \o D, D)]

InterpEffect ==
    InterpMemoryLoad @@ InterpMemoryStore @@ InterpMemorySize @@ InterpConst
    @@ InterpCompareInt @@ InterpCompareFloat @@ InterpInt32 @@ InterpInt64
    @@ InterpFloat32 @@ InterpFloat64 @@ InterpTrunc @@ InterpConvert
    @@ InterpTruncSat @@ InterpBulk @@ InterpAtomicWait @@ InterpAtomicAccess
    @@ InterpAtomicCmpxchg @@ DEF_ATOMIC_RMW_OPCODE
=============================================================================
