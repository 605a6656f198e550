---------------------------- MODULE MCWasmModule ----------------------------
EXTENDS WasmModule

AllSections ==
    <<"type", "import", "func", "table", "memory", "global", "export", "start", "elem",
      "datacount", "code", "user", "data">>

Import(fields) == [module |-> "env"] @@ fields

(* A module with something in every section.                                *)
Base ==
    [from_buf |-> TRUE, heap |-> TRUE, order |-> AllSections,
     type |-> <<"void", "unary", "void">>,
     import |-> [func |-> <<Import([name |-> "f", type |-> 1])>>, table |-> << >>,
                 memory |-> << >>,
                 global |-> <<Import([name |-> "g", type |-> "i32", mutable |-> FALSE,
                                      value |-> 2])>>],
     func |-> <<[type |-> 2, locals |-> FALSE, deep |-> TRUE],
                [type |-> 1, locals |-> TRUE, deep |-> FALSE]>>,
     code |-> 2,
     table |-> <<[size |-> 4]>>, memory |-> <<[size |-> 4]>>,
     global |-> <<[type |-> "i32", op |-> "get", arg |-> 0],
                  [type |-> "i32", op |-> "const", arg |-> 1]>>,
     export |-> <<[name |-> "f", kind |-> "func", index |-> 2],
                  [name |-> "m", kind |-> "memory", index |-> 0]>>,
     start |-> 1,
     elem |-> <<[table |-> 0, op |-> "const", arg |-> 1, funcs |-> <<0, 2>>]>>,
     datacount |-> 2,
     data |-> <<[passive |-> FALSE, memory |-> 0, op |-> "const", arg |-> 0, len |-> 3],
                [passive |-> FALSE, memory |-> 0, op |-> "get", arg |-> 0, len |-> 2]>>]

Without(sections) ==
    [Base EXCEPT !.order = SelectSeq(AllSections, LAMBDA s : s \notin sections)]

Swapped(a, b) ==
    [Base EXCEPT !.order = [k \in DOMAIN AllSections |->
        CASE AllSections[k] = a -> b [] AllSections[k] = b -> a [] OTHER -> AllSections[k]]]

(* Segments of a table and a memory at their ends.                          *)
Elems ==
    {[Base EXCEPT !.elem = <<[table |-> t, op |-> op, arg |-> a, funcs |-> f], @[1]>>] :
        t \in 0 .. 1, op \in {"const", "get"}, a \in {0, 2, 3, 4, 5}, f \in {<<1>>, <<1, 3>>, << >>}}

Datas ==
    {[Base EXCEPT !.data = <<@[2], [passive |-> p, memory |-> m, op |-> op, arg |-> a, len |-> l]>>] :
        p \in BOOLEAN, m \in 0 .. 1, op \in {"const", "get"}, a \in {0, 1, 3, 4, 6}, l \in 0 .. 3}

Others ==
    {[Base EXCEPT !.type = <<"void", "void", "void">>],
     [Base EXCEPT !.type = <<"void", "void", "void", "void">>],
     [Base EXCEPT !.type = <<"unary", "void">>],
     [Base EXCEPT !.func = << >>], [Base EXCEPT !.code = 1], [Base EXCEPT !.datacount = 3],
     [Base EXCEPT !.start = 2], [Base EXCEPT !.start = 3], [Base EXCEPT !.heap = FALSE],
     [Base EXCEPT !.export[1].index = 3], [Base EXCEPT !.export[2].name = "f"],
     [Base EXCEPT !.export[2] = [name |-> "t", kind |-> "table", index |-> 1]],
     [Base EXCEPT !.global[1].arg = 1], [Base EXCEPT !.import.global[1].mutable = TRUE],
     [Base EXCEPT !.import.global[1].type = "i64"], [Base EXCEPT !.import.func[1].type = 3],
     [Base EXCEPT !.import.table = <<Import([name |-> "t", size |-> 4])>>],
     [Base EXCEPT !.import.table = <<Import([name |-> "t", size |-> 4])>>, !.table = << >>],
     [Base EXCEPT !.import.memory = <<Import([name |-> "env", size |-> 6])>>, !.memory = << >>],
     [Base EXCEPT !.memory = <<[size |-> 0]>>, !.data = << >>, !.datacount = 0],
     \* an offset that is the index of another global
     [Base EXCEPT !.import.global = <<[@[1] EXCEPT !.value = 1],
                                      [@[1] EXCEPT !.name = "h", !.value = 3]>>,
                  !.elem = <<[table |-> 0, op |-> "get", arg |-> 0, funcs |-> <<1>>]>>],
     \* a memory of 2^32 - 1 bytes
     [Base EXCEPT !.memory = <<[size |-> U32 - 1]>>, !.data[1].arg = U32 - 2],
     Swapped("type", "import"), Swapped("elem", "func"), Swapped("user", "type"),
     Swapped("memory", "data")}

Shapes ==
    {Base} \cup {Without({s}) : s \in ToSet(AllSections)} \cup {Without({"func", "code"}),
        Without({"elem", "table"}), Without({"memory", "data", "datacount"})}
    \cup Elems \cup Datas \cup Others

MCBinaries == Shapes \cup {[b EXCEPT !.from_buf = FALSE] : b \in {Base} \cup Others}
=============================================================================
