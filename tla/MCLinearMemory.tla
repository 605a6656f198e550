--------------------------- MODULE MCLinearMemory ---------------------------
EXTENDS LinearMemory

MCPages == {p \in {0, 1, 2, 6, 7, 8} \X {0, 1, 3, 8} : p[1] =< p[2]}

(* One instance, every way to place the heap.                               *)
MCPrivate ==
    {[init |-> p[1], max |-> p[2], heap |-> h, base |-> b, possible_memory_grow |-> g,
      malloc |-> m, shared |-> FALSE, hw |-> hw] :
        p \in MCPages, h \in {0, 3, 8, 13, 20}, b \in {NULL, 1, 7, 8, 10, 13, 15, 47, 63},
        g \in BOOLEAN, m \in BOOLEAN, hw \in BOOLEAN}

(* Threads that share the memory.                                           *)
MCShared ==
    {[init |-> p[1], max |-> p[2], heap |-> h, base |-> b, possible_memory_grow |-> TRUE,
      malloc |-> FALSE, shared |-> TRUE, hw |-> hw] :
        p \in {<<1, 3>>}, h \in {8}, b \in {7}, hw \in BOOLEAN}

MCModules == {m \in MCPrivate : m.malloc => m.heap = 8} \cup MCShared
=============================================================================
