----------------------------- MODULE ByteQueue -----------------------------
(***************************************************************************)
(* What the ring buffer between the host and the wasm app promises, with   *)
(* no word on where the bytes are: a bounded queue whose front the app can *)
(* copy to its scratch buffer and overwrite in place.                      *)
(***************************************************************************)
EXTENDS Naturals, Sequences

CONSTANTS Capacity, Bytes, ScratchLen

VARIABLES
    queue,      \* bytes written and not read yet
    scratch,    \* the app's scratch buffer
    got         \* what the last read returned

qvars == <<queue, scratch, got>>

Scratch == [1 .. ScratchLen -> Bytes]

Front(n) == SubSeq(queue, 1, n)
Rest(n) == SubSeq(queue, n + 1, Len(queue))

Init == queue = <<>> /\ scratch \in Scratch /\ got = <<>>

Push(s) ==
    /\ Len(queue) + Len(s) <= Capacity
    /\ queue' = queue \o s
    /\ UNCHANGED <<scratch, got>>

Pop(n) ==
    /\ n <= Len(queue)
    /\ got' = Front(n)
    /\ queue' = Rest(n)
    /\ UNCHANGED scratch

Peek(n) ==
    /\ n <= Len(queue) /\ n <= ScratchLen
    /\ scratch' = [i \in 1 .. ScratchLen |-> IF i <= n THEN queue[i] ELSE scratch[i]]
    /\ UNCHANGED <<queue, got>>

Poke(n) ==
    /\ n <= Len(queue) /\ n <= ScratchLen
    /\ queue' = SubSeq(scratch, 1, n) \o Rest(n)
    /\ UNCHANGED <<scratch, got>>

Reset == queue' = <<>> /\ UNCHANGED <<scratch, got>>

Payloads == UNION {[1 .. n -> Bytes] : n \in 0 .. Capacity}

Next ==
    \/ \E s \in Payloads : Push(s)
    \/ \E n \in 0 .. Capacity : Pop(n) \/ Peek(n) \/ Poke(n)
    \/ Reset

Spec == Init /\ [][Next]_qvars
============================================================================
