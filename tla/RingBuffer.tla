----------------------------- MODULE RingBuffer -----------------------------
(***************************************************************************)
(* The ring buffer of src/main.c, in the linear memory of the wasm app,    *)
(* and the two functions of wasm-app/testapp.c that work on it from the    *)
(* inside.  Pointers are offsets from pHead; pTail is BUFF_MAX_LEN.        *)
(*                                                                         *)
(* The ring has a read and a write pointer and no count: a full ring and   *)
(* an empty one look the same, and neither function tests for either.      *)
(* unread and sound are history variables: the bytes a caller is owed, and *)
(* whether all callers have so far asked for what they were owed.          *)
(***************************************************************************)
EXTENDS Integers, Sequences

CONSTANTS
    BUFF_MAX_LEN,   \* bytes of the ring
    Bytes,          \* the values of a byte, 0 among them
    ClearLen,       \* sizeof(BUFF_MAX_LEN), what InitRingBuff clears
    TmpLen          \* sizeof(tmp) in the app

ASSUME RingAssumption ==
    /\ BUFF_MAX_LEN \in Nat \ {0} /\ ClearLen \in 0 .. BUFF_MAX_LEN
    /\ TmpLen \in Nat
    /\ 0 \in Bytes

NULL == "null"
HEAD == "head"
Cells == 0 .. (BUFF_MAX_LEN - 1)
Payloads == UNION {[1 .. n -> Bytes] : n \in 0 .. (BUFF_MAX_LEN + 1)}
Lengths == 0 .. (BUFF_MAX_LEN + 1)

VARIABLES
    pHead,          \* NULL, or the address of the ring
    base,           \* what InitRingBuff returned last: TRUE if not 0
    held,           \* the block at pHead is allocated in the app heap
    mem,            \* the bytes there
    pValidRead,
    pValidWrite,
    attached,       \* init_ringbuffer has given the app the ring
    tmp,            \* the app's scratch buffer
    pBuff,          \* what the last ReadRingBuff delivered
    unread, sound,
    undefined       \* the last call wrote outside what it owns

vars == <<pHead, base, held, mem, pValidRead, pValidWrite, attached, tmp,
          pBuff, unread, sound, undefined>>
hostVars == <<pHead, base, held, pValidRead, pValidWrite, pBuff>>

Init ==
    /\ pHead = NULL /\ base = FALSE /\ held = FALSE
    /\ mem \in [Cells -> Bytes]
    /\ pValidRead = 0 /\ pValidWrite = 0
    /\ attached = FALSE
    /\ tmp = [i \in 1 .. TmpLen |-> 0]
    /\ pBuff = <<>>
    /\ unread = <<>> /\ sound = TRUE
    /\ undefined = FALSE

----------------------------------------------------------------------------
(* The wrap-around that the four copying functions share.                  *)

memcpy(m, at, s) ==
    [i \in Cells |-> IF i \in at .. (at + Len(s) - 1) THEN s[i - at + 1] ELSE m[i]]

Slice(m, at, n) == [k \in 1 .. n |-> m[at + k - 1]]

(* Mutant: the second part starts with the byte that ended the first one.  *)
CopyInRepeat(m, at, s) ==
    LET preLen == BUFF_MAX_LEN - at
        first  == SubSeq(s, 1, preLen)
        last   == SubSeq(s, IF preLen = 0 THEN 1 ELSE preLen, Len(s))
    IN  IF at + Len(s) > BUFF_MAX_LEN
        THEN memcpy(memcpy(m, at, first), 0, last)
        ELSE memcpy(m, at, s)

CopyIn(m, at, s) ==
    LET preLen == BUFF_MAX_LEN - at
        first  == SubSeq(s, 1, preLen)
        last   == SubSeq(s, preLen + 1, Len(s))
    IN  IF at + Len(s) > BUFF_MAX_LEN
        THEN memcpy(memcpy(m, at, first), 0, last)
        ELSE memcpy(m, at, s)

CopyOut(m, at, n) ==
    LET preLen == BUFF_MAX_LEN - at
    IN  IF at + n > BUFF_MAX_LEN
        THEN Slice(m, at, preLen) \o Slice(m, 0, n - preLen)
        ELSE Slice(m, at, n)

(* Mutant: the first part counts towards the pointer after a wrap.         *)
AdvanceAll(at, n) == IF at + n > BUFF_MAX_LEN THEN n ELSE at + n

(* The pointer may stop at pTail, one past the last byte.                  *)
Advance(at, n) ==
    IF at + n > BUFF_MAX_LEN THEN n - (BUFF_MAX_LEN - at) ELSE at + n

----------------------------------------------------------------------------
(* src/main.c *)

(* The pointers are reset whether the block is new or not; only ClearLen   *)
(* bytes are cleared, at NULL if the allocation failed.  The block is      *)
(* allocated, and its address returned, only while pHead is NULL.          *)
InitRingBuff ==
    /\ ~undefined
    /\ \/ pHead = NULL /\ pHead' = HEAD /\ held' = TRUE
       \/ pHead = NULL /\ UNCHANGED <<pHead, held>>
       \/ pHead # NULL /\ UNCHANGED <<pHead, held>>
    /\ base' = (pHead = NULL /\ pHead' # NULL)
    /\ undefined' = ~held'
    /\ mem' = [i \in Cells |-> IF held' /\ i < ClearLen THEN 0 ELSE mem[i]]
    /\ pValidRead' = 0 /\ pValidWrite' = 0
    /\ unread' = <<>> /\ sound' = TRUE
    /\ UNCHANGED <<attached, tmp, pBuff>>

(* wasm_runtime_module_free(0) does nothing.  pHead is not reset.          *)
FreeRingBuff ==
    /\ ~undefined
    /\ pHead # NULL
    /\ held' = (held /\ ~base)
    /\ UNCHANGED <<pHead, base, mem, pValidRead, pValidWrite, attached, tmp,
                   pBuff, unread, sound, undefined>>

(* The bytes the caller is owed after a write of s.                        *)
Owe(s) ==
    LET fits == sound /\ Len(unread) + Len(s) <= BUFF_MAX_LEN
    IN  /\ sound' = fits
        /\ unread' = IF fits THEN unread \o s ELSE <<>>

WriteRingBuff(s) ==
    /\ ~undefined
    /\ pHead # NULL /\ Len(s) <= BUFF_MAX_LEN
    /\ mem' = CopyIn(mem, pValidWrite, s)
    /\ pValidWrite' = Advance(pValidWrite, Len(s))
    /\ Owe(s)
    /\ undefined' = (~held /\ s # <<>>)
    /\ UNCHANGED <<pHead, base, held, pValidRead, attached, tmp, pBuff>>

ReadRingBuff(len) ==
    /\ ~undefined
    /\ pHead # NULL /\ len <= BUFF_MAX_LEN /\ len # 0
    /\ pBuff' = CopyOut(mem, pValidRead, len)
    /\ pValidRead' = Advance(pValidRead, len)
    /\ sound' = (sound /\ len <= Len(unread))
    /\ unread' = IF sound' THEN SubSeq(unread, len + 1, Len(unread)) ELSE <<>>
    /\ undefined' = ~held
    /\ UNCHANGED <<pHead, base, held, mem, pValidWrite, attached, tmp>>

----------------------------------------------------------------------------
(* wasm-app/testapp.c.  The app is passed the address of the first unread  *)
(* byte and a length.                                                      *)

init_ringbuffer ==
    /\ ~undefined
    /\ pHead # NULL
    /\ attached' = TRUE
    /\ UNCHANGED <<hostVars, mem, tmp, unread, sound, undefined>>

(* A length beyond tmp overwrites the globals behind it.                   *)
readBuffer(len) ==
    /\ ~undefined
    /\ attached /\ len # 0
    /\ LET s == CopyOut(mem, pValidRead, len)
       IN  tmp' = [i \in 1 .. TmpLen |-> IF i <= len THEN s[i] ELSE tmp[i]]
    /\ undefined' = (len > TmpLen \/ ~held)
    /\ UNCHANGED <<hostVars, mem, attached, unread, sound>>

(* A length beyond tmp copies the globals behind it.                       *)
writeBuffer(len) ==
    /\ ~undefined
    /\ attached /\ len # 0
    /\ IF len > TmpLen \/ ~held
       THEN undefined' = TRUE /\ UNCHANGED <<mem, unread>>
       ELSE /\ mem' = CopyIn(mem, pValidRead, SubSeq(tmp, 1, len))
            /\ unread' = SubSeq(tmp, 1, len) \o SubSeq(unread, len + 1, Len(unread))
            /\ UNCHANGED undefined
    /\ UNCHANGED <<hostVars, attached, tmp, sound>>

(* The calls that return before they change anything, or trap in the app;  *)
(* nothing more is known of a program whose memory is overwritten.         *)
Refused(len) ==
    /\ \/ undefined \/ pHead = NULL \/ ~attached
       \/ len = 0 \/ len > BUFF_MAX_LEN
    /\ UNCHANGED vars

Next ==
    \/ InitRingBuff
    \/ FreeRingBuff
    \/ \E s \in Payloads : WriteRingBuff(s)
    \/ \E len \in Lengths : ReadRingBuff(len)
    \/ init_ringbuffer
    \/ \E len \in Lengths : len <= Len(unread) /\ (readBuffer(len) \/ writeBuffer(len))
    \/ \E len \in Lengths : Refused(len)

Spec == Init /\ [][Next]_vars

----------------------------------------------------------------------------
(* The cell k bytes on from an offset.                                     *)
Cell(at, k) ==
    IF at + k >= BUFF_MAX_LEN THEN at + k - BUFF_MAX_LEN ELSE at + k

(* pTail and pHead are the same place in the ring.                         *)
SameCell(a, b) == a = b \/ {a, b} = {0, BUFF_MAX_LEN}

(* As long as nobody has written too much or read too much, the cells from *)
(* pValidRead on hold the unread bytes in the order in which they were     *)
(* written, replies of the app included, and pValidWrite comes right after *)
(* them.                                                                   *)
Fifo ==
    sound =>
        /\ Len(unread) <= BUFF_MAX_LEN
        /\ \A k \in 1 .. Len(unread) : mem[Cell(pValidRead, k - 1)] = unread[k]
        /\ SameCell(pValidWrite, Cell(pValidRead, Len(unread)))

Queue == INSTANCE ByteQueue
    WITH Capacity <- BUFF_MAX_LEN, ScratchLen <- TmpLen,
         queue <- unread, scratch <- tmp, got <- pBuff

(* As long as callers write only what fits, read only what is there, keep  *)
(* to tmp and free the ring last, every call is a step of a bounded queue  *)
(* of bytes: a read returns the oldest bytes, and the app sees and changes *)
(* the next ones.                                                          *)
QueueSteps ==
    Queue!Init /\ [][sound' /\ ~undefined' => Queue!Next]_<<unread, tmp, pBuff>>
============================================================================
