-------------------------- MODULE RingBufferProofs --------------------------
(***************************************************************************)
(* Fifo and QueueSteps of RingBuffer, for a ring and a scratch buffer of   *)
(* any size and any set of bytes.                                          *)
(*                                                                         *)
(* The argument works on cells counted from the read pointer.  CopyIn      *)
(* changes exactly the cells it is given, wrapped or not (CopyInCells);    *)
(* CopyOut reads them in order (CopyOutCells); Advance ends where the      *)
(* cells end (AdvanceCell); and the cells after the unread bytes are the   *)
(* cells from the write pointer on (CellFromWrite).                        *)
(***************************************************************************)
EXTENDS RingBuffer, SequenceTheorems, TLAPS

(* The values the variables take; a ring whose callers have broken the     *)
(* rules owes nothing.                                                     *)
RingTypes ==
    /\ pHead \in {NULL, HEAD} /\ base \in BOOLEAN /\ held \in BOOLEAN
    /\ mem \in [Cells -> Bytes]
    /\ pValidRead \in 0 .. BUFF_MAX_LEN /\ pValidWrite \in 0 .. BUFF_MAX_LEN
    /\ attached \in BOOLEAN
    /\ tmp \in [1 .. TmpLen -> Bytes]
    /\ pBuff \in Seq(Bytes) /\ unread \in Seq(Bytes)
    /\ sound \in BOOLEAN /\ undefined \in BOOLEAN
    /\ ~sound => unread = <<>>

(* The inductive invariant.                                                *)
RingInv == RingTypes /\ Fifo

----------------------------------------------------------------------------
(* The operators the four copying functions share.                         *)

(* A cell less than a ring away from a pointer is a cell of the ring.      *)
LEMMA CellType ==
    ASSUME NEW at \in 0 .. BUFF_MAX_LEN, NEW k \in Nat, k < BUFF_MAX_LEN
    PROVE  Cell(at, k) \in Cells
BY RingAssumption DEF Cell, Cells

(* Two cells at different distances from a pointer are different.          *)
LEMMA CellInjective ==
    ASSUME NEW at \in 0 .. BUFF_MAX_LEN,
           NEW j \in Nat, NEW k \in Nat, j < BUFF_MAX_LEN, k < BUFF_MAX_LEN,
           Cell(at, j) = Cell(at, k)
    PROVE  j = k
BY RingAssumption DEF Cell

(* WriteRingBuff and ReadRingBuff leave their pointer right after the last *)
(* byte they copied, and within the ring.                                  *)
LEMMA AdvanceCell ==
    ASSUME NEW at \in 0 .. BUFF_MAX_LEN, NEW n \in 0 .. BUFF_MAX_LEN
    PROVE  /\ Advance(at, n) \in 0 .. BUFF_MAX_LEN
           /\ SameCell(Advance(at, n), Cell(at, n))
BY RingAssumption DEF Advance, SameCell, Cell

(* What memcpy does to each cell.                                          *)
LEMMA MemcpyCells ==
    ASSUME NEW m \in [Cells -> Bytes], NEW at \in Nat, NEW s \in Seq(Bytes)
    PROVE  /\ memcpy(m, at, s) \in [Cells -> Bytes]
           /\ \A i \in Cells :
                memcpy(m, at, s)[i] =
                    IF i >= at /\ i < at + Len(s) THEN s[i - at + 1] ELSE m[i]
<1>1. \A i \in Cells : i \in Int
  BY RingAssumption DEF Cells
<1>2. Len(s) \in Nat
  OBVIOUS
<1>3. \A i \in Cells : i \in at .. (at + Len(s) - 1) <=> i >= at /\ i < at + Len(s)
  BY <1>1, <1>2
<1>4. \A i \in Cells : i >= at /\ i < at + Len(s) => s[i - at + 1] \in Bytes
  BY <1>1, <1>2
<1> QED
  BY <1>3, <1>4 DEF memcpy

(* CopyIn, whichever branch it takes, puts the k-th byte into the k-th     *)
(* cell and leaves the other cells as they were.                           *)
LEMMA CopyInCells ==
    ASSUME NEW m \in [Cells -> Bytes], NEW at \in 0 .. BUFF_MAX_LEN,
           NEW s \in Seq(Bytes), Len(s) <= BUFF_MAX_LEN
    PROVE  /\ CopyIn(m, at, s) \in [Cells -> Bytes]
           /\ \A k \in 1 .. Len(s) : CopyIn(m, at, s)[Cell(at, k - 1)] = s[k]
           /\ \A k \in (Len(s) + 1) .. BUFF_MAX_LEN :
                CopyIn(m, at, s)[Cell(at, k - 1)] = m[Cell(at, k - 1)]
<1> DEFINE pre   == BUFF_MAX_LEN - at
           first == SubSeq(s, 1, pre)
           last  == SubSeq(s, pre + 1, Len(s))
           mid   == memcpy(m, at, first)
<1>1. /\ BUFF_MAX_LEN \in Nat \ {0} /\ pre \in Nat /\ at \in Nat
      /\ Len(s) \in Nat
  BY RingAssumption
<1>2. \A k \in 1 .. BUFF_MAX_LEN : Cell(at, k - 1) \in Cells
  BY CellType, <1>1
<1>3. CASE at + Len(s) <= BUFF_MAX_LEN
  <2>1. CopyIn(m, at, s) = memcpy(m, at, s)
    BY <1>3, <1>1 DEF CopyIn
  <2>2. /\ memcpy(m, at, s) \in [Cells -> Bytes]
        /\ \A i \in Cells :
             memcpy(m, at, s)[i] =
                 IF i >= at /\ i < at + Len(s) THEN s[i - at + 1] ELSE m[i]
    BY <1>1, MemcpyCells
  <2>3. ASSUME NEW k \in 1 .. Len(s)
        PROVE  memcpy(m, at, s)[Cell(at, k - 1)] = s[k]
    <3>1. Cell(at, k - 1) = at + k - 1
      BY <1>1, <1>3 DEF Cell
    <3>2. Cell(at, k - 1) \in Cells
      BY <1>1, <1>2
    <3>3. /\ (at + k - 1) - at + 1 = k
          /\ at + k - 1 >= at /\ at + k - 1 < at + Len(s)
      BY <1>1
    <3> QED
      BY <3>1, <3>2, <3>3, <2>2
  <2>4. ASSUME NEW k \in (Len(s) + 1) .. BUFF_MAX_LEN
        PROVE  memcpy(m, at, s)[Cell(at, k - 1)] = m[Cell(at, k - 1)]
    <3>1. Cell(at, k - 1) \in Cells
      BY <1>1, <1>2
    <3>2. ~(Cell(at, k - 1) >= at /\ Cell(at, k - 1) < at + Len(s))
      BY <1>1, <1>3 DEF Cell
    <3> QED
      BY <3>1, <3>2, <2>2
  <2> QED
    BY <2>1, <2>2, <2>3, <2>4
<1>4. CASE at + Len(s) > BUFF_MAX_LEN
  <2>1. CopyIn(m, at, s) = memcpy(mid, 0, last)
    BY <1>4, <1>1 DEF CopyIn
  <2>2. /\ first \in Seq(Bytes) /\ Len(first) = pre
        /\ \A i \in 1 .. pre : first[i] = s[i]
    BY <1>1, <1>4, SubSeqProperties
  <2>3. /\ last \in Seq(Bytes) /\ Len(last) = Len(s) - pre
        /\ \A i \in 1 .. (Len(s) - pre) : last[i] = s[pre + i]
    <3>1. \A i \in (pre + 1) .. Len(s) : s[i] \in Bytes
      BY <1>1
    <3>2. Len(last) = Len(s) - pre
      BY <1>1, <1>4, SubSeqProperties
    <3>3. \A i \in 1 .. (Len(s) - pre) : last[i] = s[pre + i]
      BY <1>1, <1>4, SubSeqProperties
    <3>4. last \in Seq(Bytes)
      BY <1>1, <1>4, SubSeqProperties
    <3> QED
      BY <3>2, <3>3, <3>4
  <2> HIDE DEF first, last
  <2>4. /\ mid \in [Cells -> Bytes]
        /\ \A i \in Cells : mid[i] = IF i >= at THEN s[i - at + 1] ELSE m[i]
    <3>1. \A i \in Cells : i \in Nat /\ i < at + pre
      BY <1>1 DEF Cells
    <3>2. \A i \in Cells : i >= at => first[i - at + 1] = s[i - at + 1]
      BY <3>1, <2>2, <1>1
    <3>3. /\ mid \in [Cells -> Bytes]
          /\ \A i \in Cells :
               mid[i] = IF i >= at /\ i < at + Len(first)
                        THEN first[i - at + 1] ELSE m[i]
      BY <2>2, <1>1, MemcpyCells
    <3> QED
      BY <3>1, <3>2, <3>3, <2>2
  <2> HIDE DEF mid
  <2>5. /\ memcpy(mid, 0, last) \in [Cells -> Bytes]
        /\ \A i \in Cells :
             memcpy(mid, 0, last)[i] =
                IF i < Len(s) - pre THEN s[pre + i + 1] ELSE mid[i]
    <3>1. \A i \in Cells : i \in Nat
      BY <1>1 DEF Cells
    <3>2. \A i \in Cells : i < Len(s) - pre => last[i - 0 + 1] = s[pre + i + 1]
      BY <3>1, <2>3, <1>1
    <3>3. /\ memcpy(mid, 0, last) \in [Cells -> Bytes]
          /\ \A i \in Cells :
               memcpy(mid, 0, last)[i] =
                 IF i >= 0 /\ i < 0 + Len(last) THEN last[i - 0 + 1] ELSE mid[i]
      BY <2>4, <2>3, MemcpyCells
    <3> QED
      BY <3>1, <3>2, <3>3, <2>3, <1>1
  <2>6. \A k \in 1 .. Len(s) : memcpy(mid, 0, last)[Cell(at, k - 1)] = s[k]
    <3> SUFFICES ASSUME NEW k \in 1 .. Len(s)
                 PROVE  memcpy(mid, 0, last)[Cell(at, k - 1)] = s[k]
      OBVIOUS
    <3>1. Cell(at, k - 1) \in Cells
      BY <1>1, <1>2
    <3>2. CASE k <= pre
      <4>1. Cell(at, k - 1) = at + k - 1
        BY <3>2, <1>1 DEF Cell
      <4>2. ~(at + k - 1 < Len(s) - pre) /\ at + k - 1 >= at
        BY <3>2, <1>1
      <4>3. (at + k - 1) - at + 1 = k
        BY <1>1
      <4> QED
        BY <3>1, <4>1, <4>2, <4>3, <2>4, <2>5
    <3>3. CASE k > pre
      <4>1. Cell(at, k - 1) = k - 1 - pre
        BY <3>3, <1>1 DEF Cell
      <4>2. k - 1 - pre < Len(s) - pre /\ pre + (k - 1 - pre) + 1 = k
        BY <3>3, <1>1
      <4> QED
        BY <3>1, <4>1, <4>2, <2>5
    <3> QED
      BY <3>2, <3>3, <1>1
  <2>7. \A k \in (Len(s) + 1) .. BUFF_MAX_LEN :
            memcpy(mid, 0, last)[Cell(at, k - 1)] = m[Cell(at, k - 1)]
    <3> SUFFICES ASSUME NEW k \in (Len(s) + 1) .. BUFF_MAX_LEN
                 PROVE  memcpy(mid, 0, last)[Cell(at, k - 1)] = m[Cell(at, k - 1)]
      OBVIOUS
    <3>1. Cell(at, k - 1) \in Cells
      BY <1>1, <1>2
    <3>2. Cell(at, k - 1) = k - 1 - pre
      BY <1>1, <1>4 DEF Cell
    <3>3. ~(k - 1 - pre < Len(s) - pre) /\ ~(k - 1 - pre >= at)
      BY <1>1
    <3> QED
      BY <3>1, <3>2, <3>3, <2>4, <2>5
  <2> QED
    BY <2>1, <2>5, <2>6, <2>7
<1> QED
  BY <1>1, <1>3, <1>4

(* CopyOut, whichever branch it takes, delivers the cells in order.        *)
LEMMA CopyOutCells ==
    ASSUME NEW m \in [Cells -> Bytes], NEW at \in 0 .. BUFF_MAX_LEN,
           NEW n \in 0 .. BUFF_MAX_LEN
    PROVE  /\ CopyOut(m, at, n) \in Seq(Bytes)
           /\ Len(CopyOut(m, at, n)) = n
           /\ \A k \in 1 .. n : CopyOut(m, at, n)[k] = m[Cell(at, k - 1)]
<1> DEFINE pre == BUFF_MAX_LEN - at
<1>1. BUFF_MAX_LEN \in Nat \ {0} /\ pre \in Nat /\ at \in Nat /\ n \in Nat
  BY RingAssumption
<1>2. ASSUME NEW a \in Nat, NEW l \in Nat, a + l <= BUFF_MAX_LEN
      PROVE  /\ Slice(m, a, l) \in Seq(Bytes) /\ Len(Slice(m, a, l)) = l
             /\ \A k \in 1 .. l : Slice(m, a, l)[k] = m[a + k - 1]
  <2>1. \A k \in 1 .. l : m[a + k - 1] \in Bytes
    <3>1. \A k \in 1 .. l : a + k - 1 \in Cells
      BY <1>1, <1>2 DEF Cells
    <3> QED
      BY <3>1
  <2>2. Slice(m, a, l) \in [1 .. l -> Bytes]
    BY <2>1 DEF Slice
  <2> QED
    BY <2>2 DEF Slice
<1>3. CASE at + n <= BUFF_MAX_LEN
  <2>1. CopyOut(m, at, n) = Slice(m, at, n)
    BY <1>1, <1>3 DEF CopyOut
  <2>2. \A k \in 1 .. n : m[Cell(at, k - 1)] = m[at + k - 1]
    BY <1>1, <1>3 DEF Cell
  <2> QED
    BY <2>1, <2>2, <1>1, <1>2, <1>3
<1>4. CASE at + n > BUFF_MAX_LEN
  <2> DEFINE a == Slice(m, at, pre)
             b == Slice(m, 0, n - pre)
  <2>1. CopyOut(m, at, n) = a \o b
    BY <1>1, <1>4 DEF CopyOut
  <2>2. /\ a \in Seq(Bytes) /\ Len(a) = pre
        /\ \A k \in 1 .. pre : a[k] = m[at + k - 1]
    BY <1>1, <1>2
  <2>3. /\ b \in Seq(Bytes) /\ Len(b) = n - pre
        /\ \A k \in 1 .. (n - pre) : b[k] = m[0 + k - 1]
    <3>1. n - pre \in Nat /\ 0 + (n - pre) <= BUFF_MAX_LEN
      BY <1>1, <1>4
    <3> QED
      BY <3>1, <1>2
  <2> HIDE DEF a, b
  <2>4. /\ a \o b \in Seq(Bytes) /\ Len(a \o b) = n
        /\ \A k \in 1 .. n : (a \o b)[k] = IF k <= pre THEN a[k] ELSE b[k - pre]
    <3>1. /\ a \o b \in Seq(Bytes) /\ Len(a \o b) = Len(a) + Len(b)
          /\ \A k \in 1 .. Len(a) + Len(b) :
               (a \o b)[k] = IF k <= Len(a) THEN a[k] ELSE b[k - Len(a)]
      BY <2>2, <2>3, ConcatProperties
    <3>2. Len(a) + Len(b) = n
      BY <2>2, <2>3, <1>1
    <3> QED
      BY <3>1, <3>2, <2>2
  <2>5. \A k \in 1 .. n : (a \o b)[k] = m[Cell(at, k - 1)]
    <3> SUFFICES ASSUME NEW k \in 1 .. n
                 PROVE  (a \o b)[k] = m[Cell(at, k - 1)]
      OBVIOUS
    <3>1. CASE k <= pre
      <4>1. k \in 1 .. pre /\ Cell(at, k - 1) = at + k - 1
        BY <3>1, <1>1 DEF Cell
      <4> QED
        BY <4>1, <3>1, <2>2, <2>4
    <3>2. CASE k > pre
      <4>1. k - pre \in 1 .. (n - pre) /\ Cell(at, k - 1) = 0 + (k - pre) - 1
        BY <3>2, <1>1 DEF Cell
      <4>2. ~(k <= pre)
        BY <3>2, <1>1
      <4>3. b[k - pre] = m[0 + (k - pre) - 1]
        <5> HIDE DEF pre
        <5> QED
          BY <4>1, <2>3
      <4> QED
        BY <4>1, <4>2, <4>3, <2>4
    <3>3. k <= pre \/ k > pre
      BY <1>1
    <3> QED
      BY <3>1, <3>2, <3>3, Zenon
  <2> QED
    BY <2>1, <2>4, <2>5
<1> QED
  BY <1>1, <1>3, <1>4

(* The two ways in which two offsets are the same place in the ring.       *)
LEMMA SameCellCases ==
    ASSUME NEW a, NEW b
    PROVE  SameCell(a, b) <=> \/ a = b
                              \/ a = 0 /\ b = BUFF_MAX_LEN
                              \/ a = BUFF_MAX_LEN /\ b = 0
BY Zenon DEF SameCell

(* Being the same place in the ring is transitive.                         *)
LEMMA SameCellTrans ==
    ASSUME NEW a, NEW b, NEW c, SameCell(a, b), SameCell(b, c)
    PROVE  SameCell(a, c)
BY SameCellCases

(* The cells from the write pointer on are the cells after the unread      *)
(* bytes, also when one pointer stands at pTail and the other at pHead.    *)
LEMMA CellFromWrite ==
    ASSUME NEW r \in 0 .. BUFF_MAX_LEN, NEW w \in 0 .. BUFF_MAX_LEN,
           NEW l \in Nat, NEW k \in Nat, l + k <= BUFF_MAX_LEN,
           SameCell(w, Cell(r, l))
    PROVE  /\ k < BUFF_MAX_LEN /\ l + k < BUFF_MAX_LEN => Cell(w, k) = Cell(r, l + k)
           /\ SameCell(Cell(w, k), Cell(r, l + k))
<1>1. \/ w = Cell(r, l)
      \/ w = 0 /\ Cell(r, l) = BUFF_MAX_LEN
      \/ w = BUFF_MAX_LEN /\ Cell(r, l) = 0
  BY SameCellCases
<1>2. /\ k < BUFF_MAX_LEN /\ l + k < BUFF_MAX_LEN => Cell(w, k) = Cell(r, l + k)
      /\ \/ Cell(w, k) = Cell(r, l + k)
         \/ Cell(w, k) = 0 /\ Cell(r, l + k) = BUFF_MAX_LEN
         \/ Cell(w, k) = BUFF_MAX_LEN /\ Cell(r, l + k) = 0
  BY <1>1, RingAssumption DEF Cell
<1> QED
  BY <1>2, SameCellCases

(* The cells from the read pointer on, after a read of n bytes, are the    *)
(* cells n further on.                                                     *)
LEMMA CellFromRead ==
    ASSUME NEW r \in 0 .. BUFF_MAX_LEN, NEW n \in 0 .. BUFF_MAX_LEN,
           NEW k \in Nat, n + k <= BUFF_MAX_LEN
    PROVE  /\ n + k < BUFF_MAX_LEN => Cell(Advance(r, n), k) = Cell(r, n + k)
           /\ SameCell(Cell(r, n + k), Cell(Advance(r, n), k))
BY RingAssumption DEF Cell, SameCell, Advance

----------------------------------------------------------------------------
(* One lemma per operation that moves bytes.                               *)

(* What a payload is: a byte sequence, with its length.                    *)
LEMMA PayloadType ==
    ASSUME NEW s \in Payloads
    PROVE  s \in Seq(Bytes)
BY RingAssumption DEF Payloads

(* A write that fits extends the unread bytes; the cells of the others are *)
(* not touched because the written ones come after them.                   *)
LEMMA WriteKeepsRingInv ==
    ASSUME RingInv, NEW s \in Payloads, WriteRingBuff(s)
    PROVE  RingInv'
<1>1. /\ s \in Seq(Bytes) /\ Len(s) \in Nat /\ Len(s) <= BUFF_MAX_LEN
      /\ BUFF_MAX_LEN \in Nat \ {0}
  BY PayloadType, RingAssumption DEF WriteRingBuff
<1>2. /\ mem \in [Cells -> Bytes] /\ unread \in Seq(Bytes)
      /\ pValidRead \in 0 .. BUFF_MAX_LEN /\ pValidWrite \in 0 .. BUFF_MAX_LEN
      /\ Len(unread) \in Nat
  BY DEF RingInv, RingTypes
<1>3. /\ mem' \in [Cells -> Bytes]
      /\ \A k \in 1 .. Len(s) : mem'[Cell(pValidWrite, k - 1)] = s[k]
      /\ \A k \in (Len(s) + 1) .. BUFF_MAX_LEN :
            mem'[Cell(pValidWrite, k - 1)] = mem[Cell(pValidWrite, k - 1)]
  BY <1>1, <1>2, CopyInCells DEF WriteRingBuff
<1>4. /\ pValidWrite' \in 0 .. BUFF_MAX_LEN
      /\ SameCell(pValidWrite', Cell(pValidWrite, Len(s)))
  BY <1>1, <1>2, AdvanceCell DEF WriteRingBuff
<1>5. RingTypes'
  <2>1. /\ sound' = (sound /\ Len(unread) + Len(s) <= BUFF_MAX_LEN)
        /\ unread' = IF sound' THEN unread \o s ELSE <<>>
    BY DEF WriteRingBuff, Owe
  <2>2. unread' \in Seq(Bytes)
    BY <2>1, <1>1, <1>2
  <2> QED
    BY <2>1, <2>2, <1>3, <1>4 DEF WriteRingBuff, RingInv, RingTypes
<1>6. Fifo'
  <2> SUFFICES ASSUME sound'
               PROVE  /\ Len(unread') <= BUFF_MAX_LEN
                      /\ \A k \in 1 .. Len(unread') :
                            mem'[Cell(pValidRead', k - 1)] = unread'[k]
                      /\ SameCell(pValidWrite', Cell(pValidRead', Len(unread')))
    BY DEF Fifo, Cell, SameCell
  <2> DEFINE l == Len(unread)
  <2>1. /\ sound /\ l + Len(s) <= BUFF_MAX_LEN
        /\ unread' = unread \o s /\ pValidRead' = pValidRead
    BY DEF WriteRingBuff, Owe
  <2>2. /\ Len(unread') = l + Len(s)
        /\ \A k \in 1 .. (l + Len(s)) :
             unread'[k] = IF k <= l THEN unread[k] ELSE s[k - l]
    BY <2>1, <1>1, <1>2, ConcatProperties
  <2>3. /\ \A k \in 1 .. l : mem[Cell(pValidRead, k - 1)] = unread[k]
        /\ SameCell(pValidWrite, Cell(pValidRead, l))
    BY <2>1 DEF RingInv, Fifo
  <2> HIDE DEF l
  <2>4. l \in Nat /\ l <= BUFF_MAX_LEN
    BY <2>1, <1>1, <1>2 DEF l
  <2>5. ASSUME NEW k \in (l + 1) .. (l + Len(s))
        PROVE  mem'[Cell(pValidRead, k - 1)] = unread'[k]
    <3>1. /\ k - l \in 1 .. Len(s) /\ k \in 1 .. (l + Len(s)) /\ ~(k <= l)
          /\ (k - l) - 1 \in Nat /\ l + ((k - l) - 1) = k - 1
          /\ k - 1 < BUFF_MAX_LEN /\ (k - l) - 1 < BUFF_MAX_LEN
      BY <2>1, <2>4, <1>1
    <3>2. Cell(pValidWrite, (k - l) - 1) = Cell(pValidRead, l + ((k - l) - 1))
      BY <3>1, <2>1, <2>3, <2>4, <1>1, <1>2, CellFromWrite
    <3>3. mem'[Cell(pValidWrite, (k - l) - 1)] = s[k - l]
      BY <3>1, <1>3
    <3> QED
      BY <3>1, <3>2, <3>3, <2>2
  <2>6. ASSUME NEW k \in 1 .. l
        PROVE  mem'[Cell(pValidRead, k - 1)] = unread'[k]
    <3> DEFINE j == BUFF_MAX_LEN - l + k
    <3>1. Cell(pValidWrite, j - 1) = Cell(pValidRead, k - 1)
      <4>1. \/ pValidWrite = Cell(pValidRead, l)
            \/ pValidWrite = 0 /\ Cell(pValidRead, l) = BUFF_MAX_LEN
            \/ pValidWrite = BUFF_MAX_LEN /\ Cell(pValidRead, l) = 0
        BY <2>3, SameCellCases
      <4> QED
        BY <4>1, <2>4, <1>1, <1>2 DEF Cell
    <3>2. j \in (Len(s) + 1) .. BUFF_MAX_LEN
      BY <2>1, <2>4, <1>1
    <3>3. mem'[Cell(pValidWrite, j - 1)] = mem[Cell(pValidWrite, j - 1)]
      BY <3>2, <1>3
    <3>4. k \in 1 .. (l + Len(s)) /\ k <= l
      BY <2>4, <1>1
    <3> QED
      BY <3>1, <3>3, <3>4, <2>2, <2>3
  <2>7. \A k \in 1 .. (l + Len(s)) : k \in 1 .. l \/ k \in (l + 1) .. (l + Len(s))
    BY <2>4, <1>1
  <2>8. SameCell(pValidWrite', Cell(pValidRead, l + Len(s)))
    BY <1>1, <1>2, <1>4, <2>1, <2>3, <2>4, CellFromWrite, SameCellTrans
  <2> QED
    BY <2>1, <2>2, <2>5, <2>6, <2>7, <2>8
<1> QED
  BY <1>5, <1>6 DEF RingInv

(* A read of what is there delivers the oldest unread bytes.               *)
LEMMA CopyOutUnread ==
    ASSUME RingInv, sound, NEW n \in Nat, n <= Len(unread)
    PROVE  /\ n <= BUFF_MAX_LEN
           /\ CopyOut(mem, pValidRead, n) = SubSeq(unread, 1, n)
           /\ \A k \in 1 .. n : CopyOut(mem, pValidRead, n)[k] = unread[k]
<1>1. /\ BUFF_MAX_LEN \in Nat \ {0} /\ mem \in [Cells -> Bytes]
      /\ pValidRead \in 0 .. BUFF_MAX_LEN /\ unread \in Seq(Bytes)
      /\ Len(unread) \in Nat /\ Len(unread) <= BUFF_MAX_LEN
      /\ \A k \in 1 .. Len(unread) : mem[Cell(pValidRead, k - 1)] = unread[k]
  BY RingAssumption DEF RingInv, RingTypes, Fifo
<1>2. n \in 0 .. BUFF_MAX_LEN
  BY <1>1
<1> DEFINE out == CopyOut(mem, pValidRead, n)
<1>3. /\ out \in Seq(Bytes) /\ Len(out) = n
      /\ \A k \in 1 .. n : out[k] = mem[Cell(pValidRead, k - 1)]
  BY <1>1, <1>2, CopyOutCells
<1> HIDE DEF out
<1>4. \A k \in 1 .. n : out[k] = unread[k]
  BY <1>1, <1>3
<1>5. /\ SubSeq(unread, 1, n) \in Seq(Bytes) /\ Len(SubSeq(unread, 1, n)) = n
      /\ \A k \in 1 .. n : SubSeq(unread, 1, n)[k] = unread[k]
  BY <1>1, <1>2
<1>6. out = SubSeq(unread, 1, n)
  BY <1>3, <1>4, <1>5, SeqEqual
<1> QED
  BY <1>2, <1>4, <1>6 DEF out

(* A read moves the read pointer over the bytes it delivers.               *)
LEMMA ReadKeepsRingInv ==
    ASSUME RingInv, NEW len \in Lengths, ReadRingBuff(len)
    PROVE  RingInv'
<1>1. /\ len \in Nat /\ len \in 0 .. BUFF_MAX_LEN /\ BUFF_MAX_LEN \in Nat \ {0}
      /\ mem \in [Cells -> Bytes] /\ unread \in Seq(Bytes)
      /\ pValidRead \in 0 .. BUFF_MAX_LEN /\ pValidWrite \in 0 .. BUFF_MAX_LEN
      /\ Len(unread) \in Nat
  BY RingAssumption DEF RingInv, RingTypes, ReadRingBuff, Lengths
<1>2. pBuff' \in Seq(Bytes)
  BY <1>1, CopyOutCells DEF ReadRingBuff
<1>3. pValidRead' = Advance(pValidRead, len) /\ pValidRead' \in 0 .. BUFF_MAX_LEN
  BY <1>1, AdvanceCell DEF ReadRingBuff
<1>4. CASE sound'
  <2> DEFINE l == Len(unread) - len
  <2>1. /\ sound /\ len <= Len(unread)
        /\ unread' = SubSeq(unread, len + 1, Len(unread))
        /\ mem' = mem /\ pValidWrite' = pValidWrite
    BY <1>4 DEF ReadRingBuff
  <2>2. /\ unread' \in Seq(Bytes) /\ Len(unread') = l
        /\ \A k \in 1 .. l : unread'[k] = unread[len + k]
    BY <2>1, <1>1, SubSeqProperties
  <2>3. /\ Len(unread) <= BUFF_MAX_LEN
        /\ \A k \in 1 .. Len(unread) : mem[Cell(pValidRead, k - 1)] = unread[k]
        /\ SameCell(pValidWrite, Cell(pValidRead, Len(unread)))
    BY <2>1 DEF RingInv, Fifo
  <2>4. l \in Nat /\ len + l = Len(unread)
    BY <2>1, <1>1
  <2> HIDE DEF l
  <2>5. ASSUME NEW k \in 1 .. l
        PROVE  mem[Cell(pValidRead', k - 1)] = unread'[k]
    <3>1. /\ k - 1 \in Nat /\ len + (k - 1) = (len + k) - 1
          /\ len + (k - 1) < BUFF_MAX_LEN /\ len + k \in 1 .. Len(unread)
      BY <2>3, <2>4, <1>1
    <3>2. Cell(pValidRead', k - 1) = Cell(pValidRead, (len + k) - 1)
      BY <3>1, <1>1, <1>3, CellFromRead
    <3> QED
      BY <3>1, <3>2, <2>2, <2>3
  <2>6. SameCell(pValidWrite, Cell(pValidRead', l))
    <3>1. SameCell(Cell(pValidRead, Len(unread)), Cell(pValidRead', l))
      BY <2>3, <2>4, <1>1, <1>3, CellFromRead
    <3> QED
      BY <3>1, <2>3, SameCellTrans
  <2>7. l <= BUFF_MAX_LEN
    BY <2>3, <2>4, <1>1
  <2>8. Fifo'
    <3>1. /\ Len(unread') <= BUFF_MAX_LEN
          /\ \A k \in 1 .. Len(unread') :
                mem'[Cell(pValidRead', k - 1)] = unread'[k]
          /\ SameCell(pValidWrite', Cell(pValidRead', Len(unread')))
      BY <2>1, <2>2, <2>5, <2>6, <2>7
    <3> QED
      BY <3>1 DEF Fifo, Cell, SameCell
  <2>9. RingTypes'
    BY <1>2, <1>3, <1>4, <2>2 DEF RingInv, RingTypes, ReadRingBuff
  <2> QED
    BY <2>8, <2>9 DEF RingInv
<1>5. CASE ~sound'
  BY <1>2, <1>3, <1>5 DEF RingInv, RingTypes, ReadRingBuff, Fifo
<1> QED
  BY <1>4, <1>5

(* What the app reads into tmp are bytes; the ring stays as it is.         *)
LEMMA AppReadKeepsRingInv ==
    ASSUME RingInv, NEW len \in Lengths, len <= Len(unread), readBuffer(len)
    PROVE  RingInv'
<1>1. sound
  <2>1. len # 0 /\ len \in Nat
    BY RingAssumption DEF readBuffer, Lengths
  <2>2. unread # <<>>
    BY <2>1
  <2> QED
    BY <2>2 DEF RingInv, RingTypes
<1>2. /\ len \in Nat /\ TmpLen \in Nat /\ unread \in Seq(Bytes)
      /\ tmp \in [1 .. TmpLen -> Bytes]
  BY RingAssumption DEF RingInv, RingTypes, Lengths
<1>3. \A k \in 1 .. len : CopyOut(mem, pValidRead, len)[k] = unread[k]
  BY <1>1, <1>2, CopyOutUnread
<1>4. \A k \in 1 .. len : CopyOut(mem, pValidRead, len)[k] \in Bytes
  BY <1>2, <1>3
<1>5. tmp' \in [1 .. TmpLen -> Bytes]
  BY <1>2, <1>4 DEF readBuffer
<1> QED
  BY <1>5 DEF RingInv, RingTypes, Fifo, readBuffer, hostVars

(* The app's reply takes the place of the bytes it has read.               *)
LEMMA AppWriteKeepsRingInv ==
    ASSUME RingInv, NEW len \in Lengths, len <= Len(unread), writeBuffer(len)
    PROVE  RingInv'
<1>1. /\ len \in Nat /\ len # 0 /\ TmpLen \in Nat /\ BUFF_MAX_LEN \in Nat \ {0}
      /\ mem \in [Cells -> Bytes] /\ unread \in Seq(Bytes) /\ Len(unread) \in Nat
      /\ tmp \in [1 .. TmpLen -> Bytes]
      /\ pValidRead \in 0 .. BUFF_MAX_LEN /\ pValidWrite \in 0 .. BUFF_MAX_LEN
  BY RingAssumption DEF RingInv, RingTypes, Lengths, writeBuffer
<1>2. CASE len > TmpLen \/ ~held
  BY <1>2 DEF RingInv, RingTypes, Fifo, writeBuffer, hostVars
<1>3. CASE ~(len > TmpLen \/ ~held)
  <2> DEFINE s == SubSeq(tmp, 1, len)
             rest == SubSeq(unread, len + 1, Len(unread))
  <2>1. /\ mem' = CopyIn(mem, pValidRead, s) /\ unread' = s \o rest
        /\ pValidRead' = pValidRead /\ pValidWrite' = pValidWrite
        /\ sound' = sound
    BY <1>3 DEF writeBuffer, hostVars
  <2>2. sound
    <3>1. unread # <<>>
      BY <1>1
    <3> QED
      BY <3>1 DEF RingInv, RingTypes
  <2>3. /\ Len(unread) <= BUFF_MAX_LEN
        /\ \A k \in 1 .. Len(unread) : mem[Cell(pValidRead, k - 1)] = unread[k]
        /\ SameCell(pValidWrite, Cell(pValidRead, Len(unread)))
    BY <2>2 DEF RingInv, Fifo
  <2>4. s \in Seq(Bytes) /\ Len(s) = len
    <3>1. \A i \in 1 .. len : tmp[i] \in Bytes
      BY <1>1, <1>3
    <3> QED
      BY <3>1, <1>1, SubSeqProperties
  <2>5. /\ rest \in Seq(Bytes) /\ Len(rest) = Len(unread) - len
        /\ \A k \in 1 .. (Len(unread) - len) : rest[k] = unread[len + k]
    BY <1>1, SubSeqProperties
  <2> HIDE DEF s, rest
  <2>6. /\ unread' \in Seq(Bytes) /\ Len(unread') = Len(unread)
        /\ \A k \in 1 .. Len(unread) :
             unread'[k] = IF k <= len THEN s[k] ELSE unread[k]
    <3>1. /\ s \o rest \in Seq(Bytes) /\ Len(s \o rest) = Len(s) + Len(rest)
          /\ \A k \in 1 .. Len(s) + Len(rest) :
               (s \o rest)[k] = IF k <= Len(s) THEN s[k] ELSE rest[k - Len(s)]
      BY <2>4, <2>5, ConcatProperties
    <3>2. Len(s) + Len(rest) = Len(unread)
      BY <2>4, <2>5, <1>1
    <3>3. ASSUME NEW k \in 1 .. Len(unread), ~(k <= len)
          PROVE  rest[k - len] = unread[k]
      <4>1. k - len \in 1 .. (Len(unread) - len) /\ len + (k - len) = k
        BY <3>3, <1>1
      <4> QED
        BY <4>1, <2>5
    <3>4. \A k \in 1 .. Len(unread) :
             (s \o rest)[k] = IF k <= len THEN s[k] ELSE rest[k - len]
      BY <3>1, <3>2, <2>4
    <3> QED
      BY <3>1, <3>2, <3>3, <3>4, <2>1
  <2>7. /\ mem' \in [Cells -> Bytes]
        /\ \A k \in 1 .. len : mem'[Cell(pValidRead, k - 1)] = s[k]
        /\ \A k \in (len + 1) .. BUFF_MAX_LEN :
              mem'[Cell(pValidRead, k - 1)] = mem[Cell(pValidRead, k - 1)]
    <3>1. Len(s) <= BUFF_MAX_LEN
      BY <2>3, <2>4, <1>1
    <3>2. /\ CopyIn(mem, pValidRead, s) \in [Cells -> Bytes]
          /\ \A k \in 1 .. Len(s) :
                CopyIn(mem, pValidRead, s)[Cell(pValidRead, k - 1)] = s[k]
          /\ \A k \in (Len(s) + 1) .. BUFF_MAX_LEN :
                CopyIn(mem, pValidRead, s)[Cell(pValidRead, k - 1)]
                    = mem[Cell(pValidRead, k - 1)]
      BY <3>1, <2>4, <1>1, CopyInCells
    <3> QED
      BY <3>2, <2>1, <2>4
  <2>8. \A k \in 1 .. Len(unread) : mem'[Cell(pValidRead, k - 1)] = unread'[k]
    <3> SUFFICES ASSUME NEW k \in 1 .. Len(unread)
                 PROVE  mem'[Cell(pValidRead, k - 1)] = unread'[k]
      OBVIOUS
    <3>1. CASE k <= len
      <4>1. k \in 1 .. len
        BY <3>1, <1>1
      <4> QED
        BY <4>1, <3>1, <2>6, <2>7
    <3>2. CASE ~(k <= len)
      <4>1. k \in (len + 1) .. BUFF_MAX_LEN
        BY <3>2, <1>1, <2>3
      <4> QED
        BY <4>1, <3>2, <2>3, <2>6, <2>7
    <3> QED
      BY <3>1, <3>2
  <2>9. Fifo'
    <3>1. /\ Len(unread') <= BUFF_MAX_LEN
          /\ \A k \in 1 .. Len(unread') :
                mem'[Cell(pValidRead', k - 1)] = unread'[k]
          /\ SameCell(pValidWrite', Cell(pValidRead', Len(unread')))
      BY <2>1, <2>3, <2>6, <2>8
    <3> QED
      BY <3>1 DEF Fifo, Cell, SameCell
  <2>10. RingTypes'
    BY <1>3, <2>2, <2>6, <2>7 DEF RingInv, RingTypes, writeBuffer, hostVars
  <2> QED
    BY <2>9, <2>10 DEF RingInv
<1> QED
  BY <1>2, <1>3

----------------------------------------------------------------------------
(* The theorems *)

(* Every call of the host and of the app keeps the inductive invariant.    *)
LEMMA RingStep == RingInv /\ [Next]_vars => RingInv'
<1> SUFFICES ASSUME RingInv, [Next]_vars
             PROVE  RingInv'
  OBVIOUS
<1>1. CASE InitRingBuff
  <2>1. \A i \in Cells : mem'[i] \in Bytes
    BY <1>1, RingAssumption DEF InitRingBuff, RingInv, RingTypes
  <2>2. mem' \in [Cells -> Bytes]
    BY <1>1, <2>1 DEF InitRingBuff
  <2>3. Cell(0, 0) = 0 /\ 0 \in 0 .. BUFF_MAX_LEN
    BY RingAssumption DEF Cell
  <2>4. SameCell(0, Cell(0, 0))
    BY <2>3 DEF SameCell
  <2>5. unread' = <<>> /\ Len(unread') = 0 /\ pValidRead' = 0 /\ pValidWrite' = 0
    BY <1>1 DEF InitRingBuff
  <2>6. Fifo'
    <3>1. /\ Len(unread') <= BUFF_MAX_LEN
          /\ \A k \in 1 .. Len(unread') :
                mem'[Cell(pValidRead', k - 1)] = unread'[k]
          /\ SameCell(pValidWrite', Cell(pValidRead', Len(unread')))
      BY <2>4, <2>5, RingAssumption
    <3> QED
      BY <3>1 DEF Fifo, Cell, SameCell
  <2>7. RingTypes'
    <3>1. unread' \in Seq(Bytes)
      BY <2>5
    <3> QED
      BY <1>1, <2>2, <2>3, <2>5, <3>1 DEF InitRingBuff, RingInv, RingTypes
  <2> QED
    BY <2>6, <2>7 DEF RingInv
<1>2. CASE FreeRingBuff
  BY <1>2 DEF FreeRingBuff, RingInv, RingTypes, Fifo
<1>3. ASSUME NEW s \in Payloads, WriteRingBuff(s) PROVE RingInv'
  BY <1>3, WriteKeepsRingInv
<1>4. ASSUME NEW len \in Lengths, ReadRingBuff(len) PROVE RingInv'
  BY <1>4, ReadKeepsRingInv
<1>5. CASE init_ringbuffer
  BY <1>5 DEF init_ringbuffer, hostVars, RingInv, RingTypes, Fifo
<1>6. ASSUME NEW len \in Lengths, len <= Len(unread), readBuffer(len) PROVE RingInv'
  BY <1>6, AppReadKeepsRingInv
<1>7. ASSUME NEW len \in Lengths, len <= Len(unread), writeBuffer(len) PROVE RingInv'
  BY <1>7, AppWriteKeepsRingInv
<1>8. ASSUME NEW len \in Lengths, Refused(len) PROVE RingInv'
  BY <1>8 DEF Refused, vars, RingInv, RingTypes, Fifo
<1>9. CASE UNCHANGED vars
  BY <1>9 DEF vars, RingInv, RingTypes, Fifo
<1> QED
  BY <1>1, <1>2, <1>3, <1>4, <1>5, <1>6, <1>7, <1>8, <1>9 DEF Next

(* The ring starts empty, wherever it will be allocated.                   *)
LEMMA RingStart == Init => RingInv
<1> SUFFICES ASSUME Init
             PROVE  RingInv
  OBVIOUS
<1>1. RingTypes
  <2>1. tmp \in [1 .. TmpLen -> Bytes] /\ pBuff \in Seq(Bytes) /\ unread \in Seq(Bytes)
    BY RingAssumption DEF Init
  <2>2. pValidRead \in 0 .. BUFF_MAX_LEN /\ pValidWrite \in 0 .. BUFF_MAX_LEN
    BY RingAssumption DEF Init
  <2> QED
    BY <2>1, <2>2, Zenon DEF Init, RingTypes
<1>2. Len(unread) = 0 /\ pValidRead = 0 /\ pValidWrite = 0
  BY DEF Init
<1>3. Cell(0, 0) = 0
  BY RingAssumption DEF Cell
<1>4. Fifo
  BY <1>2, <1>3, RingAssumption DEF Fifo, SameCell
<1> QED
  BY <1>1, <1>4 DEF RingInv

(* The inductive invariant holds throughout.                               *)
THEOREM RingInvariant == Spec => []RingInv
BY RingStart, RingStep, PTL DEF Spec

(* For every size of the ring and of the app's scratch buffer: as long as  *)
(* no caller of WriteRingBuff or ReadRingBuff has asked for more than the  *)
(* ring can give, the bytes from pValidRead on are the unread ones in the  *)
(* order of their writing, and pValidWrite comes right after them.         *)
THEOREM FifoHolds == Spec => []Fifo
<1>1. RingInv => Fifo
  BY DEF RingInv
<1> QED
  BY <1>1, RingInvariant, PTL

(* Each call, seen on the unread bytes, tmp and pBuff only, is a step of   *)
(* the bounded queue.                                                      *)
LEMMA QueueStep ==
    RingInv /\ [Next]_vars
        => [sound' /\ ~undefined' => Queue!Next]_<<unread, tmp, pBuff>>
<1> SUFFICES ASSUME RingInv, [Next]_vars, sound', ~undefined'
             PROVE  Queue!Next \/ UNCHANGED <<unread, tmp, pBuff>>
  OBVIOUS
<1> USE DEF Queue!Next
<1>0. /\ BUFF_MAX_LEN \in Nat \ {0} /\ TmpLen \in Nat
      /\ unread \in Seq(Bytes) /\ tmp \in [1 .. TmpLen -> Bytes]
      /\ Len(unread) \in Nat
  BY RingAssumption DEF RingInv, RingTypes
<1>1. CASE InitRingBuff
  BY <1>1 DEF InitRingBuff, Queue!Reset
<1>2. CASE FreeRingBuff
  BY <1>2 DEF FreeRingBuff
<1>3. ASSUME NEW s \in Payloads, WriteRingBuff(s)
      PROVE  Queue!Next
  <2>1. s \in Seq(Bytes) /\ Len(s) \in 0 .. BUFF_MAX_LEN
    BY <1>0, <1>3, PayloadType DEF WriteRingBuff
  <2>2. s \in [1 .. Len(s) -> Bytes]
    BY <2>1
  <2>3. s \in Queue!Payloads
    BY <2>1, <2>2 DEF Queue!Payloads
  <2>4. Queue!Push(s)
    BY <1>3 DEF WriteRingBuff, Owe, Queue!Push
  <2> QED
    BY <2>3, <2>4
<1>4. ASSUME NEW len \in Lengths, ReadRingBuff(len)
      PROVE  Queue!Next
  <2>1. sound /\ len <= Len(unread) /\ len \in Nat /\ len \in 0 .. BUFF_MAX_LEN
    <3>1. sound /\ len <= Len(unread)
      BY <1>4, Zenon DEF ReadRingBuff
    <3>2. len \in Nat /\ len \in 0 .. BUFF_MAX_LEN
      BY <1>0, <1>4 DEF ReadRingBuff, Lengths
    <3> QED
      BY <3>1, <3>2
  <2>2. CopyOut(mem, pValidRead, len) = SubSeq(unread, 1, len)
    BY <2>1, CopyOutUnread
  <2>3. Queue!Pop(len)
    BY <1>4, <2>1, <2>2 DEF ReadRingBuff, Queue!Pop, Queue!Front, Queue!Rest
  <2> QED
    BY <2>1, <2>3
<1>5. CASE init_ringbuffer
  BY <1>5 DEF init_ringbuffer, hostVars
<1>6. ASSUME NEW len \in Lengths, len <= Len(unread), readBuffer(len)
      PROVE  Queue!Next
  <2>1. sound /\ len \in Nat /\ ~(len > TmpLen) /\ UNCHANGED <<unread, pBuff>>
    <3>1. sound /\ ~(len > TmpLen)
      BY <1>6, Zenon DEF readBuffer
    <3>2. len \in Nat /\ UNCHANGED <<unread, pBuff>>
      BY <1>0, <1>6 DEF readBuffer, Lengths, hostVars
    <3> QED
      BY <3>1, <3>2
  <2>2. /\ len <= BUFF_MAX_LEN
        /\ \A k \in 1 .. len : CopyOut(mem, pValidRead, len)[k] = unread[k]
    BY <1>6, <2>1, CopyOutUnread
  <2>3. \A i \in 1 .. TmpLen : i <= len => i \in 1 .. len
    BY <1>0, <2>1
  <2>4. tmp' = [i \in 1 .. TmpLen |-> IF i <= len THEN unread[i] ELSE tmp[i]]
    BY <1>6, <2>2, <2>3 DEF readBuffer
  <2>5. Queue!Peek(len)
    BY <1>0, <1>6, <2>1, <2>4 DEF Queue!Peek
  <2>6. len \in 0 .. BUFF_MAX_LEN
    BY <1>0, <2>1, <2>2
  <2> QED
    BY <2>5, <2>6
<1>7. ASSUME NEW len \in Lengths, len <= Len(unread), writeBuffer(len)
      PROVE  Queue!Next
  <2>1. /\ sound /\ len \in Nat /\ ~(len > TmpLen)
        /\ unread' = SubSeq(tmp, 1, len) \o SubSeq(unread, len + 1, Len(unread))
        /\ UNCHANGED <<tmp, pBuff>>
    <3>1. /\ sound /\ ~(len > TmpLen)
          /\ unread' = SubSeq(tmp, 1, len) \o SubSeq(unread, len + 1, Len(unread))
      BY <1>7, Zenon DEF writeBuffer
    <3>2. len \in Nat /\ UNCHANGED <<tmp, pBuff>>
      BY <1>0, <1>7 DEF writeBuffer, Lengths, hostVars
    <3> QED
      BY <3>1, <3>2
  <2>2. len <= BUFF_MAX_LEN
    BY <1>7, <2>1, CopyOutUnread
  <2>3. Queue!Poke(len)
    BY <1>0, <1>7, <2>1 DEF Queue!Poke, Queue!Rest
  <2>4. len \in 0 .. BUFF_MAX_LEN
    BY <1>0, <2>1, <2>2
  <2> QED
    BY <2>3, <2>4
<1>8. ASSUME NEW len \in Lengths, Refused(len)
      PROVE  UNCHANGED <<unread, tmp, pBuff>>
  BY <1>8 DEF Refused, vars
<1>9. CASE UNCHANGED vars
  BY <1>9 DEF vars
<1> HIDE DEF Queue!Next
<1> QED
  BY <1>1, <1>2, <1>3, <1>4, <1>5, <1>6, <1>7, <1>8, <1>9 DEF Next

(* For every size of the ring and of the scratch buffer: while the callers *)
(* keep to the rules, WriteRingBuff pushes, ReadRingBuff pops the oldest   *)
(* bytes, readBuffer shows the app the next ones and writeBuffer replaces  *)
(* them, exactly as in a bounded queue.                                    *)
THEOREM QueueStepsHold == Spec => QueueSteps
<1>1. Init => Queue!Init
  BY RingAssumption DEF Init, Queue!Init, Queue!Scratch
<1> QED
  BY <1>1, RingInvariant, QueueStep, PTL DEF Spec, QueueSteps
============================================================================
