-------------------------- MODULE AtomicWaitProofs --------------------------
(***************************************************************************)
(* WaiterFindable and NoLostWakeup of AtomicWait, for any number of        *)
(* threads, addresses, wait infos and values.                              *)
(*                                                                         *)
(* A thread keeps the pointer to its wait info across the two locks.  The  *)
(* inductive invariant says what the pointer is worth: it is the one that  *)
(* wait_map has for the address, or it dangles, and the latter only where  *)
(* the thread has no node in the list (Pointers).  That no two addresses   *)
(* share an info makes the lists disjoint.                                 *)
(***************************************************************************)
EXTENDS AtomicWait, SequenceTheorems, TLAPS

Calls ==
    [pc : {"idle", "stored", "enlist", "sleep", "asleep", "delist", "release", "notify"},
     address : Addrs \cup {NULL}, wait_info : Infos \cup {NULL, DANGLING},
     expect : Values \cup {NULL}, forever : BOOLEAN, count : Nat,
     status : {"none", "S_WAITING", "S_NOTIFIED"}, ret : {"none", "ok", "timed out"}]

WaitTypes ==
    /\ word \in [Addrs -> Values]
    /\ wait_map \in [Addrs -> Infos \cup {NULL}]
    /\ wait_list \in [Infos -> Seq(Threads)]
    /\ call \in [Threads -> Calls]
    /\ undefined \in BOOLEAN

(* The steps of a call at which its thread has a node in a list.           *)
Waiting == {"sleep", "asleep", "delist"}

(* The pointers to wait infos.                                             *)
Pointers ==
    ~undefined =>
        /\ \A t \in Threads : call[t].pc = "stored" => call[t].address \in Addrs
        /\ \A t \in Threads : call[t].pc \in {"idle", "stored"} =>
                call[t].wait_info = NULL
        /\ \A t \in Threads : call[t].pc \notin {"idle", "stored"} =>
                /\ call[t].address \in Addrs
                /\ \/ call[t].wait_info = DANGLING
                   \/ /\ call[t].wait_info \in Infos
                      /\ call[t].wait_info = wait_map[call[t].address]
        /\ \A a, b \in Addrs : wait_map[a] = wait_map[b] /\ wait_map[a] # NULL => a = b

(* The inductive invariant.                                                *)
WaitInv == WaitTypes /\ Pointers /\ WaiterFindable /\ NoLostWakeup

----------------------------------------------------------------------------
(* Lists *)

(* The nodes after a new one was put in front.                             *)
LEMMA PushFront ==
    ASSUME NEW list \in Seq(Threads), NEW t \in Threads
    PROVE  /\ <<t>> \o list \in Seq(Threads)
           /\ Len(<<t>> \o list) = Len(list) + 1
           /\ (<<t>> \o list)[1] = t
           /\ \A k \in 2 .. (Len(list) + 1) : (<<t>> \o list)[k] = list[k - 1]
<1>1. <<t>> \in Seq(Threads) /\ Len(<<t>>) = 1 /\ <<t>>[1] = t /\ Len(list) \in Nat
  OBVIOUS
<1>2. /\ <<t>> \o list \in Seq(Threads)
      /\ Len(<<t>> \o list) = Len(<<t>>) + Len(list)
      /\ \A i \in 1 .. Len(<<t>>) + Len(list) :
            (<<t>> \o list)[i] = IF i <= Len(<<t>>) THEN <<t>>[i] ELSE list[i - Len(<<t>>)]
  BY <1>1, ConcatProperties
<1> QED
  BY <1>1, <1>2

(* What bh_list_remove leaves of a list that has the node once: the nodes  *)
(* before it and the nodes after it.                                       *)
LEMMA RemoveNode ==
    ASSUME NEW list \in Seq(Threads), NEW t \in Threads, Contains(list, t),
           \A j, k \in 1 .. Len(list) : list[j] = list[k] => j = k
    PROVE  LET rest == RemoveFirst(list, t)
           IN  /\ rest \in Seq(Threads)
               /\ \A k \in 1 .. Len(rest) : \E j \in 1 .. Len(list) :
                        rest[k] = list[j] /\ list[j] # t
               /\ \A j \in 1 .. Len(list) : list[j] # t =>
                        \E k \in 1 .. Len(rest) : rest[k] = list[j]
               /\ \A j, k \in 1 .. Len(rest) : rest[j] = rest[k] => j = k
<1>1. PICK n \in 1 .. Len(list) : list[n] = t
  BY DEF Contains
<1> DEFINE a == SubSeq(list, 1, n - 1)
           b == SubSeq(list, n + 1, Len(list))
           rest == RemoveFirst(list, t)
<1>2. rest = a \o b
  <2>1. {i \in 1 .. Len(list) : list[i] = t} = {n}
    BY <1>1
  <2>2. Min({n}) = n
    BY DEF Min
  <2>3. SelectInSeq(list, LAMBDA v : v = t) = n
    BY <2>1, <2>2 DEF SelectInSeq
  <2> QED
    BY <1>1, <2>3 DEF RemoveFirst, RemoveAt
<1>3. Len(list) \in Nat /\ n \in Nat /\ n >= 1 /\ n <= Len(list)
  OBVIOUS
<1>4. a \in Seq(Threads) /\ Len(a) = n - 1 /\ \A k \in 1 .. (n - 1) : a[k] = list[k]
  BY <1>3, SubSeqProperties
<1>5. /\ b \in Seq(Threads) /\ Len(b) = Len(list) - n
      /\ \A k \in 1 .. (Len(list) - n) : b[k] = list[n + k]
  BY <1>3, SubSeqProperties
<1> HIDE DEF a, b, rest
<1>6. /\ rest \in Seq(Threads) /\ Len(rest) = Len(list) - 1
      /\ \A k \in 1 .. (Len(list) - 1) : rest[k] = IF k < n THEN list[k] ELSE list[k + 1]
  <2>1. /\ a \o b \in Seq(Threads) /\ Len(a \o b) = Len(a) + Len(b)
        /\ \A k \in 1 .. Len(a) + Len(b) :
              (a \o b)[k] = IF k <= Len(a) THEN a[k] ELSE b[k - Len(a)]
    <3>1. a \in Seq(Threads) /\ b \in Seq(Threads)
      BY <1>4, <1>5
    <3> HIDE DEF a, b
    <3> QED
      BY <3>1, ConcatProperties
  <2>2. Len(a) + Len(b) = Len(list) - 1
    BY <1>3, <1>4, <1>5
  <2>3. ASSUME NEW k \in 1 .. (Len(list) - 1)
        PROVE  (a \o b)[k] = IF k < n THEN list[k] ELSE list[k + 1]
    <3>1. (a \o b)[k] = IF k <= n - 1 THEN a[k] ELSE b[k - (n - 1)]
      BY <2>1, <2>2, <1>4
    <3>2. CASE k < n
      BY <3>1, <3>2, <1>3, <1>4
    <3>3. CASE ~(k < n)
      <4>1. /\ k - (n - 1) \in 1 .. (Len(list) - n) /\ n + (k - (n - 1)) = k + 1
            /\ ~(k <= n - 1)
        BY <3>3, <1>3
      <4> QED
        BY <3>1, <3>3, <4>1, <1>5
    <3> QED
      BY <3>2, <3>3
  <2> QED
    BY <2>1, <2>2, <2>3, <1>2
<1>7. ASSUME NEW k \in 1 .. Len(rest)
      PROVE  \E j \in 1 .. Len(list) : rest[k] = list[j] /\ list[j] # t
  <2>1. CASE k < n
    BY <2>1, <1>1, <1>3, <1>6
  <2>2. CASE ~(k < n)
    <3>1. k + 1 \in 1 .. Len(list) /\ k + 1 # n
      BY <2>2, <1>3, <1>6
    <3> QED
      BY <2>2, <3>1, <1>1, <1>6
  <2> QED
    BY <2>1, <2>2
<1>8. ASSUME NEW j \in 1 .. Len(list), list[j] # t
      PROVE  \E k \in 1 .. Len(rest) : rest[k] = list[j]
  <2>1. CASE j < n
    BY <2>1, <1>3, <1>6
  <2>2. CASE j > n
    <3>1. j - 1 \in 1 .. Len(rest) /\ ~(j - 1 < n) /\ (j - 1) + 1 = j
      BY <2>2, <1>3, <1>6
    <3> QED
      BY <3>1, <1>6
  <2>3. j # n
    BY <1>1, <1>8
  <2> QED
    BY <2>1, <2>2, <2>3, <1>3
<1>9. ASSUME NEW j \in 1 .. Len(rest), NEW k \in 1 .. Len(rest), rest[j] = rest[k]
      PROVE  j = k
  <2> DEFINE at(m) == IF m < n THEN m ELSE m + 1
  <2>1. /\ rest[j] = list[at(j)] /\ rest[k] = list[at(k)]
        /\ at(j) \in 1 .. Len(list) /\ at(k) \in 1 .. Len(list)
    BY <1>3, <1>6
  <2>2. at(j) = at(k)
    BY <2>1, <1>9
  <2> QED
    BY <2>2, <1>3, <1>6
<1> QED
  BY <1>6, <1>7, <1>8, <1>9 DEF rest

(* notify_wait_list tells only threads in the list, and all of them when   *)
(* the count is UINT32_MAX.                                                *)
LEMMA ToldThreads ==
    ASSUME NEW list \in Seq(Threads), NEW count \in Nat
    PROVE  /\ \A u \in notify_wait_list(list, count) :
                    \E k \in 1 .. Len(list) : list[k] = u
           /\ count = ALL => \A k \in 1 .. Len(list) :
                                list[k] \in notify_wait_list(list, count)
<1> DEFINE n == IF count = ALL \/ count > Len(list) THEN Len(list) ELSE count
<1>1. Len(list) \in Nat /\ n \in 0 .. Len(list)
  OBVIOUS
<1> HIDE DEF n
<1>2. /\ SubSeq(list, 1, n) \in Seq(Threads) /\ Len(SubSeq(list, 1, n)) = n
      /\ \A k \in 1 .. n : SubSeq(list, 1, n)[k] = list[k]
  BY <1>1, SubSeqProperties
<1>3. DOMAIN SubSeq(list, 1, n) = 1 .. n
  BY <1>1, <1>2
<1>4. notify_wait_list(list, count) = {SubSeq(list, 1, n)[k] : k \in 1 .. n}
  BY <1>3 DEF notify_wait_list, ToSet, n
<1>5. count = ALL => n = Len(list)
  BY DEF n
<1> QED
  BY <1>1, <1>2, <1>4, <1>5

----------------------------------------------------------------------------
(* Calls *)

(* A call that is not in the runtime is well typed.                        *)
LEMMA IdleType ==
    ASSUME NEW ret \in {"none", "ok", "timed out"}
    PROVE  /\ Idle(ret) \in Calls
           /\ Idle(ret).pc = "idle" /\ Idle(ret).wait_info = NULL
BY DEF Idle, Calls

(* One thread's call is replaced, all others stay.                         *)
LEMMA OneCall ==
    ASSUME WaitTypes, NEW t \in Threads, NEW c \in Calls,
           call' = [call EXCEPT ![t] = c]
    PROVE  /\ call' \in [Threads -> Calls]
           /\ call'[t] = c
           /\ \A u \in Threads : u # t => call'[u] = call[u]
BY DEF WaitTypes

(* A step that leaves the map and the lists, and lets those who wait wait, *)
(* leaves them findable.                                                   *)
LEMMA ListsKept ==
    ASSUME WaitInv, ~undefined, wait_map' = wait_map, wait_list' = wait_list,
           \A u \in Threads :
                /\ call'[u].pc \in Waiting <=> call[u].pc \in Waiting
                /\ call[u].pc \in Waiting => /\ call'[u].address = call[u].address
                                /\ call'[u].wait_info = call[u].wait_info
    PROVE  WaiterFindable'
<1>1. ASSUME NEW u \in Threads, call'[u].pc \in Waiting
      PROVE  /\ call'[u].wait_info = wait_map'[call'[u].address]
             /\ call'[u].wait_info \in Infos
             /\ Contains(wait_list'[call'[u].wait_info], u)
  BY <1>1 DEF WaitInv, WaiterFindable, Listed, Waiting, ListOf
<1>2. ASSUME NEW a \in Addrs, wait_map'[a] # NULL
      PROVE  LET list == wait_list'[wait_map'[a]]
             IN  /\ \A k \in 1 .. Len(list) :
                        call'[list[k]].pc \in Waiting /\ call'[list[k]].address = a
                 /\ \A j, k \in 1 .. Len(list) : list[j] = list[k] => j = k
  <2> DEFINE list == wait_list[wait_map[a]]
  <2>1. list \in Seq(Threads)
    BY <1>2 DEF WaitInv, WaitTypes
  <2>2. /\ \A k \in 1 .. Len(list) : call[list[k]].pc \in Waiting /\ call[list[k]].address = a
        /\ \A j, k \in 1 .. Len(list) : list[j] = list[k] => j = k
    BY <1>2 DEF WaitInv, WaiterFindable, Listed, Waiting
  <2> HIDE DEF list
  <2>3. \A k \in 1 .. Len(list) : call'[list[k]].pc \in Waiting /\ call'[list[k]].address = a
    <3> SUFFICES ASSUME NEW k \in 1 .. Len(list)
                 PROVE  call'[list[k]].pc \in Waiting /\ call'[list[k]].address = a
      OBVIOUS
    <3>1. list[k] \in Threads
      BY <2>1
    <3> QED
      BY <3>1, <2>2
  <2>4. wait_list'[wait_map'[a]] = list
    BY DEF list
  <2> QED
    BY <2>2, <2>3, <2>4
<1> QED
  BY <1>1, <1>2 DEF WaiterFindable, ListOf, Listed, Waiting

(* A step that does not store, keeps those who wait and their answers, and *)
(* leaves every thread that is going to notify all, loses no wakeup.       *)
LEMMA WakeupsKept ==
    ASSUME WaitInv, ~undefined, word' = word,
           \A u \in Threads : call'[u].pc \in Waiting =>
                /\ call[u].pc \in Waiting /\ call'[u].address = call[u].address
                /\ call'[u].expect = call[u].expect
                /\ call[u].status = "S_NOTIFIED" => call'[u].status = "S_NOTIFIED",
           \A u \in Threads :
                \/ call[u].pc = "stored"
                \/ call[u].pc = "notify" /\ call[u].count = ALL
                => /\ call'[u].address = call[u].address
                   /\ call'[u].pc = call[u].pc /\ call'[u].count = call[u].count
    PROVE  NoLostWakeup'
<1> SUFFICES ASSUME NEW v \in Threads, call'[v].pc \in Waiting,
                    call'[v].expect # word'[call'[v].address],
                    call'[v].status # "S_NOTIFIED"
             PROVE  \E u \in Threads :
                        /\ call'[u].address = call'[v].address
                        /\ \/ call'[u].pc = "stored"
                           \/ call'[u].pc = "notify" /\ call'[u].count = ALL
  BY DEF NoLostWakeup, Listed, Waiting
<1>1. PICK u \in Threads :
            /\ call[u].address = call[v].address
            /\ \/ call[u].pc = "stored"
               \/ call[u].pc = "notify" /\ call[u].count = ALL
  BY DEF WaitInv, NoLostWakeup, Listed, Waiting
<1> QED
  BY <1>1

----------------------------------------------------------------------------
(* One lemma per step of wasm_runtime_atomic_wait.                         *)

(* What is known of a thread at each step.                                 *)
LEMMA CallFacts ==
    ASSUME WaitInv, NEW t \in Threads
    PROVE  /\ call[t] \in Calls
           /\ call[t].pc \in {"idle", "stored", "enlist", "sleep", "asleep", "delist",
                              "release", "notify"}
           /\ call[t].count \in Nat
           /\ wait_map \in [Addrs -> Infos \cup {NULL}]
           /\ wait_list \in [Infos -> Seq(Threads)]
           /\ NULL \notin Infos /\ DANGLING \notin Infos
BY WaitAssumption DEF WaitInv, WaitTypes, Calls

(* A thread without a node starts or ends a call: it is idle, has stored,  *)
(* or has just got the wait info that wait_map has for its address, and no *)
(* thread is to notify all because of it.                                  *)
LEMMA PlainStep ==
    ASSUME WaitInv, ~undefined, NEW t \in Threads, NEW c \in Calls,
           call' = [call EXCEPT ![t] = c],
           word' = word, wait_map' = wait_map, wait_list' = wait_list,
           undefined' = undefined,
           call[t].pc \notin Waiting, c.pc \notin Waiting,
           \/ c.pc = "idle" /\ c.wait_info = NULL
           \/ /\ c.pc \notin {"idle", "stored"} /\ c.address \in Addrs
              /\ c.wait_info \in Infos /\ c.wait_info = wait_map[c.address],
           call[t].pc = "stored" \/ (call[t].pc = "notify" /\ call[t].count = ALL)
             => \/ c.address = call[t].address /\ c.pc = "notify" /\ c.count = ALL
                \/ \A u \in Threads : call[u].pc \in Waiting =>
                        \/ call[u].address # call[t].address
                        \/ call[u].status = "S_NOTIFIED"
    PROVE  WaitInv'
<1>1. /\ call' \in [Threads -> Calls] /\ call'[t] = c
      /\ \A u \in Threads : u # t => call'[u] = call[u]
  BY OneCall DEF WaitInv
<1>2. WaitTypes'
  BY <1>1 DEF WaitInv, WaitTypes
<1>3. Pointers'
  BY <1>1 DEF WaitInv, Pointers
<1>4. WaiterFindable'
  BY <1>1, ListsKept DEF Waiting
<1>5. NoLostWakeup'
  <2> SUFFICES ASSUME NEW v \in Threads, call'[v].pc \in Waiting,
                      call'[v].expect # word'[call'[v].address],
                      call'[v].status # "S_NOTIFIED"
               PROVE  \E u \in Threads :
                          /\ call'[u].address = call'[v].address
                          /\ \/ call'[u].pc = "stored"
                             \/ call'[u].pc = "notify" /\ call'[u].count = ALL
    BY DEF NoLostWakeup, Listed, Waiting
  <2>1. v # t /\ call'[v] = call[v]
    BY <1>1
  <2>2. PICK u \in Threads :
              /\ call[u].address = call[v].address
              /\ \/ call[u].pc = "stored"
                 \/ call[u].pc = "notify" /\ call[u].count = ALL
    BY <2>1 DEF WaitInv, NoLostWakeup, Listed, Waiting
  <2>3. CASE u = t
    BY <2>1, <2>2, <2>3, <1>1
  <2>4. CASE u # t
    BY <2>1, <2>2, <2>4, <1>1
  <2> QED
    BY <2>3, <2>4
<1> QED
  BY <1>2, <1>3, <1>4, <1>5 DEF WaitInv

(* Memory that is not shared, or an address out of bounds.                 *)
LEMMA RefuseKeeps ==
    ASSUME WaitInv, NEW t \in Threads, Refuse(t)
    PROVE  WaitInv'
<1>1. /\ call[t].pc = "idle" /\ ~undefined /\ undefined' = undefined
      /\ call' = [call EXCEPT ![t] = Idle("none")]
      /\ word' = word /\ wait_map' = wait_map /\ wait_list' = wait_list
  BY DEF Refuse, IsAt, Return
<1> QED
  BY <1>1, IdleType, PlainStep DEF Waiting

(* acquire_wait_info(address, true).                                       *)
LEMMA AcquireToWaitKeeps ==
    ASSUME WaitInv, NEW t \in Threads, NEW a \in Addrs, NEW v \in Values,
           NEW forever \in BOOLEAN, AcquireToWait(t, a, v, forever)
    PROVE  WaitInv'
<1> DEFINE c(w) == [Idle("none") EXCEPT !.pc = "enlist", !.address = a,
                        !.wait_info = w, !.expect = v, !.forever = forever]
<1>1. \A w \in Infos : /\ c(w) \in Calls /\ c(w).pc = "enlist"
                       /\ c(w).address = a /\ c(w).wait_info = w
  BY DEF Idle, Calls
<1>2. /\ call[t].pc = "idle" /\ ~undefined /\ undefined' = undefined
      /\ word' = word
  BY DEF AcquireToWait, IsAt
<1>3. wait_map[a] \in Infos \cup {NULL}
  BY CallFacts
<1>4. CASE wait_map[a] # NULL /\ call' = [call EXCEPT ![t] = c(wait_map[a])]
            /\ UNCHANGED <<wait_map, wait_list>>
  <2> DEFINE d == c(wait_map[a])
  <2>1. d \in Calls /\ d.pc = "enlist" /\ d.address = a /\ d.wait_info = wait_map[a]
    BY <1>1, <1>3, <1>4
  <2>2. call' = [call EXCEPT ![t] = d]
    BY <1>4
  <2> HIDE DEF d
  <2> QED
    BY <2>1, <2>2, <1>2, <1>3, <1>4, PlainStep DEF Waiting
<1>5. ASSUME wait_map[a] = NULL, NEW w \in Unused,
             wait_map' = [wait_map EXCEPT ![a] = w],
             wait_list' = [wait_list EXCEPT ![w] = <<>>],
             call' = [call EXCEPT ![t] = c(w)]
      PROVE  WaitInv'
  <2> DEFINE d == c(w)
  <2>1. w \in Infos /\ \A b \in Addrs : wait_map[b] # w
    BY <1>5 DEF Unused
  <2>2. d \in Calls /\ d.pc = "enlist" /\ d.address = a /\ d.wait_info = w
    BY <1>1, <2>1
  <2>3. call' = [call EXCEPT ![t] = d]
    BY <1>5
  <2> HIDE DEF d
  <2>4. /\ call' \in [Threads -> Calls] /\ call'[t] = d
        /\ \A u \in Threads : u # t => call'[u] = call[u]
    BY <2>2, <2>3, OneCall DEF WaitInv
  <2>5. /\ wait_map' \in [Addrs -> Infos \cup {NULL}] /\ wait_map'[a] = w
        /\ \A b \in Addrs : b # a => wait_map'[b] = wait_map[b]
    BY <1>5, <2>1, CallFacts
  <2>6. /\ wait_list' \in [Infos -> Seq(Threads)] /\ wait_list'[w] = <<>>
        /\ \A x \in Infos : x # w => wait_list'[x] = wait_list[x]
    <3>1. <<>> \in Seq(Threads)
      OBVIOUS
    <3> QED
      BY <1>5, <2>1, <3>1, CallFacts
  <2>7. WaitTypes'
    BY <1>2, <2>4, <2>5, <2>6 DEF WaitInv, WaitTypes
  <2>8. Pointers'
    BY <1>2, <1>5, <2>1, <2>2, <2>4, <2>5, CallFacts DEF WaitInv, Pointers
  <2>9. WaiterFindable'
    <3>1. ASSUME NEW u \in Threads, call'[u].pc \in Waiting
          PROVE  /\ call'[u].wait_info = wait_map'[call'[u].address]
                 /\ call'[u].wait_info \in Infos
                 /\ Contains(wait_list'[call'[u].wait_info], u)
      <4>1. u # t /\ call'[u] = call[u]
        BY <3>1, <2>2, <2>4 DEF Waiting
      <4>2. /\ call[u].wait_info = wait_map[call[u].address]
            /\ call[u].wait_info \in Infos /\ call[u].address \in Addrs
            /\ Contains(wait_list[call[u].wait_info], u)
        BY <1>2, <3>1, <4>1 DEF WaitInv, WaiterFindable, Pointers, Listed, ListOf, Waiting
      <4>3. call[u].address # a /\ call[u].wait_info # w
        BY <1>5, <2>1, <4>2, CallFacts
      <4> QED
        BY <4>1, <4>2, <4>3, <2>5, <2>6
    <3>2. ASSUME NEW b \in Addrs, wait_map'[b] # NULL
          PROVE  LET list == wait_list'[wait_map'[b]]
                 IN  /\ \A k \in 1 .. Len(list) :
                            call'[list[k]].pc \in Waiting /\ call'[list[k]].address = b
                     /\ \A j, k \in 1 .. Len(list) : list[j] = list[k] => j = k
      <4>1. CASE b = a
        BY <4>1, <2>5, <2>6
      <4>2. CASE b # a
        <5> DEFINE list == wait_list[wait_map[b]]
        <5>1. /\ wait_map[b] \in Infos /\ wait_map'[b] = wait_map[b]
              /\ wait_list'[wait_map'[b]] = list
          BY <3>2, <4>2, <2>1, <2>5, <2>6, CallFacts
        <5>2. list \in Seq(Threads)
          BY <5>1, CallFacts
        <5>3. /\ \A k \in 1 .. Len(list) :
                        call[list[k]].pc \in Waiting /\ call[list[k]].address = b
              /\ \A j, k \in 1 .. Len(list) : list[j] = list[k] => j = k
          BY <1>2, <3>2, <5>1 DEF WaitInv, WaiterFindable, Listed, Waiting
        <5> HIDE DEF list
        <5>4. ASSUME NEW k \in 1 .. Len(list)
              PROVE  call'[list[k]].pc \in Waiting /\ call'[list[k]].address = b
          <6>1. list[k] \in Threads /\ list[k] # t
            BY <5>2, <5>3, <1>2 DEF Waiting
          <6> QED
            BY <6>1, <5>3, <2>4
        <5> QED
          BY <5>1, <5>3, <5>4
      <4> QED
        BY <4>1, <4>2
    <3> QED
      BY <3>1, <3>2 DEF WaiterFindable, ListOf, Listed, Waiting
  <2>10. NoLostWakeup'
    BY <1>2, <2>2, <2>4, WakeupsKept DEF Waiting
  <2> QED
    BY <2>7, <2>8, <2>9, <2>10 DEF WaitInv
<1>6. CASE call' = [call EXCEPT ![t] = Idle("none")] /\ UNCHANGED <<wait_map, wait_list>>
  BY <1>2, <1>6, IdleType, PlainStep DEF Waiting
<1> QED
  BY <1>4, <1>5, <1>6 DEF AcquireToWait, Return

(* Under the lock of the info: the value is compared and the node inserted *)
(* or not.                                                                 *)
LEMMA EnlistKeeps ==
    ASSUME WaitInv, NEW t \in Threads, Enlist(t)
    PROVE  WaitInv'
<1>1. /\ call[t].pc = "enlist" /\ ~undefined /\ undefined' = undefined
      /\ word' = word /\ wait_map' = wait_map
      /\ call[t].wait_info # DANGLING
  BY DEF Enlist, IsAt, Dangles
<1>2. CASE call' = [call EXCEPT ![t] = Idle("none")] /\ wait_list' = wait_list
  BY <1>1, <1>2, IdleType, PlainStep DEF Waiting
<1>3. ASSUME word[call[t].address] = call[t].expect,
             wait_list' = [wait_list EXCEPT ![call[t].wait_info] = <<t>> \o @],
             call' = [call EXCEPT ![t].pc = "sleep", ![t].status = "S_WAITING"]
      PROVE  WaitInv'
  <2> DEFINE w == call[t].wait_info
             d == [call[t] EXCEPT !.pc = "sleep", !.status = "S_WAITING"]
  <2>1. /\ d \in Calls /\ d.pc = "sleep" /\ d.address = call[t].address
        /\ d.wait_info = w /\ d.expect = call[t].expect
    BY CallFacts DEF Calls
  <2>2. call' = [call EXCEPT ![t] = d]
    BY <1>3 DEF WaitInv, WaitTypes, Calls
  <2> HIDE DEF d
  <2>3. /\ call' \in [Threads -> Calls] /\ call'[t] = d
        /\ \A u \in Threads : u # t => call'[u] = call[u]
    BY <2>1, <2>2, OneCall DEF WaitInv
  <2>4. w \in Infos /\ call[t].address \in Addrs /\ w = wait_map[call[t].address]
    BY <1>1 DEF WaitInv, Pointers
  <2> HIDE DEF w
  <2>5. wait_list[w] \in Seq(Threads)
    BY <2>4, CallFacts
  <2> DEFINE new == <<t>> \o wait_list[w]
  <2>6. /\ wait_list' \in [Infos -> Seq(Threads)] /\ wait_list'[w] = new
        /\ \A x \in Infos : x # w => wait_list'[x] = wait_list[x]
    <3>1. new \in Seq(Threads)
      BY <2>5, PushFront
    <3>2. wait_list' = [wait_list EXCEPT ![w] = new]
      BY <1>3 DEF w
    <3> HIDE DEF new
    <3> QED
      BY <3>1, <3>2, <2>4, CallFacts
  <2>7. /\ new \in Seq(Threads) /\ Len(new) = Len(wait_list[w]) + 1 /\ new[1] = t
        /\ \A k \in 2 .. (Len(wait_list[w]) + 1) : new[k] = wait_list[w][k - 1]
    BY <2>5, PushFront
  <2> HIDE DEF new
  <2>8. WaitTypes'
    BY <1>1, <2>3, <2>6 DEF WaitInv, WaitTypes
  <2>9. Pointers'
    BY <1>1, <2>1, <2>3, <2>4 DEF WaitInv, Pointers
  <2>10. WaiterFindable'
    <3>1. ASSUME NEW u \in Threads, call'[u].pc \in Waiting
          PROVE  /\ call'[u].wait_info = wait_map'[call'[u].address]
                 /\ call'[u].wait_info \in Infos
                 /\ Contains(wait_list'[call'[u].wait_info], u)
      <4>1. CASE u = t
        <5>1. Contains(new, t)
          BY <2>5, <2>7 DEF Contains
        <5> QED
          BY <4>1, <5>1, <1>1, <2>1, <2>3, <2>4, <2>6
      <4>2. CASE u # t
        <5>1. /\ call'[u] = call[u]
              /\ call[u].wait_info = wait_map[call[u].address]
              /\ call[u].wait_info \in Infos
              /\ Contains(wait_list[call[u].wait_info], u)
          BY <1>1, <3>1, <4>2, <2>3 DEF WaitInv, WaiterFindable, Listed, ListOf, Waiting
        <5>2. CASE call[u].wait_info = w
          <6>1. PICK k \in 1 .. Len(wait_list[w]) : wait_list[w][k] = u
            BY <5>1, <5>2 DEF Contains
          <6>2. k + 1 \in 2 .. (Len(wait_list[w]) + 1) /\ (k + 1) - 1 = k
            BY <2>5
          <6>3. new[k + 1] = u /\ k + 1 \in 1 .. Len(new)
            BY <2>5, <2>7, <6>1, <6>2
          <6> QED
            BY <5>1, <5>2, <6>3, <1>1, <2>6 DEF Contains
        <5>3. CASE call[u].wait_info # w
          BY <5>1, <5>3, <1>1, <2>6
        <5> QED
          BY <5>2, <5>3
      <4> QED
        BY <4>1, <4>2
    <3>2. ASSUME NEW b \in Addrs, wait_map'[b] # NULL
          PROVE  LET list == wait_list'[wait_map'[b]]
                 IN  /\ \A k \in 1 .. Len(list) :
                            call'[list[k]].pc \in Waiting /\ call'[list[k]].address = b
                     /\ \A j, k \in 1 .. Len(list) : list[j] = list[k] => j = k
      <4> DEFINE list == wait_list[wait_map[b]]
      <4>1. wait_map[b] \in Infos /\ wait_map'[b] = wait_map[b]
        BY <1>1, <3>2, CallFacts
      <4>2. list \in Seq(Threads)
        BY <4>1, CallFacts
      <4>3. /\ \A k \in 1 .. Len(list) :
                      call[list[k]].pc \in Waiting /\ call[list[k]].address = b
            /\ \A j, k \in 1 .. Len(list) : list[j] = list[k] => j = k
        BY <1>1, <3>2, <4>1 DEF WaitInv, WaiterFindable, Listed, Waiting
      <4> HIDE DEF list
      <4>4. ASSUME NEW k \in 1 .. Len(list)
            PROVE  /\ list[k] # t
                   /\ call'[list[k]].pc \in Waiting /\ call'[list[k]].address = b
        <5>1. list[k] \in Threads /\ list[k] # t
          BY <4>2, <4>3, <1>1 DEF Waiting
        <5> QED
          BY <5>1, <4>3, <2>3
      <4>5. CASE wait_map[b] = w
        <5>1. b = call[t].address /\ list = wait_list[w] /\ wait_list'[wait_map'[b]] = new
          BY <4>5, <4>1, <3>2, <1>1, <2>4, <2>6, CallFacts DEF WaitInv, Pointers, list
        <5>2. ASSUME NEW k \in 1 .. Len(new)
              PROVE  k = 1 \/ (k - 1 \in 1 .. Len(list) /\ new[k] = list[k - 1])
          BY <5>1, <2>5, <2>7
        <5>3. \A k \in 1 .. Len(new) :
                  call'[new[k]].pc \in Waiting /\ call'[new[k]].address = b
          <6>1. call'[t].pc \in Waiting /\ call'[t].address = b
            BY <5>1, <2>1, <2>3 DEF Waiting
          <6> QED
            BY <6>1, <5>2, <4>4, <2>7
        <5>4. \A j, k \in 1 .. Len(new) : new[j] = new[k] => j = k
          <6> SUFFICES ASSUME NEW j \in 1 .. Len(new), NEW k \in 1 .. Len(new),
                              new[j] = new[k]
                       PROVE  j = k
            OBVIOUS
          <6>1. CASE j = 1 \/ k = 1
            BY <6>1, <5>2, <4>4, <2>7
          <6>2. CASE j # 1 /\ k # 1
            <7>1. j - 1 = k - 1
              BY <6>2, <5>2, <4>3
            <7> QED
              BY <7>1, <2>5, <2>7
          <6> QED
            BY <6>1, <6>2
        <5> QED
          BY <5>1, <5>3, <5>4
      <4>6. CASE wait_map[b] # w
        <5>1. wait_list'[wait_map'[b]] = list
          BY <4>6, <4>1, <2>6 DEF list
        <5> QED
          BY <5>1, <4>3, <4>4
      <4> QED
        BY <4>5, <4>6
    <3> QED
      BY <3>1, <3>2 DEF WaiterFindable, ListOf, Listed, Waiting
  <2>11. NoLostWakeup'
    <3> SUFFICES ASSUME NEW v \in Threads, call'[v].pc \in Waiting,
                        call'[v].expect # word'[call'[v].address],
                        call'[v].status # "S_NOTIFIED"
                 PROVE  \E u \in Threads :
                            /\ call'[u].address = call'[v].address
                            /\ \/ call'[u].pc = "stored"
                               \/ call'[u].pc = "notify" /\ call'[u].count = ALL
      BY DEF NoLostWakeup, Listed, Waiting
    <3>1. v # t /\ call'[v] = call[v]
      BY <1>1, <1>3, <2>1, <2>3
    <3>2. PICK u \in Threads :
                /\ call[u].address = call[v].address
                /\ \/ call[u].pc = "stored"
                   \/ call[u].pc = "notify" /\ call[u].count = ALL
      BY <1>1, <3>1 DEF WaitInv, NoLostWakeup, Listed, Waiting
    <3> QED
      BY <3>1, <3>2, <1>1, <2>3
  <2> QED
    BY <2>8, <2>9, <2>10, <2>11 DEF WaitInv
<1> QED
  BY <1>2, <1>3 DEF Enlist, Return

(* Going to sleep, and waking up because of the clock.                     *)
LEMMA SleepKeeps ==
    ASSUME WaitInv, NEW t \in Threads, Sleep(t) \/ TimeOut(t)
    PROVE  WaitInv'
<1>1. PICK p \in {"asleep", "delist"} : call' = [call EXCEPT ![t].pc = p]
  BY DEF Sleep, TimeOut
<1>2. /\ call[t].pc \in Waiting /\ undefined' = undefined
      /\ word' = word /\ wait_map' = wait_map /\ wait_list' = wait_list
  BY DEF Sleep, TimeOut, Waiting
<1> DEFINE d == [call[t] EXCEPT !.pc = p]
<1>3. /\ d \in Calls /\ d.pc \in Waiting /\ d.address = call[t].address
      /\ d.wait_info = call[t].wait_info /\ d.expect = call[t].expect
      /\ d.status = call[t].status
  BY CallFacts DEF Calls, Waiting
<1>4. call' = [call EXCEPT ![t] = d]
  BY <1>1 DEF WaitInv, WaitTypes, Calls
<1> HIDE DEF d
<1>5. /\ call' \in [Threads -> Calls] /\ call'[t] = d
      /\ \A u \in Threads : u # t => call'[u] = call[u]
  BY <1>3, <1>4, OneCall DEF WaitInv
<1>6. WaitTypes'
  BY <1>2, <1>5 DEF WaitInv, WaitTypes
<1>7. CASE undefined
  BY <1>2, <1>6, <1>7 DEF WaitInv, Pointers, WaiterFindable, NoLostWakeup
<1>8. CASE ~undefined
  <2>1. Pointers'
    BY <1>2, <1>3, <1>5, <1>8 DEF WaitInv, Pointers, Waiting
  <2>2. WaiterFindable'
    BY <1>2, <1>3, <1>5, <1>8, ListsKept
  <2>3. \A u \in Threads : call[u].pc = "stored" \/ call[u].pc = "notify" => u # t
    BY <1>2 DEF Waiting
  <2>4. NoLostWakeup'
    BY <1>2, <1>3, <1>5, <1>8, <2>3, WakeupsKept
  <2> QED
    BY <1>6, <2>1, <2>2, <2>4 DEF WaitInv
<1> QED
  BY <1>7, <1>8

(* Under the lock of the info: the node is removed, and no other.          *)
LEMMA DelistKeeps ==
    ASSUME WaitInv, NEW t \in Threads, Delist(t)
    PROVE  WaitInv'
<1>1. /\ call[t].pc = "delist" /\ ~undefined /\ undefined' = undefined
      /\ word' = word /\ wait_map' = wait_map
  BY DEF Delist, IsAt
<1> DEFINE w == call[t].wait_info
           d == [call[t] EXCEPT !.pc = "release"]
<1>2. /\ d \in Calls /\ d.pc = "release" /\ d.address = call[t].address
      /\ d.wait_info = w
  BY CallFacts DEF Calls
<1>3. call' = [call EXCEPT ![t] = d]
  BY DEF Delist, WaitInv, WaitTypes, Calls
<1> HIDE DEF d
<1>4. /\ call' \in [Threads -> Calls] /\ call'[t] = d
      /\ \A u \in Threads : u # t => call'[u] = call[u]
  BY <1>2, <1>3, OneCall DEF WaitInv
<1>5. /\ w \in Infos /\ call[t].address \in Addrs /\ w = wait_map[call[t].address]
      /\ Contains(wait_list[w], t)
  BY <1>1 DEF WaitInv, Pointers, WaiterFindable, Listed, ListOf
<1> DEFINE list == wait_list[w]
           rest == RemoveFirst(list, t)
<1>6. wait_list' = [wait_list EXCEPT ![w] = rest]
  BY DEF Delist
<1> HIDE DEF w
<1>7. list \in Seq(Threads)
  BY <1>5, CallFacts
<1>8. /\ \A k \in 1 .. Len(list) :
            call[list[k]].pc \in Waiting /\ call[list[k]].address = call[t].address
      /\ \A j, k \in 1 .. Len(list) : list[j] = list[k] => j = k
  <2>1. wait_map[call[t].address] # NULL
    BY <1>5, CallFacts
  <2> QED
    BY <1>1, <1>5, <2>1 DEF WaitInv, WaiterFindable, Listed, Waiting
<1>9. /\ rest \in Seq(Threads)
      /\ \A k \in 1 .. Len(rest) : \E j \in 1 .. Len(list) :
              rest[k] = list[j] /\ list[j] # t
      /\ \A j \in 1 .. Len(list) : list[j] # t =>
              \E k \in 1 .. Len(rest) : rest[k] = list[j]
      /\ \A j, k \in 1 .. Len(rest) : rest[j] = rest[k] => j = k
  BY <1>5, <1>7, <1>8, RemoveNode
<1> HIDE DEF rest
<1>10. /\ wait_list' \in [Infos -> Seq(Threads)] /\ wait_list'[w] = rest
       /\ \A x \in Infos : x # w => wait_list'[x] = wait_list[x]
  BY <1>5, <1>6, <1>9, CallFacts
<1>11. WaitTypes'
  BY <1>1, <1>4, <1>10 DEF WaitInv, WaitTypes
<1>12. Pointers'
  BY <1>1, <1>2, <1>4, <1>5 DEF WaitInv, Pointers
<1>13. WaiterFindable'
  <2>1. ASSUME NEW u \in Threads, call'[u].pc \in Waiting
        PROVE  /\ call'[u].wait_info = wait_map'[call'[u].address]
               /\ call'[u].wait_info \in Infos
               /\ Contains(wait_list'[call'[u].wait_info], u)
    <3>1. u # t /\ call'[u] = call[u]
      BY <2>1, <1>2, <1>4 DEF Waiting
    <3>2. /\ call[u].wait_info = wait_map[call[u].address]
          /\ call[u].wait_info \in Infos
          /\ Contains(wait_list[call[u].wait_info], u)
      BY <1>1, <2>1, <3>1 DEF WaitInv, WaiterFindable, Listed, ListOf, Waiting
    <3>3. CASE call[u].wait_info = w
      <4>1. PICK j \in 1 .. Len(list) : list[j] = u
        BY <3>2, <3>3 DEF Contains
      <4>2. Contains(rest, u)
        BY <4>1, <3>1, <1>9 DEF Contains
      <4> QED
        BY <3>1, <3>2, <3>3, <4>2, <1>1, <1>10
    <3>4. CASE call[u].wait_info # w
      BY <3>1, <3>2, <3>4, <1>1, <1>10
    <3> QED
      BY <3>3, <3>4
  <2>2. ASSUME NEW b \in Addrs, wait_map'[b] # NULL
        PROVE  LET l == wait_list'[wait_map'[b]]
               IN  /\ \A k \in 1 .. Len(l) :
                          call'[l[k]].pc \in Waiting /\ call'[l[k]].address = b
                   /\ \A j, k \in 1 .. Len(l) : l[j] = l[k] => j = k
    <3> DEFINE l == wait_list[wait_map[b]]
    <3>1. wait_map[b] \in Infos /\ wait_map'[b] = wait_map[b]
      BY <1>1, <2>2, CallFacts
    <3>2. CASE wait_map[b] = w
      <4>1. b = call[t].address
        BY <3>1, <3>2, <1>1, <1>5, CallFacts DEF WaitInv, Pointers
      <4>2. ASSUME NEW k \in 1 .. Len(rest)
            PROVE  call'[rest[k]].pc \in Waiting /\ call'[rest[k]].address = b
        <5>1. PICK j \in 1 .. Len(list) : rest[k] = list[j] /\ list[j] # t
          BY <1>9
        <5>2. list[j] \in Threads
          BY <1>7
        <5> QED
          BY <5>1, <5>2, <4>1, <1>4, <1>8
      <4>3. wait_list'[wait_map'[b]] = rest
        BY <3>1, <3>2, <1>10
      <4> QED
        BY <4>2, <4>3, <1>9
    <3>3. CASE wait_map[b] # w
      <4>1. wait_list'[wait_map'[b]] = l
        BY <3>1, <3>3, <1>10
      <4>2. /\ \A k \in 1 .. Len(l) :
                      call[l[k]].pc \in Waiting /\ call[l[k]].address = b
            /\ \A j, k \in 1 .. Len(l) : l[j] = l[k] => j = k
        BY <1>1, <2>2, <3>1 DEF WaitInv, WaiterFindable, Listed, Waiting
      <4>3. l \in Seq(Threads)
        BY <3>1, CallFacts
      <4>4. b # call[t].address
        BY <3>3, <1>5
      <4> HIDE DEF l
      <4>5. ASSUME NEW k \in 1 .. Len(l)
            PROVE  call'[l[k]].pc \in Waiting /\ call'[l[k]].address = b
        <5>1. l[k] \in Threads /\ l[k] # t
          BY <4>2, <4>3, <4>4
        <5> QED
          BY <5>1, <4>2, <1>4
      <4> QED
        BY <4>1, <4>2, <4>5
    <3> QED
      BY <3>2, <3>3
  <2> QED
    BY <2>1, <2>2 DEF WaiterFindable, ListOf, Listed, Waiting
<1>14. NoLostWakeup'
  <2>1. \A u \in Threads : call'[u].pc \in Waiting => u # t
    BY <1>2, <1>4 DEF Waiting
  <2>2. \A u \in Threads : call[u].pc = "stored" \/ call[u].pc = "notify" => u # t
    BY <1>1
  <2> QED
    BY <1>1, <1>4, <2>1, <2>2, WakeupsKept
<1> QED
  BY <1>11, <1>12, <1>13, <1>14 DEF WaitInv

(* release_wait_info: the info is destroyed only when its list is empty,   *)
(* so only pointers of threads without a node come to dangle.              *)
LEMMA ReleaseKeeps ==
    ASSUME WaitInv, NEW t \in Threads, ReleaseWaitInfo(t)
    PROVE  WaitInv'
<1> DEFINE w == call[t].wait_info
           c == Idle(IF call[t].status = "S_WAITING" THEN "timed out" ELSE "ok")
           done == [call EXCEPT ![t] = c]
<1>1. /\ call[t].pc = "release" /\ ~undefined /\ undefined' = undefined
      /\ word' = word /\ wait_list' = wait_list /\ w # DANGLING
  BY DEF ReleaseWaitInfo, IsAt, Dangles
<1>2. c \in Calls /\ c.pc = "idle" /\ c.wait_info = NULL
  BY IdleType
<1>3. done = [call EXCEPT ![t] = Idle(IF @.status = "S_WAITING" THEN "timed out" ELSE "ok")]
  BY DEF WaitInv, WaitTypes
<1> HIDE DEF c
<1>4. CASE wait_list[w] # <<>>
  <2>1. call' = [call EXCEPT ![t] = c] /\ wait_map' = wait_map
    BY <1>3, <1>4 DEF ReleaseWaitInfo
  <2> QED
    BY <1>1, <1>2, <2>1, PlainStep DEF Waiting
<1>5. CASE wait_list[w] = <<>>
  <2>1. /\ wait_map' = [wait_map EXCEPT ![call[t].address] = NULL]
        /\ call' = Destroyed(done, w)
    BY <1>3, <1>5 DEF ReleaseWaitInfo
  <2>2. w \in Infos /\ call[t].address \in Addrs /\ w = wait_map[call[t].address]
    BY <1>1 DEF WaitInv, Pointers
  <2> HIDE DEF w
  <2>3. call'[t] = c
    BY <1>2, <2>1, <2>2, CallFacts DEF Destroyed, WaitInv, WaitTypes
  <2>4. \A u \in Threads : u # t /\ call[u].wait_info # w => call'[u] = call[u]
    BY <2>1 DEF Destroyed, WaitInv, WaitTypes
  <2>5. \A u \in Threads : u # t /\ call[u].wait_info = w =>
            call'[u] = [call[u] EXCEPT !.wait_info = DANGLING]
    BY <2>1 DEF Destroyed, WaitInv, WaitTypes
  <2>6. \A u \in Threads : u # t /\ call[u].wait_info = w =>
            /\ call'[u] \in Calls /\ call'[u].pc = call[u].pc
            /\ call'[u].address = call[u].address /\ call'[u].wait_info = DANGLING
            /\ call'[u].count = call[u].count
    <3>1. ASSUME NEW r \in Calls
          PROVE  LET e == [r EXCEPT !.wait_info = DANGLING]
                 IN  /\ e \in Calls /\ e.pc = r.pc /\ e.address = r.address
                     /\ e.wait_info = DANGLING /\ e.count = r.count
      BY DEF Calls
    <3>2. ASSUME NEW u \in Threads, u # t, call[u].wait_info = w
          PROVE  /\ call'[u] \in Calls /\ call'[u].pc = call[u].pc
                 /\ call'[u].address = call[u].address /\ call'[u].wait_info = DANGLING
                 /\ call'[u].count = call[u].count
      <4>1. call[u] \in Calls /\ call'[u] = [call[u] EXCEPT !.wait_info = DANGLING]
        BY <2>5, <3>2, CallFacts
      <4> QED
        BY <3>1, <4>1
    <3> QED
      BY <3>2
  <2>7. call' \in [Threads -> Calls]
    <3>1. \A u \in Threads : call'[u] \in Calls
      BY <1>2, <2>3, <2>4, <2>6, CallFacts
    <3>2. call' = [u \in Threads |-> call'[u]]
      BY <2>1 DEF Destroyed
    <3> QED
      BY <3>1, <3>2
  <2>8. /\ wait_map' \in [Addrs -> Infos \cup {NULL}] /\ wait_map'[call[t].address] = NULL
        /\ \A b \in Addrs : b # call[t].address => wait_map'[b] = wait_map[b]
    BY <2>1, <2>2, CallFacts
  <2>9. \A u \in Threads : call[u].pc \in Waiting =>
            /\ u # t /\ call[u].wait_info # w
            /\ call[u].wait_info = wait_map[call[u].address]
            /\ call[u].wait_info \in Infos /\ call[u].address \in Addrs
            /\ Contains(wait_list[call[u].wait_info], u)
    <3> SUFFICES ASSUME NEW u \in Threads, call[u].pc \in Waiting
                 PROVE  /\ u # t /\ call[u].wait_info # w
                        /\ call[u].wait_info = wait_map[call[u].address]
                        /\ call[u].wait_info \in Infos /\ call[u].address \in Addrs
                        /\ Contains(wait_list[call[u].wait_info], u)
      OBVIOUS
    <3>1. /\ call[u].wait_info = wait_map[call[u].address]
          /\ call[u].wait_info \in Infos /\ call[u].address \in Addrs
          /\ Contains(wait_list[call[u].wait_info], u)
      BY <1>1 DEF WaitInv, WaiterFindable, Pointers, Listed, ListOf, Waiting
    <3>2. ~Contains(wait_list[w], u)
      BY <1>5 DEF Contains, w
    <3> QED
      BY <1>1, <3>1, <3>2 DEF Waiting
  <2>10. WaitTypes'
    BY <1>1, <2>7, <2>8 DEF WaitInv, WaitTypes
  <2>11. Pointers'
    <3>1. ASSUME NEW u \in Threads
          PROVE  /\ call'[u].pc = "stored" => call'[u].address \in Addrs
                 /\ call'[u].pc \in {"idle", "stored"} => call'[u].wait_info = NULL
                 /\ call'[u].pc \notin {"idle", "stored"} =>
                      /\ call'[u].address \in Addrs
                      /\ \/ call'[u].wait_info = DANGLING
                         \/ /\ call'[u].wait_info \in Infos
                            /\ call'[u].wait_info = wait_map'[call'[u].address]
      <4>1. CASE u = t
        BY <4>1, <1>2, <2>3
      <4>2. CASE u # t /\ call[u].wait_info = w
        BY <4>2, <1>1, <2>2, <2>6, CallFacts DEF WaitInv, Pointers
      <4>3. CASE u # t /\ call[u].wait_info # w
        BY <4>3, <1>1, <2>2, <2>4, <2>8 DEF WaitInv, Pointers
      <4> QED
        BY <4>1, <4>2, <4>3
    <3>2. \A a, b \in Addrs :
            wait_map'[a] = wait_map'[b] /\ wait_map'[a] # NULL => a = b
      BY <1>1, <2>8 DEF WaitInv, Pointers
    <3> QED
      BY <3>1, <3>2 DEF Pointers
  <2>12. WaiterFindable'
    <3>1. ASSUME NEW u \in Threads, call'[u].pc \in Waiting
          PROVE  /\ call'[u].wait_info = wait_map'[call'[u].address]
                 /\ call'[u].wait_info \in Infos
                 /\ Contains(wait_list'[call'[u].wait_info], u)
      <4>1. u # t /\ call[u].pc \in Waiting
        BY <3>1, <1>2, <2>3, <2>4, <2>6 DEF Waiting
      <4>2. call'[u] = call[u]
        BY <4>1, <2>4, <2>9
      <4>3. call[u].address # call[t].address
        BY <4>1, <2>2, <2>9
      <4> QED
        BY <4>1, <4>2, <4>3, <1>1, <2>8, <2>9
    <3>2. ASSUME NEW b \in Addrs, wait_map'[b] # NULL
          PROVE  LET l == wait_list'[wait_map'[b]]
                 IN  /\ \A k \in 1 .. Len(l) :
                            call'[l[k]].pc \in Waiting /\ call'[l[k]].address = b
                     /\ \A j, k \in 1 .. Len(l) : l[j] = l[k] => j = k
      <4> DEFINE l == wait_list[wait_map[b]]
      <4>1. b # call[t].address /\ wait_map'[b] = wait_map[b] /\ wait_map[b] \in Infos
        BY <3>2, <2>8, CallFacts
      <4>2. /\ \A k \in 1 .. Len(l) :
                      call[l[k]].pc \in Waiting /\ call[l[k]].address = b
            /\ \A j, k \in 1 .. Len(l) : l[j] = l[k] => j = k
        BY <1>1, <3>2, <4>1 DEF WaitInv, WaiterFindable, Listed, Waiting
      <4>3. l \in Seq(Threads)
        BY <4>1, CallFacts
      <4>4. wait_list'[wait_map'[b]] = l
        BY <1>1, <4>1
      <4> HIDE DEF l
      <4>5. ASSUME NEW k \in 1 .. Len(l)
            PROVE  call'[l[k]].pc \in Waiting /\ call'[l[k]].address = b
        <5>1. l[k] \in Threads
          BY <4>3
        <5> QED
          BY <5>1, <4>2, <2>4, <2>9
      <4> QED
        BY <4>2, <4>4, <4>5
    <3> QED
      BY <3>1, <3>2 DEF WaiterFindable, ListOf, Listed, Waiting
  <2>13. NoLostWakeup'
    <3>1. ASSUME NEW u \in Threads, call'[u].pc \in Waiting
          PROVE  call[u].pc \in Waiting /\ call'[u] = call[u]
      BY <3>1, <1>2, <2>3, <2>4, <2>6, <2>9 DEF Waiting
    <3>2. ASSUME NEW u \in Threads, call[u].pc = "stored" \/ call[u].pc = "notify"
          PROVE  /\ call'[u].address = call[u].address
                 /\ call'[u].pc = call[u].pc /\ call'[u].count = call[u].count
      BY <3>2, <1>1, <2>4, <2>6
    <3> QED
      BY <1>1, <3>1, <3>2, WakeupsKept
  <2> QED
    BY <2>10, <2>11, <2>12, <2>13 DEF WaitInv
<1> QED
  BY <1>4, <1>5

----------------------------------------------------------------------------
(* One lemma per step of wasm_runtime_atomic_notify, and the store.        *)

(* acquire_wait_info(address, false): without a wait info nobody waits.    *)
LEMMA AcquireToNotifyKeeps ==
    ASSUME WaitInv, NEW t \in Threads, NEW a \in Addrs, NEW count \in Counts,
           AcquireToNotify(t, a, count)
    PROVE  WaitInv'
<1>1. /\ ~undefined /\ undefined' = undefined
      /\ word' = word /\ wait_map' = wait_map /\ wait_list' = wait_list
      /\ \/ call[t].pc = "idle"
         \/ call[t].pc = "stored" /\ call[t].address = a /\ count = ALL
  BY DEF AcquireToNotify, IsAt
<1>2. count \in Nat
  BY WaitAssumption
<1>3. CASE wait_map[a] = NULL
  <2>1. call' = [call EXCEPT ![t] = Idle("none")]
    BY <1>3 DEF AcquireToNotify, Return
  <2>2. \A u \in Threads : call[u].pc \in Waiting => call[u].address # a
    BY <1>1, <1>3, CallFacts DEF WaitInv, WaiterFindable, Listed, Waiting
  <2>3. /\ Idle("none") \in Calls /\ Idle("none").pc = "idle"
        /\ Idle("none").wait_info = NULL
    BY IdleType
  <2>4. call[t].pc \notin Waiting /\ Idle("none").pc \notin Waiting
    BY <1>1, <2>3 DEF Waiting
  <2>5. call[t].pc = "stored" \/ (call[t].pc = "notify" /\ call[t].count = ALL)
            => \A u \in Threads : call[u].pc \in Waiting =>
                    call[u].address # call[t].address
    BY <1>1, <2>2
  <2> QED
    BY <1>1, <2>1, <2>3, <2>4, <2>5, PlainStep
<1>4. CASE wait_map[a] # NULL
  <2> DEFINE d == [Idle("none") EXCEPT !.pc = "notify", !.address = a,
                            !.wait_info = wait_map[a], !.count = count]
  <2>1. wait_map[a] \in Infos
    BY <1>4, CallFacts
  <2>2. /\ d \in Calls /\ d.pc = "notify" /\ d.address = a
        /\ d.wait_info = wait_map[a] /\ d.count = count
    BY <1>2, <2>1 DEF Idle, Calls
  <2>3. call' = [call EXCEPT ![t] = d]
    BY <1>4 DEF AcquireToNotify
  <2> HIDE DEF d
  <2> QED
    BY <1>1, <2>1, <2>2, <2>3, PlainStep DEF Waiting
<1> QED
  BY <1>3, <1>4

(* Waking a thread changes its status, and gets it out of its sleep.       *)
LEMMA WokenCall ==
    ASSUME NEW r \in Calls
    PROVE  /\ Woken(r) \in Calls /\ Woken(r).status = "S_NOTIFIED"
           /\ Woken(r).address = r.address /\ Woken(r).wait_info = r.wait_info
           /\ Woken(r).expect = r.expect /\ Woken(r).count = r.count
           /\ r.pc # "asleep" => Woken(r).pc = r.pc
           /\ r.pc = "asleep" => Woken(r).pc = "delist"
BY DEF Woken, Calls

(* Under the lock of the info: with UINT32_MAX all that wait there are     *)
(* told, so nobody is left for whom the notifier was still to come.        *)
LEMMA NotifyKeeps ==
    ASSUME WaitInv, NEW t \in Threads, Notify(t)
    PROVE  WaitInv'
<1> DEFINE w == call[t].wait_info
           told == notify_wait_list(wait_list[w], call[t].count)
<1>1. /\ call[t].pc = "notify" /\ ~undefined /\ undefined' = undefined
      /\ word' = word /\ wait_map' = wait_map /\ wait_list' = wait_list
      /\ w # DANGLING
  BY DEF Notify, IsAt, Dangles
<1>2. call' = [u \in Threads |->
                    IF u = t THEN Idle("none")
                    ELSE IF u \in told THEN Woken(call[u]) ELSE call[u]]
  BY DEF Notify, ListOf
<1>3. w \in Infos /\ call[t].address \in Addrs /\ w = wait_map[call[t].address]
  BY <1>1 DEF WaitInv, Pointers
<1> HIDE DEF w
<1>4. wait_list[w] \in Seq(Threads)
  BY <1>3, CallFacts
<1>5. /\ \A u \in told : \E k \in 1 .. Len(wait_list[w]) : wait_list[w][k] = u
      /\ call[t].count = ALL => \A k \in 1 .. Len(wait_list[w]) :
                                    wait_list[w][k] \in told
  BY <1>4, CallFacts, ToldThreads
<1> HIDE DEF told
<1>6. \A u \in told : call[u].pc \in Waiting
  <2>1. wait_map[call[t].address] # NULL
    BY <1>3, CallFacts
  <2> QED
    BY <1>1, <1>3, <1>5, <2>1 DEF WaitInv, WaiterFindable, Listed, Waiting
<1>7. /\ call'[t] = Idle("none")
      /\ \A u \in Threads : u # t => call'[u] = IF u \in told THEN Woken(call[u]) ELSE call[u]
  BY <1>2
<1>8. call'[t] \in Calls /\ call'[t].pc = "idle" /\ call'[t].wait_info = NULL
  BY <1>7, IdleType
<1>9. ASSUME NEW u \in Threads, u # t
      PROVE  /\ call'[u] \in Calls
             /\ call'[u].address = call[u].address
             /\ call'[u].wait_info = call[u].wait_info
             /\ call'[u].expect = call[u].expect /\ call'[u].count = call[u].count
             /\ call'[u].pc \in Waiting <=> call[u].pc \in Waiting
             /\ call[u].pc \notin Waiting => call'[u].pc = call[u].pc
             /\ call[u].status = "S_NOTIFIED" => call'[u].status = "S_NOTIFIED"
             /\ u \in told => call'[u].status = "S_NOTIFIED"
  <2>1. call[u] \in Calls
    BY CallFacts
  <2>2. CASE u \in told
    <3>1. call'[u] = Woken(call[u])
      BY <1>7, <1>9, <2>2
    <3> QED
      BY <3>1, <2>1, <2>2, <1>6, WokenCall DEF Waiting
  <2>3. CASE u \notin told
    <3>1. call'[u] = call[u]
      BY <1>7, <1>9, <2>3
    <3> QED
      BY <3>1, <2>1, <2>3
  <2> QED
    BY <2>2, <2>3
<1>10. WaitTypes'
  <2>1. call' = [u \in Threads |-> call'[u]]
    BY <1>2
  <2>2. \A u \in Threads : call'[u] \in Calls
    BY <1>8, <1>9
  <2>3. call' \in [Threads -> Calls]
    BY <2>1, <2>2
  <2> QED
    BY <1>1, <2>3 DEF WaitInv, WaitTypes
<1>11. Pointers'
  <2>1. ASSUME NEW u \in Threads
        PROVE  /\ call'[u].pc = "stored" => call'[u].address \in Addrs
               /\ call'[u].pc \in {"idle", "stored"} => call'[u].wait_info = NULL
               /\ call'[u].pc \notin {"idle", "stored"} =>
                    /\ call'[u].address \in Addrs
                    /\ \/ call'[u].wait_info = DANGLING
                       \/ /\ call'[u].wait_info \in Infos
                          /\ call'[u].wait_info = wait_map'[call'[u].address]
    <3>1. CASE u = t
      BY <3>1, <1>8
    <3>2. CASE u # t
      BY <3>2, <1>1, <1>9 DEF WaitInv, Pointers, Waiting
    <3> QED
      BY <3>1, <3>2
  <2> QED
    BY <1>1, <2>1 DEF WaitInv, Pointers
<1>12. WaiterFindable'
  <2>1. call[t].pc \notin Waiting /\ call'[t].pc \notin Waiting
    BY <1>1, <1>8 DEF Waiting
  <2> QED
    BY <1>1, <1>9, <2>1, ListsKept
<1>13. NoLostWakeup'
  <2> SUFFICES ASSUME NEW v \in Threads, call'[v].pc \in Waiting,
                      call'[v].expect # word'[call'[v].address],
                      call'[v].status # "S_NOTIFIED"
               PROVE  \E u \in Threads :
                          /\ call'[u].address = call'[v].address
                          /\ \/ call'[u].pc = "stored"
                             \/ call'[u].pc = "notify" /\ call'[u].count = ALL
    BY DEF NoLostWakeup, Listed, Waiting
  <2>1. v # t /\ v \notin told
    BY <1>8, <1>9 DEF Waiting
  <2>2. PICK u \in Threads :
              /\ call[u].address = call[v].address
              /\ \/ call[u].pc = "stored"
                 \/ call[u].pc = "notify" /\ call[u].count = ALL
    BY <1>1, <1>9, <2>1 DEF WaitInv, NoLostWakeup, Listed, Waiting
  <2>3. u # t
    <3> SUFFICES ASSUME u = t
                 PROVE  FALSE
      OBVIOUS
    <3>1. /\ call[v].wait_info = wait_map[call[v].address]
          /\ Contains(wait_list[call[v].wait_info], v)
      BY <1>1, <1>9, <2>1 DEF WaitInv, WaiterFindable, Listed, ListOf, Waiting
    <3>2. call[v].wait_info = w
      BY <3>1, <2>2, <1>3
    <3>3. PICK k \in 1 .. Len(wait_list[w]) : wait_list[w][k] = v
      BY <3>1, <3>2 DEF Contains
    <3>4. call[t].count = ALL
      BY <2>2, <1>1
    <3> QED
      BY <3>3, <3>4, <1>5, <2>1
  <2>4. call[u].pc \notin Waiting
    BY <2>2 DEF Waiting
  <2> QED
    BY <2>1, <2>2, <2>3, <2>4, <1>9
<1> QED
  BY <1>10, <1>11, <1>12, <1>13 DEF WaitInv

(* A store: its thread is now one that will notify.                        *)
LEMMA StoreKeeps ==
    ASSUME WaitInv, NEW t \in Threads, NEW a \in Addrs, NEW v \in Values, Store(t, a, v)
    PROVE  WaitInv'
<1> DEFINE d == [Idle("none") EXCEPT !.pc = "stored", !.address = a]
<1>1. /\ call[t].pc = "idle" /\ ~undefined /\ undefined' = undefined
      /\ wait_map' = wait_map /\ wait_list' = wait_list
      /\ word' = [word EXCEPT ![a] = v]
      /\ call' = [call EXCEPT ![t] = d]
  BY DEF Store, IsAt
<1>2. d \in Calls /\ d.pc = "stored" /\ d.address = a /\ d.wait_info = NULL
  BY DEF Idle, Calls
<1> HIDE DEF d
<1>3. /\ call' \in [Threads -> Calls] /\ call'[t] = d
      /\ \A u \in Threads : u # t => call'[u] = call[u]
  BY <1>1, <1>2, OneCall DEF WaitInv
<1>4. /\ word' \in [Addrs -> Values]
      /\ \A b \in Addrs : b # a => word'[b] = word[b]
  BY <1>1 DEF WaitInv, WaitTypes
<1>5. WaitTypes'
  BY <1>1, <1>3, <1>4 DEF WaitInv, WaitTypes
<1>6. Pointers'
  BY <1>1, <1>2, <1>3 DEF WaitInv, Pointers
<1>7. WaiterFindable'
  BY <1>1, <1>2, <1>3, ListsKept DEF Waiting
<1>8. NoLostWakeup'
  <2> SUFFICES ASSUME NEW x \in Threads, call'[x].pc \in Waiting,
                      call'[x].expect # word'[call'[x].address],
                      call'[x].status # "S_NOTIFIED"
               PROVE  \E u \in Threads :
                          /\ call'[u].address = call'[x].address
                          /\ \/ call'[u].pc = "stored"
                             \/ call'[u].pc = "notify" /\ call'[u].count = ALL
    BY DEF NoLostWakeup, Listed, Waiting
  <2>1. x # t /\ call'[x] = call[x] /\ call[x].address \in Addrs
    BY <1>1, <1>2, <1>3 DEF WaitInv, Pointers, Waiting
  <2>2. CASE call[x].address = a
    BY <2>1, <2>2, <1>2, <1>3
  <2>3. CASE call[x].address # a
    <3>1. PICK u \in Threads :
                /\ call[u].address = call[x].address
                /\ \/ call[u].pc = "stored"
                   \/ call[u].pc = "notify" /\ call[u].count = ALL
      BY <1>1, <1>4, <2>1, <2>3 DEF WaitInv, NoLostWakeup, Listed, Waiting
    <3>2. u # t
      BY <1>1, <3>1
    <3> QED
      BY <3>1, <3>2, <2>1, <1>3
  <2> QED
    BY <2>2, <2>3
<1> QED
  BY <1>5, <1>6, <1>7, <1>8 DEF WaitInv

(* Using a destroyed wait info: nothing is promised from there on.         *)
LEMMA UseDanglingKeeps ==
    ASSUME WaitInv, NEW t \in Threads, UseDangling(t)
    PROVE  WaitInv'
<1>1. undefined' = TRUE /\ word' = word /\ wait_map' = wait_map /\ wait_list' = wait_list
  BY DEF UseDangling
<1> DEFINE d == [call[t] EXCEPT !.pc = "sleep", !.status = "S_WAITING"]
<1>2. d \in Calls
  BY CallFacts DEF Calls
<1>3. call' = call \/ call' = [call EXCEPT ![t] = d]
  BY DEF UseDangling, WaitInv, WaitTypes, Calls
<1> HIDE DEF d
<1>4. call' \in [Threads -> Calls]
  BY <1>2, <1>3 DEF WaitInv, WaitTypes
<1>5. WaitTypes'
  BY <1>1, <1>4 DEF WaitInv, WaitTypes
<1> QED
  BY <1>1, <1>5 DEF WaitInv, Pointers, WaiterFindable, NoLostWakeup

----------------------------------------------------------------------------
(* The theorems *)

(* Every step of every thread keeps the inductive invariant.               *)
LEMMA WaitStep == WaitInv /\ [Next]_vars => WaitInv'
<1> SUFFICES ASSUME WaitInv, [Next]_vars
             PROVE  WaitInv'
  OBVIOUS
<1>1. ASSUME NEW t \in Threads, Begin(t)
      PROVE  WaitInv'
  BY <1>1, AcquireToWaitKeeps, AcquireToNotifyKeeps, StoreKeeps, RefuseKeeps DEF Begin
<1>2. ASSUME NEW t \in Threads, Continue(t)
      PROVE  WaitInv'
  <2>1. ALL \in Counts
    BY WaitAssumption
  <2> QED
    BY <1>2, <2>1, EnlistKeeps, SleepKeeps, DelistKeeps, ReleaseKeeps, NotifyKeeps,
       UseDanglingKeeps, AcquireToNotifyKeeps DEF Continue
<1>3. CASE UNCHANGED vars
  BY <1>3 DEF vars, WaitInv, WaitTypes, Pointers, WaiterFindable, NoLostWakeup, Listed,
              ListOf
<1> QED
  BY <1>1, <1>2, <1>3 DEF Next

(* Nobody waits at first.                                                  *)
LEMMA WaitStart == Init => WaitInv
<1> SUFFICES ASSUME Init
             PROVE  WaitInv
  OBVIOUS
<1>1. \A t \in Threads : call[t] = Idle("none")
  BY DEF Init
<1>2. \A t \in Threads :
        call[t] \in Calls /\ call[t].pc = "idle" /\ call[t].wait_info = NULL
  BY <1>1, IdleType
<1>3. WaitTypes
  <2>1. call \in [Threads -> Calls]
    BY <1>2 DEF Init
  <2>2. wait_list \in [Infos -> Seq(Threads)]
    BY DEF Init
  <2> QED
    BY <2>1, <2>2 DEF Init, WaitTypes
<1>4. Pointers
  BY <1>2 DEF Init, Pointers
<1>5. WaiterFindable
  BY <1>2 DEF Init, WaiterFindable, Listed
<1>6. NoLostWakeup
  BY <1>2 DEF NoLostWakeup, Listed
<1> QED
  BY <1>3, <1>4, <1>5, <1>6 DEF WaitInv

(* The inductive invariant holds throughout.                               *)
THEOREM WaitInvariant == Spec => []WaitInv
BY WaitStart, WaitStep, PTL DEF Spec

(* For any number of threads and addresses: as long as no destroyed wait   *)
(* info has been used, a thread inside memory.atomic.wait is in the list   *)
(* of the wait info that acquire_wait_info finds for its address, once,    *)
(* and the list holds nothing else.                                        *)
THEOREM WaiterFindableHolds == Spec => []WaiterFindable
<1>1. WaitInv => WaiterFindable
  BY DEF WaitInv
<1> QED
  BY <1>1, WaitInvariant, PTL

(* For any number of threads and addresses: a thread that waits for a      *)
(* value that is gone has been notified, or the thread that stored the     *)
(* value has its notification of all still before it.                      *)
THEOREM NoLostWakeupHolds == Spec => []NoLostWakeup
<1>1. WaitInv => NoLostWakeup
  BY DEF WaitInv
<1> QED
  BY <1>1, WaitInvariant, PTL
============================================================================
