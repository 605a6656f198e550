----------------------------- MODULE AtomicWait -----------------------------
(***************************************************************************)
(* memory.atomic.wait and memory.atomic.notify on shared linear memory     *)
(* (core/iwasm/common/wasm_shared_memory.c).                               *)
(*                                                                         *)
(* wait_map leads from an address to its wait info: a lock and the list of *)
(* the nodes of the threads that wait there.  A thread finds or creates    *)
(* the info under shared_memory_list_lock, releases that lock, and takes   *)
(* the lock of the info; in between it holds a bare pointer.  One action   *)
(* is what a thread does while it holds one lock.                          *)
(***************************************************************************)
EXTENDS Naturals, Sequences, SequencesExt

CONSTANTS
    Threads, Addrs,
    Infos,      \* the places wasm_runtime_malloc has for wait infos
    Values,     \* the values of the word at an address
    Counts,     \* the counts that wasm_runtime_atomic_notify is called with
    ALL         \* UINT32_MAX, the count that is meant for all

NULL == "NULL"
DANGLING == "dangling"      \* pointed to a wait info, destroyed since

ASSUME WaitAssumption ==
    /\ ALL \in Nat /\ Counts \subseteq 0 .. ALL /\ ALL \in Counts
    /\ {NULL, DANGLING} \cap Infos = {}

VARIABLES
    word,       \* shared linear memory
    wait_map,   \* address -> its wait info
    wait_list,  \* wait info -> its threads, the latest first
    call,       \* thread -> the call it is in, with its local variables
    undefined   \* a destroyed wait info has been used

vars == <<word, wait_map, wait_list, call, undefined>>

(* ret tells how the last wait ended, and nothing of other calls; a thread *)
(* has at most one wait node, whose status is kept here too.               *)
Idle(ret) ==
    [pc |-> "idle", address |-> NULL, wait_info |-> NULL, expect |-> NULL,
     forever |-> FALSE, count |-> 0, status |-> "none", ret |-> ret]

Init ==
    /\ word \in [Addrs -> Values]
    /\ wait_map = [a \in Addrs |-> NULL]
    /\ wait_list = [w \in Infos |-> <<>>]
    /\ call = [t \in Threads |-> Idle("none")]
    /\ undefined = FALSE

Return(t, ret) == call' = [call EXCEPT ![t] = Idle(ret)]

(* A thread is about to use the wait info it holds.                        *)
IsAt(t, pc) == call[t].pc = pc /\ ~undefined
Dangles(t) == call[t].wait_info = DANGLING
ListOf(t) == wait_list[call[t].wait_info]

(* A destroyed lock is taken, a destroyed list read or written.  Anything  *)
(* may follow; in particular a node may go into the list that was freed.   *)
UseDangling(t) ==
    /\ \E pc \in {"enlist", "delist", "release", "notify"} : IsAt(t, pc)
    /\ Dangles(t)
    /\ undefined' = TRUE
    /\ \/ UNCHANGED call
       \/ /\ call[t].pc = "enlist"
          /\ call' = [call EXCEPT ![t].pc = "sleep", ![t].status = "S_WAITING"]
    /\ UNCHANGED <<word, wait_map, wait_list>>

----------------------------------------------------------------------------
(* wasm_runtime_atomic_wait *)

(* Memory that is not shared (wait only) or an address out of bounds.      *)
Refuse(t) ==
    /\ IsAt(t, "idle")
    /\ Return(t, "none")
    /\ UNCHANGED <<word, wait_map, wait_list, undefined>>

Unused == Infos \ {wait_map[a] : a \in Addrs}

(* acquire_wait_info(address, true); the allocation may fail.              *)
AcquireToWait(t, a, expect, forever) ==
    LET held(w) == [Idle("none") EXCEPT !.pc = "enlist", !.address = a,
                        !.wait_info = w, !.expect = expect, !.forever = forever]
    IN  /\ IsAt(t, "idle")
        /\ \/ /\ wait_map[a] # NULL
              /\ call' = [call EXCEPT ![t] = held(wait_map[a])]
              /\ UNCHANGED <<wait_map, wait_list>>
           \/ /\ wait_map[a] = NULL
              /\ \E w \in Unused :
                    /\ wait_map' = [wait_map EXCEPT ![a] = w]
                    /\ wait_list' = [wait_list EXCEPT ![w] = <<>>]
                    /\ call' = [call EXCEPT ![t] = held(w)]
           \/ /\ wait_map[a] = NULL
              /\ Return(t, "none")
              /\ UNCHANGED <<wait_map, wait_list>>
        /\ UNCHANGED <<word, undefined>>

(* Under the lock of the info: the value is compared and a node inserted,  *)
(* or not, if the value is another or there is no memory; the info stays.  *)
Enlist(t) ==
    /\ IsAt(t, "enlist") /\ ~Dangles(t)
    /\ \/ /\ word[call[t].address] # call[t].expect
          /\ Return(t, "none") /\ UNCHANGED wait_list
       \/ /\ word[call[t].address] = call[t].expect
          /\ Return(t, "none") /\ UNCHANGED wait_list
       \/ /\ word[call[t].address] = call[t].expect
          /\ wait_list' = [wait_list EXCEPT ![call[t].wait_info] = <<t>> \o @]
          /\ call' = [call EXCEPT ![t].pc = "sleep", ![t].status = "S_WAITING"]
    /\ UNCHANGED <<word, wait_map, undefined>>

(* os_cond_reltimedwait begins.  A signal that came before is lost.        *)
Sleep(t) ==
    /\ call[t].pc = "sleep"
    /\ call' = [call EXCEPT ![t].pc = "asleep"]
    /\ UNCHANGED <<word, wait_map, wait_list, undefined>>

(* Mutant: the sleep is repeated while the status is S_WAITING.            *)
TimeOutRepeats(t) ==
    /\ call[t].pc = "asleep" /\ call[t].status # "S_WAITING"
    /\ call' = [call EXCEPT ![t].pc = "delist"]
    /\ UNCHANGED <<word, wait_map, wait_list, undefined>>

(* The timeout, or a spurious wakeup.  A negative timeout, meant to have   *)
(* no end, is replaced by BHT_WAIT_FOREVER, which is -1 in an int64, and   *)
(* then divided by 1000: it runs out at once.                              *)
TimeOut(t) ==
    /\ call[t].pc = "asleep"
    /\ call' = [call EXCEPT ![t].pc = "delist"]
    /\ UNCHANGED <<word, wait_map, wait_list, undefined>>

(* Under the lock of the info: the node is read, removed and freed.        *)
Delist(t) ==
    /\ IsAt(t, "delist") /\ ~Dangles(t)
    /\ wait_list' = [wait_list EXCEPT ![call[t].wait_info] = RemoveFirst(@, t)]
    /\ call' = [call EXCEPT ![t].pc = "release"]
    /\ UNCHANGED <<word, wait_map, undefined>>

(* The info is destroyed: all other pointers to it dangle.                 *)
Destroyed(calls, w) ==
    [u \in Threads |-> IF calls[u].wait_info = w
                       THEN [calls[u] EXCEPT !.wait_info = DANGLING]
                       ELSE calls[u]]

(* Mutant: the wait info is destroyed whoever is in its list.              *)
ReleaseWaitInfoAlways(t) ==
    LET done == [call EXCEPT ![t] = Idle(IF @.status = "S_WAITING" THEN "timed out"
                                                                   ELSE "ok")]
        w    == call[t].wait_info
    IN  /\ IsAt(t, "release") /\ ~Dangles(t)
        /\ wait_map' = [wait_map EXCEPT ![call[t].address] = NULL]
        /\ call' = Destroyed(done, w)
        /\ UNCHANGED <<word, wait_list, undefined>>

(* release_wait_info, under shared_memory_list_lock, and the return.       *)
ReleaseWaitInfo(t) ==
    LET done == [call EXCEPT ![t] = Idle(IF @.status = "S_WAITING" THEN "timed out"
                                                                   ELSE "ok")]
        w    == call[t].wait_info
    IN  /\ IsAt(t, "release") /\ ~Dangles(t)
        /\ IF wait_list[w] = <<>>
           THEN /\ wait_map' = [wait_map EXCEPT ![call[t].address] = NULL]
                /\ call' = Destroyed(done, w)
           ELSE /\ call' = done
                /\ UNCHANGED wait_map
        /\ UNCHANGED <<word, wait_list, undefined>>

----------------------------------------------------------------------------
(* wasm_runtime_atomic_notify *)

(* acquire_wait_info(address, false), from a thread that has just stored   *)
(* or one that has not.                                                    *)
AcquireToNotify(t, a, count) ==
    /\ \/ IsAt(t, "idle")
       \/ IsAt(t, "stored") /\ call[t].address = a /\ count = ALL
    /\ IF wait_map[a] = NULL
       THEN Return(t, "none")
       ELSE call' = [call EXCEPT ![t] =
                        [Idle("none") EXCEPT !.pc = "notify", !.address = a,
                            !.wait_info = wait_map[a], !.count = count]]
    /\ UNCHANGED <<word, wait_map, wait_list, undefined>>

(* Mutant: the last node is left out.                                      *)
notify_wait_listButOne(list, count) ==
    LET notify_count == IF count = ALL \/ count > Len(list) THEN Len(list) - 1 ELSE count
    IN  ToSet(SubSeq(list, 1, notify_count))

(* notify_wait_list: the first nodes of the list, notified or not before.  *)
notify_wait_list(list, count) ==
    LET notify_count == IF count = ALL \/ count > Len(list) THEN Len(list) ELSE count
    IN  ToSet(SubSeq(list, 1, notify_count))

(* status = S_NOTIFIED and os_cond_signal.                                 *)
Woken(c) ==
    [c EXCEPT !.status = "S_NOTIFIED",
              !.pc = IF @ = "asleep" THEN "delist" ELSE @]

(* Under the lock of the info: a thread that is already asleep wakes up.   *)
Notify(t) ==
    LET told == notify_wait_list(ListOf(t), call[t].count)
    IN  /\ IsAt(t, "notify") /\ ~Dangles(t)
        /\ call' = [u \in Threads |->
                        IF u = t THEN Idle("none")
                        ELSE IF u \in told THEN Woken(call[u]) ELSE call[u]]
        /\ UNCHANGED <<word, wait_map, wait_list, undefined>>

(* The app, outside the runtime: a store whose thread notifies next.       *)
Store(t, a, v) ==
    /\ IsAt(t, "idle")
    /\ word' = [word EXCEPT ![a] = v]
    /\ call' = [call EXCEPT ![t] = [Idle("none") EXCEPT !.pc = "stored", !.address = a]]
    /\ UNCHANGED <<wait_map, wait_list, undefined>>

----------------------------------------------------------------------------
Begin(t) ==
    \E a \in Addrs :
        \/ \E v \in Values, forever \in BOOLEAN : AcquireToWait(t, a, v, forever)
        \/ \E count \in Counts : IsAt(t, "idle") /\ AcquireToNotify(t, a, count)
        \/ \E v \in Values : Store(t, a, v)
        \/ Refuse(t)

(* What a thread does until its call returns.                              *)
Continue(t) ==
    \/ Enlist(t) \/ Sleep(t) \/ TimeOut(t) \/ Delist(t) \/ ReleaseWaitInfo(t)
    \/ Notify(t) \/ UseDangling(t)
    \/ \E a \in Addrs : IsAt(t, "stored") /\ AcquireToNotify(t, a, ALL)

Next == \E t \in Threads : Begin(t) \/ Continue(t)

(* Each thread that is in a call is scheduled again, and its clock ticks.  *)
Spec == Init /\ [][Next]_vars /\ \A t \in Threads : WF_vars(Continue(t))

----------------------------------------------------------------------------
Listed(t) == call[t].pc \in {"sleep", "asleep", "delist"}

(* A thread that waits can be found: its wait info is not destroyed, is    *)
(* the one that wait_map has for its address, and has its node once; a     *)
(* list holds no other nodes.                                              *)
WaiterFindable ==
    ~undefined =>
        /\ \A t \in Threads : Listed(t) =>
                /\ call[t].wait_info = wait_map[call[t].address]
                /\ call[t].wait_info \in Infos
                /\ Contains(ListOf(t), t)
        /\ \A a \in Addrs : wait_map[a] # NULL =>
                LET list == wait_list[wait_map[a]]
                IN  /\ \A k \in 1 .. Len(list) :
                            Listed(list[k]) /\ call[list[k]].address = a
                    /\ \A j, k \in 1 .. Len(list) : list[j] = list[k] => j = k

(* No wakeup is lost: a thread that waits for a value that is gone has     *)
(* been notified, or a thread that changed the value will still notify.    *)
NoLostWakeup ==
    ~undefined =>
        \A t \in Threads :
            Listed(t) /\ call[t].expect # word[call[t].address] =>
                \/ call[t].status = "S_NOTIFIED"
                \/ \E u \in Threads :
                    /\ call[u].address = call[t].address
                    /\ \/ call[u].pc = "stored"
                       \/ call[u].pc = "notify" /\ call[u].count = ALL

(* Every notify and every wait with a finite timeout returns, whether its  *)
(* signal came during the sleep, before it and was lost, or never, unless  *)
(* a destroyed wait info is used.  Nothing is promised for a wait that was *)
(* asked to have no timeout.                                               *)
FiniteCallsReturn ==
    \A t \in Threads :
        call[t].pc # "idle" /\ ~call[t].forever ~> (call[t].pc = "idle" \/ undefined)
============================================================================
