------------------------------ MODULE WasiFd ------------------------------
(***************************************************************************)
(* The WASI descriptor table: entries that refer to counted fd_objects,    *)
(* which own descriptors of the host. Threads of the app call it           *)
(* concurrently. What runs under the table's read-write lock is one step;  *)
(* a system call on an object, its release and the insertion of a new      *)
(* descriptor are steps of their own.                                      *)
(***************************************************************************)
EXTENDS Integers, FiniteSets, FiniteSetsExt, Sequences, SequencesExt, TLC

CONSTANTS
    Threads,
    Existing,     \* descriptors at start: a function to [host, type, file]
    Preopens,     \* the ones of them that have a prestat
    HostFds,      \* bound: descriptors the host can have open
    StdHost,      \* host descriptors 0..2, never closed
    Objects,      \* bound: addresses of fd_objects
    MaxSize,      \* bound: slots of the table, a power of two
    MaxCalls,     \* bound: calls of the app
    FdCalls,      \* operations on one descriptor explored, within DOMAIN FdRights
    RightsCalls,  \* rights fd_fdstat_set_rights is explored with
    NULL,
    CRASHED       \* see stuck

FdTableSlots == 0 .. MaxSize - 1

Types == {"file", "dir", "sock"}

ASSUME WasiFdAssumption ==
    /\ DOMAIN Existing \subseteq FdTableSlots /\ Preopens \subseteq DOMAIN Existing
    /\ StdHost \subseteq HostFds /\ HostFds \subseteq Nat
    /\ MaxSize \in Nat /\ MaxCalls \in Nat
    /\ Threads # {} /\ IsFiniteSet(Threads) /\ IsFiniteSet(Objects)
    /\ \E f \in [DOMAIN Existing -> Objects] : IsInjective(f)

(* An fd_object. NULL is neither one nor an address nor a thread, CRASHED   *)
(* is no thread.                                                            *)
ObjectType == [refs : Nat \ {0}, number : HostFds, type : Types]
ASSUME NullObject == NULL \notin ObjectType /\ NULL \notin Objects \cup Threads
ASSUME CrashedAssumption == CRASHED \notin Threads \cup {NULL}

(* What the embedder hands over: open descriptors, each once.               *)
ASSUME ExistingAssumption ==
    /\ \A fd \in DOMAIN Existing :
          /\ Existing[fd].host \in HostFds /\ Existing[fd].type \in Types
          /\ Existing[fd].file # NULL
    /\ \A fd, gd \in DOMAIN Existing : Existing[fd].host = Existing[gd].host => fd = gd

-----------------------------------------------------------------------------
(* Rights of the descriptor types, and what each operation needs.           *)

RIGHTS_REGULAR_FILE_BASE ==
    {"FD_DATASYNC", "FD_READ", "FD_SEEK", "FD_FDSTAT_SET_FLAGS", "FD_SYNC", "FD_TELL",
     "FD_WRITE", "FD_ADVISE", "FD_ALLOCATE", "FD_FILESTAT_GET", "FD_FILESTAT_SET_SIZE",
     "FD_FILESTAT_SET_TIMES", "POLL_FD_READWRITE"}
RIGHTS_DIRECTORY_BASE ==
    {"FD_FDSTAT_SET_FLAGS", "FD_SYNC", "FD_ADVISE", "PATH_CREATE_DIRECTORY",
     "PATH_CREATE_FILE", "PATH_LINK_SOURCE", "PATH_LINK_TARGET", "PATH_OPEN", "FD_READDIR",
     "PATH_READLINK", "PATH_RENAME_SOURCE", "PATH_RENAME_TARGET", "PATH_FILESTAT_GET",
     "PATH_FILESTAT_SET_SIZE", "PATH_FILESTAT_SET_TIMES", "FD_FILESTAT_GET",
     "FD_FILESTAT_SET_TIMES", "PATH_SYMLINK", "PATH_UNLINK_FILE", "PATH_REMOVE_DIRECTORY",
     "POLL_FD_READWRITE"}
RIGHTS_SOCKET_BASE ==
    {"FD_READ", "FD_FDSTAT_SET_FLAGS", "FD_WRITE", "FD_FILESTAT_GET", "POLL_FD_READWRITE",
     "SOCK_CONNECT", "SOCK_LISTEN", "SOCK_BIND", "SOCK_ACCEPT", "SOCK_RECV", "SOCK_SEND",
     "SOCK_ADDR_LOCAL", "SOCK_ADDR_REMOTE", "SOCK_RECV_FROM", "SOCK_SEND_TO"}
RIGHTS_ALL == RIGHTS_REGULAR_FILE_BASE \cup RIGHTS_DIRECTORY_BASE \cup RIGHTS_SOCKET_BASE

(* fd_determine_type_rights; the rights the open mode excludes are left out *)
(* by the caller.                                                           *)
MaxBase(type) ==
    CASE type = "file" -> RIGHTS_REGULAR_FILE_BASE
      [] type = "dir"  -> RIGHTS_DIRECTORY_BASE
      [] type = "sock" -> RIGHTS_SOCKET_BASE
MaxInheriting(type) ==
    CASE type = "file" -> {}
      [] type = "dir"  -> RIGHTS_DIRECTORY_BASE \cup RIGHTS_REGULAR_FILE_BASE
      [] type = "sock" -> RIGHTS_ALL

(* Operations that take one object, call the host on it and release it.     *)
IoRights ==
    [fd_datasync |-> {"FD_DATASYNC"}, fd_pread |-> {"FD_READ"}, fd_pwrite |-> {"FD_WRITE"},
     fd_read |-> {"FD_READ"}]
SeekRights ==
    [fd_seek |-> {"FD_SEEK", "FD_TELL"}, fd_tell |-> {"FD_TELL"}]
FlagRights == [fd_fdstat_set_flags |-> {"FD_FDSTAT_SET_FLAGS"}]
WriteRights ==
    [fd_sync |-> {"FD_SYNC"}, fd_write |-> {"FD_WRITE"}, fd_advise |-> {"FD_ADVISE"},
     fd_allocate |-> {"FD_ALLOCATE"}]
ReaddirRights == [fd_readdir |-> {"FD_READDIR"}]
StatRights ==
    [fd_filestat_get |-> {"FD_FILESTAT_GET"}, fd_filestat_set_size |-> {"FD_FILESTAT_SET_SIZE"},
     fd_filestat_set_times |-> {"FD_FILESTAT_SET_TIMES"}]
SockRights ==
    [sock_accept |-> {"SOCK_ACCEPT"}, sock_addr_local |-> {"SOCK_ADDR_LOCAL"},
     sock_addr_remote |-> {"SOCK_ADDR_LOCAL"}, sock_bind |-> {"SOCK_BIND"},
     sock_connect |-> {"SOCK_BIND"}]
SockGetRights ==
    [o \in {"sock_get_recv_buf_size", "sock_get_reuse_addr", "sock_get_reuse_port",
            "sock_get_send_buf_size"} |-> {}]
SockListenRights == [sock_listen |-> {"SOCK_LISTEN"}]
SockSetRights ==
    [o \in {"sock_set_recv_buf_size", "sock_set_reuse_addr", "sock_set_reuse_port",
            "sock_set_send_buf_size"} |-> {}]
SockIoRights ==
    [sock_recv_from |-> {"FD_READ"}, sock_send |-> {"FD_WRITE"}, sock_send_to |-> {"FD_WRITE"},
     sock_shutdown |-> {}]
SockLevelRights ==
    [o \in {"sock_set_linger", "sock_get_linger", "sock_set_ip_add_membership",
            "sock_set_ip_drop_membership", "sock_set_ip_multicast_loop",
            "sock_get_ip_multicast_loop"} |-> {}]
FdRights ==
    IoRights @@ SeekRights @@ FlagRights @@ WriteRights @@ ReaddirRights @@ StatRights
        @@ SockRights @@ SockGetRights @@ SockListenRights @@ SockSetRights
        @@ SockIoRights @@ SockLevelRights

ASSUME CallsAssumption == FdCalls \subseteq DOMAIN FdRights

-----------------------------------------------------------------------------
VARIABLES
    entries,   \* [FdTableSlots -> [object, base, inheriting]]
    size,      \* slots allocated
    used,      \* ft->used
    obj,       \* [Objects -> [refs, number, type], or NULL when free]
    host,      \* [HostFds -> the file it is open on, or NULL]
    th,        \* [Threads -> what the call in progress holds]
    stuck,     \* the thread that looks for a free slot in a full table; CRASHED when
               \* the process ended by a NULL dereference; else NULL
    calls      \* calls made

fdVars == <<entries, size, used, obj, host, stuck>>

NoEntry == [object |-> NULL, base |-> {}, inheriting |-> {}]

(* fos: objects to release; number: a host descriptor not yet in the table. *)
Idle == [pc |-> "idle", fos |-> << >>, number |-> NULL, type |-> NULL,
         base |-> {}, inheriting |-> {}, pa |-> NULL, old |-> NULL, op |-> "none", req |-> NULL]

-----------------------------------------------------------------------------
(* The table *)

fd_table_get_entry(fd, base, inheriting) ==
    /\ fd < size /\ entries[fd].object # NULL
    /\ base \subseteq entries[fd].base
    /\ inheriting \subseteq entries[fd].inheriting

(* Doubles until the table is larger than min and at least half empty.      *)
fd_table_grow(sz, us, min, incr) ==
    IF sz > min /\ sz >= (us + incr) * 2 THEN sz
    ELSE Min({s \in {2 ^ k : k \in 0 .. MaxSize} :
                 s >= sz /\ s > min /\ s >= (us + incr) * 2})

Attached(es, fd, o, base, inheriting) ==
    [es EXCEPT ![fd] = [object |-> o, base |-> base, inheriting |-> inheriting]]
Detached(es, fd) == [es EXCEPT ![fd] = NoEntry]
CanDetach == used > 0                         \* asserted by fd_table_detach

(* fd_object_release: the last reference closes the host's descriptor.      *)
Closed(hst, numbers) == [n \in HostFds |-> IF n \in numbers THEN NULL ELSE hst[n]]
Released(s, o) ==
    IF s.obj[o].refs > 1
    THEN [s EXCEPT !.obj[o].refs = @ - 1]
    ELSE [obj |-> [s.obj EXCEPT ![o] = NULL],
          host |-> Closed(s.host, {s.obj[o].number} \ StdHost)]
Heap == [obj |-> obj, host |-> host]
Acquired(objs, o) == [objs EXCEPT ![o].refs = @ + 1]

(* The host gives the lowest free descriptor.                               *)
HostFree == {n \in HostFds : host[n] = NULL}
HostOpened(n, file) == [host EXCEPT ![n] = file]

Locked == stuck = NULL            \* the table's lock can be taken
Begin(t) == th[t].pc = "idle" /\ calls < MaxCalls /\ calls' = calls + 1

(* fd_table_insert_existing for 0, 1, 2 and the preopened directories.      *)
FdInit ==
    LET order == SetToSortSeq(DOMAIN Existing, <)
        sizes[k \in 0 .. Len(order)] ==
            IF k = 0 THEN 0 ELSE fd_table_grow(sizes[k - 1], k - 1, order[k], 1)
        pick == CHOOSE f \in [DOMAIN Existing -> Objects] : IsInjective(f)
    IN /\ size = sizes[Len(order)] /\ used = Len(order)
       /\ entries = [fd \in FdTableSlots |->
             IF fd \in DOMAIN Existing
             THEN [object |-> pick[fd], base |-> MaxBase(Existing[fd].type),
                   inheriting |-> MaxInheriting(Existing[fd].type)]
             ELSE NoEntry]
       /\ obj = [o \in Objects |->
             IF \E fd \in DOMAIN Existing : pick[fd] = o
             THEN LET fd == CHOOSE fd \in DOMAIN Existing : pick[fd] = o
                  IN [refs |-> 1, number |-> Existing[fd].host, type |-> Existing[fd].type]
             ELSE NULL]
       /\ host = [n \in HostFds |->
             IF \E fd \in DOMAIN Existing : Existing[fd].host = n
             THEN Existing[CHOOSE fd \in DOMAIN Existing : Existing[fd].host = n].file
             ELSE NULL]
       /\ th = [t \in Threads |-> Idle]
       /\ stuck = NULL /\ calls = 0

-----------------------------------------------------------------------------
(* Operations on a descriptor: get, system call, release.                   *)

Using(fos, op) == [Idle EXCEPT !.pc = "use", !.fos = fos, !.op = op]

fd_object_get(t, op, fd) ==
    /\ Begin(t) /\ Locked
    /\ fd_table_get_entry(fd, FdRights[op], {})
    /\ LET o == entries[fd].object
       IN /\ obj' = Acquired(obj, o)
          /\ th' = [th EXCEPT ![t] = Using(<<o>>, op)]
    /\ UNCHANGED <<entries, size, used, host, stuck>>

(* poll_oneoff references the objects of its subscriptions, of the same     *)
(* descriptor perhaps, in one critical section.                             *)
PollGet(t, a, b) ==
    /\ Begin(t) /\ Locked
    /\ LET polled(fd) == IF fd_table_get_entry(fd, {"POLL_FD_READWRITE"}, {})
                         THEN <<entries[fd].object>> ELSE << >>
           fos == polled(a) \o polled(b)
           times(o) == Cardinality({k \in DOMAIN fos : fos[k] = o})
       IN /\ obj' = [o \in Objects |-> IF times(o) = 0 THEN obj[o]
                                      ELSE [obj[o] EXCEPT !.refs = @ + times(o)]]
          /\ th' = [th EXCEPT ![t] =
                IF fos = << >> THEN Idle ELSE Using(fos, "poll_oneoff")]
    /\ UNCHANGED <<entries, size, used, host, stuck>>

fd_object_release(t) ==
    /\ th[t].pc = "use"
    /\ LET r == Released(Heap, Head(th[t].fos))
       IN obj' = r.obj /\ host' = r.host
    /\ th' = [th EXCEPT ![t] =
          IF Len(th[t].fos) = 1 THEN Idle ELSE [th[t] EXCEPT !.fos = Tail(@)]]
    /\ UNCHANGED <<entries, size, used, stuck, calls>>

fd_close(t, fd) ==
    /\ Begin(t) /\ Locked
    /\ fd \notin Preopens
    /\ fd_table_get_entry(fd, {}, {}) /\ CanDetach
    /\ entries' = Detached(entries, fd) /\ used' = used - 1
    /\ th' = [th EXCEPT ![t] = Using(<<entries[fd].object>>, "none")]
    /\ UNCHANGED <<size, obj, host, stuck>>

(* Mutant: the object is not acquired for its second entry.                 *)
fd_renumberUnacquired(t, from, to) ==
    /\ Begin(t) /\ Locked
    /\ {from, to} \cap Preopens = {} /\ from # to
    /\ fd_table_get_entry(from, {}, {}) /\ fd_table_get_entry(to, {}, {}) /\ CanDetach
    /\ LET e == entries[from]
           r == Released(Heap, entries[to].object)
           s == Released(r, e.object)
       IN /\ entries' = Detached(Attached(entries, to, e.object, e.base, e.inheriting), from)
          /\ obj' = s.obj /\ host' = s.host
    /\ used' = used - 1
    /\ UNCHANGED <<size, th, stuck>>

(* Two descriptors: everything, both releases included, under the write     *)
(* lock. The count of used slots is lowered once more than slots are        *)
(* detached.                                                                *)
fd_renumber(t, from, to) ==
    /\ Begin(t) /\ Locked
    /\ {from, to} \cap Preopens = {} /\ from # to
    /\ fd_table_get_entry(from, {}, {}) /\ fd_table_get_entry(to, {}, {}) /\ CanDetach
    /\ LET e == entries[from]
           r == Released([Heap EXCEPT !.obj = Acquired(obj, e.object)], entries[to].object)
           s == Released(r, e.object)
       IN /\ entries' = Detached(Attached(entries, to, e.object, e.base, e.inheriting), from)
          /\ obj' = s.obj /\ host' = s.host
    /\ used' = used - 2
    /\ UNCHANGED <<size, th, stuck>>

(* A descriptor onto itself: it is detached, then the reference of the      *)
(* object it no longer has is to be acquired.                               *)
fd_renumber_same(t, fd) ==
    /\ Begin(t) /\ Locked
    /\ fd \notin Preopens
    /\ fd_table_get_entry(fd, {}, {}) /\ CanDetach
    /\ entries' = Detached(entries, fd) /\ used' = used - 1
    /\ stuck' = CRASHED
    /\ UNCHANGED <<size, obj, host, th>>

(* Mutant: the entry is looked up without the rights it is to get.          *)
fd_fdstat_set_rightsUnchecked(t, fd, base, inheriting) ==
    /\ Begin(t) /\ Locked
    /\ fd_table_get_entry(fd, {}, {})
    /\ entries' = [entries EXCEPT ![fd].base = base, ![fd].inheriting = inheriting]
    /\ UNCHANGED <<size, used, obj, host, th, stuck>>

fd_fdstat_set_rights(t, fd, base, inheriting) ==
    /\ Begin(t) /\ Locked
    /\ fd_table_get_entry(fd, base, inheriting)
    /\ entries' = [entries EXCEPT ![fd].base = base, ![fd].inheriting = inheriting]
    /\ UNCHANGED <<size, used, obj, host, th, stuck>>

-----------------------------------------------------------------------------
(* New descriptors *)

Inserting(number, type, base, inheriting) ==
    [Idle EXCEPT !.pc = "insert", !.number = number, !.type = type,
                 !.base = base, !.inheriting = inheriting]

sock_open(t) ==
    /\ Begin(t) /\ HostFree # {}
    /\ host' = HostOpened(Min(HostFree), "sock")
    /\ th' = [th EXCEPT ![t] =
          Inserting(Min(HostFree), "sock", MaxBase("sock"), MaxInheriting("sock"))]
    /\ UNCHANGED <<entries, size, used, obj, stuck>>

(* sock_accept releases the listening socket before it inserts the new one. *)
sock_accept(t) ==
    /\ th[t].pc = "use" /\ th[t].op = "sock_accept" /\ HostFree # {}
    /\ LET n == Min(HostFree)
           r == Released([Heap EXCEPT !.host = HostOpened(n, "sock")], th[t].fos[1])
       IN /\ obj' = r.obj /\ host' = r.host
          /\ th' = [th EXCEPT ![t] =
                Inserting(n, "sock", MaxBase("sock"), MaxInheriting("sock"))]
    /\ UNCHANGED <<entries, size, used, stuck, calls>>

(* A slot is drawn at random until it is free: forever if none is.          *)
fd_table_insert_fd(t) ==
    /\ th[t].pc = "insert" /\ Locked
    /\ \E o \in Objects : obj[o] = NULL
    /\ LET o == CHOOSE x \in Objects : obj[x] = NULL
           sz == fd_table_grow(size, used, 0, 1)
           free == {fd \in 0 .. sz - 1 : entries[fd].object = NULL}
       IN /\ sz \in 0 .. MaxSize
          /\ size' = sz
          /\ obj' = [obj EXCEPT ![o] =
                [refs |-> 1, number |-> th[t].number, type |-> th[t].type]]
          /\ \/ /\ free = {} /\ stuck' = t
                /\ UNCHANGED <<entries, used, th>>
             \/ \E fd \in free :
                /\ entries' = Attached(entries, fd, o, th[t].base, th[t].inheriting)
                /\ used' = used + 1 /\ stuck' = stuck
                /\ th' = [th EXCEPT ![t] = Idle]
    /\ UNCHANGED <<host, calls>>

(* No memory for the object or for a larger table.                          *)
InsertFails(t) ==
    /\ th[t].pc = "insert" /\ Locked
    /\ host' = [host EXCEPT ![th[t].number] = NULL]
    /\ th' = [th EXCEPT ![t] = Idle]
    /\ UNCHANGED <<entries, size, used, obj, stuck, calls>>

-----------------------------------------------------------------------------
FdNext ==
    \E t \in Threads :
        \/ \E op \in FdCalls, fd \in FdTableSlots : fd_object_get(t, op, fd)
        \/ \E a, b \in DOMAIN Existing : PollGet(t, a, b)
        \/ fd_object_release(t)
        \/ \E fd \in FdTableSlots : fd_close(t, fd)
        \/ \E from, to \in FdTableSlots : fd_renumber(t, from, to)
        \/ \E fd \in FdTableSlots : fd_renumber_same(t, fd)
        \/ \E fd \in FdTableSlots, base \in RightsCalls :
              fd_fdstat_set_rights(t, fd, base, {})
        \/ sock_open(t) \/ sock_accept(t)
        \/ fd_table_insert_fd(t) \/ InsertFails(t)

(* fd_table_destroy: what the table still refers to is released.            *)
fd_table_destroy ==
    /\ Locked /\ \A t \in Threads : th[t].pc = "idle"
    /\ \E fd \in FdTableSlots : entries[fd].object # NULL
    /\ LET here(o) == Cardinality({fd \in FdTableSlots : entries[fd].object = o})
           last == {o \in Objects : here(o) > 0 /\ obj[o].refs =< here(o)}
       IN /\ obj' = [o \in Objects |->
                IF o \in last THEN NULL
                ELSE IF here(o) = 0 THEN obj[o]
                ELSE [obj[o] EXCEPT !.refs = @ - here(o)]]
          /\ host' = Closed(host, {obj[o].number : o \in last} \ StdHost)
    /\ entries' = [fd \in FdTableSlots |-> NoEntry]
    /\ calls' = MaxCalls
    /\ UNCHANGED <<size, used, th, stuck>>
=============================================================================
