----------------------------- MODULE WasiPath -----------------------------
(***************************************************************************)
(* The WASI calls that take a path: path_get walks it below a directory    *)
(* descriptor, component by component and symbolic link by symbolic link,  *)
(* and leases the directory of the last component to the call; path_put    *)
(* gives the lease back. The file system may change under the walk.        *)
(***************************************************************************)
EXTENDS WasiFd

CONSTANTS
    Inside,       \* files and directories below the preopened directories
    Outside,      \* a file elsewhere, where absolute links lead
    Names,        \* names in directories
    DirNodes, LinkNodes,  \* the members of Inside that are directories, symbolic links
    NewFile,      \* the file of Inside that O_CREAT makes
    Target,       \* [LinkNodes -> path]
    FileSystem,   \* at start: [DirNodes -> [Names -> Inside \cup {NULL}]]
    Swaps,        \* <<directory, name, node>> another program may set
    MaxSwaps,     \* bound: how many times it does
    Requests,     \* path calls explored, see PathRequest
    MAX_FDS, MAX_PATHS, MAX_EXPANSIONS    \* 128, 32 and 128 in path_get

(* A path is a sequence of components; "" first makes it absolute. slash    *)
(* tells whether it ends with one.                                          *)
Components == Names \cup {"", ".", ".."}

(* needed rights, whether the last component must be kept, and whether the  *)
(* call takes a second path.                                                *)
CallTable(rights, final, second) == [rights |-> rights, final |-> final, second |-> second]
CreateRights == [path_create_directory |-> CallTable({"PATH_CREATE_DIRECTORY"}, TRUE, {})]
LinkRights == [path_link |-> CallTable({"PATH_LINK_SOURCE"}, FALSE, {"PATH_LINK_TARGET"})]
OpenRights ==
    [path_open |-> CallTable({"PATH_OPEN"}, FALSE, {}),
     path_open_creat |-> CallTable({"PATH_OPEN", "PATH_CREATE_FILE"}, TRUE, {})]
MoveRights ==
    [path_readlink |-> CallTable({"PATH_READLINK"}, FALSE, {}),
     path_rename |-> CallTable({"PATH_RENAME_SOURCE"}, TRUE, {"PATH_RENAME_TARGET"})]
PathStatRights ==
    [path_filestat_get |-> CallTable({"PATH_FILESTAT_GET"}, FALSE, {}),
     path_filestat_set_times |-> CallTable({"PATH_FILESTAT_SET_TIMES"}, FALSE, {})]
UnlinkRights ==
    [path_symlink |-> CallTable({"PATH_SYMLINK"}, TRUE, {}),
     path_unlink_file |-> CallTable({"PATH_UNLINK_FILE"}, TRUE, {}),
     path_remove_directory |-> CallTable({"PATH_REMOVE_DIRECTORY"}, TRUE, {})]
Joined(f, g) ==
    [op \in DOMAIN f \cup DOMAIN g |-> IF op \in DOMAIN f THEN f[op] ELSE g[op]]
PathRights ==
    Joined(Joined(Joined(CreateRights, LinkRights), Joined(OpenRights, MoveRights)),
           Joined(PathStatRights, UnlinkRights))

Opens == DOMAIN OpenRights

(* What path_open asks for (none by the others): the mode it opens with,    *)
(* and what the directory must let be inherited.                            *)
Reads(r) == r.base \cap {"FD_READ", "FD_READDIR"} # {}
Writes(r) == r.base \cap {"FD_DATASYNC", "FD_WRITE", "FD_ALLOCATE", "FD_FILESTAT_SET_SIZE"} # {}
NeededInheriting(r) == r.base \cup r.inheriting \cup (IF Writes(r) THEN {"FD_SEEK"} ELSE {})
ExcludedByMode(r) ==
    IF ~Writes(r) THEN {"FD_WRITE"} ELSE IF ~Reads(r) THEN {"FD_READ"} ELSE {}

(* path2: the second path of a call.                                        *)
Paths == [comps : Seq(Components), slash : BOOLEAN]
ASSUME PathAssumption ==
    /\ Outside \notin Inside /\ DirNodes \cup LinkNodes \subseteq Inside
    /\ NewFile \in Inside \ (DirNodes \cup LinkNodes)
    /\ {"", ".", ".."} \cap Names = {}
    /\ Target \in [LinkNodes -> Paths]
    /\ \A r \in Requests :
          /\ r.op \in DOMAIN PathRights /\ NeededInheriting(r) \subseteq RIGHTS_ALL
          /\ {r.path, r.path2} \subseteq Paths /\ r.follow \in BOOLEAN

(* The preopened directories are the host's; so is what names lead to.      *)
ASSUME FilesAssumption ==
    /\ \A fd \in DOMAIN Existing :
          Existing[fd].type = "dir" \/ Existing[fd].host \notin StdHost =>
              Existing[fd].file \in Inside \cup {"sock"}
    /\ FileSystem \in [DirNodes -> [Names -> Inside \cup {NULL}]]
    /\ Swaps \subseteq DirNodes \X Names \X Inside
    /\ NULL \notin Inside \cup {"sock"}

LeaseType ==
    [fo : Objects, fds : Seq(HostFds), paths : Seq(Paths), expansions : Nat,
     follow : BOOLEAN, final : BOOLEAN, file : Names \cup {".", NULL}, slash : BOOLEAN]
ASSUME NullLease == NULL \notin LeaseType

VARIABLES
    fs,      \* the file system
    swaps,   \* changes made by others
    lost     \* leases a failed call did not give back

vars == <<entries, size, used, obj, host, th, stuck, calls, fs, swaps, lost>>

PathInit == FdInit /\ fs = FileSystem /\ swaps = 0 /\ lost = << >>

-----------------------------------------------------------------------------
(* path_get *)

Lease(o, path, follow, final) ==
    [fo |-> o, fds |-> <<obj[o].number>>, paths |-> <<path>>, expansions |-> 0,
     follow |-> follow, final |-> final, file |-> NULL, slash |-> FALSE]

PathGet(t, r, fd) ==
    /\ Begin(t) /\ Locked
    /\ fd_table_get_entry(fd, PathRights[r.op].rights, NeededInheriting(r))
    /\ LET o == entries[fd].object
       IN /\ obj' = Acquired(obj, o)
          /\ th' = [th EXCEPT ![t] =
                [Idle EXCEPT !.pc = "walk", !.op = r.op, !.req = r,
                    !.pa = Lease(o, r.path, r.follow, PathRights[r.op].final)]]
    /\ UNCHANGED <<entries, size, used, host, stuck, fs, swaps, lost>>

Walk(t) == Last(th[t].pa.paths)
file(t) == Head(Walk(t).comps)
rest(t) == Tail(Walk(t).comps)
ends_with_slashes(t) == rest(t) # << >> \/ Walk(t).slash
Dir(t) == host[Last(th[t].pa.fds)]
Node(t) == IF Dir(t) \in DirNodes THEN fs[Dir(t)][file(t)] ELSE NULL
MustBeDirectory(t) ==
    \/ Len(th[t].pa.paths) > 1 \/ rest(t) # << >>
    \/ ends_with_slashes(t) /\ ~th[t].pa.final

Goto(t, pc, pa) == th' = [th EXCEPT ![t] = [th[t] EXCEPT !.pc = pc, !.pa = pa]]

(* After a component: the end of the path, the end of an expanded link, or  *)
(* the next component.                                                      *)
Advance(t, fds) ==
    LET pa == [th[t].pa EXCEPT !.fds = fds]
        n == Len(pa.paths)
    IN Goto(t, IF rest(t) # << >> \/ n > 1 THEN "walk" ELSE "ready",
            IF rest(t) # << >> THEN [pa EXCEPT !.paths[n].comps = rest(t)]
            ELSE IF n > 1 THEN [pa EXCEPT !.paths = Front(@)]
            ELSE [pa EXCEPT !.file = "."])

Walking(t) == th[t].pc = "walk" /\ Walk(t).comps # << >>

WalkSame(t) ==
    /\ Walking(t) /\ file(t) = "."
    /\ Advance(t, th[t].pa.fds)
    /\ UNCHANGED <<fdVars, calls, fs, swaps, lost>>

WalkUp(t) ==
    /\ Walking(t) /\ file(t) = ".." /\ Len(th[t].pa.fds) > 1
    /\ host' = [host EXCEPT ![Last(th[t].pa.fds)] = NULL]
    /\ Advance(t, Front(th[t].pa.fds))
    /\ UNCHANGED <<entries, size, used, obj, stuck, calls, fs, swaps, lost>>

(* openat(O_DIRECTORY | O_NOFOLLOW)                                         *)
WalkDown(t) ==
    /\ Walking(t) /\ file(t) \in Names /\ MustBeDirectory(t)
    /\ Node(t) \in DirNodes /\ HostFree # {} /\ Len(th[t].pa.fds) < MAX_FDS
    /\ host' = HostOpened(Min(HostFree), Node(t))
    /\ Advance(t, Append(th[t].pa.fds, Min(HostFree)))
    /\ UNCHANGED <<entries, size, used, obj, stuck, calls, fs, swaps, lost>>

(* It failed with ELOOP, EMLINK or ENOTDIR, or the last component may be a  *)
(* link that is to be followed: readlinkat comes next.                      *)
WalkLink(t) ==
    /\ Walking(t) /\ file(t) \in Names
    /\ IF MustBeDirectory(t) THEN Node(t) \in Inside \ DirNodes
       ELSE ends_with_slashes(t) \/ th[t].pa.follow
    /\ Goto(t, "readlink", th[t].pa)
    /\ UNCHANGED <<fdVars, calls, fs, swaps, lost>>

(* Mutant: expansions are not limited.                                      *)
PushSymlinkForever(t) ==
    /\ th[t].pc = "readlink" /\ Node(t) \in LinkNodes
    /\ LET pa == th[t].pa
           n == Len(pa.paths)
           link == [Target[Node(t)] EXCEPT !.slash = @ \/ ends_with_slashes(t)]
           left == [pa.paths EXCEPT ![n].comps = rest(t)]
       IN /\ rest(t) = << >> \/ n < MAX_PATHS
          /\ Goto(t, "walk", [pa EXCEPT
                 !.paths = IF rest(t) = << >> THEN [@ EXCEPT ![n] = link]
                           ELSE Append(left, link)])
    /\ UNCHANGED <<fdVars, calls, fs, swaps, lost>>

(* push_symlink: a finished path is replaced, another one kept below.       *)
PushSymlink(t) ==
    /\ th[t].pc = "readlink" /\ Node(t) \in LinkNodes
    /\ th[t].pa.expansions + 1 # MAX_EXPANSIONS
    /\ LET pa == th[t].pa
           n == Len(pa.paths)
           link == [Target[Node(t)] EXCEPT !.slash = @ \/ ends_with_slashes(t)]
           left == [pa.paths EXCEPT ![n].comps = rest(t)]
       IN /\ rest(t) = << >> \/ n < MAX_PATHS
          /\ Goto(t, "walk", [pa EXCEPT !.expansions = @ + 1,
                 !.paths = IF rest(t) = << >> THEN [@ EXCEPT ![n] = link]
                           ELSE Append(left, link)])
    /\ UNCHANGED <<fdVars, calls, fs, swaps, lost>>

(* The last component: not a link, or one that is not followed.             *)
LastComponent(t) ==
    /\ \/ Walking(t) /\ file(t) \in Names /\ ~ends_with_slashes(t) /\ ~th[t].pa.follow
       \/ th[t].pc = "readlink" /\ Node(t) \notin LinkNodes
    /\ ~MustBeDirectory(t)
    /\ Goto(t, "ready", [th[t].pa EXCEPT !.file = file(t), !.slash = ends_with_slashes(t)])
    /\ UNCHANGED <<fdVars, calls, fs, swaps, lost>>

(* path_put, or the end of a path_get that failed: the directories opened   *)
(* on the way are closed and the object is released.                        *)
OwnNumbers(pa) == {pa.fds[k] : k \in 2 .. Len(pa.fds)}
Put(s, pa) == Released([s EXCEPT !.host = Closed(@, OwnNumbers(pa))], pa.fo)
PutAll(s, t) == IF th[t].old = NULL THEN s ELSE Put(s, th[t].old)

Absolute(t) == Walking(t) /\ file(t) = ""
Escapes(t) == Walking(t) /\ file(t) = ".." /\ Len(th[t].pa.fds) = 1
TooDeep(t) ==
    \/ /\ Walking(t) /\ file(t) \in Names /\ MustBeDirectory(t)
       /\ Node(t) \in DirNodes /\ Len(th[t].pa.fds) = MAX_FDS
    \/ /\ th[t].pc = "readlink" /\ Node(t) \in LinkNodes
       /\ \/ th[t].pa.expansions + 1 = MAX_EXPANSIONS
          \/ rest(t) # << >> /\ Len(th[t].pa.paths) = MAX_PATHS
HostRefuses(t) ==
    \/ /\ Walking(t) /\ file(t) \in Names /\ MustBeDirectory(t)
       /\ Node(t) = NULL \/ (Node(t) \in DirNodes /\ HostFree = {})
    \/ th[t].pc = "readlink" /\ Node(t) \notin LinkNodes /\ MustBeDirectory(t)
EmptyPath(t) == th[t].pc = "walk" /\ Walk(t).comps = << >>

PathGetFails(t) ==
    /\ EmptyPath(t) \/ Absolute(t) \/ Escapes(t) \/ TooDeep(t) \/ HostRefuses(t)
    /\ LET r == PutAll(Put(Heap, th[t].pa), t) IN obj' = r.obj /\ host' = r.host
    /\ th' = [th EXCEPT ![t] = Idle]
    /\ UNCHANGED <<entries, size, used, stuck, calls, fs, swaps, lost>>

(* Mutant: the directories on the way stay open.                            *)
PathGotOpen(t) ==
    /\ th[t].pc = "ready"
    /\ LET fds == th[t].pa.fds
       IN Goto(t, "leased", [th[t].pa EXCEPT
              !.fds = IF Len(fds) = 1 THEN fds ELSE <<fds[1], Last(fds)>>])
    /\ UNCHANGED <<fdVars, calls, fs, swaps, lost>>

(* success: only the directory of the last component stays open.            *)
PathGot(t) ==
    /\ th[t].pc = "ready"
    /\ LET fds == th[t].pa.fds
           between == {fds[k] : k \in 2 .. Len(fds) - 1}
       IN /\ host' = Closed(host, between)
          /\ Goto(t, "leased", [th[t].pa EXCEPT
                 !.fds = IF Len(fds) = 1 THEN fds ELSE <<fds[1], Last(fds)>>])
    /\ UNCHANGED <<entries, size, used, obj, stuck, calls, fs, swaps, lost>>

-----------------------------------------------------------------------------
(* The calls *)

Second(t) == PathRights[th[t].op].second

(* The second path_get of path_rename and path_link, on a descriptor.       *)
SecondPath(t, fd) ==
    /\ th[t].pc = "leased" /\ th[t].old = NULL /\ Second(t) # {} /\ Locked
    /\ fd_table_get_entry(fd, Second(t), {})
    /\ LET o == entries[fd].object
       IN /\ obj' = Acquired(obj, o)
          /\ th' = [th EXCEPT ![t] =
                [th[t] EXCEPT !.pc = "walk", !.old = th[t].pa,
                              !.pa = Lease(o, th[t].req.path2, FALSE, TRUE)]]
    /\ UNCHANGED <<entries, size, used, host, stuck, calls, fs, swaps, lost>>

(* The host's call on the leased directory, or an error, then path_put.     *)
PathPut(t) ==
    /\ th[t].pc = "leased"
    /\ LET r == PutAll(Put(Heap, th[t].pa), t) IN obj' = r.obj /\ host' = r.host
    /\ th' = [th EXCEPT ![t] = Idle]
    /\ UNCHANGED <<entries, size, used, stuck, calls, fs, swaps, lost>>

(* validate_path refuses: path_symlink and path_link return at once.        *)
ValidateFails(t) ==
    /\ th[t].pc = "leased"
    /\ th[t].op = "path_symlink" \/ (th[t].op = "path_link" /\ th[t].old # NULL)
    /\ lost' = lost \o <<th[t].pa>> \o (IF th[t].old = NULL THEN << >> ELSE <<th[t].old>>)
    /\ th' = [th EXCEPT ![t] = Idle]
    /\ UNCHANGED <<fdVars, calls, fs, swaps>>

(* Mutant: openat without O_NOFOLLOW follows an absolute link.              *)
OpenedNodeFollows(t) ==
    LET pa == th[t].pa
        dir == host[Last(pa.fds)]
    IN IF pa.file = "." THEN dir
       ELSE IF pa.slash \/ dir \notin DirNodes THEN NULL
       ELSE IF fs[dir][pa.file] \in LinkNodes
       THEN IF Head(Target[fs[dir][pa.file]].comps) = "" THEN Outside ELSE NULL
       ELSE fs[dir][pa.file]

(* openat with O_NOFOLLOW on what is there. A name with a slash is refused: *)
(* it is kept only with O_CREAT. Directories are not created or written.    *)
OpenedNode(t) ==
    LET pa == th[t].pa
        dir == host[Last(pa.fds)]
        node == IF pa.file = "." THEN dir
                ELSE IF pa.slash \/ dir \notin DirNodes \/ fs[dir][pa.file] \in LinkNodes THEN NULL
                ELSE fs[dir][pa.file]
    IN IF node \in DirNodes /\ (th[t].op = "path_open_creat" \/ Writes(th[t].req)) THEN NULL
       ELSE node

TypeOf(node) == IF node \in DirNodes THEN "dir" ELSE "file"

(* The new descriptor gets every right of its type and mode, asked for or   *)
(* not.                                                                     *)
PathOpened(t) ==
    /\ th[t].pc = "leased" /\ th[t].op \in Opens
    /\ OpenedNode(t) # NULL /\ HostFree # {}
    /\ LET n == Min(HostFree)
           type == TypeOf(OpenedNode(t))
           r == Put([Heap EXCEPT !.host = HostOpened(n, OpenedNode(t))], th[t].pa)
       IN /\ obj' = r.obj /\ host' = r.host
          /\ th' = [th EXCEPT ![t] =
                Inserting(n, type, MaxBase(type) \ ExcludedByMode(th[t].req),
                          th[t].req.inheriting \cap MaxInheriting(type))]
    /\ UNCHANGED <<entries, size, used, stuck, calls, fs, swaps, lost>>

(* openat with O_CREAT makes a file for a name that is not there.           *)
PathCreated(t) ==
    LET pa == th[t].pa
        dir == host[Last(pa.fds)]
        n == Min(HostFree)
    IN /\ th[t].pc = "leased" /\ th[t].op = "path_open_creat"
       /\ pa.file \in Names /\ ~pa.slash /\ dir \in DirNodes
       /\ fs[dir][pa.file] = NULL /\ HostFree # {}
       /\ fs' = [fs EXCEPT ![dir][pa.file] = NewFile]
       /\ LET r == Put([Heap EXCEPT !.host = HostOpened(n, NewFile)], pa)
          IN obj' = r.obj /\ host' = r.host
       /\ th' = [th EXCEPT ![t] =
             Inserting(n, "file", MaxBase("file") \ ExcludedByMode(th[t].req),
                       th[t].req.inheriting \cap MaxInheriting("file"))]
    /\ UNCHANGED <<entries, size, used, stuck, calls, swaps, lost>>

(* Another program or thread changes a name of a directory.                 *)
SwapName ==
    /\ swaps < MaxSwaps
    /\ \E s \in Swaps :
          /\ fs[s[1]][s[2]] # s[3]
          /\ fs' = [fs EXCEPT ![s[1]][s[2]] = s[3]]
    /\ swaps' = swaps + 1
    /\ UNCHANGED <<fdVars, th, calls, lost>>

Running == stuck # CRASHED

Next ==
    /\ Running
    /\ \/ FdNext /\ UNCHANGED <<fs, swaps, lost>>
       \/ fd_table_destroy /\ UNCHANGED <<fs, swaps, lost>>
       \/ \E t \in Threads :
             \/ \E r \in Requests, fd \in FdTableSlots : PathGet(t, r, fd)
             \/ WalkSame(t) \/ WalkUp(t) \/ WalkDown(t) \/ WalkLink(t) \/ PushSymlink(t)
             \/ LastComponent(t) \/ PathGetFails(t) \/ PathGot(t)
             \/ \E fd \in FdTableSlots : SecondPath(t, fd)
             \/ PathPut(t) \/ ValidateFails(t) \/ PathOpened(t) \/ PathCreated(t)
       \/ SwapName

(* A thread in a call goes on with it.                                      *)
Step(t) ==
    /\ Running
    /\ \/ fd_object_release(t) /\ UNCHANGED <<fs, swaps, lost>>
       \/ (fd_table_insert_fd(t) \/ InsertFails(t)) /\ UNCHANGED <<fs, swaps, lost>>
       \/ WalkSame(t) \/ WalkUp(t) \/ WalkDown(t) \/ WalkLink(t) \/ PushSymlink(t)
       \/ LastComponent(t) \/ PathGetFails(t) \/ PathGot(t) \/ PathPut(t)

Spec == PathInit /\ [][Next]_vars /\ \A t \in Threads : WF_vars(Step(t))

-----------------------------------------------------------------------------
(* Properties *)

(* Leases, and objects to release, that threads hold.                       *)
Leases ==
    {<<t, "pa">> : t \in {u \in Threads : th[u].pa # NULL}}
        \cup {<<t, "old">> : t \in {u \in Threads : th[u].old # NULL}}
LeaseOf(l) == th[l[1]][l[2]]
Users(o) ==
    Cardinality({l \in Leases : LeaseOf(l).fo = o})
    + Cardinality({k \in Threads \X (1 .. 2) :
                      k[2] \in DOMAIN th[k[1]].fos /\ th[k[1]].fos[k[2]] = o})
Leaked(o) == Cardinality({k \in DOMAIN lost : lost[k].fo = o})
InTable(o) == Cardinality({fd \in FdTableSlots : entries[fd].object = o})

(* An object's count is what refers to it, descriptors and calls, whatever  *)
(* is closed or renumbered while calls use it: it is not freed under a      *)
(* call, and is freed with the last reference. The exception is a path_link *)
(* or path_symlink that validate_path refuses, which returns without        *)
(* path_put (posix.c:1858, 2443): each leaves one count too many, no less   *)
(* and no more, and nobody refers to the object for it.                     *)
RefsExact ==
    stuck = NULL =>
        \A o \in Objects :
            IF obj[o] = NULL THEN InTable(o) + Users(o) = 0 /\ Leaked(o) = 0
            ELSE obj[o].refs - Leaked(o) = InTable(o) + Users(o)

(* No descriptor of the host is closed while a call or the table uses it,   *)
(* none is used twice, and the only ones that stay open with nobody left to *)
(* close them are the directories that such a refused call had walked into. *)
HostExact ==
    LET objects == {o \in Objects : obj[o] # NULL}
        owned == {obj[o].number : o \in objects}
        walks == UNION {OwnNumbers(LeaseOf(l)) : l \in Leases}
        new == {th[t].number : t \in {u \in Threads : th[u].pc = "insert"}}
        orphans == UNION {OwnNumbers(lost[k]) : k \in DOMAIN lost}
        open == {n \in HostFds : host[n] # NULL}
    IN stuck = NULL =>
          /\ (open \ orphans) \ StdHost = (owned \cup walks \cup new) \ StdHost
          /\ orphans \subseteq open
          /\ Cardinality(owned) = Cardinality(objects)
          /\ owned \cap (walks \cup new) = {} /\ walks \cap new = {}

(* Everything a call opens or leases lies below the preopened directories,  *)
(* also when names turn into links during the walk.                         *)
Confined ==
    \A n \in HostFds \ StdHost : host[n] \in Inside \cup {"sock", NULL}

(* A call returns: path_get does not follow links forever, also when names  *)
(* change under it (a thread may be stuck on a full table, or the process   *)
(* have crashed). Whether it gave its leases back, RefsExact tells.         *)
CallsEnd == \A t \in Threads : th[t].pc # "idle" ~> (th[t].pc = "idle" \/ stuck # NULL)

(* Rights of a descriptor are only ever taken away.                         *)
RightsShrink ==
    [][\A fd \in FdTableSlots :
          entries[fd].object # NULL /\ entries'[fd].object = entries[fd].object =>
              /\ entries'[fd].base \subseteq entries[fd].base
              /\ entries'[fd].inheriting \subseteq entries[fd].inheriting]_vars

(* "File descriptor table has no free slots" never happens: fd_table_unused *)
(* finds a slot.                                                            *)
FreeSlot == stuck \notin Threads
=============================================================================
