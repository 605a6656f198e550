----------------------------- MODULE WasiProofs -----------------------------
(***************************************************************************)
(* RefsExact, HostExact, Confined and RightsShrink of WasiPath, for any    *)
(* number of threads, descriptors and objects, any file system and any     *)
(* links in it.                                                            *)
(*                                                                         *)
(* The references of an object are counted in four parts (Count): the      *)
(* entries of the table, the leases and the objects in use of the calls,   *)
(* the leases lost.  A step of a call changes the parts of its own call    *)
(* only (ThreadCount), by what the call holds before and after it (Holds). *)
(* The descriptors of the host have one owner each (OwnedOnce), and every  *)
(* operation hands ownership on: Opened, Closed, Released, Put, Inserted,  *)
(* Lost...Owned say how.  What a step of a call must do so that the        *)
(* invariant holds after it is Moved (MovedInv), or, where the table or    *)
(* the lost leases change, the assumptions of StepInv; GotoInv is MovedInv *)
(* for a step of path_get.  Confined needs that entries with a right only  *)
(* directories have are directories (DirectoryEntry, from PathRightsGood), *)
(* so that a walk starts at one that is inside.                            *)
(***************************************************************************)
EXTENDS WasiPath, FiniteSetTheorems, SequenceTheorems, WellFoundedInduction, TLAPS

----------------------------------------------------------------------------
(* The inductive invariant *)

Files == Inside \cup {"sock"} \cup {Existing[fd].file : fd \in DOMAIN Existing}
EntryType ==
    [object : Objects \cup {NULL}, base : SUBSET RIGHTS_ALL, inheriting : SUBSET RIGHTS_ALL]
CallType ==
    [pc : {"idle", "use", "insert", "walk", "readlink", "ready", "leased"},
     fos : Seq(Objects), number : HostFds \cup {NULL}, type : Types \cup {NULL},
     base : SUBSET RIGHTS_ALL, inheriting : SUBSET RIGHTS_ALL,
     pa : LeaseType \cup {NULL}, old : LeaseType \cup {NULL},
     op : FdCalls \cup DOMAIN PathRights \cup {"none", "poll_oneoff"},
     req : Requests \cup {NULL}]

(* The values of the variables.                                            *)
WasiTypes ==
    /\ entries \in [FdTableSlots -> EntryType]
    /\ obj \in [Objects -> ObjectType \cup {NULL}]
    /\ host \in [HostFds -> Files \cup {NULL}]
    /\ th \in [Threads -> CallType]
    /\ stuck \in Threads \cup {NULL, CRASHED}
    /\ fs \in [DirNodes -> [Names -> Inside \cup {NULL}]]
    /\ lost \in Seq(LeaseType)

(* What a call holds at each of its steps.                                 *)
Steps(c) ==
    /\ c.pc = "idle" => c = Idle
    /\ c.pc = "use" => /\ c.pa = NULL /\ c.old = NULL /\ Len(c.fos) \in 1 .. 2
                       /\ c.op = "sock_accept" => Len(c.fos) = 1
    /\ c.pc = "insert" => /\ c.fos = << >> /\ c.pa = NULL /\ c.old = NULL
                          /\ c.number \in HostFds /\ c.type \in Types
                          /\ c.base \subseteq MaxBase(c.type)
    /\ c.pc \in {"walk", "readlink", "ready", "leased"} =>
          /\ c.fos = << >> /\ c.op \in DOMAIN PathRights /\ c.req \in Requests
          /\ c.pa # NULL /\ c.pa.fds # << >> /\ c.pa.paths # << >>
          /\ c.old # NULL => PathRights[c.op].second # {} /\ c.old.fds # << >>
          /\ c.pc = "readlink" =>
                LET comps == c.pa.paths[Len(c.pa.paths)].comps
                IN comps # << >> /\ Head(comps) \in Names
          /\ c.pc \in {"ready", "leased"} => c.pa.file \in Names \cup {"."}
Stepped == \A t \in Threads : Steps(th[t])

RefsOf(objs, o) == IF objs[o] = NULL THEN 0 ELSE objs[o].refs
InEntries(o) == Cardinality({fd \in FdTableSlots : entries[fd].object = o})
InLeases(o) == Cardinality({l \in Leases : LeaseOf(l).fo = o})
InLost(o) == Cardinality({k \in DOMAIN lost : lost[k].fo = o})
InUse(o) == Cardinality({k \in Threads \X (1 .. 2) :
                      k[2] \in DOMAIN th[k[1]].fos /\ th[k[1]].fos[k[2]] = o})
Count(o) == InEntries(o) + InLeases(o) + InLost(o) + InUse(o)

(* References are exact; an object that a thread left behind when the table*)
(* was full has one too many.                                              *)
Counted ==
    /\ \A o \in Objects :
          /\ Count(o) =< RefsOf(obj, o)
          /\ stuck = NULL => Count(o) = RefsOf(obj, o)
    /\ stuck \in Threads => th[stuck].pc = "insert"

Entered ==
    /\ \A fd, gd \in FdTableSlots :
          entries[fd].object = entries[gd].object /\ entries[fd].object # NULL => fd = gd
    /\ \A fd \in FdTableSlots : entries[fd].object # NULL =>
          entries[fd].base \subseteq MaxBase(obj[entries[fd].object].type)

(* What a call has open, on the host's descriptors hst, is no file outside.*)
Untainted(hst, n) == hst[n] \in Inside \cup {"sock", NULL}
CallUntainted(c, hst) ==
    /\ c.pa # NULL => \A k \in 1 .. Len(c.pa.fds) : Untainted(hst, c.pa.fds[k])
    /\ c.old # NULL => \A k \in 1 .. Len(c.old.fds) : Untainted(hst, c.old.fds[k])
    /\ c.pc = "insert" /\ c.type = "dir" => Untainted(hst, c.number)
Below ==
    /\ Confined
    /\ \A o \in Objects : obj[o] # NULL /\ obj[o].type = "dir" => Untainted(host, obj[o].number)
    /\ \A t \in Threads : CallUntainted(th[t], host)

Own(pa) == IF pa = NULL THEN {} ELSE OwnNumbers(pa)
Nums(c) == Own(c.pa) \cup Own(c.old) \cup (IF c.pc = "insert" THEN {c.number} ELSE {})
Tidy(c) ==
    /\ c.pa # NULL => \A j, k \in 2 .. Len(c.pa.fds) : c.pa.fds[j] = c.pa.fds[k] => j = k
    /\ Own(c.pa) \cap Own(c.old) = {}
Gone == UNION {OwnNumbers(lost[k]) : k \in DOMAIN lost}

(* A descriptor of the host has one owner at most, is open when it has one *)
(* and closed when it has none.                                            *)
OwnedOnce(objs, hst, nums, gone) ==
    \A n \in HostFds :
        LET holds(o) == objs[o] # NULL /\ objs[o].number = n
        IN /\ hst[n] = NULL => /\ \A o \in Objects : ~holds(o)
                               /\ \A t \in Threads : n \notin nums[t]
                               /\ n \notin gone
           /\ \A o, p \in Objects : holds(o) /\ holds(p) => o = p
           /\ \A o \in Objects : holds(o) => n \notin gone /\ \A t \in Threads : n \notin nums[t]
           /\ \A t, u \in Threads : n \in nums[t] /\ n \in nums[u] => t = u
           /\ \A t \in Threads : n \in nums[t] => n \notin gone
           /\ hst[n] # NULL /\ n \notin StdHost =>
                 n \in gone \/ (\E o \in Objects : holds(o)) \/ (\E t \in Threads : n \in nums[t])
Owned ==
    stuck = NULL =>
        /\ OwnedOnce(obj, host, [t \in Threads |-> Nums(th[t])], Gone)
        /\ \A t \in Threads : Tidy(th[t])

WasiInv == WasiTypes /\ Stepped /\ Counted /\ Entered /\ Below /\ Owned

----------------------------------------------------------------------------
(* Sets of numbers, and counting *)

(* A set of naturals has a least one: the lowest free descriptor.          *)
LEMMA MinOf ==
    ASSUME NEW S, S \subseteq Nat, S # {}
    PROVE  Min(S) \in S
<1> DEFINE R == {ss \in Nat \X Nat : ss[1] < ss[2]}
<1>1. IsWellFoundedOn(R, Nat)
  BY NatLessThanWellFounded DEF OpToRel
<1>2. ASSUME NEW x \in S, NEW y \in S, ~(<<y, x>> \in R) PROVE x =< y
  BY <1>2
<1> HIDE DEF R
<1>3. \E x \in S : \A y \in S : ~(<<y, x>> \in R)
  BY <1>1, WFMin, Zenon
<1>4. \E x \in S : \A y \in S : x =< y
  BY <1>2, <1>3
<1> QED
  BY <1>4 DEF Min

In(x, S) == IF x \in S THEN 1 ELSE 0

(* A set that changes at two places only.                                  *)
LEMMA TwoPlaces ==
    ASSUME NEW X, NEW Y, NEW p, NEW q, IsFiniteSet(X), p # q,
           \A x : x = p \/ x = q \/ (x \in X <=> x \in Y)
    PROVE  /\ IsFiniteSet(Y) /\ Cardinality(X) \in Nat /\ Cardinality(Y) \in Nat
           /\ Cardinality(Y) = Cardinality(X) - In(p, X) - In(q, X)
                                 + In(p, Y) + In(q, Y)
<1> DEFINE Z == (X \ {p}) \ {q}
           Zp == IF p \in Y THEN Z \cup {p} ELSE Z
           Zq == IF q \in Y THEN Zp \cup {q} ELSE Zp
<1>1. /\ IsFiniteSet(X \ {p}) /\ Cardinality(X \ {p}) = Cardinality(X) - In(p, X)
      /\ Cardinality(X) \in Nat
  BY FS_RemoveElement, FS_CardinalityType DEF In
<1>2. IsFiniteSet(Z) /\ Cardinality(Z) = Cardinality(X) - In(p, X) - In(q, X)
  <2>1. IsFiniteSet(Z) /\ Cardinality(Z) = Cardinality(X \ {p}) - In(q, X \ {p})
    <3> DEFINE W == X \ {p}
    <3>1. IsFiniteSet(W) /\ Cardinality(W) \in Nat
      BY <1>1, FS_CardinalityType
    <3> HIDE DEF W
    <3>2. /\ IsFiniteSet(W \ {q})
          /\ Cardinality(W \ {q}) = Cardinality(W) - In(q, W)
      BY <3>1, FS_RemoveElement DEF In
    <3> QED
      BY <3>2 DEF W
  <2>2. In(q, X \ {p}) = In(q, X)
    BY DEF In
  <2> QED
    BY <1>1, <2>1, <2>2
<1>3. IsFiniteSet(Zp) /\ Cardinality(Zp) = Cardinality(Z) + In(p, Y)
  <2>1. p \notin Z /\ Cardinality(Z) \in Nat
    BY <1>2, FS_CardinalityType
  <2>2. IsFiniteSet(Z \cup {p}) /\ Cardinality(Z \cup {p}) = Cardinality(Z) + 1
    BY <1>2, <2>1, FS_AddElement
  <2> QED
    BY <1>2, <2>1, <2>2 DEF In
<1>4. IsFiniteSet(Zq) /\ Cardinality(Zq) = Cardinality(Zp) + In(q, Y)
  <2>1. q \notin Zp /\ Cardinality(Zp) \in Nat
    BY <1>3, FS_CardinalityType
  <2>2. IsFiniteSet(Zp \cup {q}) /\ Cardinality(Zp \cup {q}) = Cardinality(Zp) + 1
    BY <1>3, <2>1, FS_AddElement
  <2> QED
    BY <1>3, <2>1, <2>2 DEF In
<1>5. Y = Zq
  OBVIOUS
<1>6. In(p, X) \in Nat /\ In(q, X) \in Nat /\ In(p, Y) \in Nat /\ In(q, Y) \in Nat
  BY DEF In
<1>7. Cardinality(Y) \in Nat
  BY <1>4, <1>5, FS_CardinalityType
<1> HIDE DEF Z, Zp, Zq
<1> QED
  BY <1>1, <1>2, <1>3, <1>4, <1>5, <1>6, <1>7

----------------------------------------------------------------------------
(* Rights *)

(* The rights that only directories have.                                  *)
OnlyDirectories(rights) == \E r \in rights : r \notin MaxBase("file") \cup MaxBase("sock")

GoodTable(f) ==
    \A op \in DOMAIN f :
        /\ OnlyDirectories(f[op].rights) /\ f[op].final \in BOOLEAN
        /\ f[op].second # {} => OnlyDirectories(f[op].second)
        /\ op \in Opens => f[op].second = {}

(* Every path call demands a right that only directories have, for its     *)
(* second path too; path_open has none.                                    *)
LEMMA PathRightsGood == GoodTable(PathRights)
<1> DEFINE D == {"PATH_CREATE_DIRECTORY", "PATH_LINK_SOURCE", "PATH_LINK_TARGET", "PATH_OPEN",
                 "PATH_READLINK", "PATH_RENAME_SOURCE", "PATH_RENAME_TARGET",
                 "PATH_FILESTAT_GET", "PATH_FILESTAT_SET_TIMES", "PATH_SYMLINK",
                 "PATH_UNLINK_FILE", "PATH_REMOVE_DIRECTORY"}
           Good(op, c) ==
              /\ \E r \in D : r \in c.rights
              /\ c.final \in BOOLEAN
              /\ c.second # {} => \E r \in D : r \in c.second
              /\ op \in Opens => c.second = {}
<1>1. \A r \in D : r \notin MaxBase("file") \cup MaxBase("sock")
  BY DEF MaxBase, RIGHTS_REGULAR_FILE_BASE, RIGHTS_SOCKET_BASE
<1>2. Opens = {"path_open", "path_open_creat"}
  BY DEF Opens, OpenRights
<1>3. ASSUME NEW f, \A op \in DOMAIN f : Good(op, f[op])
      PROVE  GoodTable(f)
  <2> HIDE DEF D
  <2> QED
    BY <1>1, <1>3 DEF GoodTable, OnlyDirectories
<1>4. GoodTable(CreateRights)
  <2>1. DOMAIN CreateRights = {"path_create_directory"}
    BY DEF CreateRights
  <2>2. Good("path_create_directory", CreateRights["path_create_directory"])
    BY <1>2 DEF CreateRights, CallTable
  <2> HIDE DEF Good
  <2> QED
    BY <1>3, <2>1, <2>2
<1>5. GoodTable(LinkRights)
  <2>1. DOMAIN LinkRights = {"path_link"}
    BY DEF LinkRights
  <2>2. Good("path_link", LinkRights["path_link"])
    BY <1>2 DEF LinkRights, CallTable
  <2> HIDE DEF Good
  <2> QED
    BY <1>3, <2>1, <2>2
<1>6. GoodTable(OpenRights)
  <2>1. DOMAIN OpenRights = {"path_open", "path_open_creat"}
    BY DEF OpenRights
  <2>2. Good("path_open", OpenRights["path_open"])
    BY <1>2 DEF OpenRights, CallTable
  <2>3. Good("path_open_creat", OpenRights["path_open_creat"])
    BY <1>2 DEF OpenRights, CallTable
  <2> HIDE DEF Good
  <2> QED
    BY <1>3, <2>1, <2>2, <2>3
<1>7. GoodTable(MoveRights)
  <2>1. DOMAIN MoveRights = {"path_readlink", "path_rename"}
    BY DEF MoveRights
  <2>2. Good("path_readlink", MoveRights["path_readlink"])
    BY <1>2 DEF MoveRights, CallTable
  <2>3. Good("path_rename", MoveRights["path_rename"])
    BY <1>2 DEF MoveRights, CallTable
  <2> HIDE DEF Good
  <2> QED
    BY <1>3, <2>1, <2>2, <2>3
<1>8. GoodTable(PathStatRights)
  <2>1. DOMAIN PathStatRights = {"path_filestat_get", "path_filestat_set_times"}
    BY DEF PathStatRights
  <2>2. Good("path_filestat_get", PathStatRights["path_filestat_get"])
    BY <1>2 DEF PathStatRights, CallTable
  <2>3. Good("path_filestat_set_times", PathStatRights["path_filestat_set_times"])
    BY <1>2 DEF PathStatRights, CallTable
  <2> HIDE DEF Good
  <2> QED
    BY <1>3, <2>1, <2>2, <2>3
<1>9. GoodTable(UnlinkRights)
  <2>1. DOMAIN UnlinkRights = {"path_symlink", "path_unlink_file", "path_remove_directory"}
    BY DEF UnlinkRights
  <2>2. Good("path_symlink", UnlinkRights["path_symlink"])
    BY <1>2 DEF UnlinkRights, CallTable
  <2>3. Good("path_unlink_file", UnlinkRights["path_unlink_file"])
    BY <1>2 DEF UnlinkRights, CallTable
  <2>4. Good("path_remove_directory", UnlinkRights["path_remove_directory"])
    BY <1>2 DEF UnlinkRights, CallTable
  <2> HIDE DEF Good
  <2> QED
    BY <1>3, <2>1, <2>2, <2>3, <2>4
<1>10. ASSUME NEW f, NEW g, GoodTable(f), GoodTable(g) PROVE GoodTable(Joined(f, g))
  BY <1>10 DEF Joined, GoodTable
<1>11. GoodTable(Joined(Joined(CreateRights, LinkRights), Joined(OpenRights, MoveRights)))
  BY <1>4, <1>5, <1>6, <1>7, <1>10
<1>12. GoodTable(Joined(PathStatRights, UnlinkRights))
  BY <1>8, <1>9, <1>10
<1> QED
  BY <1>10, <1>11, <1>12 DEF PathRights

(* The rights of every type are rights.                                    *)
LEMMA RightsTyped ==
    \A type \in Types : MaxBase(type) \subseteq RIGHTS_ALL /\ MaxInheriting(type) \subseteq RIGHTS_ALL
BY DEF Types, MaxBase, MaxInheriting, RIGHTS_ALL

----------------------------------------------------------------------------
(* Threads, leases, entries: how the references are counted *)

Holds(c, o) ==
    (IF c.pa # NULL /\ c.pa.fo = o THEN 1 ELSE 0)
    + (IF c.old # NULL /\ c.old.fo = o THEN 1 ELSE 0)
    + (IF 1 \in DOMAIN c.fos /\ c.fos[1] = o THEN 1 ELSE 0)
    + (IF 2 \in DOMAIN c.fos /\ c.fos[2] = o THEN 1 ELSE 0)

(* What a call refers to is counted in the natural numbers.                *)
LEMMA HoldsType ==
    ASSUME NEW c, NEW o
    PROVE  Holds(c, o) \in Nat
BY DEF Holds

(* The counts are natural numbers.                                         *)
LEMMA CountTypes ==
    ASSUME WasiTypes, NEW o \in Objects
    PROVE  /\ IsFiniteSet({fd \in FdTableSlots : entries[fd].object = o}) /\ InEntries(o) \in Nat
           /\ IsFiniteSet({l \in Leases : LeaseOf(l).fo = o}) /\ InLeases(o) \in Nat
           /\ IsFiniteSet({k \in DOMAIN lost : lost[k].fo = o}) /\ InLost(o) \in Nat
           /\ IsFiniteSet({k \in Threads \X (1 .. 2) :
                      k[2] \in DOMAIN th[k[1]].fos /\ th[k[1]].fos[k[2]] = o}) /\ InUse(o) \in Nat
<1>1. IsFiniteSet({fd \in FdTableSlots : entries[fd].object = o})
  <2>1. IsFiniteSet(FdTableSlots)
    BY WasiFdAssumption, FS_Interval DEF FdTableSlots
  <2> QED
    BY <2>1, FS_Subset
<1>2. IsFiniteSet({l \in Leases : LeaseOf(l).fo = o})
  <2>1. IsFiniteSet(Threads \X {"pa", "old"})
    <3>1. IsFiniteSet({"pa"}) /\ IsFiniteSet({"pa"} \cup {"old"})
      BY FS_Singleton, FS_AddElement
    <3>2. {"pa"} \cup {"old"} = {"pa", "old"}
      OBVIOUS
    <3> QED
      BY <3>1, <3>2, WasiFdAssumption, FS_Product
  <2>2. {l \in Leases : LeaseOf(l).fo = o} \in SUBSET (Threads \X {"pa", "old"})
    BY DEF Leases
  <2> QED
    BY <2>1, <2>2, FS_Subset
<1>3. IsFiniteSet({k \in DOMAIN lost : lost[k].fo = o})
  <2>1. IsFiniteSet(1 .. Len(lost)) /\ DOMAIN lost = 1 .. Len(lost)
    BY FS_Interval DEF WasiTypes
  <2> QED
    BY <2>1, FS_Subset
<1>4. IsFiniteSet({k \in Threads \X (1 .. 2) :
                      k[2] \in DOMAIN th[k[1]].fos /\ th[k[1]].fos[k[2]] = o})
  <2>1. IsFiniteSet(Threads \X (1 .. 2))
    <3>1. 1 \in Int /\ 2 \in Int
      OBVIOUS
    <3>2. IsFiniteSet(1 .. 2)
      BY <3>1, FS_Interval, Zenon
    <3> QED
      BY <3>2, WasiFdAssumption, FS_Product
  <2> QED
    BY <2>1, FS_Subset
<1> QED
  BY <1>1, <1>2, <1>3, <1>4, FS_CardinalityType DEF InEntries, InLeases, InLost, InUse

(* What a thread's step does to the references that threads hold.          *)
LEMMA ThreadCount ==
    ASSUME WasiTypes, NEW t \in Threads, NEW c \in CallType,
           th' = [th EXCEPT ![t] = c], NEW o \in Objects
    PROVE  InLeases(o)' + InUse(o)' = InLeases(o) + InUse(o) - Holds(th[t], o) + Holds(c, o)
           /\ InLeases(o)' \in Nat /\ InUse(o)' \in Nat
<1> DEFINE G == {l \in Leases : LeaseOf(l).fo = o}
           H == {l \in {<<u, "pa">> : u \in {v \in Threads : th'[v].pa # NULL}}
                      \cup {<<u, "old">> : u \in {v \in Threads : th'[v].old # NULL}} :
                      th'[l[1]][l[2]].fo = o}
           U == {k \in Threads \X (1 .. 2) :
                      k[2] \in DOMAIN th[k[1]].fos /\ th[k[1]].fos[k[2]] = o}
           V == {k \in Threads \X (1 .. 2) :
                      k[2] \in DOMAIN th'[k[1]].fos /\ th'[k[1]].fos[k[2]] = o}
           pk == <<t, "pa">>
           qk == <<t, "old">>
           first == <<t, 1>>
           second == <<t, 2>>
<1>1. \A u \in Threads : th'[u] = IF u = t THEN c ELSE th[u]
  BY DEF WasiTypes
<1>2. /\ pk \in G <=> th[t].pa # NULL /\ th[t].pa.fo = o
      /\ qk \in G <=> th[t].old # NULL /\ th[t].old.fo = o
      /\ pk \in H <=> c.pa # NULL /\ c.pa.fo = o
      /\ qk \in H <=> c.old # NULL /\ c.old.fo = o
  BY <1>1 DEF Leases, LeaseOf
<1>3. \A x : x = pk \/ x = qk \/ (x \in G <=> x \in H)
  BY <1>1 DEF Leases, LeaseOf
<1>4. /\ first \in U <=> 1 \in DOMAIN th[t].fos /\ th[t].fos[1] = o
      /\ second \in U <=> 2 \in DOMAIN th[t].fos /\ th[t].fos[2] = o
      /\ first \in V <=> 1 \in DOMAIN c.fos /\ c.fos[1] = o
      /\ second \in V <=> 2 \in DOMAIN c.fos /\ c.fos[2] = o
  BY <1>1
<1>5. \A x : x = first \/ x = second \/ (x \in U <=> x \in V)
  BY <1>1
<1>6. IsFiniteSet(G) /\ IsFiniteSet(U)
  BY CountTypes
<1>12. pk # qk /\ first # second
  OBVIOUS
<1>7. /\ InLeases(o) = Cardinality(G) /\ InLeases(o)' = Cardinality(H)
      /\ InUse(o) = Cardinality(U) /\ InUse(o)' = Cardinality(V)
  BY DEF InLeases, InUse, Leases, LeaseOf
<1> HIDE DEF G, H, U, V, pk, qk, first, second
<1>8. /\ IsFiniteSet(H) /\ Cardinality(G) \in Nat /\ Cardinality(H) \in Nat
      /\ Cardinality(H) = Cardinality(G) - In(pk, G) - In(qk, G)
                            + In(pk, H) + In(qk, H)
  <2>1. IsFiniteSet(G) /\ pk # qk
    BY <1>6, <1>12
  <2>2. \A x : x = pk \/ x = qk \/ (x \in G <=> x \in H)
    BY <1>3
  <2> QED
    BY ONLY <2>1, <2>2, TwoPlaces
<1>9. /\ IsFiniteSet(V) /\ Cardinality(U) \in Nat /\ Cardinality(V) \in Nat
      /\ Cardinality(V) = Cardinality(U) - In(first, U) - In(second, U)
                            + In(first, V) + In(second, V)
  <2>1. IsFiniteSet(U) /\ first # second
    BY <1>6, <1>12
  <2>2. \A x : x = first \/ x = second \/ (x \in U <=> x \in V)
    BY <1>5
  <2> QED
    BY ONLY <2>1, <2>2, TwoPlaces
<1>10. /\ Holds(th[t], o) = In(pk, G) + In(qk, G)
                             + In(first, U) + In(second, U)
       /\ Holds(c, o) = In(pk, H) + In(qk, H)
                             + In(first, V) + In(second, V)
  BY <1>2, <1>4 DEF Holds, In
<1>11. \A p, Z : In(p, Z) \in Nat
  BY DEF In
<1> QED
  BY <1>7, <1>8, <1>9, <1>10, <1>11

----------------------------------------------------------------------------
(* The objects and the descriptors of the host *)

HeapType ==
    [obj : [Objects -> ObjectType \cup {NULL}], host : [HostFds -> Files \cup {NULL}]]

(* Nothing is opened, and an object that still lives is the same.          *)
Shrinks(s, r) ==
    /\ \A p \in Objects : r.obj[p] # NULL =>
          /\ s.obj[p] # NULL /\ r.obj[p].number = s.obj[p].number
          /\ r.obj[p].type = s.obj[p].type
    /\ \A n \in HostFds : r.host[n] \in {s.host[n], NULL}

(* fd_object_release takes one reference and nothing else, and is safe for *)
(* the owners of the host's descriptors.                                   *)
LEMMA ReleasedFacts ==
    ASSUME NEW s \in HeapType, NEW o \in Objects, s.obj[o] # NULL
    PROVE  /\ Released(s, o) \in HeapType
           /\ RefsOf(Released(s, o).obj, o) = RefsOf(s.obj, o) - 1
           /\ \A p \in Objects \ {o} : Released(s, o).obj[p] = s.obj[p]
           /\ Shrinks(s, Released(s, o))
<1>1. s.obj[o] \in ObjectType /\ s.obj[o].refs \in Nat \ {0} /\ NULL \notin ObjectType
  BY NullObject DEF HeapType, ObjectType
<1>2. CASE s.obj[o].refs > 1
  <2> DEFINE x == [s.obj[o] EXCEPT !.refs = @ - 1]
             os == [s.obj EXCEPT ![o] = x]
  <2>1. Released(s, o) = [s EXCEPT !.obj = os]
    BY <1>2 DEF Released
  <2>2. x \in ObjectType /\ x.refs = s.obj[o].refs - 1
        /\ x.number = s.obj[o].number /\ x.type = s.obj[o].type
    BY <1>1, <1>2 DEF ObjectType
  <2> HIDE DEF x
  <2>3. os \in [Objects -> ObjectType \cup {NULL}] /\ os[o] = x
        /\ \A p \in Objects \ {o} : os[p] = s.obj[p]
    BY <2>2 DEF HeapType
  <2>4. Released(s, o) \in HeapType /\ Released(s, o).obj = os /\ Released(s, o).host = s.host
    BY <2>1, <2>3 DEF HeapType
  <2> HIDE DEF os
  <2>5. x # NULL
    BY <1>1, <2>2
  <2>6. RefsOf(Released(s, o).obj, o) = RefsOf(s.obj, o) - 1
    BY <1>1, <2>2, <2>3, <2>4, <2>5 DEF RefsOf
  <2>7. Shrinks(s, Released(s, o))
    BY <2>2, <2>3, <2>4 DEF Shrinks
  <2> QED
    BY <2>3, <2>4, <2>6, <2>7
<1>3. CASE ~(s.obj[o].refs > 1)
  <2> DEFINE os == [s.obj EXCEPT ![o] = NULL]
             hs == Closed(s.host, {s.obj[o].number} \ StdHost)
  <2>1. Released(s, o) = [obj |-> os, host |-> hs]
    BY <1>3 DEF Released
  <2>2. os \in [Objects -> ObjectType \cup {NULL}] /\ os[o] = NULL
        /\ \A p \in Objects \ {o} : os[p] = s.obj[p]
    BY DEF HeapType
  <2>3. hs \in [HostFds -> Files \cup {NULL}] /\ \A n \in HostFds : hs[n] \in {s.host[n], NULL}
    BY DEF HeapType, Closed
  <2>4. s.obj[o].refs = 1
    BY <1>1, <1>3
  <2> HIDE DEF os, hs
  <2>5. Released(s, o) \in HeapType
    BY <2>1, <2>2, <2>3 DEF HeapType
  <2>6. RefsOf(Released(s, o).obj, o) = RefsOf(s.obj, o) - 1
    BY <2>1, <2>2, <2>4 DEF RefsOf
  <2>7. Shrinks(s, Released(s, o))
    BY <2>1, <2>2, <2>3 DEF Shrinks
  <2> QED
    BY <2>1, <2>2, <2>5, <2>6, <2>7
<1> QED
  BY <1>2, <1>3

(* fd_object_release closes the descriptor of the host exactly when its    *)
(* owner goes: every descriptor still has one owner at most.               *)
LEMMA ReleasedOwned ==
    ASSUME NEW s \in HeapType, NEW o \in Objects, s.obj[o] # NULL, NEW nums, NEW gone,
           OwnedOnce(s.obj, s.host, nums, gone)
    PROVE  OwnedOnce(Released(s, o).obj, Released(s, o).host, nums, gone)
<1>1. s.obj[o] \in ObjectType /\ NULL \notin ObjectType /\ s.obj[o].number \in HostFds
  BY NullObject DEF HeapType, ObjectType
<1>2. CASE s.obj[o].refs > 1
  <2> DEFINE x == [s.obj[o] EXCEPT !.refs = @ - 1]
             os == [s.obj EXCEPT ![o] = x]
  <2>1. Released(s, o).obj = os /\ Released(s, o).host = s.host
    BY <1>2 DEF Released, HeapType
  <2>2. x # NULL /\ x.number = s.obj[o].number
    <3>1. x \in ObjectType
      BY <1>1, <1>2 DEF ObjectType
    <3> QED
      BY <1>1, <3>1 DEF ObjectType
  <2> HIDE DEF x
  <2>3. \A p \in Objects : /\ os[p] # NULL <=> s.obj[p] # NULL
                           /\ os[p].number = s.obj[p].number
    BY <2>2 DEF HeapType
  <2> HIDE DEF os
  <2> QED
    BY <2>1, <2>3 DEF OwnedOnce
<1>3. CASE ~(s.obj[o].refs > 1)
  <2> DEFINE os == [s.obj EXCEPT ![o] = NULL]
             hs == Closed(s.host, {s.obj[o].number} \ StdHost)
  <2>1. Released(s, o).obj = os /\ Released(s, o).host = hs
    BY <1>3 DEF Released
  <2>2. os[o] = NULL /\ \A p \in Objects \ {o} : os[p] = s.obj[p]
    BY DEF HeapType
  <2>3. \A n \in HostFds : hs[n] = IF n = s.obj[o].number /\ n \notin StdHost THEN NULL ELSE s.host[n]
    BY DEF Closed
  <2> HIDE DEF os, hs
  <2>4. OwnedOnce(os, hs, nums, gone)
    <3> SUFFICES ASSUME NEW n \in HostFds
                 PROVE  LET holds(p) == os[p] # NULL /\ os[p].number = n
                        IN /\ hs[n] = NULL => /\ \A p \in Objects : ~holds(p)
                                              /\ \A t \in Threads : n \notin nums[t]
                                              /\ n \notin gone
                           /\ \A p, q \in Objects : holds(p) /\ holds(q) => p = q
                           /\ \A p \in Objects : holds(p) =>
                                 n \notin gone /\ \A t \in Threads : n \notin nums[t]
                           /\ \A t, u \in Threads : n \in nums[t] /\ n \in nums[u] => t = u
                           /\ \A t \in Threads : n \in nums[t] => n \notin gone
                           /\ hs[n] # NULL /\ n \notin StdHost =>
                                 n \in gone \/ (\E p \in Objects : holds(p))
                                 \/ (\E t \in Threads : n \in nums[t])
      BY DEF OwnedOnce
    <3>1. CASE n = s.obj[o].number
      BY <3>1, <2>2, <2>3 DEF OwnedOnce
    <3>2. CASE n # s.obj[o].number
      BY <3>2, <2>2, <2>3 DEF OwnedOnce
    <3> QED
      BY <3>1, <3>2
  <2> QED
    BY <2>1, <2>4
<1> QED
  BY <1>2, <1>3

(* acquire: one reference more.                                            *)
LEMMA AcquiredFacts ==
    ASSUME NEW objs \in [Objects -> ObjectType \cup {NULL}], NEW o \in Objects, objs[o] # NULL
    PROVE  /\ Acquired(objs, o) \in [Objects -> ObjectType \cup {NULL}]
           /\ RefsOf(Acquired(objs, o), o) = RefsOf(objs, o) + 1
           /\ \A p \in Objects \ {o} : Acquired(objs, o)[p] = objs[p]
           /\ \A p \in Objects : /\ Acquired(objs, o)[p] # NULL <=> objs[p] # NULL
                                 /\ Acquired(objs, o)[p].number = objs[p].number
                                 /\ Acquired(objs, o)[p].type = objs[p].type
<1> DEFINE x == [objs[o] EXCEPT !.refs = @ + 1]
           os == [objs EXCEPT ![o] = x]
<1>1. objs[o] \in ObjectType /\ NULL \notin ObjectType /\ objs[o].refs \in Nat \ {0}
  BY NullObject DEF ObjectType
<1>2. Acquired(objs, o) = os
  BY DEF Acquired
<1>3. x \in ObjectType /\ x.refs = objs[o].refs + 1
      /\ x.number = objs[o].number /\ x.type = objs[o].type
  BY <1>1 DEF ObjectType
<1> HIDE DEF x
<1>4. os \in [Objects -> ObjectType \cup {NULL}] /\ os[o] = x
      /\ \A p \in Objects \ {o} : os[p] = objs[p]
  BY <1>3
<1> HIDE DEF os
<1>5. x # NULL
  BY <1>1, <1>3
<1>6. RefsOf(os, o) = RefsOf(objs, o) + 1
  BY <1>1, <1>3, <1>4, <1>5 DEF RefsOf
<1>7. \A p \in Objects : /\ os[p] # NULL <=> objs[p] # NULL
                         /\ os[p].number = objs[p].number
                         /\ os[p].type = objs[p].type
  BY <1>1, <1>3, <1>4, <1>5
<1> QED
  BY <1>2, <1>4, <1>6, <1>7

(* Closing what a thread opened itself.                                    *)
LEMMA ClosedFacts ==
    ASSUME NEW s \in HeapType, NEW N
    PROVE  LET r == [s EXCEPT !.host = Closed(@, N)]
           IN r \in HeapType /\ r.obj = s.obj /\ r.host = Closed(s.host, N) /\ Shrinks(s, r)
<1> DEFINE hs == Closed(s.host, N)
           r == [s EXCEPT !.host = hs]
<1>1. hs \in [HostFds -> Files \cup {NULL}] /\ \A n \in HostFds : hs[n] \in {s.host[n], NULL}
  BY DEF HeapType, Closed
<1> HIDE DEF hs
<1>2. r \in HeapType /\ r.obj = s.obj /\ r.host = hs
  BY <1>1 DEF HeapType
<1>3. Shrinks(s, r)
  BY <1>1, <1>2 DEF Shrinks
<1> QED
  BY <1>2, <1>3 DEF hs

(* A call that closes descriptors it had opened itself (WalkUp, PathGot,   *)
(* InsertFails) gives up their ownership in the same step.                 *)
LEMMA ClosedOwned ==
    ASSUME NEW objs, NEW hst, NEW nums, NEW gone, OwnedOnce(objs, hst, nums, gone),
           NEW t \in Threads, nums = [u \in Threads |-> nums[u]], NEW N, N \subseteq nums[t]
    PROVE  OwnedOnce(objs, Closed(hst, N), [nums EXCEPT ![t] = @ \ N], gone)
<1> DEFINE ns == [nums EXCEPT ![t] = @ \ N]
           hs == Closed(hst, N)
<1>1. \A u \in Threads : ns[u] = IF u = t THEN nums[t] \ N ELSE nums[u]
  OBVIOUS
<1>2. \A n \in HostFds : hs[n] = IF n \in N THEN NULL ELSE hst[n]
  BY DEF Closed
<1> HIDE DEF ns, hs
<1>3. OwnedOnce(objs, hs, ns, gone)
  <2> SUFFICES ASSUME NEW n \in HostFds
               PROVE  LET holds(p) == objs[p] # NULL /\ objs[p].number = n
                      IN /\ hs[n] = NULL => /\ \A p \in Objects : ~holds(p)
                                            /\ \A u \in Threads : n \notin ns[u]
                                            /\ n \notin gone
                         /\ \A p, q \in Objects : holds(p) /\ holds(q) => p = q
                         /\ \A p \in Objects : holds(p) =>
                               n \notin gone /\ \A u \in Threads : n \notin ns[u]
                         /\ \A u, v \in Threads : n \in ns[u] /\ n \in ns[v] => u = v
                         /\ \A u \in Threads : n \in ns[u] => n \notin gone
                         /\ hs[n] # NULL /\ n \notin StdHost =>
                               n \in gone \/ (\E p \in Objects : holds(p))
                               \/ (\E u \in Threads : n \in ns[u])
    BY DEF OwnedOnce
  <2>1. CASE n \in N
    BY <2>1, <1>1, <1>2 DEF OwnedOnce
  <2>2. CASE n \notin N
    <3>1. hs[n] = hst[n] /\ \A u \in Threads : n \in ns[u] <=> n \in nums[u]
      BY <2>2, <1>1, <1>2
    <3> QED
      BY <3>1 DEF OwnedOnce
  <2> QED
    BY <2>1, <2>2
<1> QED
  BY <1>3 DEF ns, hs

(* A descriptor that the host has just opened belongs to its thread.       *)
LEMMA OpenedOwned ==
    ASSUME NEW objs, NEW hst, NEW nums, NEW gone, OwnedOnce(objs, hst, nums, gone),
           NEW t \in Threads, nums = [u \in Threads |-> nums[u]],
           hst = [m \in HostFds |-> hst[m]],
           NEW n \in HostFds, hst[n] = NULL, NEW node, node # NULL
    PROVE  OwnedOnce(objs, [hst EXCEPT ![n] = node], [nums EXCEPT ![t] = @ \cup {n}], gone)
<1> DEFINE ns == [nums EXCEPT ![t] = @ \cup {n}]
           hs == [hst EXCEPT ![n] = node]
<1>1. \A u \in Threads : ns[u] = IF u = t THEN nums[t] \cup {n} ELSE nums[u]
  OBVIOUS
<1>2. \A m \in HostFds : hs[m] = IF m = n THEN node ELSE hst[m]
  OBVIOUS
<1> HIDE DEF ns, hs
<1>3. OwnedOnce(objs, hs, ns, gone)
  <2> SUFFICES ASSUME NEW m \in HostFds
               PROVE  LET holds(p) == objs[p] # NULL /\ objs[p].number = m
                      IN /\ hs[m] = NULL => /\ \A p \in Objects : ~holds(p)
                                            /\ \A u \in Threads : m \notin ns[u]
                                            /\ m \notin gone
                         /\ \A p, q \in Objects : holds(p) /\ holds(q) => p = q
                         /\ \A p \in Objects : holds(p) =>
                               m \notin gone /\ \A u \in Threads : m \notin ns[u]
                         /\ \A u, v \in Threads : m \in ns[u] /\ m \in ns[v] => u = v
                         /\ \A u \in Threads : m \in ns[u] => m \notin gone
                         /\ hs[m] # NULL /\ m \notin StdHost =>
                               m \in gone \/ (\E p \in Objects : holds(p))
                               \/ (\E u \in Threads : m \in ns[u])
    BY DEF OwnedOnce
  <2>1. CASE m = n
    BY <2>1, <1>1, <1>2 DEF OwnedOnce
  <2>2. CASE m # n
    <3>1. hs[m] = hst[m] /\ \A u \in Threads : m \in ns[u] <=> m \in nums[u]
      BY <2>2, <1>1, <1>2
    <3> QED
      BY <3>1 DEF OwnedOnce
  <2> QED
    BY <2>1, <2>2
<1> QED
  BY <1>3 DEF ns, hs

(* Two releases in a row, as in fd_renumber and path_put of two leases,    *)
(* shrink the heap as one does.                                            *)
LEMMA ShrinksOnce ==
    /\ \A s : Shrinks(s, s)
    /\ \A r, s, u : Shrinks(s, r) /\ Shrinks(r, u) => Shrinks(s, u)
BY DEF Shrinks

(* path_put                                                                *)
LEMMA PutFacts ==
    ASSUME NEW s \in HeapType, NEW pa \in LeaseType, s.obj[pa.fo] # NULL
    PROVE  /\ Put(s, pa) \in HeapType
           /\ RefsOf(Put(s, pa).obj, pa.fo) = RefsOf(s.obj, pa.fo) - 1
           /\ \A p \in Objects \ {pa.fo} : Put(s, pa).obj[p] = s.obj[p]
           /\ Shrinks(s, Put(s, pa))
<1> DEFINE r == [s EXCEPT !.host = Closed(@, OwnNumbers(pa))]
<1>1. r \in HeapType /\ r.obj = s.obj /\ Shrinks(s, r)
  BY ClosedFacts
<1>2. pa.fo \in Objects
  BY DEF LeaseType
<1>3. Put(s, pa) = Released(r, pa.fo)
  BY DEF Put
<1> HIDE DEF r
<1>4. /\ Released(r, pa.fo) \in HeapType
      /\ RefsOf(Released(r, pa.fo).obj, pa.fo) = RefsOf(r.obj, pa.fo) - 1
      /\ \A p \in Objects \ {pa.fo} : Released(r, pa.fo).obj[p] = r.obj[p]
      /\ Shrinks(r, Released(r, pa.fo))
  BY <1>1, <1>2, ReleasedFacts
<1>5. Shrinks(s, Released(r, pa.fo))
  BY <1>1, <1>4, ShrinksOnce
<1> QED
  BY <1>1, <1>3, <1>4, <1>5

(* path_put closes what the walk had opened and releases the object of the *)
(* lease: owners stay unique.                                              *)
LEMMA PutOwned ==
    ASSUME NEW s \in HeapType, NEW pa \in LeaseType, s.obj[pa.fo] # NULL,
           NEW nums, NEW gone, OwnedOnce(s.obj, s.host, nums, gone),
           NEW t \in Threads, nums = [u \in Threads |-> nums[u]], OwnNumbers(pa) \subseteq nums[t]
    PROVE  OwnedOnce(Put(s, pa).obj, Put(s, pa).host,
                     [nums EXCEPT ![t] = @ \ OwnNumbers(pa)], gone)
<1> DEFINE r == [s EXCEPT !.host = Closed(@, OwnNumbers(pa))]
           ns == [nums EXCEPT ![t] = @ \ OwnNumbers(pa)]
<1>1. r \in HeapType /\ r.obj = s.obj /\ r.host = Closed(s.host, OwnNumbers(pa))
  BY ClosedFacts
<1>2. pa.fo \in Objects
  BY DEF LeaseType
<1>3. Put(s, pa) = Released(r, pa.fo)
  BY DEF Put
<1>4. OwnedOnce(s.obj, Closed(s.host, OwnNumbers(pa)), ns, gone)
  BY ClosedOwned
<1> HIDE DEF r, ns
<1>5. OwnedOnce(r.obj, r.host, ns, gone)
  BY <1>1, <1>4
<1>6. OwnedOnce(Released(r, pa.fo).obj, Released(r, pa.fo).host, ns, gone)
  BY <1>1, <1>2, <1>5, ReleasedOwned
<1> QED
  BY <1>3, <1>6 DEF ns

----------------------------------------------------------------------------
(* Steps of a call *)

(* What a call holds, and what an entry refers to, is alive.               *)
LEMMA HeldAlive ==
    ASSUME WasiTypes, Counted, NEW t \in Threads, NEW o \in Objects
    PROVE  Holds(th[t], o) =< RefsOf(obj, o)
<1> DEFINE G == {l \in Leases : LeaseOf(l).fo = o}
           U == {k \in Threads \X (1 .. 2) :
                      k[2] \in DOMAIN th[k[1]].fos /\ th[k[1]].fos[k[2]] = o}
           pk == <<t, "pa">>
           qk == <<t, "old">>
           first == <<t, 1>>
           second == <<t, 2>>
           H == G \ {pk, qk}
           V == U \ {first, second}
<1>1. /\ pk \in G <=> th[t].pa # NULL /\ th[t].pa.fo = o
      /\ qk \in G <=> th[t].old # NULL /\ th[t].old.fo = o
      /\ first \in U <=> 1 \in DOMAIN th[t].fos /\ th[t].fos[1] = o
      /\ second \in U <=> 2 \in DOMAIN th[t].fos /\ th[t].fos[2] = o
  BY DEF Leases, LeaseOf
<1>2. IsFiniteSet(G) /\ IsFiniteSet(U) /\ InEntries(o) \in Nat /\ InLost(o) \in Nat
  BY CountTypes
<1>3. InLeases(o) = Cardinality(G) /\ InUse(o) = Cardinality(U)
  BY DEF InLeases, InUse
<1>4. pk # qk /\ first # second
  OBVIOUS
<1>5. /\ pk \notin H /\ qk \notin H /\ \A x : x = pk \/ x = qk \/ (x \in G <=> x \in H)
      /\ first \notin V /\ second \notin V
      /\ \A x : x = first \/ x = second \/ (x \in U <=> x \in V)
  OBVIOUS
<1> HIDE DEF G, U, pk, qk, first, second, H, V
<1>6. /\ IsFiniteSet(H) /\ Cardinality(G) \in Nat /\ Cardinality(H) \in Nat
      /\ Cardinality(H) = Cardinality(G) - In(pk, G) - In(qk, G)
                            + In(pk, H) + In(qk, H)
  <2>1. IsFiniteSet(G) /\ pk # qk
    BY <1>2, <1>4
  <2>2. \A x : x = pk \/ x = qk \/ (x \in G <=> x \in H)
    BY <1>5
  <2> QED
    BY ONLY <2>1, <2>2, TwoPlaces
<1>7. /\ IsFiniteSet(V) /\ Cardinality(U) \in Nat /\ Cardinality(V) \in Nat
      /\ Cardinality(V) = Cardinality(U) - In(first, U) - In(second, U)
                            + In(first, V) + In(second, V)
  <2>1. IsFiniteSet(U) /\ first # second
    BY <1>2, <1>4
  <2>2. \A x : x = first \/ x = second \/ (x \in U <=> x \in V)
    BY <1>5
  <2> QED
    BY ONLY <2>1, <2>2, TwoPlaces
<1>8. In(pk, H) = 0 /\ In(qk, H) = 0 /\ In(first, V) = 0 /\ In(second, V) = 0
  BY <1>5 DEF In
<1>9. Holds(th[t], o) = In(pk, G) + In(qk, G) + In(first, U) + In(second, U)
  BY <1>1 DEF Holds, In
<1>10. In(pk, G) \in Nat /\ In(qk, G) \in Nat /\ In(first, U) \in Nat /\ In(second, U) \in Nat
  BY DEF In
<1>11. Count(o) =< RefsOf(obj, o) /\ RefsOf(obj, o) \in Nat
  BY DEF Counted, RefsOf, WasiTypes, ObjectType
<1> QED
  BY <1>2, <1>3, <1>6, <1>7, <1>8, <1>9, <1>10, <1>11 DEF Count

(* The object an entry refers to is alive when its references cover the    *)
(* entries: fd_table_get_entry never finds a freed object.                 *)
LEMMA EntryAlive ==
    ASSUME NEW es \in [FdTableSlots -> EntryType], NEW objs, NEW fd \in FdTableSlots,
           Cardinality({gd \in FdTableSlots : es[gd].object = es[fd].object})
               =< RefsOf(objs, es[fd].object)
    PROVE  objs[es[fd].object] # NULL
<1> DEFINE S == {gd \in FdTableSlots : es[gd].object = es[fd].object}
<1>1. IsFiniteSet(S) /\ fd \in S
  <2>1. IsFiniteSet(FdTableSlots)
    BY WasiFdAssumption, FS_Interval DEF FdTableSlots
  <2> QED
    BY <2>1, FS_Subset
<1> HIDE DEF S
<1>2. Cardinality(S) \in Nat /\ Cardinality(S) # 0
  BY <1>1, FS_CardinalityType, FS_EmptySet
<1> QED
  BY <1>2 DEF RefsOf, S

(* The counts are natural numbers after a step as before it.               *)
LEMMA CountTypesNext ==
    ASSUME NEW o \in Objects
    PROVE  WasiTypes' =>
             (InEntries(o) \in Nat /\ InLeases(o) \in Nat /\ InLost(o) \in Nat /\ InUse(o) \in Nat)'
<1>1. WasiTypes =>
         InEntries(o) \in Nat /\ InLeases(o) \in Nat /\ InLost(o) \in Nat /\ InUse(o) \in Nat
  BY CountTypes
<1> QED
  BY <1>1, PTL

(* What the table's entries refer to, and what calls hold, lives.          *)
LEMMA EntryObject ==
    ASSUME WasiTypes, Counted, NEW fd \in FdTableSlots, entries[fd].object # NULL
    PROVE  /\ entries[fd].object \in Objects /\ obj[entries[fd].object] # NULL
           /\ obj[entries[fd].object] \in ObjectType
<1> DEFINE o == entries[fd].object
<1>1. o \in Objects /\ entries \in [FdTableSlots -> EntryType]
  BY DEF WasiTypes, EntryType
<1>2. InEntries(o) =< RefsOf(obj, o)
  <2>1. Count(o) =< RefsOf(obj, o)
    BY <1>1 DEF Counted
  <2>2. /\ InEntries(o) \in Nat /\ InLeases(o) \in Nat /\ InLost(o) \in Nat /\ InUse(o) \in Nat
        /\ RefsOf(obj, o) \in Nat
    BY <1>1, CountTypes DEF RefsOf, WasiTypes, ObjectType
  <2> QED
    BY <2>1, <2>2 DEF Count
<1>3. Cardinality({gd \in FdTableSlots : entries[gd].object = entries[fd].object})
         =< RefsOf(obj, entries[fd].object)
  BY <1>2 DEF InEntries
<1>4. obj[entries[fd].object] # NULL
  BY <1>1, <1>3, EntryAlive
<1> QED
  BY <1>1, <1>4 DEF WasiTypes

(* The count of the references that a step changes, and what it leaves     *)
(* below the preopened directories.                                        *)
LEMMA CountStep ==
    ASSUME WasiTypes, WasiTypes', Counted,
           NEW t \in Threads, NEW c \in CallType, th' = [th EXCEPT ![t] = c],
           stuck' = stuck, stuck = t => c.pc = "insert",
           \A o \in Objects :
              RefsOf(obj', o) - InEntries(o)' - InLost(o)'
                 = RefsOf(obj, o) - InEntries(o) - InLost(o) - Holds(th[t], o) + Holds(c, o)
    PROVE  Counted'
<1>0. \A u \in Threads : th'[u] = IF u = t THEN c ELSE th[u]
  BY DEF WasiTypes
<1>1. ASSUME NEW o \in Objects
      PROVE  /\ Count(o)' =< RefsOf(obj', o)
             /\ stuck' = NULL => Count(o)' = RefsOf(obj', o)
  <2>1. InLeases(o)' + InUse(o)' = InLeases(o) + InUse(o) - Holds(th[t], o) + Holds(c, o)
        /\ InLeases(o)' \in Nat /\ InUse(o)' \in Nat
    BY ThreadCount
  <2>2. /\ InEntries(o) \in Nat /\ InLost(o) \in Nat /\ InLeases(o) \in Nat /\ InUse(o) \in Nat
        /\ InEntries(o)' \in Nat /\ InLost(o)' \in Nat
    BY CountTypes, CountTypesNext
  <2>3. Count(o)' = InEntries(o)' + InLeases(o)' + InLost(o)' + InUse(o)'
    BY DEF Count
  <2>4. Holds(th[t], o) \in Nat /\ Holds(c, o) \in Nat
    BY HoldsType
  <2>5. RefsOf(obj', o) - InEntries(o)' - InLost(o)'
           = RefsOf(obj, o) - InEntries(o) - InLost(o) - Holds(th[t], o) + Holds(c, o)
    OBVIOUS
  <2>6. Count(o) =< RefsOf(obj, o) /\ (stuck = NULL => Count(o) = RefsOf(obj, o))
        /\ RefsOf(obj, o) \in Nat /\ RefsOf(obj', o) \in Nat
    BY DEF Counted, RefsOf, WasiTypes, ObjectType
  <2>7. Count(o) = InEntries(o) + InLeases(o) + InLost(o) + InUse(o)
    BY DEF Count
  <2>8. /\ Count(o)' - RefsOf(obj', o) = Count(o) - RefsOf(obj, o)
        /\ Count(o) \in Nat /\ Count(o)' \in Nat
    BY <2>1, <2>2, <2>3, <2>4, <2>5, <2>6, <2>7
  <2> QED
    BY <2>6, <2>8
<1>2. stuck' \in Threads => th'[stuck'].pc = "insert"
  BY <1>0 DEF Counted, WasiTypes
<1>3. \A o \in Objects : /\ Count(o)' =< RefsOf(obj, o)'
                         /\ stuck' = NULL => Count(o)' = RefsOf(obj, o)'
  BY <1>1 DEF RefsOf
<1> QED
  BY <1>2, <1>3 DEF Counted

(* A step keeps everything open below the preopened directories when what  *)
(* it opens, and what its call then holds, is below them.                  *)
LEMMA BelowStep ==
    ASSUME WasiTypes, Stepped, Below,
           NEW t \in Threads, NEW c \in CallType, th' = [th EXCEPT ![t] = c],
           \A o \in Objects : obj'[o] # NULL =>
              \/ obj[o] # NULL /\ obj'[o].number = obj[o].number /\ obj'[o].type = obj[o].type
              \/ obj'[o].type = "dir" => Untainted(host', obj'[o].number),
           \A n \in HostFds : host'[n] = host[n] \/ host'[n] \in Inside \cup {"sock", NULL},
           CallUntainted(c, host')
    PROVE  Below'
<1>0. \A u \in Threads : th'[u] = IF u = t THEN c ELSE th[u]
  BY DEF WasiTypes
<1>1. \A n \in HostFds : Untainted(host, n) => Untainted(host', n)
  BY DEF Untainted
<1>2. Confined'
  BY DEF Below, Confined
<1>3. \A o \in Objects : obj'[o] # NULL /\ obj'[o].type = "dir" =>
         Untainted(host', obj'[o].number)
  <2> SUFFICES ASSUME NEW o \in Objects, obj'[o] # NULL, obj'[o].type = "dir"
               PROVE  Untainted(host', obj'[o].number)
    OBVIOUS
  <2>1. CASE obj[o] # NULL /\ obj'[o].number = obj[o].number /\ obj'[o].type = obj[o].type
    <3>1. obj[o].number \in HostFds
      BY <2>1 DEF WasiTypes, ObjectType
    <3> QED
      BY <1>1, <2>1, <3>1 DEF Below
  <2> QED
    BY <2>1
<1>4. \A u \in Threads : CallUntainted(th'[u], host')
  <2> SUFFICES ASSUME NEW u \in Threads, u # t PROVE CallUntainted(th[u], host')
    BY <1>0
  <2>1. CallUntainted(th[u], host) /\ th[u] \in CallType
    BY DEF Below, WasiTypes
  <2>2. th[u].pa # NULL => \A k \in 1 .. Len(th[u].pa.fds) : th[u].pa.fds[k] \in HostFds
    BY <2>1 DEF CallType, LeaseType
  <2>3. th[u].old # NULL => \A k \in 1 .. Len(th[u].old.fds) : th[u].old.fds[k] \in HostFds
    BY <2>1 DEF CallType, LeaseType
  <2>4. th[u].pc = "insert" => th[u].number \in HostFds
    BY DEF Stepped, Steps
  <2> QED
    BY <1>1, <2>1, <2>2, <2>3, <2>4 DEF CallUntainted
<1> QED
  BY <1>2, <1>3, <1>4 DEF Below, Untainted

(* After a step an entry still refers to a live object.                    *)
LEMMA EntryObjectNext ==
    ASSUME NEW fd \in FdTableSlots
    PROVE  (WasiTypes /\ Counted /\ entries[fd].object # NULL =>
              /\ entries[fd].object \in Objects /\ obj[entries[fd].object] # NULL
              /\ obj[entries[fd].object] \in ObjectType)'
<1>1. WasiTypes /\ Counted /\ entries[fd].object # NULL =>
         /\ entries[fd].object \in Objects /\ obj[entries[fd].object] # NULL
         /\ obj[entries[fd].object] \in ObjectType
  BY EntryObject
<1> QED
  BY <1>1, PTL

(* A step of one call that leaves the table alone, as most do, keeps all   *)
(* of the invariant but the owners.                                        *)
LEMMA CallStep ==
    ASSUME WasiTypes, Stepped, Counted, Entered, Below,
           NEW t \in Threads, NEW c \in CallType, Steps(c), th' = [th EXCEPT ![t] = c],
           stuck' = stuck, stuck = t => c.pc = "insert",
           UNCHANGED <<entries, fs, lost>>,
           [obj |-> obj', host |-> host'] \in HeapType,
           \A o \in Objects :
              RefsOf(obj', o) = RefsOf(obj, o) - Holds(th[t], o) + Holds(c, o),
           \A o \in Objects : obj'[o] # NULL =>
              /\ obj[o] # NULL /\ obj'[o].number = obj[o].number /\ obj'[o].type = obj[o].type,
           \A n \in HostFds : host'[n] = host[n] \/ host'[n] \in Inside \cup {"sock", NULL},
           CallUntainted(c, host')
    PROVE  (WasiTypes /\ Stepped /\ Counted /\ Entered /\ Below)'
<1>1. \A u \in Threads : th'[u] = IF u = t THEN c ELSE th[u]
  BY DEF WasiTypes
<1>2. WasiTypes'
  BY DEF WasiTypes, HeapType
<1>3. Stepped'
  BY <1>1 DEF Stepped
<1>4. Counted'
  <2>1. \A o \in Objects :
           RefsOf(obj', o) - InEntries(o)' - InLost(o)'
              = RefsOf(obj, o) - InEntries(o) - InLost(o) - Holds(th[t], o) + Holds(c, o)
    <3> TAKE o \in Objects
    <3>1. InEntries(o)' = InEntries(o) /\ InLost(o)' = InLost(o)
      BY DEF InEntries, InLost
    <3>2. InEntries(o) \in Nat /\ InLost(o) \in Nat /\ Holds(th[t], o) \in Nat /\ Holds(c, o) \in Nat
          /\ RefsOf(obj, o) \in Nat
      BY CountTypes, HoldsType DEF RefsOf, WasiTypes, ObjectType
    <3>3. RefsOf(obj', o) = RefsOf(obj, o) - Holds(th[t], o) + Holds(c, o)
      OBVIOUS
    <3> QED
      BY <3>1, <3>2, <3>3
  <2> QED
    BY <1>2, <2>1, CountStep
<1>5. Entered'
  <2>1. ASSUME NEW fd \in FdTableSlots, entries[fd].object # NULL
        PROVE  entries[fd].base \subseteq MaxBase(obj'[entries[fd].object].type)
    <3>1. entries[fd].object \in Objects /\ obj'[entries[fd].object] # NULL
      BY <1>2, <1>4, <2>1, EntryObjectNext
    <3> QED
      BY <2>1, <3>1 DEF Entered
  <2> QED
    BY <2>1 DEF Entered
<1>6. Below'
  BY BelowStep
<1> QED
  BY <1>2, <1>3, <1>4, <1>5, <1>6

(* The objects a call refers to are alive while it runs, and one it leases *)
(* twice has two references: path_put of the first lease does not free it. *)
LEMMA CallObjects ==
    ASSUME WasiTypes, Counted, NEW t \in Threads
    PROVE  /\ th[t].pa # NULL => th[t].pa.fo \in Objects /\ obj[th[t].pa.fo] # NULL
           /\ th[t].old # NULL => th[t].old.fo \in Objects /\ obj[th[t].old.fo] # NULL
           /\ th[t].pa # NULL /\ th[t].old # NULL /\ th[t].pa.fo = th[t].old.fo =>
                 RefsOf(obj, th[t].pa.fo) >= 2
           /\ th[t].fos # << >> => th[t].fos[1] \in Objects /\ obj[th[t].fos[1]] # NULL
<1>1. \A o \in Objects : Holds(th[t], o) =< RefsOf(obj, o) /\ RefsOf(obj, o) \in Nat
  <2> TAKE o \in Objects
  <2>1. Holds(th[t], o) =< RefsOf(obj, o)
    BY HeldAlive
  <2> QED
    BY <2>1 DEF RefsOf, WasiTypes, ObjectType
<1>2. th[t] \in CallType
  BY DEF WasiTypes
<1>3. \A o \in Objects : RefsOf(obj, o) # 0 => obj[o] # NULL
  BY DEF RefsOf
<1>4. th[t].pa # NULL => th[t].pa.fo \in Objects /\ RefsOf(obj, th[t].pa.fo) >= 1
  <2>1. SUFFICES ASSUME th[t].pa # NULL
                 PROVE  th[t].pa.fo \in Objects /\ RefsOf(obj, th[t].pa.fo) >= 1
    OBVIOUS
  <2>2. th[t].pa.fo \in Objects
    BY <1>2, <2>1 DEF CallType, LeaseType
  <2>3. Holds(th[t], th[t].pa.fo) >= 1
    BY <2>1 DEF Holds
  <2>4. Holds(th[t], th[t].pa.fo) \in Nat
    BY HoldsType
  <2> QED
    BY <1>1, <2>2, <2>3, <2>4
<1>5. th[t].old # NULL => th[t].old.fo \in Objects /\ RefsOf(obj, th[t].old.fo) >= 1
  <2>1. SUFFICES ASSUME th[t].old # NULL
                 PROVE  th[t].old.fo \in Objects /\ RefsOf(obj, th[t].old.fo) >= 1
    OBVIOUS
  <2>2. th[t].old.fo \in Objects
    BY <1>2, <2>1 DEF CallType, LeaseType
  <2>3. Holds(th[t], th[t].old.fo) >= 1
    BY <2>1 DEF Holds
  <2>4. Holds(th[t], th[t].old.fo) \in Nat
    BY HoldsType
  <2> QED
    BY <1>1, <2>2, <2>3, <2>4
<1>6. th[t].pa # NULL /\ th[t].old # NULL /\ th[t].pa.fo = th[t].old.fo =>
         RefsOf(obj, th[t].pa.fo) >= 2
  <2>1. SUFFICES ASSUME th[t].pa # NULL, th[t].old # NULL, th[t].pa.fo = th[t].old.fo
                 PROVE  RefsOf(obj, th[t].pa.fo) >= 2
    OBVIOUS
  <2>2. Holds(th[t], th[t].pa.fo) >= 2
    BY <2>1 DEF Holds
  <2>3. Holds(th[t], th[t].pa.fo) \in Nat
    BY HoldsType
  <2> QED
    BY <1>1, <1>4, <2>1, <2>2, <2>3
<1>7. th[t].fos # << >> => th[t].fos[1] \in Objects /\ RefsOf(obj, th[t].fos[1]) >= 1
  <2>1. SUFFICES ASSUME th[t].fos # << >>
                 PROVE  th[t].fos[1] \in Objects /\ RefsOf(obj, th[t].fos[1]) >= 1
    OBVIOUS
  <2>2. th[t].fos \in Seq(Objects) /\ 1 \in DOMAIN th[t].fos /\ th[t].fos[1] \in Objects
    BY <1>2, <2>1 DEF CallType
  <2>3. Holds(th[t], th[t].fos[1]) >= 1
    BY <2>2 DEF Holds
  <2>4. Holds(th[t], th[t].fos[1]) \in Nat
    BY HoldsType
  <2> QED
    BY <1>1, <2>2, <2>3, <2>4
<1> QED
  BY <1>1, <1>3, <1>4, <1>5, <1>6, <1>7

(* A thread between calls, in a call on objects, and with a descriptor to  *)
(* insert.                                                                 *)
LEMMA IdleFacts ==
    /\ Idle \in CallType /\ Steps(Idle) /\ Tidy(Idle) /\ Nums(Idle) = {}
    /\ \A o : Holds(Idle, o) = 0
    /\ \A hst : CallUntainted(Idle, hst)
<1>1. Idle \in CallType
  BY DEF Idle, CallType
<1>2. Steps(Idle)
  BY DEF Idle, Steps
<1>3. Tidy(Idle) /\ Nums(Idle) = {}
  BY DEF Tidy, Nums, Own, Idle
<1>4. \A o : Holds(Idle, o) = 0
  BY DEF Holds, Idle
<1>5. \A hst : CallUntainted(Idle, hst)
  BY DEF CallUntainted, Idle
<1> QED
  BY <1>1, <1>2, <1>3, <1>4, <1>5

(* A call that has got its objects and calls the host on them              *)
(* (fd_object_get, poll_oneoff, fd_close).                                 *)
LEMMA UsingFacts ==
    ASSUME NEW fos \in Seq(Objects), Len(fos) \in 1 .. 2,
           NEW op \in FdCalls \cup {"none", "poll_oneoff"}, op = "sock_accept" => Len(fos) = 1
    PROVE  /\ Using(fos, op) \in CallType /\ Steps(Using(fos, op))
           /\ Tidy(Using(fos, op)) /\ Nums(Using(fos, op)) = {}
           /\ \A o : Holds(Using(fos, op), o) =
                 (IF fos[1] = o THEN 1 ELSE 0) + (IF Len(fos) = 2 /\ fos[2] = o THEN 1 ELSE 0)
           /\ \A hst : CallUntainted(Using(fos, op), hst)
<1> DEFINE c == Using(fos, op)
<1>1. c \in CallType
  BY DEF Using, Idle, CallType
<1>2. /\ c.pc = "use" /\ c.fos = fos /\ c.number = NULL /\ c.type = NULL
      /\ c.pa = NULL /\ c.old = NULL /\ c.op = op
  BY DEF Using, Idle
<1> HIDE DEF c
<1>3. Steps(c)
  BY <1>2 DEF Steps
<1>4. Tidy(c) /\ Nums(c) = {}
  BY <1>2 DEF Tidy, Nums, Own
<1>5. \A o : Holds(c, o) =
                 (IF fos[1] = o THEN 1 ELSE 0) + (IF Len(fos) = 2 /\ fos[2] = o THEN 1 ELSE 0)
  <2>1. 1 \in DOMAIN fos /\ (2 \in DOMAIN fos <=> Len(fos) = 2)
    OBVIOUS
  <2> QED
    BY <1>2, <2>1 DEF Holds
<1>6. \A hst : CallUntainted(c, hst)
  BY <1>2 DEF CallUntainted
<1> QED
  BY <1>1, <1>3, <1>4, <1>5, <1>6 DEF c

(* A call that has a new descriptor of the host and puts it in the table   *)
(* next (sock_open, sock_accept, path_open).                               *)
LEMMA InsertingFacts ==
    ASSUME NEW n \in HostFds, NEW type \in Types, NEW base \in SUBSET RIGHTS_ALL,
           NEW inheriting \in SUBSET RIGHTS_ALL, base \subseteq MaxBase(type)
    PROVE  LET c == Inserting(n, type, base, inheriting)
           IN /\ c \in CallType /\ Steps(c) /\ Tidy(c) /\ Nums(c) = {n} /\ c.pc = "insert"
              /\ \A o : Holds(c, o) = 0
              /\ \A hst : (type = "dir" => Untainted(hst, n)) => CallUntainted(c, hst)
<1> DEFINE c == Inserting(n, type, base, inheriting)
<1>1. c \in CallType
  <2> DEFINE a == [Idle EXCEPT !.pc = "insert", !.number = n]
             b == [a EXCEPT !.type = type, !.base = base]
  <2>1. Idle \in CallType
    BY IdleFacts
  <2>2. a \in CallType
    BY <2>1 DEF CallType
  <2>3. c = [b EXCEPT !.inheriting = inheriting]
    BY Zenon DEF Inserting
  <2> HIDE DEF a
  <2>4. b \in CallType
    BY <2>2 DEF CallType
  <2> HIDE DEF b, c
  <2> QED
    BY <2>3, <2>4 DEF CallType
<1>2. /\ c.pc = "insert" /\ c.fos = << >> /\ c.number = n /\ c.type = type
      /\ c.pa = NULL /\ c.old = NULL /\ c.base = base
  BY DEF Inserting, Idle
<1> HIDE DEF c
<1>3. Steps(c)
  BY <1>2 DEF Steps
<1>4. Tidy(c) /\ Nums(c) = {n}
  BY <1>2 DEF Tidy, Nums, Own
<1>5. \A o : Holds(c, o) = 0
  BY <1>2 DEF Holds
<1>6. \A hst : (type = "dir" => Untainted(hst, n)) => CallUntainted(c, hst)
  BY <1>2 DEF CallUntainted
<1> QED
  BY <1>1, <1>2, <1>3, <1>4, <1>5, <1>6 DEF c

(* The lowest free descriptor of the host.                                 *)
LEMMA LowestFree ==
    ASSUME WasiTypes, HostFree # {}
    PROVE  Min(HostFree) \in HostFds /\ host[Min(HostFree)] = NULL
<1>1. HostFree \subseteq Nat
  BY WasiFdAssumption DEF HostFree
<1>2. Min(HostFree) \in HostFree
  BY <1>1, MinOf
<1> QED
  BY <1>2 DEF HostFree

NumsOf == [u \in Threads |-> Nums(th[u])]

(* What a step of thread t must leave, when it leaves the table alone: its *)
(* call c, and objects and host descriptors r.                             *)
Moved(t, c, r) ==
    /\ c \in CallType /\ Steps(c) /\ (stuck = t => c.pc = "insert")
    /\ stuck = NULL => Tidy(c)
    /\ r \in HeapType
    /\ \A o \in Objects : RefsOf(r.obj, o) = RefsOf(obj, o) - Holds(th[t], o) + Holds(c, o)
    /\ \A o \in Objects : r.obj[o] # NULL =>
          obj[o] # NULL /\ r.obj[o].number = obj[o].number /\ r.obj[o].type = obj[o].type
    /\ \A n \in HostFds : r.host[n] = host[n] \/ r.host[n] \in Inside \cup {"sock", NULL}
    /\ CallUntainted(c, r.host)
    /\ stuck = NULL => OwnedOnce(r.obj, r.host, [NumsOf EXCEPT ![t] = Nums(c)], Gone)

(* What Moved demands of a step is enough for the invariant.               *)
LEMMA MovedInv ==
    ASSUME WasiInv, NEW t \in Threads, NEW c, NEW r, Moved(t, c, r),
           th' = [th EXCEPT ![t] = c], obj' = r.obj, host' = r.host,
           UNCHANGED <<entries, stuck, fs, lost>>
    PROVE  WasiInv'
<1>1. (WasiTypes /\ Stepped /\ Counted /\ Entered /\ Below)'
  <2>1. WasiTypes /\ Stepped /\ Counted /\ Entered /\ Below
    BY DEF WasiInv
  <2>2. c \in CallType /\ Steps(c) /\ (stuck = t => c.pc = "insert")
    BY DEF Moved
  <2>3. [obj |-> obj', host |-> host'] \in HeapType
    BY DEF Moved, HeapType
  <2>4. \A o \in Objects : RefsOf(obj', o) = RefsOf(obj, o) - Holds(th[t], o) + Holds(c, o)
    BY DEF Moved
  <2>5. \A o \in Objects : obj'[o] # NULL =>
           obj[o] # NULL /\ obj'[o].number = obj[o].number /\ obj'[o].type = obj[o].type
    BY DEF Moved
  <2>6. \A n \in HostFds : host'[n] = host[n] \/ host'[n] \in Inside \cup {"sock", NULL}
    BY DEF Moved
  <2>7. CallUntainted(c, host') /\ stuck' = stuck
    BY DEF Moved
  <2> QED
    BY <2>1, <2>2, <2>3, <2>4, <2>5, <2>6, <2>7, CallStep
<1>2. Owned'
  <2>1. th' = [u \in Threads |-> IF u = t THEN c ELSE th[u]]
    BY DEF WasiInv, WasiTypes
  <2>2. [u \in Threads |-> Nums(th'[u])] = [NumsOf EXCEPT ![t] = Nums(c)]
    BY <2>1 DEF NumsOf
  <2>3. Gone' = Gone
    BY DEF Gone
  <2>4. \A u \in Threads : Tidy(th'[u]) \/ stuck # NULL
    BY <2>1 DEF WasiInv, Owned, Moved
  <2>5. stuck = NULL => OwnedOnce(obj', host', [u \in Threads |-> Nums(th'[u])], Gone')
    BY <2>2, <2>3 DEF Moved
  <2> QED
    BY <2>4, <2>5 DEF Owned, OwnedOnce, Nums, Own, Tidy
<1> QED
  BY <1>1, <1>2 DEF WasiInv

(* The objects and host descriptors of a state have their types.           *)
LEMMA HeapFacts ==
    ASSUME WasiTypes
    PROVE  Heap \in HeapType /\ Heap.obj = obj /\ Heap.host = host
BY DEF WasiTypes, Heap, HeapType

(* The descriptors each call owns, as a function that the lemmas on owners *)
(* can be given.                                                           *)
LEMMA NumsOfFacts ==
    ASSUME WasiInv
    PROVE  /\ NumsOf = [u \in Threads |-> NumsOf[u]]
           /\ \A t \in Threads : NumsOf[t] = Nums(th[t])
                                 /\ \A N : N = Nums(th[t]) => [NumsOf EXCEPT ![t] = N] = NumsOf
           /\ stuck = NULL => OwnedOnce(obj, host, NumsOf, Gone)
           /\ \A t \in Threads : stuck = NULL => Tidy(th[t])
<1>1. NumsOf = [u \in Threads |-> NumsOf[u]]
  BY DEF NumsOf
<1>2. ASSUME NEW t \in Threads
      PROVE  NumsOf[t] = Nums(th[t]) /\ \A N : N = Nums(th[t]) => [NumsOf EXCEPT ![t] = N] = NumsOf
  BY DEF NumsOf
<1>3. stuck = NULL => OwnedOnce(obj, host, NumsOf, Gone) /\ \A t \in Threads : Tidy(th[t])
  BY DEF WasiInv, Owned, NumsOf
<1> QED
  BY <1>1, <1>2, <1>3

(* A thread that runs is not the one stuck in fd_table_insert_fd.          *)
LEMMA NotStuck ==
    ASSUME WasiInv, NEW t \in Threads, th[t].pc # "insert"
    PROVE  stuck # t
BY DEF WasiInv, Counted

----------------------------------------------------------------------------
(* Operations on a descriptor *)

(* fd_object_get: an operation on a descriptor gets a reference to its     *)
(* object.                                                                 *)
LEMMA GetInv ==
    ASSUME WasiInv, NEW t \in Threads, NEW op \in FdCalls, NEW fd \in FdTableSlots,
           fd_object_get(t, op, fd), UNCHANGED <<fs, swaps, lost>>
    PROVE  WasiInv'
<1> DEFINE o == entries[fd].object
           c == Using(<<o>>, op)
           objs == Acquired(obj, o)
           r == [obj |-> objs, host |-> host]
<1>1. /\ th[t] = Idle /\ entries[fd].object # NULL
      /\ obj' = objs /\ th' = [th EXCEPT ![t] = c]
      /\ UNCHANGED <<entries, host, stuck>>
  BY DEF fd_object_get, Begin, fd_table_get_entry, WasiInv, Stepped, Steps
<1>2. o \in Objects /\ obj[o] # NULL
  BY <1>1, EntryObject DEF WasiInv
<1>3. /\ objs \in [Objects -> ObjectType \cup {NULL}]
      /\ RefsOf(objs, o) = RefsOf(obj, o) + 1
      /\ \A p \in Objects \ {o} : objs[p] = obj[p]
      /\ \A p \in Objects : /\ objs[p] # NULL <=> obj[p] # NULL
                            /\ objs[p].number = obj[p].number
                            /\ objs[p].type = obj[p].type
  BY <1>2, AcquiredFacts DEF WasiInv, WasiTypes
<1>4. <<o>> \in Seq(Objects) /\ Len(<<o>>) = 1 /\ <<o>>[1] = o
  BY <1>2
<1>5. /\ c \in CallType /\ Steps(c) /\ Tidy(c) /\ Nums(c) = {}
      /\ \A p : Holds(c, p) = (IF o = p THEN 1 ELSE 0)
      /\ \A hst : CallUntainted(c, hst)
  <2>1. /\ c \in CallType /\ Steps(c) /\ Tidy(c) /\ Nums(c) = {}
        /\ \A p : Holds(c, p) =
                 (IF <<o>>[1] = p THEN 1 ELSE 0)
                 + (IF Len(<<o>>) = 2 /\ <<o>>[2] = p THEN 1 ELSE 0)
        /\ \A hst : CallUntainted(c, hst)
    BY <1>4, UsingFacts, SMTT(20)
  <2> HIDE DEF c
  <2> QED
    BY <1>4, <2>1
<1>6. stuck # t
  BY <1>1, NotStuck DEF Idle
<1> HIDE DEF objs, c
<1>7. Moved(t, c, r)
  <2>1. r \in HeapType
    BY <1>3 DEF HeapType, WasiInv, WasiTypes
  <2>2. \A p \in Objects : RefsOf(r.obj, p) = RefsOf(obj, p) - Holds(th[t], p) + Holds(c, p)
    <3> TAKE p \in Objects
    <3>1. Holds(th[t], p) = 0
      BY <1>1, IdleFacts
    <3>2. RefsOf(obj, p) \in Nat
      BY DEF RefsOf, WasiInv, WasiTypes, ObjectType
    <3>3. CASE p = o
      BY <1>3, <1>5, <3>1, <3>2, <3>3
    <3>4. CASE p # o
      BY <1>3, <1>5, <3>1, <3>2, <3>4 DEF RefsOf
    <3> QED
      BY <3>3, <3>4
  <2>3. stuck = NULL => OwnedOnce(r.obj, r.host, [NumsOf EXCEPT ![t] = Nums(c)], Gone)
    <3>1. [NumsOf EXCEPT ![t] = Nums(c)] = NumsOf
      BY <1>1, <1>5, NumsOfFacts, IdleFacts
    <3>2. stuck = NULL => OwnedOnce(obj, host, NumsOf, Gone)
      BY NumsOfFacts
    <3> QED
      BY <1>3, <3>1, <3>2 DEF OwnedOnce
  <2> QED
    BY <1>3, <1>5, <1>6, <2>1, <2>2, <2>3 DEF Moved
<1> QED
  BY <1>1, <1>7, MovedInv

(* The tail of a pair: what poll_oneoff has left to release.               *)
LEMMA PairTail ==
    ASSUME NEW S, NEW s \in Seq(S), Len(s) = 2
    PROVE  /\ Tail(s) \in Seq(S) /\ DOMAIN Tail(s) = {1}
           /\ Tail(s)[1] = s[2] /\ Len(Tail(s)) = 1 /\ DOMAIN s = {1, 2}
<1> DEFINE u == Tail(s)
<1>1. s # << >> /\ DOMAIN s = 1 .. 2
  OBVIOUS
<1>2. /\ u \in Seq(S) /\ Len(u) = 1
      /\ \A k \in 1 .. Len(u) : u[k] = s[k + 1]
  BY <1>1, HeadTailProperties
<1> HIDE DEF u
<1>3. DOMAIN u = 1 .. 1
  BY <1>2
<1>4. u[1] = s[2]
  <2>1. 1 \in 1 .. Len(u) /\ 1 + 1 = 2
    BY <1>2
  <2> QED
    BY <1>2, <2>1
<1> QED
  BY <1>1, <1>2, <1>3, <1>4 DEF u

(* poll_oneoff: references to the objects of both subscriptions, of the    *)
(* same descriptor perhaps.                                                *)
LEMMA PollInv ==
    ASSUME WasiInv, NEW t \in Threads, NEW a \in DOMAIN Existing, NEW b \in DOMAIN Existing,
           PollGet(t, a, b), UNCHANGED <<fs, swaps, lost>>
    PROVE  WasiInv'
<1> DEFINE polled(fd) == IF fd_table_get_entry(fd, {"POLL_FD_READWRITE"}, {})
                         THEN <<entries[fd].object>> ELSE << >>
           fos == polled(a) \o polled(b)
           times(o) == Cardinality({k \in DOMAIN fos : fos[k] = o})
           objs == [o \in Objects |-> IF times(o) = 0 THEN obj[o]
                                      ELSE [obj[o] EXCEPT !.refs = @ + times(o)]]
           c == IF fos = << >> THEN Idle ELSE Using(fos, "poll_oneoff")
           r == [obj |-> objs, host |-> host]
<1>1. /\ th[t] = Idle /\ obj' = objs /\ th' = [th EXCEPT ![t] = c]
      /\ UNCHANGED <<entries, host, stuck>>
  BY DEF PollGet, Begin, WasiInv, Stepped, Steps
<1>2. \A fd \in DOMAIN Existing :
         polled(fd) = << >> \/ \E o \in Objects : polled(fd) = <<o>> /\ obj[o] # NULL
  <2> TAKE fd \in DOMAIN Existing
  <2>1. fd \in FdTableSlots
    BY WasiFdAssumption
  <2> QED
    BY <2>1, EntryObject DEF fd_table_get_entry, WasiInv
<1>3. /\ fos \in Seq(Objects) /\ Len(fos) \in 0 .. 2
      /\ \A k \in DOMAIN fos : fos[k] \in Objects /\ obj[fos[k]] # NULL
  <2> DEFINE x == polled(a)
             y == polled(b)
  <2>1. /\ x = << >> \/ \E o \in Objects : x = <<o>> /\ obj[o] # NULL
        /\ y = << >> \/ \E o \in Objects : y = <<o>> /\ obj[o] # NULL
    BY <1>2
  <2> HIDE DEF x, y
  <2>2. /\ x \o y \in Seq(Objects) /\ Len(x \o y) \in 0 .. 2
        /\ \A k \in DOMAIN (x \o y) : (x \o y)[k] \in Objects /\ obj[(x \o y)[k]] # NULL
    <3>5. ASSUME NEW z, z = << >> \/ \E o \in Objects : z = <<o>> /\ obj[o] # NULL
          PROVE  /\ z \in Seq(Objects) /\ Len(z) \in 0 .. 1
                 /\ \A k \in 1 .. Len(z) : z[k] \in Objects /\ obj[z[k]] # NULL
      <4>1. CASE z = << >>
        BY <4>1
      <4>2. CASE \E o \in Objects : z = <<o>> /\ obj[o] # NULL
        BY <4>2
      <4> QED
        BY <3>5, <4>1, <4>2
    <3>1. x \in Seq(Objects) /\ y \in Seq(Objects) /\ Len(x) \in 0 .. 1 /\ Len(y) \in 0 .. 1
      BY <2>1, <3>5
    <3>2. /\ \A k \in 1 .. Len(x) : x[k] \in Objects /\ obj[x[k]] # NULL
          /\ \A k \in 1 .. Len(y) : y[k] \in Objects /\ obj[y[k]] # NULL
      BY <2>1, <3>5
    <3>3. /\ x \o y \in Seq(Objects) /\ Len(x \o y) = Len(x) + Len(y)
          /\ \A k \in 1 .. Len(x) + Len(y) :
                (x \o y)[k] = IF k =< Len(x) THEN x[k] ELSE y[k - Len(x)]
      BY <3>1, ConcatProperties
    <3>4. DOMAIN (x \o y) = 1 .. Len(x) + Len(y)
      BY <3>3
    <3> QED
      BY <3>1, <3>2, <3>3, <3>4
  <2> QED
    BY <2>2 DEF x, y
<1> HIDE DEF polled, fos
<1>4. ASSUME NEW o \in Objects
      PROVE  times(o) = (IF Len(fos) >= 1 /\ fos[1] = o THEN 1 ELSE 0)
                        + (IF Len(fos) = 2 /\ fos[2] = o THEN 1 ELSE 0)
  <2> DEFINE Y == {k \in DOMAIN fos : fos[k] = o}
             X == {}
  <2>1. IsFiniteSet(X) /\ Cardinality(X) = 0 /\ 1 # 2
    BY FS_EmptySet
  <2>2. \A x : x = 1 \/ x = 2 \/ (x \in X <=> x \in Y)
    BY <1>3
  <2>3. In(1, X) = 0 /\ In(2, X) = 0
    BY DEF In
  <2>4. /\ 1 \in Y <=> Len(fos) >= 1 /\ fos[1] = o
        /\ 2 \in Y <=> Len(fos) = 2 /\ fos[2] = o
    BY <1>3
  <2> HIDE DEF X, Y
  <2>5. /\ IsFiniteSet(Y) /\ Cardinality(X) \in Nat /\ Cardinality(Y) \in Nat
        /\ Cardinality(Y) = Cardinality(X) - In(1, X) - In(2, X) + In(1, Y) + In(2, Y)
    <3> DEFINE i == 1
               j == 2
    <3>1. IsFiniteSet(X) /\ i # j
      BY <2>1
    <3>2. \A x : x = i \/ x = j \/ (x \in X <=> x \in Y)
      BY <2>2
    <3> HIDE DEF i, j
    <3>3. /\ IsFiniteSet(Y) /\ Cardinality(X) \in Nat /\ Cardinality(Y) \in Nat
          /\ Cardinality(Y) = Cardinality(X) - In(i, X) - In(j, X) + In(i, Y) + In(j, Y)
      BY <3>1, <3>2, TwoPlaces
    <3> QED
      BY <3>3 DEF i, j
  <2>6. Cardinality(Y) = In(1, Y) + In(2, Y)
    BY <2>1, <2>3, <2>5 DEF In
  <2> QED
    BY <2>4, <2>6 DEF In, Y
<1> HIDE DEF times
<1>5. \A o \in Objects : times(o) \in Nat /\ (times(o) # 0 => obj[o] # NULL)
  BY <1>3, <1>4
<1>6. \A o \in Objects : /\ objs[o] \in ObjectType \cup {NULL}
                         /\ RefsOf(objs, o) = RefsOf(obj, o) + times(o)
                         /\ objs[o] # NULL <=> obj[o] # NULL
                         /\ objs[o].number = obj[o].number
                         /\ objs[o].type = obj[o].type
  <2> TAKE o \in Objects
  <2>1. obj[o] \in ObjectType \cup {NULL} /\ NULL \notin ObjectType
    BY NullObject DEF WasiInv, WasiTypes
  <2>2. CASE times(o) = 0
    BY <2>1, <2>2 DEF RefsOf, ObjectType
  <2>3. CASE times(o) # 0
    <3> DEFINE x == [obj[o] EXCEPT !.refs = @ + times(o)]
    <3>1. obj[o] \in ObjectType /\ times(o) \in Nat
      BY <2>1, <2>3, <1>5
    <3>2. x \in ObjectType /\ x.refs = obj[o].refs + times(o)
          /\ x.number = obj[o].number /\ x.type = obj[o].type
      BY <3>1 DEF ObjectType
    <3>3. objs[o] = x
      BY <2>3
    <3> HIDE DEF x, objs
    <3> QED
      BY <2>1, <3>1, <3>2, <3>3 DEF RefsOf
  <2> QED
    BY <2>2, <2>3
<1>7. objs \in [Objects -> ObjectType \cup {NULL}]
  BY <1>6
<1>8. /\ c \in CallType /\ Steps(c) /\ Tidy(c) /\ Nums(c) = {}
      /\ \A p \in Objects : Holds(c, p) = times(p)
      /\ \A hst : CallUntainted(c, hst)
  <2>1. CASE fos = << >>
    <3>1. c = Idle /\ Len(fos) = 0
      BY <2>1
    <3> HIDE DEF c
    <3> QED
      BY <3>1, <1>4, IdleFacts
  <2>2. CASE fos # << >>
    <3>1. c = Using(fos, "poll_oneoff") /\ Len(fos) \in 1 .. 2
      BY <1>3, <2>2
    <3> HIDE DEF c
    <3>2. /\ c \in CallType /\ Steps(c) /\ Tidy(c) /\ Nums(c) = {}
          /\ \A p : Holds(c, p) = (IF fos[1] = p THEN 1 ELSE 0)
                                  + (IF Len(fos) = 2 /\ fos[2] = p THEN 1 ELSE 0)
          /\ \A hst : CallUntainted(c, hst)
      BY <1>3, <3>1, UsingFacts
    <3> QED
      BY <1>4, <3>1, <3>2
  <2> QED
    BY <2>1, <2>2
<1>9. stuck # t
  BY <1>1, NotStuck DEF Idle
<1> HIDE DEF objs, c
<1>10. Moved(t, c, r)
  <2>1. r \in HeapType
    BY <1>7 DEF HeapType, WasiInv, WasiTypes
  <2>2. \A p \in Objects : RefsOf(r.obj, p) = RefsOf(obj, p) - Holds(th[t], p) + Holds(c, p)
    <3> TAKE p \in Objects
    <3>1. Holds(th[t], p) = 0 /\ Holds(c, p) = times(p) /\ times(p) \in Nat
      BY <1>1, <1>5, <1>8, IdleFacts
    <3>2. RefsOf(obj, p) \in Nat
      BY DEF RefsOf, WasiInv, WasiTypes, ObjectType
    <3>3. RefsOf(objs, p) = RefsOf(obj, p) + times(p)
      BY <1>6
    <3> QED
      BY <3>1, <3>2, <3>3
  <2>3. stuck = NULL => OwnedOnce(r.obj, r.host, [NumsOf EXCEPT ![t] = Nums(c)], Gone)
    <3>1. [NumsOf EXCEPT ![t] = Nums(c)] = NumsOf
      BY <1>1, <1>8, NumsOfFacts, IdleFacts
    <3>2. stuck = NULL => OwnedOnce(obj, host, NumsOf, Gone)
      BY NumsOfFacts
    <3> QED
      BY <1>6, <3>1, <3>2 DEF OwnedOnce
  <2> QED
    BY <1>6, <1>8, <1>9, <2>1, <2>2, <2>3 DEF Moved
<1> QED
  BY <1>1, <1>10, MovedInv

(* fd_object_release at the end of an operation.                           *)
LEMMA ReleaseInv ==
    ASSUME WasiInv, NEW t \in Threads, fd_object_release(t), UNCHANGED <<fs, swaps, lost>>
    PROVE  WasiInv'
<1> DEFINE d == th[t]
           o == d.fos[1]
           c == IF Len(d.fos) = 1 THEN Idle ELSE [d EXCEPT !.fos = Tail(@)]
           r == Released(Heap, o)
<1>1. d \in CallType /\ Steps(d) /\ d.pc = "use" /\ Len(d.fos) \in 1 .. 2
      /\ d.pa = NULL /\ d.old = NULL /\ d.fos \in Seq(Objects)
  BY DEF fd_object_release, WasiInv, WasiTypes, Stepped, Steps, CallType
<1>2. o \in Objects /\ obj[o] # NULL
  BY <1>1, CallObjects DEF WasiInv
<1>3. /\ obj' = r.obj /\ host' = r.host /\ th' = [th EXCEPT ![t] = c]
      /\ UNCHANGED <<entries, stuck>>
  <2>1. Head(d.fos) = o
    BY <1>1
  <2>2. th' = [th EXCEPT ![t] = c]
    BY DEF fd_object_release
  <2>4. UNCHANGED <<entries, stuck>>
    BY DEF fd_object_release
  <2>3. obj' = r.obj /\ host' = r.host
    BY <2>1 DEF fd_object_release
  <2> QED
    BY <2>2, <2>3, <2>4
<1>4. /\ c \in CallType /\ Steps(c) /\ Tidy(c) /\ Nums(c) = {} /\ c.pa = NULL /\ c.old = NULL
      /\ \A p : Holds(d, p) = (IF o = p THEN 1 ELSE 0) + Holds(c, p)
      /\ \A hst : CallUntainted(c, hst)
  <2>1. CASE Len(d.fos) = 1
    <3>1. c = Idle /\ 1 \in DOMAIN d.fos /\ 2 \notin DOMAIN d.fos
      BY <1>1, <2>1
    <3> HIDE DEF c
    <3>2. \A p : Holds(d, p) = (IF o = p THEN 1 ELSE 0)
      BY <1>1, <3>1 DEF Holds
    <3>3. c.pa = NULL /\ c.old = NULL
      BY <3>1 DEF Idle
    <3>4. \A p : Holds(c, p) = 0
      BY <3>1, IdleFacts
    <3>5. /\ c \in CallType /\ Steps(c) /\ Tidy(c) /\ Nums(c) = {}
          /\ \A hst : CallUntainted(c, hst)
      BY <3>1, IdleFacts
    <3> QED
      BY <3>2, <3>3, <3>4, <3>5
  <2>2. CASE Len(d.fos) = 2
    <3>1. /\ Tail(d.fos) \in Seq(Objects) /\ DOMAIN Tail(d.fos) = {1}
          /\ Tail(d.fos)[1] = d.fos[2] /\ Len(Tail(d.fos)) = 1 /\ DOMAIN d.fos = {1, 2}
      <4>1. d.fos \in Seq(Objects) /\ Len(d.fos) = 2
        BY <1>1, <2>2
      <4> QED
        BY <4>1, PairTail
    <3>2. c = [d EXCEPT !.fos = Tail(d.fos)]
      BY <2>2
    <3> HIDE DEF c
    <3>3. c \in CallType
      BY <1>1, <3>1, <3>2 DEF CallType
    <3>4. c.pc = "use" /\ c.pa = NULL /\ c.old = NULL /\ c.fos = Tail(d.fos) /\ c.op = d.op
      BY <1>1, <3>2 DEF CallType
    <3>5. Steps(c)
      BY <3>1, <3>4 DEF Steps
    <3>6. \A p : Holds(d, p) = (IF o = p THEN 1 ELSE 0) + Holds(c, p)
      BY <1>1, <3>1, <3>4 DEF Holds
    <3>7. Tidy(c) /\ Nums(c) = {} /\ \A hst : CallUntainted(c, hst)
      BY <3>4 DEF Tidy, Nums, Own, CallUntainted
    <3> QED
      BY <3>3, <3>4, <3>5, <3>6, <3>7
  <2>3. Len(d.fos) = 1 \/ Len(d.fos) = 2
    BY <1>1
  <2> QED
    BY <2>1, <2>2, <2>3
<1>5. Nums(d) = {}
  BY <1>1 DEF Nums, Own
<1>6. stuck # t
  BY <1>1, NotStuck
<1>7. Heap \in HeapType /\ Heap.obj = obj /\ Heap.host = host
  BY HeapFacts DEF WasiInv
<1>8. /\ r \in HeapType /\ RefsOf(r.obj, o) = RefsOf(obj, o) - 1
      /\ \A p \in Objects \ {o} : r.obj[p] = obj[p]
      /\ Shrinks(Heap, r)
  BY <1>2, <1>7, ReleasedFacts
<1>9. stuck = NULL => OwnedOnce(r.obj, r.host, NumsOf, Gone)
  <2>1. SUFFICES ASSUME stuck = NULL PROVE OwnedOnce(r.obj, r.host, NumsOf, Gone)
    OBVIOUS
  <2>2. OwnedOnce(Heap.obj, Heap.host, NumsOf, Gone)
    BY <1>7, <2>1, NumsOfFacts
  <2> QED
    BY <1>2, <1>7, <2>2, ReleasedOwned
<1> HIDE DEF c, r
<1>10. Moved(t, c, r)
  <2>1. \A p \in Objects : RefsOf(r.obj, p) = RefsOf(obj, p) - Holds(d, p) + Holds(c, p)
    <3> TAKE p \in Objects
    <3>1. Holds(c, p) \in Nat /\ RefsOf(obj, p) \in Nat
      BY HoldsType DEF RefsOf, WasiInv, WasiTypes, ObjectType
    <3>2. CASE p = o
      BY <1>4, <1>8, <3>1, <3>2
    <3>3. CASE p # o
      BY <1>4, <1>8, <3>1, <3>3 DEF RefsOf
    <3> QED
      BY <3>2, <3>3
  <2>2. [NumsOf EXCEPT ![t] = Nums(c)] = NumsOf
    BY <1>4, <1>5, NumsOfFacts
  <2>3. \A p \in Objects : r.obj[p] # NULL =>
           obj[p] # NULL /\ r.obj[p].number = obj[p].number /\ r.obj[p].type = obj[p].type
    BY <1>7, <1>8 DEF Shrinks
  <2>4. \A n \in HostFds : r.host[n] = host[n] \/ r.host[n] \in Inside \cup {"sock", NULL}
    BY <1>7, <1>8 DEF Shrinks
  <2>5. CallUntainted(c, r.host)
    BY <1>4
  <2> QED
    BY <1>4, <1>6, <1>8, <1>9, <2>1, <2>2, <2>3, <2>4, <2>5 DEF Moved
<1> QED
  BY <1>3, <1>10, MovedInv

(* The host opens its lowest free descriptor for thread t.                 *)
LEMMA OpenedHeap ==
    ASSUME WasiInv, HostFree # {}, NEW node \in Inside \cup {"sock"}, NEW t \in Threads
    PROVE  LET n == Min(HostFree)
               s == [Heap EXCEPT !.host = HostOpened(n, node)]
           IN /\ n \in HostFds /\ host[n] = NULL
              /\ s \in HeapType /\ s.obj = obj /\ s.host = HostOpened(n, node)
              /\ \A m \in HostFds : s.host[m] = IF m = n THEN node ELSE host[m]
              /\ stuck = NULL => OwnedOnce(s.obj, s.host, [NumsOf EXCEPT ![t] = @ \cup {n}], Gone)
<1> DEFINE n == Min(HostFree)
           hs == HostOpened(n, node)
           s == [Heap EXCEPT !.host = hs]
           ns == [NumsOf EXCEPT ![t] = @ \cup {n}]
<1>1. n \in HostFds /\ host[n] = NULL
  BY LowestFree DEF WasiInv
<1>2. Heap \in HeapType /\ Heap.obj = obj /\ Heap.host = host
  BY HeapFacts DEF WasiInv
<1>3. host \in [HostFds -> Files \cup {NULL}] /\ node \in Files /\ node # NULL
  BY FilesAssumption DEF WasiInv, WasiTypes, Files
<1> HIDE DEF n
<1>4. hs \in [HostFds -> Files \cup {NULL}] /\ hs = [host EXCEPT ![n] = node]
      /\ \A m \in HostFds : hs[m] = IF m = n THEN node ELSE host[m]
  BY <1>1, <1>3 DEF HostOpened
<1> HIDE DEF hs
<1>5. s \in HeapType /\ s.obj = obj /\ s.host = hs
  BY <1>2, <1>4 DEF HeapType
<1>6. stuck = NULL => OwnedOnce(obj, hs, ns, Gone)
  <2>1. SUFFICES ASSUME stuck = NULL PROVE OwnedOnce(obj, hs, ns, Gone)
    OBVIOUS
  <2>2. OwnedOnce(obj, host, NumsOf, Gone) /\ NumsOf = [u \in Threads |-> NumsOf[u]]
    BY <2>1, NumsOfFacts
  <2>3. host = [m \in HostFds |-> host[m]]
    BY <1>3
  <2>4. OwnedOnce(obj, [host EXCEPT ![n] = node], ns, Gone)
    BY <1>1, <1>3, <2>2, <2>3, OpenedOwned
  <2> QED
    BY <1>4, <2>4
<1> HIDE DEF s, ns
<1>7. /\ n \in HostFds /\ host[n] = NULL
      /\ s \in HeapType /\ s.obj = obj /\ s.host = hs
      /\ \A m \in HostFds : s.host[m] = IF m = n THEN node ELSE host[m]
      /\ stuck = NULL => OwnedOnce(s.obj, s.host, ns, Gone)
  BY <1>1, <1>4, <1>5, <1>6
<1> QED
  BY <1>7 DEF n, hs, s, ns

SockCall(n) == Inserting(n, "sock", MaxBase("sock"), MaxInheriting("sock"))

(* A call that inserts a new socket.                                       *)
LEMMA SockCallFacts ==
    ASSUME NEW n \in HostFds
    PROVE  /\ SockCall(n) \in CallType /\ Steps(SockCall(n)) /\ Tidy(SockCall(n))
           /\ Nums(SockCall(n)) = {n} /\ \A o : Holds(SockCall(n), o) = 0
           /\ \A hst : CallUntainted(SockCall(n), hst)
<1>1. "sock" \in Types /\ MaxBase("sock") \in SUBSET RIGHTS_ALL
      /\ MaxInheriting("sock") \in SUBSET RIGHTS_ALL /\ MaxBase("sock") \subseteq MaxBase("sock")
  BY RightsTyped DEF Types
<1> DEFINE type == "sock"
           c == Inserting(n, type, MaxBase(type), MaxInheriting(type))
<1>2. type # "dir"
  OBVIOUS
<1> HIDE DEF type
<1>3. /\ c \in CallType /\ Steps(c) /\ Tidy(c) /\ Nums(c) = {n} /\ c.pc = "insert"
      /\ \A o : Holds(c, o) = 0
      /\ \A hst : (type = "dir" => Untainted(hst, n)) => CallUntainted(c, hst)
  BY <1>1, InsertingFacts DEF type
<1>4. c = SockCall(n)
  BY DEF SockCall, type
<1> HIDE DEF c
<1> QED
  BY <1>2, <1>3, <1>4

(* sock_open: the new socket is owned by the call until it is inserted.    *)
LEMMA SockOpenInv ==
    ASSUME WasiInv, NEW t \in Threads, sock_open(t), UNCHANGED <<fs, swaps, lost>>
    PROVE  WasiInv'
<1> DEFINE n == Min(HostFree)
           c == SockCall(n)
           r == [Heap EXCEPT !.host = HostOpened(n, "sock")]
           ns == [NumsOf EXCEPT ![t] = @ \cup {n}]
<1>1. th[t] = Idle /\ HostFree # {} /\ th' = [th EXCEPT ![t] = c]
      /\ UNCHANGED <<entries, obj, stuck>> /\ host' = HostOpened(n, "sock")
  BY DEF sock_open, Begin, WasiInv, Stepped, Steps, SockCall
<1>2. /\ n \in HostFds /\ host[n] = NULL
      /\ r \in HeapType /\ r.obj = obj /\ r.host = HostOpened(n, "sock")
      /\ \A m \in HostFds : r.host[m] = IF m = n THEN "sock" ELSE host[m]
      /\ stuck = NULL => OwnedOnce(r.obj, r.host, ns, Gone)
  BY <1>1, OpenedHeap
<1>3. /\ c \in CallType /\ Steps(c) /\ Tidy(c) /\ Nums(c) = {n} /\ \A o : Holds(c, o) = 0
      /\ \A hst : CallUntainted(c, hst)
  BY <1>2, SockCallFacts
<1>4. stuck # t
  BY <1>1, NotStuck DEF Idle
<1>5. [NumsOf EXCEPT ![t] = Nums(c)] = ns
  <2>1. NumsOf[t] = {}
    BY <1>1, NumsOfFacts, IdleFacts
  <2> QED
    BY <1>3, <2>1
<1>6. \A o \in Objects : Holds(th[t], o) = 0 /\ RefsOf(obj, o) \in Nat
  BY <1>1, IdleFacts DEF RefsOf, WasiInv, WasiTypes, ObjectType
<1> HIDE DEF n, c, r, ns
<1>7. Moved(t, c, r)
  <2>1. \A o \in Objects : RefsOf(r.obj, o) = RefsOf(obj, o) - Holds(th[t], o) + Holds(c, o)
    BY <1>2, <1>3, <1>6
  <2>2. \A o \in Objects : r.obj[o] # NULL =>
           obj[o] # NULL /\ r.obj[o].number = obj[o].number /\ r.obj[o].type = obj[o].type
    BY <1>2
  <2>3. \A m \in HostFds : r.host[m] = host[m] \/ r.host[m] \in Inside \cup {"sock", NULL}
    BY <1>2
  <2>4. stuck = NULL => OwnedOnce(r.obj, r.host, [NumsOf EXCEPT ![t] = Nums(c)], Gone)
    BY <1>2, <1>5
  <2> QED
    BY <1>2, <1>3, <1>4, <2>1, <2>2, <2>3, <2>4 DEF Moved
<1>8. obj' = r.obj /\ host' = r.host
  BY <1>1, <1>2
<1> QED
  BY <1>1, <1>7, <1>8, MovedInv

(* sock_accept: the listening socket is released, the new one inserted     *)
(* next.                                                                   *)
LEMMA SockAcceptInv ==
    ASSUME WasiInv, NEW t \in Threads, sock_accept(t), UNCHANGED <<fs, swaps, lost>>
    PROVE  WasiInv'
<1> DEFINE n == Min(HostFree)
           c == SockCall(n)
           d == th[t]
           o == d.fos[1]
           s == [Heap EXCEPT !.host = HostOpened(n, "sock")]
           r == Released(s, o)
           ns == [NumsOf EXCEPT ![t] = @ \cup {n}]
<1>1. HostFree # {} /\ th' = [th EXCEPT ![t] = c] /\ UNCHANGED <<entries, stuck>>
      /\ obj' = r.obj /\ host' = r.host /\ d.pc = "use" /\ d.op = "sock_accept"
  BY DEF sock_accept, SockCall
<1>2. /\ n \in HostFds /\ host[n] = NULL
      /\ s \in HeapType /\ s.obj = obj
      /\ \A m \in HostFds : s.host[m] = IF m = n THEN "sock" ELSE host[m]
      /\ stuck = NULL => OwnedOnce(s.obj, s.host, ns, Gone)
  BY <1>1, OpenedHeap
<1>3. /\ c \in CallType /\ Steps(c) /\ Tidy(c) /\ Nums(c) = {n} /\ \A p : Holds(c, p) = 0
      /\ \A hst : CallUntainted(c, hst)
  BY <1>2, SockCallFacts
<1>4. stuck # t
  BY <1>1, NotStuck
<1>5. d.fos \in Seq(Objects) /\ Len(d.fos) = 1 /\ d.pa = NULL /\ d.old = NULL
  BY <1>1 DEF WasiInv, WasiTypes, CallType, Stepped, Steps
<1>6. [NumsOf EXCEPT ![t] = Nums(c)] = ns
  <2>1. NumsOf[t] = {}
    BY <1>1, <1>5, NumsOfFacts DEF Nums, Own
  <2> QED
    BY <1>3, <2>1
<1>7. \A p \in Objects : Holds(d, p) = (IF o = p THEN 1 ELSE 0) /\ RefsOf(obj, p) \in Nat
  <2> TAKE p \in Objects
  <2>1. 1 \in DOMAIN d.fos /\ 2 \notin DOMAIN d.fos
    BY <1>5
  <2>2. Holds(d, p) = (IF o = p THEN 1 ELSE 0)
    BY <1>5, <2>1 DEF Holds
  <2> QED
    BY <2>2 DEF RefsOf, WasiInv, WasiTypes, ObjectType
<1>8. o \in Objects /\ obj[o] # NULL
  BY <1>5, CallObjects DEF WasiInv
<1> HIDE DEF n, c, s
<1>9. /\ r \in HeapType /\ RefsOf(r.obj, o) = RefsOf(s.obj, o) - 1
      /\ \A p \in Objects \ {o} : r.obj[p] = s.obj[p]
      /\ Shrinks(s, r)
  BY <1>2, <1>8, ReleasedFacts
<1>10. stuck = NULL => OwnedOnce(r.obj, r.host, ns, Gone)
  <2>1. SUFFICES ASSUME stuck = NULL PROVE OwnedOnce(r.obj, r.host, ns, Gone)
    OBVIOUS
  <2>2. OwnedOnce(s.obj, s.host, ns, Gone)
    BY <1>2, <2>1
  <2> HIDE DEF ns
  <2> QED
    BY <1>2, <1>8, <2>2, ReleasedOwned
<1> HIDE DEF r, ns
<1>11. Moved(t, c, r)
  <2>1. \A p \in Objects : RefsOf(r.obj, p) = RefsOf(obj, p) - Holds(d, p) + Holds(c, p)
    <3> TAKE p \in Objects
    <3>1. CASE p = o
      BY <1>2, <1>3, <1>7, <1>9, <3>1
    <3>2. CASE p # o
      BY <1>2, <1>3, <1>7, <1>9, <3>2 DEF RefsOf
    <3> QED
      BY <3>1, <3>2
  <2>2. \A p \in Objects : r.obj[p] # NULL =>
           obj[p] # NULL /\ r.obj[p].number = obj[p].number /\ r.obj[p].type = obj[p].type
    BY <1>2, <1>9 DEF Shrinks
  <2>3. \A m \in HostFds : r.host[m] = host[m] \/ r.host[m] \in Inside \cup {"sock", NULL}
    BY <1>2, <1>9 DEF Shrinks
  <2> QED
    BY <1>3, <1>4, <1>6, <1>9, <1>10, <2>1, <2>2, <2>3 DEF Moved
<1> QED
  BY <1>1, <1>11, MovedInv

(* No memory for the object or the table: the new descriptor is closed.    *)
LEMMA InsertFailsInv ==
    ASSUME WasiInv, NEW t \in Threads, InsertFails(t), UNCHANGED <<fs, swaps, lost>>
    PROVE  WasiInv'
<1> DEFINE n == th[t].number
           r == [Heap EXCEPT !.host = Closed(@, {n})]
           ns == [NumsOf EXCEPT ![t] = @ \ {n}]
<1>1. th[t].pc = "insert" /\ stuck = NULL /\ th' = [th EXCEPT ![t] = Idle]
      /\ UNCHANGED <<entries, obj, stuck>> /\ host' = [host EXCEPT ![n] = NULL]
  BY DEF InsertFails, Locked
<1>2. n \in HostFds /\ th[t].fos = << >> /\ th[t].pa = NULL /\ th[t].old = NULL
  BY <1>1 DEF WasiInv, Stepped, Steps
<1>3. Nums(th[t]) = {n} /\ \A o : Holds(th[t], o) = 0
  BY <1>1, <1>2 DEF Nums, Own, Holds
<1>4. Heap \in HeapType /\ Heap.obj = obj /\ Heap.host = host
  BY HeapFacts DEF WasiInv
<1>5. r \in HeapType /\ r.obj = obj /\ r.host = Closed(host, {n}) /\ Shrinks(Heap, r)
  BY <1>4, ClosedFacts
<1>6. host' = r.host
  BY <1>1, <1>2, <1>5 DEF Closed, WasiInv, WasiTypes
<1>7. OwnedOnce(obj, Closed(host, {n}), ns, Gone)
  <2>1. OwnedOnce(obj, host, NumsOf, Gone) /\ NumsOf = [u \in Threads |-> NumsOf[u]]
        /\ NumsOf[t] = {n}
    BY <1>1, <1>3, NumsOfFacts
  <2>2. {n} \subseteq NumsOf[t]
    BY <2>1
  <2> QED
    BY <2>1, <2>2, ClosedOwned
<1>8. [NumsOf EXCEPT ![t] = Nums(Idle)] = ns
  <2>1. NumsOf[t] = {n} /\ Nums(Idle) = {}
    BY <1>3, NumsOfFacts, IdleFacts
  <2> QED
    BY <2>1
<1>9. \A o \in Objects : RefsOf(obj, o) \in Nat
  BY DEF RefsOf, WasiInv, WasiTypes, ObjectType
<1>10. stuck # t
  BY <1>1, NullObject
<1> HIDE DEF n, r, ns
<1>11. \A o \in Objects : r.obj[o] # NULL =>
           obj[o] # NULL /\ r.obj[o].number = obj[o].number /\ r.obj[o].type = obj[o].type
  BY <1>5
<1>12. \A m \in HostFds : r.host[m] = host[m] \/ r.host[m] \in Inside \cup {"sock", NULL}
  BY <1>4, <1>5 DEF Shrinks
<1>13. \A o \in Objects : RefsOf(r.obj, o) = RefsOf(obj, o) - Holds(th[t], o) + Holds(Idle, o)
  BY <1>3, <1>5, <1>9, IdleFacts
<1>14. Moved(t, Idle, r)
  BY <1>5, <1>7, <1>8, <1>10, <1>11, <1>12, <1>13, IdleFacts DEF Moved
<1> QED
  BY <1>1, <1>5, <1>6, <1>14, MovedInv

----------------------------------------------------------------------------
(* Steps that change the table *)

At(es, fd, o) == IF fd \in FdTableSlots /\ es[fd].object = o THEN 1 ELSE 0

(* The references of the table after at most two slots have changed.       *)
LEMMA EntriesCount ==
    ASSUME WasiTypes, NEW o \in Objects, NEW a, NEW b, a # b,
           \A gd \in FdTableSlots : gd # a /\ gd # b => entries'[gd].object = entries[gd].object
    PROVE  InEntries(o)' = InEntries(o) - At(entries, a, o) - At(entries, b, o)
                             + At(entries', a, o) + At(entries', b, o)
<1> DEFINE U == {fd \in FdTableSlots : entries[fd].object = o}
           V == {fd \in FdTableSlots : entries'[fd].object = o}
<1>1. \A x : x = a \/ x = b \/ (x \in U <=> x \in V)
  OBVIOUS
<1>2. IsFiniteSet(U) /\ a # b
  BY CountTypes
<1>3. InEntries(o) = Cardinality(U) /\ InEntries(o)' = Cardinality(V)
  BY DEF InEntries
<1>4. /\ In(a, U) = At(entries, a, o) /\ In(b, U) = At(entries, b, o)
      /\ In(a, V) = At(entries', a, o) /\ In(b, V) = At(entries', b, o)
  BY DEF In, At
<1> HIDE DEF U, V
<1>5. /\ IsFiniteSet(V) /\ Cardinality(U) \in Nat /\ Cardinality(V) \in Nat
      /\ Cardinality(V) = Cardinality(U) - In(a, U) - In(b, U) + In(a, V) + In(b, V)
  <2>1. IsFiniteSet(U) /\ a # b
    BY <1>2
  <2>2. \A x : x = a \/ x = b \/ (x \in U <=> x \in V)
    BY <1>1
  <2> QED
    BY ONLY <2>1, <2>2, TwoPlaces
<1> QED
  BY <1>3, <1>4, <1>5

(* As MovedInv, for steps that may change the table, the lost leases and   *)
(* the file system too.                                                    *)
LEMMA StepInv ==
    ASSUME WasiInv, NEW t \in Threads, NEW c \in CallType, NEW r \in HeapType,
           Steps(c), stuck = NULL => Tidy(c), stuck = t => c.pc = "insert",
           th' = [th EXCEPT ![t] = c], obj' = r.obj, host' = r.host, stuck' = stuck,
           entries' \in [FdTableSlots -> EntryType], lost' \in Seq(LeaseType),
           fs' \in [DirNodes -> [Names -> Inside \cup {NULL}]],
           \A o \in Objects :
              RefsOf(r.obj, o) - InEntries(o)' - InLost(o)'
                 = RefsOf(obj, o) - InEntries(o) - InLost(o) - Holds(th[t], o) + Holds(c, o),
           \A o \in Objects : r.obj[o] # NULL =>
              \/ obj[o] # NULL /\ r.obj[o].number = obj[o].number /\ r.obj[o].type = obj[o].type
              \/ r.obj[o].type = "dir" => Untainted(r.host, r.obj[o].number),
           \A n \in HostFds : r.host[n] = host[n] \/ r.host[n] \in Inside \cup {"sock", NULL},
           CallUntainted(c, r.host),
           stuck = NULL => OwnedOnce(r.obj, r.host, [NumsOf EXCEPT ![t] = Nums(c)], Gone'),
           \A fd, gd \in FdTableSlots :
              entries'[fd].object = entries'[gd].object /\ entries'[fd].object # NULL => fd = gd,
           \A fd \in FdTableSlots :
              entries'[fd].object # NULL /\ r.obj[entries'[fd].object] # NULL =>
                 entries'[fd].base \subseteq MaxBase(r.obj[entries'[fd].object].type)
    PROVE  WasiInv'
<1>0. WasiTypes /\ Stepped /\ Counted /\ Entered /\ Below /\ Owned
  BY DEF WasiInv
<1>1. th' = [u \in Threads |-> IF u = t THEN c ELSE th[u]]
  BY <1>0 DEF WasiTypes
<1>2. WasiTypes'
  BY <1>0, <1>1 DEF WasiTypes, HeapType
<1>3. Stepped'
  BY <1>0, <1>1 DEF Stepped
<1>4. Counted'
  <2>1. \A o \in Objects :
           RefsOf(obj', o) - InEntries(o)' - InLost(o)'
              = RefsOf(obj, o) - InEntries(o) - InLost(o) - Holds(th[t], o) + Holds(c, o)
    OBVIOUS
  <2> QED
    BY <1>0, <1>2, <2>1, CountStep
<1>5. Entered'
  <2>1. ASSUME NEW fd \in FdTableSlots, entries'[fd].object # NULL
        PROVE  entries'[fd].base \subseteq MaxBase(obj'[entries'[fd].object].type)
    <3>1. obj'[entries'[fd].object] # NULL
      BY <1>2, <1>4, <2>1, EntryObjectNext
    <3> QED
      BY <2>1, <3>1
  <2> QED
    BY <2>1 DEF Entered
<1>6. Below'
  <2>1. \A o \in Objects : obj'[o] # NULL =>
              \/ obj[o] # NULL /\ obj'[o].number = obj[o].number /\ obj'[o].type = obj[o].type
              \/ obj'[o].type = "dir" => Untainted(host', obj'[o].number)
    OBVIOUS
  <2>2. \A n \in HostFds : host'[n] = host[n] \/ host'[n] \in Inside \cup {"sock", NULL}
    OBVIOUS
  <2> QED
    BY <1>0, <2>1, <2>2, BelowStep
<1>7. Owned'
  <2>1. [u \in Threads |-> Nums(th'[u])] = [NumsOf EXCEPT ![t] = Nums(c)]
    BY <1>1 DEF NumsOf
  <2>2. \A u \in Threads : Tidy(th'[u]) \/ stuck # NULL
    BY <1>0, <1>1 DEF Owned
  <2>3. stuck = NULL => OwnedOnce(obj', host', [u \in Threads |-> Nums(th'[u])], Gone')
    BY <2>1
  <2> QED
    BY <2>2, <2>3 DEF Owned, OwnedOnce, Nums, Own, Tidy
<1> QED
  BY <1>2, <1>3, <1>4, <1>5, <1>6, <1>7 DEF WasiInv

(* fd_fdstat_set_rights: only the rights of one entry change.              *)
LEMMA SetRightsInv ==
    ASSUME WasiInv, NEW t \in Threads, NEW fd \in FdTableSlots, NEW base, NEW inheriting,
           fd_fdstat_set_rights(t, fd, base, inheriting), UNCHANGED <<fs, swaps, lost>>
    PROVE  WasiInv'
<1> DEFINE c == th[t]
           e == [entries[fd] EXCEPT !.base = base, !.inheriting = inheriting]
<1>1. /\ entries[fd].object # NULL
      /\ base \subseteq entries[fd].base /\ inheriting \subseteq entries[fd].inheriting
      /\ UNCHANGED <<obj, host, th, stuck>>
  BY DEF fd_fdstat_set_rights, fd_table_get_entry
<1>2. entries' = [entries EXCEPT ![fd] = e]
  BY DEF fd_fdstat_set_rights
<1>3. entries \in [FdTableSlots -> EntryType] /\ entries[fd] \in EntryType
  BY DEF WasiInv, WasiTypes
<1>4. e \in EntryType /\ e.object = entries[fd].object /\ e.base = base
  <2>1. base \in SUBSET RIGHTS_ALL /\ inheriting \in SUBSET RIGHTS_ALL
    BY <1>1, <1>3 DEF EntryType
  <2> QED
    BY <1>3, <2>1 DEF EntryType
<1> HIDE DEF e
<1>5. entries' \in [FdTableSlots -> EntryType]
  BY <1>2, <1>3, <1>4
<1>6. \A gd \in FdTableSlots : /\ entries'[gd].object = entries[gd].object
                               /\ entries'[gd].base \subseteq entries[gd].base
  BY <1>1, <1>2, <1>3, <1>4
<1>7. WasiTypes' /\ Stepped' /\ Below' /\ Owned'
  <2>1. WasiTypes'
    BY <1>1, <1>5 DEF WasiInv, WasiTypes
  <2>2. Stepped'
    BY <1>1 DEF WasiInv, Stepped
  <2>3. Below'
    BY <1>1 DEF WasiInv, Below, Confined
  <2>4. Owned'
    BY <1>1 DEF WasiInv, Owned, Gone, OwnedOnce
  <2> QED
    BY <2>1, <2>2, <2>3, <2>4
<1>8. Counted'
  <2>1. \A o \in Objects : Count(o)' = Count(o)
    BY <1>1, <1>6 DEF Count, InEntries, InLeases, InLost, InUse, Leases, LeaseOf
  <2> QED
    BY <1>1, <2>1 DEF WasiInv, Counted
<1>9. Entered'
  BY <1>1, <1>6 DEF WasiInv, Entered
<1> QED
  BY <1>7, <1>8, <1>9 DEF WasiInv

(* fd_close: the reference of the entry becomes one of the call, which     *)
(* releases it after the lock is given up.                                 *)
LEMMA CloseInv ==
    ASSUME WasiInv, NEW t \in Threads, NEW fd \in FdTableSlots,
           fd_close(t, fd), UNCHANGED <<fs, swaps, lost>>
    PROVE  WasiInv'
<1> DEFINE o == entries[fd].object
           c == Using(<<o>>, "none")
<1>1. /\ th[t] = Idle /\ o # NULL
      /\ entries' = [entries EXCEPT ![fd] = NoEntry]
      /\ UNCHANGED <<obj, host, stuck>>
  BY DEF fd_close, Begin, fd_table_get_entry, WasiInv, Stepped, Steps, Detached
<1>2. th' = [th EXCEPT ![t] = c]
  BY DEF fd_close
<1>3. o \in Objects /\ obj[o] # NULL
  BY <1>1, EntryObject DEF WasiInv
<1>4. entries \in [FdTableSlots -> EntryType] /\ NoEntry \in EntryType /\ NoEntry.object = NULL
      /\ NULL \notin Objects
  BY NullObject DEF WasiInv, WasiTypes, NoEntry, EntryType
<1>5. /\ entries' \in [FdTableSlots -> EntryType]
      /\ \A gd \in FdTableSlots : entries'[gd] = IF gd = fd THEN NoEntry ELSE entries[gd]
  BY <1>1, <1>4
<1>6. <<o>> \in Seq(Objects) /\ Len(<<o>>) = 1 /\ <<o>>[1] = o
  BY <1>3
<1>7. /\ c \in CallType /\ Steps(c) /\ Tidy(c) /\ Nums(c) = {}
      /\ \A p : Holds(c, p) = (IF o = p THEN 1 ELSE 0)
      /\ \A hst : CallUntainted(c, hst)
  <2>1. /\ c \in CallType /\ Steps(c) /\ Tidy(c) /\ Nums(c) = {}
        /\ \A p : Holds(c, p) =
                 (IF <<o>>[1] = p THEN 1 ELSE 0)
                 + (IF Len(<<o>>) = 2 /\ <<o>>[2] = p THEN 1 ELSE 0)
        /\ \A hst : CallUntainted(c, hst)
    <3> DEFINE fos == <<o>>
               op == "none"
    <3>1. fos \in Seq(Objects) /\ Len(fos) \in 1 .. 2 /\ Len(fos) = 1
      BY <1>6
    <3>2. op \in FdCalls \cup {"none", "poll_oneoff"}
      OBVIOUS
    <3> HIDE DEF fos, op
    <3>3. /\ Using(fos, op) \in CallType /\ Steps(Using(fos, op))
          /\ Tidy(Using(fos, op)) /\ Nums(Using(fos, op)) = {}
          /\ \A p : Holds(Using(fos, op), p) =
                 (IF fos[1] = p THEN 1 ELSE 0) + (IF Len(fos) = 2 /\ fos[2] = p THEN 1 ELSE 0)
          /\ \A hst : CallUntainted(Using(fos, op), hst)
      BY <3>1, <3>2, UsingFacts
    <3> QED
      BY <3>3 DEF fos, op
  <2> HIDE DEF c
  <2> QED
    BY <1>6, <2>1
<1>8. stuck # t
  BY <1>1, NotStuck DEF Idle
<1>9. Heap \in HeapType /\ Heap.obj = obj /\ Heap.host = host
  BY HeapFacts DEF WasiInv
<1> HIDE DEF c
<1>10. \A p \in Objects :
          RefsOf(Heap.obj, p) - InEntries(p)' - InLost(p)'
             = RefsOf(obj, p) - InEntries(p) - InLost(p) - Holds(th[t], p) + Holds(c, p)
  <2> TAKE p \in Objects
  <2>1. InEntries(p)' = InEntries(p) - At(entries, fd, p) - At(entries, -1, p)
                          + At(entries', fd, p) + At(entries', -1, p)
    <3>1. fd # -1
      BY WasiFdAssumption DEF FdTableSlots
    <3>2. \A gd \in FdTableSlots : gd # fd /\ gd # -1 => entries'[gd].object = entries[gd].object
      BY <1>5
    <3> QED
      BY <3>1, <3>2, EntriesCount DEF WasiInv
  <2>2. At(entries, -1, p) = 0 /\ At(entries', -1, p) = 0 /\ At(entries', fd, p) = 0
        /\ At(entries, fd, p) = (IF o = p THEN 1 ELSE 0)
    <3>1. -1 \notin FdTableSlots
      BY WasiFdAssumption DEF FdTableSlots
    <3> QED
      BY <1>4, <1>5, <3>1 DEF At
  <2>3. InLost(p)' = InLost(p) /\ InEntries(p) \in Nat /\ InLost(p) \in Nat
    BY CountTypes DEF InLost, WasiInv
  <2>4. Holds(th[t], p) = 0 /\ RefsOf(obj, p) \in Nat
    BY <1>1, IdleFacts DEF RefsOf, WasiInv, WasiTypes, ObjectType
  <2> QED
    BY <1>7, <1>9, <2>1, <2>2, <2>3, <2>4
<1>11. stuck = NULL => OwnedOnce(Heap.obj, Heap.host, [NumsOf EXCEPT ![t] = Nums(c)], Gone')
  <2>1. [NumsOf EXCEPT ![t] = Nums(c)] = NumsOf
    BY <1>1, <1>7, NumsOfFacts, IdleFacts
  <2>2. Gone' = Gone
    BY DEF Gone
  <2> QED
    BY <1>9, <2>1, <2>2, NumsOfFacts
<1>12. lost' \in Seq(LeaseType) /\ fs' \in [DirNodes -> [Names -> Inside \cup {NULL}]]
  BY DEF WasiInv, WasiTypes
<1>13. /\ \A gd, hd \in FdTableSlots :
             entries'[gd].object = entries'[hd].object /\ entries'[gd].object # NULL => gd = hd
       /\ \A gd \in FdTableSlots :
             entries'[gd].object # NULL /\ Heap.obj[entries'[gd].object] # NULL =>
                entries'[gd].base \subseteq MaxBase(Heap.obj[entries'[gd].object].type)
  BY <1>4, <1>5, <1>9 DEF WasiInv, Entered
<1> QED
  BY <1>1, <1>2, <1>5, <1>7, <1>8, <1>9, <1>10, <1>11, <1>12, <1>13, StepInv

(* fd_renumber: the object of "from" moves to "to" under one lock, by a    *)
(* reference acquired and one released; the object "to" had is released.   *)
LEMMA RenumberInv ==
    ASSUME WasiInv, NEW t \in Threads, NEW from \in FdTableSlots, NEW to \in FdTableSlots,
           fd_renumber(t, from, to), UNCHANGED <<fs, swaps, lost>>
    PROVE  WasiInv'
<1> DEFINE e == entries[from]
           o == e.object
           p == entries[to].object
           objs == Acquired(obj, o)
           s0 == [Heap EXCEPT !.obj = objs]
           r == Released(s0, p)
           s == Released(r, o)
           x == [object |-> o, base |-> e.base, inheriting |-> e.inheriting]
<1>1. /\ th[t] = Idle /\ o # NULL /\ p # NULL /\ from # to /\ stuck = NULL
      /\ entries' = [[entries EXCEPT ![to] = x] EXCEPT ![from] = NoEntry]
      /\ obj' = s.obj /\ host' = s.host /\ UNCHANGED <<th, stuck>>
  BY DEF fd_renumber, Begin, Locked, fd_table_get_entry, WasiInv, Stepped, Steps,
         Detached, Attached
<1>2. o \in Objects /\ obj[o] # NULL /\ p \in Objects /\ obj[p] # NULL
  BY <1>1, EntryObject DEF WasiInv
<1>3. o # p
  BY <1>1 DEF WasiInv, Entered
<1>4. entries \in [FdTableSlots -> EntryType] /\ NoEntry \in EntryType /\ NoEntry.object = NULL
      /\ NULL \notin Objects /\ e \in EntryType
  BY NullObject DEF WasiInv, WasiTypes, NoEntry, EntryType
<1>5. x \in EntryType /\ x.object = o /\ x.base = e.base
  BY <1>4 DEF EntryType
<1> HIDE DEF x
<1>6. /\ entries' \in [FdTableSlots -> EntryType]
      /\ \A gd \in FdTableSlots : entries'[gd] = IF gd = from THEN NoEntry
                                                ELSE IF gd = to THEN x ELSE entries[gd]
  BY <1>1, <1>4, <1>5
<1>7. /\ objs \in [Objects -> ObjectType \cup {NULL}]
      /\ RefsOf(objs, o) = RefsOf(obj, o) + 1
      /\ \A q \in Objects \ {o} : objs[q] = obj[q]
      /\ \A q \in Objects : /\ objs[q] # NULL <=> obj[q] # NULL
                            /\ objs[q].number = obj[q].number
                            /\ objs[q].type = obj[q].type
  BY <1>2, AcquiredFacts DEF WasiInv, WasiTypes
<1>8. Heap \in HeapType /\ Heap.obj = obj /\ Heap.host = host
  BY HeapFacts DEF WasiInv
<1> HIDE DEF objs
<1>9. s0 \in HeapType /\ s0.obj = objs /\ s0.host = host
  BY <1>7, <1>8 DEF HeapType
<1> HIDE DEF s0
<1>10. s0.obj[p] # NULL
  BY <1>2, <1>7, <1>9
<1>11. /\ r \in HeapType /\ RefsOf(r.obj, p) = RefsOf(s0.obj, p) - 1
       /\ \A q \in Objects \ {p} : r.obj[q] = s0.obj[q]
       /\ Shrinks(s0, r)
  BY <1>2, <1>9, <1>10, ReleasedFacts
<1>12. OwnedOnce(s0.obj, s0.host, NumsOf, Gone)
  BY <1>1, <1>7, <1>9, NumsOfFacts DEF OwnedOnce
<1>13. OwnedOnce(r.obj, r.host, NumsOf, Gone)
  BY <1>2, <1>9, <1>10, <1>12, ReleasedOwned
<1> HIDE DEF r
<1>14. r.obj[o] # NULL
  BY <1>2, <1>3, <1>7, <1>9, <1>11
<1>15. /\ s \in HeapType /\ RefsOf(s.obj, o) = RefsOf(r.obj, o) - 1
       /\ \A q \in Objects \ {o} : s.obj[q] = r.obj[q]
       /\ Shrinks(r, s)
  BY <1>2, <1>11, <1>14, ReleasedFacts
<1>16. OwnedOnce(s.obj, s.host, NumsOf, Gone)
  BY <1>2, <1>11, <1>13, <1>14, ReleasedOwned
<1>17. Shrinks(s0, s)
  BY <1>11, <1>15, ShrinksOnce
<1> HIDE DEF s
<1>18. \A q \in Objects : r.obj[q] = NULL \/ r.obj[q] # NULL
  OBVIOUS
<1>19. \A q \in Objects :
          RefsOf(s.obj, q) - InEntries(q)' - InLost(q)'
             = RefsOf(obj, q) - InEntries(q) - InLost(q) - Holds(th[t], q) + Holds(Idle, q)
  <2> TAKE q \in Objects
  <2>1. InEntries(q)' = InEntries(q) - At(entries, from, q) - At(entries, to, q)
                          + At(entries', from, q) + At(entries', to, q)
    <3>1. \A gd \in FdTableSlots : gd # from /\ gd # to => entries'[gd].object = entries[gd].object
      BY <1>6
    <3> QED
      BY <1>1, <3>1, EntriesCount DEF WasiInv
  <2>2. /\ At(entries', from, q) = 0 /\ At(entries', to, q) = (IF o = q THEN 1 ELSE 0)
        /\ At(entries, from, q) = (IF o = q THEN 1 ELSE 0)
        /\ At(entries, to, q) = (IF p = q THEN 1 ELSE 0)
    <3>1. entries'[from].object = NULL /\ entries'[to].object = o
      BY <1>1, <1>4, <1>5, <1>6
    <3> QED
      BY <1>4, <3>1 DEF At
  <2>3. InLost(q)' = InLost(q) /\ InEntries(q) \in Nat /\ InLost(q) \in Nat
    BY CountTypes DEF InLost, WasiInv
  <2>4. Holds(th[t], q) = 0 /\ Holds(Idle, q) = 0 /\ RefsOf(obj, q) \in Nat
    BY <1>1, IdleFacts DEF RefsOf, WasiInv, WasiTypes, ObjectType
  <2>5. RefsOf(s.obj, q) = RefsOf(obj, q) - (IF p = q THEN 1 ELSE 0)
    <3>1. CASE q = o
      <4>1. RefsOf(r.obj, o) = RefsOf(obj, o) + 1
        BY <1>2, <1>3, <1>7, <1>9, <1>11 DEF RefsOf
      <4> QED
        BY <1>3, <1>15, <2>4, <3>1, <4>1
    <3>2. CASE q = p
      <4>1. RefsOf(r.obj, p) = RefsOf(obj, p) - 1
        BY <1>2, <1>3, <1>7, <1>9, <1>11 DEF RefsOf
      <4>2. RefsOf(s.obj, p) = RefsOf(r.obj, p)
        BY <1>2, <1>3, <1>15 DEF RefsOf
      <4> QED
        BY <3>2, <4>1, <4>2
    <3>3. CASE q # o /\ q # p
      <4>1. s.obj[q] = obj[q]
        BY <1>7, <1>9, <1>11, <1>15, <3>3
      <4> QED
        BY <2>4, <3>3, <4>1 DEF RefsOf
    <3> QED
      BY <3>1, <3>2, <3>3
  <2> QED
    BY <2>1, <2>2, <2>3, <2>4, <2>5
<1>20. stuck = NULL => OwnedOnce(s.obj, s.host, [NumsOf EXCEPT ![t] = Nums(Idle)], Gone')
  <2>1. [NumsOf EXCEPT ![t] = Nums(Idle)] = NumsOf
    BY <1>1, NumsOfFacts
  <2>2. Gone' = Gone
    BY DEF Gone
  <2> QED
    BY <1>16, <2>1, <2>2
<1>21. lost' \in Seq(LeaseType) /\ fs' \in [DirNodes -> [Names -> Inside \cup {NULL}]]
  BY DEF WasiInv, WasiTypes
<1>22. \A q \in Objects : s.obj[q] # NULL =>
          obj[q] # NULL /\ s.obj[q].number = obj[q].number /\ s.obj[q].type = obj[q].type
  BY <1>7, <1>9, <1>17 DEF Shrinks
<1>23. \A n \in HostFds : s.host[n] = host[n] \/ s.host[n] \in Inside \cup {"sock", NULL}
  BY <1>9, <1>17 DEF Shrinks
<1>24. /\ \A gd, hd \in FdTableSlots :
             entries'[gd].object = entries'[hd].object /\ entries'[gd].object # NULL => gd = hd
       /\ \A gd \in FdTableSlots :
             entries'[gd].object # NULL /\ s.obj[entries'[gd].object] # NULL =>
                entries'[gd].base \subseteq MaxBase(s.obj[entries'[gd].object].type)
  <2>1. \A gd, hd \in FdTableSlots :
             entries'[gd].object = entries'[hd].object /\ entries'[gd].object # NULL => gd = hd
    BY <1>1, <1>4, <1>5, <1>6 DEF WasiInv, Entered
  <2>2. ASSUME NEW gd \in FdTableSlots, entries'[gd].object # NULL,
               s.obj[entries'[gd].object] # NULL
        PROVE  entries'[gd].base \subseteq MaxBase(s.obj[entries'[gd].object].type)
    <3>1. entries'[gd].object \in Objects
      BY <1>6, <2>2 DEF EntryType
    <3>2. s.obj[entries'[gd].object].type = obj[entries'[gd].object].type
      BY <1>22, <2>2, <3>1
    <3>3. \E hd \in FdTableSlots : entries'[gd].object = entries[hd].object
                                   /\ entries'[gd].base = entries[hd].base
      BY <1>4, <1>5, <1>6, <2>2
    <3> QED
      BY <2>2, <3>2, <3>3 DEF WasiInv, Entered
  <2> QED
    BY <2>1, <2>2
<1>25. Idle \in CallType /\ Steps(Idle) /\ Tidy(Idle) /\ CallUntainted(Idle, s.host)
  BY IdleFacts
<1>26. th' = [th EXCEPT ![t] = Idle]
  BY <1>1 DEF WasiInv, WasiTypes
<1>27. stuck # t
  BY <1>1, NullObject
<1>28. \A q \in Objects : s.obj[q] # NULL =>
          \/ obj[q] # NULL /\ s.obj[q].number = obj[q].number /\ s.obj[q].type = obj[q].type
          \/ s.obj[q].type = "dir" => Untainted(s.host, s.obj[q].number)
  BY <1>22
<1>29. obj' = s.obj /\ host' = s.host /\ stuck' = stuck /\ s \in HeapType
       /\ entries' \in [FdTableSlots -> EntryType] /\ (stuck = t => Idle.pc = "insert")
  BY <1>1, <1>6, <1>15, <1>27
<1> QED
  BY <1>19, <1>20, <1>21, <1>23, <1>24, <1>25, <1>26, <1>28, <1>29, StepInv

(* fd_renumber of a descriptor onto itself: the entry is gone, the count of *)
(* its object one too high when the process crashes.                       *)
LEMMA RenumberSameInv ==
    ASSUME WasiInv, NEW t \in Threads, NEW fd \in FdTableSlots,
           fd_renumber_same(t, fd), UNCHANGED <<fs, swaps, lost>>
    PROVE  WasiInv'
<1>1. /\ entries' = [entries EXCEPT ![fd] = NoEntry] /\ stuck' = CRASHED
      /\ UNCHANGED <<obj, host, th, fs, lost>>
  BY DEF fd_renumber_same, Detached
<1>2. CRASHED # NULL /\ CRASHED \notin Threads
  BY CrashedAssumption
<1>3. entries \in [FdTableSlots -> EntryType] /\ NoEntry \in EntryType /\ NoEntry.object = NULL
      /\ NULL \notin Objects
  BY NullObject DEF WasiInv, WasiTypes, NoEntry, EntryType
<1>4. /\ entries' \in [FdTableSlots -> EntryType]
      /\ \A gd \in FdTableSlots : entries'[gd] = IF gd = fd THEN NoEntry ELSE entries[gd]
  BY <1>1, <1>3
<1>5. WasiTypes'
  BY <1>1, <1>4 DEF WasiInv, WasiTypes
<1>6. Stepped'
  BY <1>1 DEF WasiInv, Stepped
<1>7. Counted'
  <2>1. ASSUME NEW o \in Objects PROVE Count(o)' =< RefsOf(obj, o)'
    <3>1. InEntries(o)' =< InEntries(o) /\ InEntries(o)' \in Nat
      <4> DEFINE U == {gd \in FdTableSlots : entries[gd].object = o}
                 V == {gd \in FdTableSlots : entries'[gd].object = o}
      <4>1. IsFiniteSet(U)
        BY CountTypes DEF WasiInv
      <4>2. V \in SUBSET U
        BY <1>3, <1>4
      <4>3. InEntries(o) = Cardinality(U) /\ InEntries(o)' = Cardinality(V)
        BY DEF InEntries
      <4> HIDE DEF U, V
      <4>4. Cardinality(V) =< Cardinality(U) /\ IsFiniteSet(V)
        BY <4>1, <4>2, FS_Subset
      <4> QED
        BY <4>3, <4>4, FS_CardinalityType
    <3>2. InLeases(o)' = InLeases(o) /\ InLost(o)' = InLost(o) /\ InUse(o)' = InUse(o)
      BY <1>1 DEF InLeases, InLost, InUse, Leases, LeaseOf
    <3>3. /\ InEntries(o) \in Nat /\ InLeases(o) \in Nat /\ InLost(o) \in Nat /\ InUse(o) \in Nat
          /\ RefsOf(obj, o) \in Nat /\ RefsOf(obj, o)' = RefsOf(obj, o)
      BY <1>1, CountTypes DEF RefsOf, WasiInv, WasiTypes, ObjectType
    <3>4. Count(o) =< RefsOf(obj, o)
      BY DEF WasiInv, Counted
    <3>5. /\ Count(o) = InEntries(o) + InLeases(o) + InLost(o) + InUse(o)
          /\ Count(o)' = InEntries(o)' + InLeases(o)' + InLost(o)' + InUse(o)'
      BY DEF Count
    <3> QED
      BY <3>1, <3>2, <3>3, <3>4, <3>5
  <2> QED
    BY <1>1, <1>2, <2>1 DEF Counted
<1>8. Entered'
  BY <1>1, <1>3, <1>4 DEF WasiInv, Entered
<1>9. Below'
  BY <1>1 DEF WasiInv, Below, Confined
<1>10. Owned'
  BY <1>1, <1>2 DEF Owned
<1> QED
  BY <1>5, <1>6, <1>7, <1>8, <1>9, <1>10 DEF WasiInv

(* A descriptor of the host passes from the call to the new object.        *)
LEMMA InsertedOwned ==
    ASSUME NEW objs \in [Objects -> ObjectType \cup {NULL}], NEW hst, NEW nums, NEW gone,
           OwnedOnce(objs, hst, nums, gone),
           NEW t \in Threads, nums = [u \in Threads |-> nums[u]],
           NEW n \in HostFds, nums[t] = {n}, NEW o \in Objects, objs[o] = NULL,
           NEW x \in ObjectType, x.number = n
    PROVE  OwnedOnce([objs EXCEPT ![o] = x], hst, [nums EXCEPT ![t] = {}], gone)
<1> DEFINE ns == [nums EXCEPT ![t] = {}]
           os == [objs EXCEPT ![o] = x]
<1>1. \A u \in Threads : ns[u] = IF u = t THEN {} ELSE nums[u]
  OBVIOUS
<1>2. \A p \in Objects : os[p] = IF p = o THEN x ELSE objs[p]
  OBVIOUS
<1>3. x # NULL
  BY NullObject
<1> HIDE DEF ns, os
<1>4. OwnedOnce(os, hst, ns, gone)
  <2> SUFFICES ASSUME NEW m \in HostFds
               PROVE  LET holds(p) == os[p] # NULL /\ os[p].number = m
                      IN /\ hst[m] = NULL => /\ \A p \in Objects : ~holds(p)
                                             /\ \A u \in Threads : m \notin ns[u]
                                             /\ m \notin gone
                         /\ \A p, q \in Objects : holds(p) /\ holds(q) => p = q
                         /\ \A p \in Objects : holds(p) =>
                               m \notin gone /\ \A u \in Threads : m \notin ns[u]
                         /\ \A u, v \in Threads : m \in ns[u] /\ m \in ns[v] => u = v
                         /\ \A u \in Threads : m \in ns[u] => m \notin gone
                         /\ hst[m] # NULL /\ m \notin StdHost =>
                               m \in gone \/ (\E p \in Objects : holds(p))
                               \/ (\E u \in Threads : m \in ns[u])
    BY DEF OwnedOnce
  <2>1. CASE m = n
    BY <2>1, <1>1, <1>2, <1>3 DEF OwnedOnce
  <2>2. CASE m # n
    <3>1. /\ \A u \in Threads : m \in ns[u] <=> m \in nums[u]
          /\ \A p \in Objects : os[p] # NULL /\ os[p].number = m
                                   <=> objs[p] # NULL /\ objs[p].number = m
      BY <2>2, <1>1, <1>2
    <3> QED
      BY <3>1 DEF OwnedOnce
  <2> QED
    BY <2>1, <2>2
<1> QED
  BY <1>4 DEF ns, os

(* fd_table_insert_fd: a new object in a free slot, or a search that never *)
(* ends in a full table.                                                   *)
LEMMA InsertInv ==
    ASSUME WasiInv, NEW t \in Threads, fd_table_insert_fd(t), UNCHANGED <<fs, swaps, lost>>
    PROVE  WasiInv'
<1> DEFINE o == CHOOSE y \in Objects : obj[y] = NULL
           d == th[t]
           x == [refs |-> 1, number |-> d.number, type |-> d.type]
           os == [obj EXCEPT ![o] = x]
           r == [obj |-> os, host |-> host]
           sz == fd_table_grow(size, used, 0, 1)
           free == {fd \in 0 .. sz - 1 : entries[fd].object = NULL}
<1>1. /\ d.pc = "insert" /\ stuck = NULL /\ sz \in 0 .. MaxSize
      /\ obj' = os /\ UNCHANGED host
      /\ \/ stuck' = t /\ UNCHANGED <<entries, th>>
         \/ \E fd \in free :
               /\ entries' = Attached(entries, fd, o, d.base, d.inheriting)
               /\ stuck' = stuck /\ th' = [th EXCEPT ![t] = Idle]
  BY DEF fd_table_insert_fd, Locked
<1>2. o \in Objects /\ obj[o] = NULL
  BY DEF fd_table_insert_fd
<1>3. /\ d.fos = << >> /\ d.pa = NULL /\ d.old = NULL
      /\ d.number \in HostFds /\ d.type \in Types /\ d.base \subseteq MaxBase(d.type)
      /\ d \in CallType /\ Steps(d)
  BY <1>1 DEF WasiInv, Stepped, Steps, WasiTypes
<1>4. \A fd \in free : fd \in FdTableSlots /\ entries[fd].object = NULL
  BY <1>1, WasiFdAssumption DEF FdTableSlots
<1>5. x \in ObjectType /\ x.number = d.number /\ x.type = d.type /\ x.refs = 1
  BY <1>3 DEF ObjectType
<1>6. obj \in [Objects -> ObjectType \cup {NULL}] /\ NULL \notin ObjectType
  BY NullObject DEF WasiInv, WasiTypes
<1> HIDE DEF o, sz, free, x
<1>7. /\ os \in [Objects -> ObjectType \cup {NULL}]
      /\ \A p \in Objects : os[p] = IF p = o THEN x ELSE obj[p]
  BY <1>2, <1>5, <1>6
<1>8. \A p \in Objects : /\ RefsOf(obj, p) \in Nat
                         /\ RefsOf(os, p) = RefsOf(obj, p) + (IF p = o THEN 1 ELSE 0)
  <2> TAKE p \in Objects
  <2>1. RefsOf(obj, p) \in Nat
    BY <1>6 DEF RefsOf, ObjectType
  <2>2. CASE p = o
    <3>1. os[p] = x /\ x # NULL
      BY <1>5, <1>6, <1>7, <2>2
    <3> QED
      BY <1>2, <1>5, <2>2, <3>1 DEF RefsOf
  <2>3. CASE p # o
    BY <1>7, <2>1, <2>3 DEF RefsOf
  <2> QED
    BY <2>1, <2>2, <2>3
<1>9. Nums(d) = {d.number} /\ \A p : Holds(d, p) = 0
  BY <1>1, <1>3 DEF Nums, Own, Holds
<1>10. CallUntainted(d, host)
  BY DEF WasiInv, Below
<1> HIDE DEF os
<1>11. r \in HeapType /\ r.obj = os /\ r.host = host
  BY <1>7 DEF HeapType, WasiInv, WasiTypes
<1>12. \A p \in Objects : os[p] # NULL =>
          \/ obj[p] # NULL /\ os[p].number = obj[p].number /\ os[p].type = obj[p].type
          \/ os[p].type = "dir" => Untainted(host, os[p].number)
  BY <1>1, <1>5, <1>7, <1>10 DEF CallUntainted
<1>13. CASE stuck' = t /\ UNCHANGED <<entries, th>>
  <2>1. WasiTypes' /\ Stepped'
    BY <1>1, <1>7, <1>13 DEF WasiInv, WasiTypes, Stepped
  <2>2. Counted'
    <3>1. \A p \in Objects : Count(p)' = Count(p)
      BY <1>13 DEF Count, InEntries, InLeases, InLost, InUse, Leases, LeaseOf
    <3>2. \A p \in Objects : Count(p) \in Nat
      <4> TAKE p \in Objects
      <4>1. InEntries(p) \in Nat /\ InLost(p) \in Nat /\ InLeases(p) \in Nat /\ InUse(p) \in Nat
        BY CountTypes DEF WasiInv
      <4> QED
        BY <4>1 DEF Count
    <3>3. \A p \in Objects : Count(p) =< RefsOf(obj, p)
      BY DEF WasiInv, Counted
    <3>4. \A p \in Objects : Count(p)' =< RefsOf(obj', p)
      BY <1>1, <1>8, <3>1, <3>2, <3>3
    <3>5. t # NULL
      BY NullObject
    <3>6. \A p \in Objects : RefsOf(obj', p) = RefsOf(obj, p)'
      BY DEF RefsOf
    <3> QED
      BY <1>1, <1>13, <3>4, <3>5, <3>6 DEF Counted
  <2>3. Entered'
    <3>1. ASSUME NEW fd \in FdTableSlots, entries[fd].object # NULL
          PROVE  entries[fd].base \subseteq MaxBase(os[entries[fd].object].type)
      <4>1. entries[fd].object \in Objects /\ obj[entries[fd].object] # NULL
        BY <3>1, EntryObject DEF WasiInv
      <4>2. os[entries[fd].object] = obj[entries[fd].object]
        BY <1>2, <1>7, <4>1
      <4> QED
        BY <3>1, <4>2 DEF WasiInv, Entered
    <3> QED
      BY <1>1, <1>13, <3>1 DEF WasiInv, Entered
  <2>4. Below'
    <3>1. th' = [th EXCEPT ![t] = d]
      BY <1>13 DEF WasiInv, WasiTypes
    <3>2. \A p \in Objects : obj'[p] # NULL =>
            \/ obj[p] # NULL /\ obj'[p].number = obj[p].number /\ obj'[p].type = obj[p].type
            \/ obj'[p].type = "dir" => Untainted(host', obj'[p].number)
      BY <1>1, <1>12
    <3>3. \A n \in HostFds : host'[n] = host[n] \/ host'[n] \in Inside \cup {"sock", NULL}
      BY <1>1
    <3>4. CallUntainted(d, host')
      BY <1>1, <1>10
    <3>5. WasiTypes /\ Stepped /\ Below
      BY DEF WasiInv
    <3> QED
      BY <1>3, <3>1, <3>2, <3>3, <3>4, <3>5, BelowStep
  <2>5. Owned'
    <3>1. t # NULL
      BY NullObject
    <3> QED
      BY <1>13, <3>1 DEF Owned
  <2> QED
    BY <2>1, <2>2, <2>3, <2>4, <2>5 DEF WasiInv
<1>14. CASE \E fd \in free :
               /\ entries' = Attached(entries, fd, o, d.base, d.inheriting)
               /\ stuck' = stuck /\ th' = [th EXCEPT ![t] = Idle]
  <2>1. PICK fd \in free : /\ entries' = Attached(entries, fd, o, d.base, d.inheriting)
                           /\ stuck' = stuck /\ th' = [th EXCEPT ![t] = Idle]
    BY <1>14
  <2> DEFINE e == [object |-> o, base |-> d.base, inheriting |-> d.inheriting]
  <2>2. fd \in FdTableSlots /\ entries[fd].object = NULL
    BY <1>4
  <2>3. e \in EntryType /\ e.object = o /\ e.base = d.base
    BY <1>2, <1>3 DEF EntryType, CallType
  <2>4. entries' = [entries EXCEPT ![fd] = e] /\ entries \in [FdTableSlots -> EntryType]
    BY <2>1 DEF Attached, WasiInv, WasiTypes
  <2> HIDE DEF e
  <2>5. /\ entries' \in [FdTableSlots -> EntryType]
        /\ \A gd \in FdTableSlots : entries'[gd] = IF gd = fd THEN e ELSE entries[gd]
    BY <2>2, <2>3, <2>4
  <2>6. \A gd \in FdTableSlots : entries[gd].object # o /\ o # NULL
    <3> TAKE gd \in FdTableSlots
    <3>1. o # NULL
      BY <1>2, NullObject
    <3>2. entries[gd].object # NULL => obj[entries[gd].object] # NULL
      BY EntryObject DEF WasiInv
    <3> QED
      BY <1>2, <3>1, <3>2
  <2>7. \A p \in Objects :
          RefsOf(r.obj, p) - InEntries(p)' - InLost(p)'
             = RefsOf(obj, p) - InEntries(p) - InLost(p) - Holds(th[t], p) + Holds(Idle, p)
    <3> TAKE p \in Objects
    <3>0. -1 \notin FdTableSlots
      BY WasiFdAssumption DEF FdTableSlots
    <3>1. InEntries(p)' = InEntries(p) - At(entries, fd, p) - At(entries, -1, p)
                            + At(entries', fd, p) + At(entries', -1, p)
      <4>1. fd # -1
        BY <2>2, <3>0
      <4>2. \A gd \in FdTableSlots : gd # fd /\ gd # -1 => entries'[gd].object = entries[gd].object
        BY <2>5
      <4> QED
        BY <4>1, <4>2, EntriesCount DEF WasiInv
    <3>2. At(entries, -1, p) = 0 /\ At(entries', -1, p) = 0 /\ At(entries, fd, p) = 0
          /\ At(entries', fd, p) = (IF p = o THEN 1 ELSE 0)
      <4>1. entries[fd].object # p
        BY <2>2, NullObject
      <4>2. entries'[fd].object = o
        BY <2>2, <2>3, <2>5
      <4> QED
        BY <2>2, <3>0, <4>1, <4>2 DEF At
    <3>3. InLost(p)' = InLost(p) /\ InEntries(p) \in Nat /\ InLost(p) \in Nat
      BY CountTypes DEF InLost, WasiInv
    <3>4. Holds(th[t], p) = 0 /\ Holds(Idle, p) = 0
      BY <1>9, IdleFacts
    <3> QED
      BY <1>8, <1>11, <3>1, <3>2, <3>3, <3>4
  <2>8. stuck = NULL => OwnedOnce(r.obj, r.host, [NumsOf EXCEPT ![t] = Nums(Idle)], Gone')
    <3>1. OwnedOnce(obj, host, NumsOf, Gone) /\ NumsOf = [u \in Threads |-> NumsOf[u]]
          /\ NumsOf[t] = {d.number}
      BY <1>1, <1>9, NumsOfFacts
    <3>2. OwnedOnce([obj EXCEPT ![o] = x], host, [NumsOf EXCEPT ![t] = {}], Gone)
      BY <1>2, <1>3, <1>5, <1>6, <3>1, InsertedOwned
    <3>3. Gone' = Gone /\ Nums(Idle) = {}
      BY IdleFacts DEF Gone
    <3> QED
      BY <1>11, <3>2, <3>3 DEF os
  <2>9. /\ \A gd, hd \in FdTableSlots :
             entries'[gd].object = entries'[hd].object /\ entries'[gd].object # NULL => gd = hd
        /\ \A gd \in FdTableSlots :
             entries'[gd].object # NULL /\ r.obj[entries'[gd].object] # NULL =>
                entries'[gd].base \subseteq MaxBase(r.obj[entries'[gd].object].type)
    <3>1. \A gd, hd \in FdTableSlots :
             entries'[gd].object = entries'[hd].object /\ entries'[gd].object # NULL => gd = hd
      BY <2>3, <2>5, <2>6 DEF WasiInv, Entered
    <3>2. ASSUME NEW gd \in FdTableSlots, entries'[gd].object # NULL
          PROVE  entries'[gd].base \subseteq MaxBase(os[entries'[gd].object].type)
      <4>1. CASE gd = fd
        BY <1>2, <1>3, <1>5, <1>7, <2>3, <2>5, <4>1
      <4>2. CASE gd # fd
        <5>1. entries'[gd] = entries[gd] /\ entries[gd].object # NULL
          BY <2>5, <3>2, <4>2
        <5>2. os[entries[gd].object] = obj[entries[gd].object]
          BY <1>7, <2>6, <5>1, EntryObject DEF WasiInv
        <5> QED
          BY <5>1, <5>2 DEF WasiInv, Entered
      <4> QED
        BY <4>1, <4>2
    <3> QED
      BY <1>11, <3>1, <3>2
  <2>10. lost' \in Seq(LeaseType) /\ fs' \in [DirNodes -> [Names -> Inside \cup {NULL}]]
    BY DEF WasiInv, WasiTypes
  <2>11. \A p \in Objects : r.obj[p] # NULL =>
          \/ obj[p] # NULL /\ r.obj[p].number = obj[p].number /\ r.obj[p].type = obj[p].type
          \/ r.obj[p].type = "dir" => Untainted(r.host, r.obj[p].number)
    BY <1>11, <1>12
  <2>12. obj' = r.obj /\ host' = r.host /\ stuck' = stuck /\ th' = [th EXCEPT ![t] = Idle]
         /\ (stuck = t => Idle.pc = "insert")
         /\ \A n \in HostFds : r.host[n] = host[n] \/ r.host[n] \in Inside \cup {"sock", NULL}
    BY <1>1, <1>11, <2>1, NullObject
  <2>13. Idle \in CallType /\ Steps(Idle) /\ Tidy(Idle) /\ CallUntainted(Idle, r.host)
    BY IdleFacts
  <2> HIDE DEF r
  <2> QED
    BY <1>11, <2>5, <2>7, <2>8, <2>9, <2>10, <2>11, <2>12, <2>13, StepInv
<1> QED
  BY <1>1, <1>13, <1>14

(* fd_table_destroy: every entry gives its reference back.                 *)
LEMMA DestroyInv ==
    ASSUME WasiInv, fd_table_destroy, UNCHANGED <<fs, swaps, lost>>
    PROVE  WasiInv'
<1> DEFINE last == {o \in Objects : InEntries(o) > 0 /\ obj[o].refs =< InEntries(o)}
           os == [o \in Objects |->
                IF o \in last THEN NULL
                ELSE IF InEntries(o) = 0 THEN obj[o]
                ELSE [obj[o] EXCEPT !.refs = @ - InEntries(o)]]
           N == {obj[o].number : o \in last} \ StdHost
           hs == Closed(host, N)
           r == [obj |-> os, host |-> hs]
<1>1. /\ obj' = os /\ host' = hs /\ entries' = [fd \in FdTableSlots |-> NoEntry]
      /\ UNCHANGED <<th, stuck>>
      /\ \A u \in Threads : th[u].pc = "idle"
  BY DEF fd_table_destroy, InEntries
<1>2. \A u \in Threads : th[u] = Idle
  BY <1>1 DEF WasiInv, Stepped, Steps
<1>3. PICK t \in Threads : TRUE
  BY WasiFdAssumption
<1>4. stuck = NULL
  BY DEF fd_table_destroy, Locked
<1>5. \A o \in Objects : /\ obj[o] \in ObjectType \cup {NULL} /\ InEntries(o) \in Nat
                         /\ InEntries(o) =< RefsOf(obj, o) /\ RefsOf(obj, o) \in Nat
  <2> TAKE o \in Objects
  <2>1. /\ InEntries(o) \in Nat /\ InLeases(o) \in Nat /\ InLost(o) \in Nat /\ InUse(o) \in Nat
        /\ RefsOf(obj, o) \in Nat
    BY CountTypes DEF RefsOf, WasiInv, WasiTypes, ObjectType
  <2>2. Count(o) =< RefsOf(obj, o)
    BY DEF WasiInv, Counted
  <2> QED
    BY <2>1, <2>2 DEF Count, WasiInv, WasiTypes
<1>6. \A o \in last : obj[o] # NULL
  <2> TAKE o \in last
  <2>1. InEntries(o) > 0 /\ o \in Objects
    OBVIOUS
  <2> QED
    BY <1>5, <2>1 DEF RefsOf
<1>7. ASSUME NEW o \in Objects
      PROVE  /\ os[o] \in ObjectType \cup {NULL}
             /\ RefsOf(os, o) = RefsOf(obj, o) - InEntries(o)
             /\ os[o] # NULL => obj[o] # NULL /\ os[o].number = obj[o].number
                                /\ os[o].type = obj[o].type
             /\ os[o] = NULL <=> o \in last \/ obj[o] = NULL
  <2>0. NULL \notin ObjectType
    BY NullObject
  <2>1. CASE o \in last
    <3>1. os[o] = NULL
      BY <2>1
    <3>2. obj[o] # NULL /\ obj[o].refs =< InEntries(o)
      BY <1>6, <2>1
    <3> HIDE DEF os, last
    <3> QED
      BY <1>5, <2>1, <3>1, <3>2 DEF RefsOf
  <2>2. CASE o \notin last /\ InEntries(o) = 0
    <3>1. os[o] = obj[o]
      BY <2>2
    <3> HIDE DEF os, last
    <3> QED
      BY <1>5, <2>2, <3>1 DEF RefsOf
  <2>3. CASE o \notin last /\ InEntries(o) # 0
    <3> DEFINE x == [obj[o] EXCEPT !.refs = @ - InEntries(o)]
    <3>1. obj[o] # NULL
      BY <1>5, <2>3 DEF RefsOf
    <3>2. obj[o] \in ObjectType /\ InEntries(o) \in Nat /\ obj[o].refs \in Nat
          /\ obj[o].refs > InEntries(o)
      BY <1>5, <2>3, <3>1 DEF ObjectType
    <3>3. x \in ObjectType /\ x.refs = obj[o].refs - InEntries(o)
          /\ x.number = obj[o].number /\ x.type = obj[o].type
      BY <3>2 DEF ObjectType
    <3>4. os[o] = x
      BY <2>3
    <3> HIDE DEF x, os, last
    <3> QED
      BY <2>0, <2>3, <3>1, <3>2, <3>3, <3>4 DEF RefsOf
  <2> QED
    BY <2>1, <2>2, <2>3
<1>8. os \in [Objects -> ObjectType \cup {NULL}]
  BY <1>7
<1>9. \A n \in HostFds : hs[n] = IF n \in N THEN NULL ELSE host[n]
  BY DEF Closed
<1>10. \A n \in HostFds : n \in N <=>
          n \notin StdHost /\ \E o \in Objects : obj[o] # NULL /\ os[o] = NULL /\ obj[o].number = n
  <2> HIDE DEF os
  <2> QED
    BY <1>6, <1>7
<1>11. hs \in [HostFds -> Files \cup {NULL}]
  BY DEF Closed, WasiInv, WasiTypes
<1> HIDE DEF os, hs, N, last
<1>12. r \in HeapType /\ r.obj = os /\ r.host = hs
  BY <1>8, <1>11 DEF HeapType
<1>13. \A fd \in FdTableSlots : entries'[fd] = NoEntry
  BY <1>1
<1>14. NoEntry \in EntryType /\ NoEntry.object = NULL
  BY DEF NoEntry, EntryType
<1>15. entries' \in [FdTableSlots -> EntryType]
  BY <1>1, <1>14
<1>16. ASSUME NEW o \in Objects
       PROVE  RefsOf(r.obj, o) - InEntries(o)' - InLost(o)'
             = RefsOf(obj, o) - InEntries(o) - InLost(o) - Holds(th[t], o) + Holds(Idle, o)
  <2>1. {fd \in FdTableSlots : entries'[fd].object = o} = {}
    BY <1>13, <1>14, NullObject
  <2>2. InEntries(o)' = 0
    BY <2>1, FS_EmptySet DEF InEntries
  <2>3. InLost(o)' = InLost(o) /\ InLost(o) \in Nat
    BY CountTypes DEF InLost, WasiInv
  <2>4. Holds(th[t], o) = 0 /\ Holds(Idle, o) = 0
    BY <1>2, IdleFacts
  <2>5. RefsOf(os, o) = RefsOf(obj, o) - InEntries(o)
    BY <1>7
  <2> QED
    BY <1>5, <1>12, <2>2, <2>3, <2>4, <2>5
<1>17. OwnedOnce(os, hs, NumsOf, Gone)
  <2>1. OwnedOnce(obj, host, NumsOf, Gone) /\ \A u \in Threads : NumsOf[u] = {}
    BY <1>2, <1>4, NumsOfFacts, IdleFacts
  <2> SUFFICES ASSUME NEW m \in HostFds
               PROVE  LET holds(p) == os[p] # NULL /\ os[p].number = m
                      IN /\ hs[m] = NULL => /\ \A p \in Objects : ~holds(p)
                                            /\ \A u \in Threads : m \notin NumsOf[u]
                                            /\ m \notin Gone
                         /\ \A p, q \in Objects : holds(p) /\ holds(q) => p = q
                         /\ \A p \in Objects : holds(p) =>
                               m \notin Gone /\ \A u \in Threads : m \notin NumsOf[u]
                         /\ \A u, v \in Threads : m \in NumsOf[u] /\ m \in NumsOf[v] => u = v
                         /\ \A u \in Threads : m \in NumsOf[u] => m \notin Gone
                         /\ hs[m] # NULL /\ m \notin StdHost =>
                               m \in Gone \/ (\E p \in Objects : holds(p))
                               \/ (\E u \in Threads : m \in NumsOf[u])
    BY DEF OwnedOnce
  <2>2. \A p \in Objects : os[p] # NULL /\ os[p].number = m => obj[p] # NULL /\ obj[p].number = m
    BY <1>7
  <2>3. CASE m \in N
    <3>1. PICK p \in Objects : obj[p] # NULL /\ os[p] = NULL /\ obj[p].number = m
      BY <1>10, <2>3
    <3>2. hs[m] = NULL /\ m \notin Gone /\ \A q \in Objects : ~(os[q] # NULL /\ os[q].number = m)
      BY <1>9, <2>1, <2>2, <2>3, <3>1 DEF OwnedOnce
    <3> QED
      BY <2>1, <3>2
  <2>4. CASE m \notin N
    <3>1. hs[m] = host[m]
      BY <1>9, <2>4
    <3>2. m \notin StdHost =>
            \A p \in Objects : obj[p] # NULL /\ obj[p].number = m =>
                               os[p] # NULL /\ os[p].number = m
      BY <1>7, <1>10, <2>4
    <3> QED
      BY <2>1, <2>2, <3>1, <3>2 DEF OwnedOnce
  <2> QED
    BY <2>3, <2>4
<1>18. stuck = NULL => OwnedOnce(r.obj, r.host, [NumsOf EXCEPT ![t] = Nums(Idle)], Gone')
  <2>1. [NumsOf EXCEPT ![t] = Nums(Idle)] = NumsOf
    BY <1>2, NumsOfFacts
  <2>2. Gone' = Gone
    BY DEF Gone
  <2> QED
    BY <1>12, <1>17, <2>1, <2>2
<1>19. lost' \in Seq(LeaseType) /\ fs' \in [DirNodes -> [Names -> Inside \cup {NULL}]]
  BY DEF WasiInv, WasiTypes
<1>20. \A o \in Objects : r.obj[o] # NULL =>
          \/ obj[o] # NULL /\ r.obj[o].number = obj[o].number /\ r.obj[o].type = obj[o].type
          \/ r.obj[o].type = "dir" => Untainted(r.host, r.obj[o].number)
  BY <1>7, <1>12
<1>21. obj' = r.obj /\ host' = r.host /\ stuck' = stuck /\ th' = [th EXCEPT ![t] = Idle]
         /\ (stuck = t => Idle.pc = "insert")
  BY <1>1, <1>2, <1>4, <1>12, NullObject DEF WasiInv, WasiTypes
<1>22. \A n \in HostFds : r.host[n] = host[n] \/ r.host[n] \in Inside \cup {"sock", NULL}
  BY <1>9, <1>12
<1>23. Idle \in CallType /\ Steps(Idle) /\ Tidy(Idle) /\ CallUntainted(Idle, r.host)
  BY IdleFacts
<1>24. /\ \A fd, gd \in FdTableSlots :
             entries'[fd].object = entries'[gd].object /\ entries'[fd].object # NULL => fd = gd
       /\ \A fd \in FdTableSlots :
             entries'[fd].object # NULL /\ r.obj[entries'[fd].object] # NULL =>
                entries'[fd].base \subseteq MaxBase(r.obj[entries'[fd].object].type)
  BY <1>13, <1>14
<1> HIDE DEF r
<1> QED
  BY <1>12, <1>15, <1>16, <1>18, <1>19, <1>20, <1>21, <1>22, <1>23, <1>24, StepInv

----------------------------------------------------------------------------
(* Steps of path_get *)

(* All but the last of a sequence, and the last.                           *)
LEMMA FrontLast ==
    ASSUME NEW S, NEW s \in Seq(S), s # << >>
    PROVE  /\ Front(s) \in Seq(S) /\ Len(Front(s)) = Len(s) - 1
           /\ \A k \in 1 .. Len(s) - 1 : Front(s)[k] = s[k]
           /\ Last(s) = s[Len(s)] /\ Last(s) \in S /\ Len(s) \in Nat \ {0}
<1> DEFINE n == Len(s) - 1
<1>1. Len(s) \in Nat \ {0} /\ \A k \in 1 .. Len(s) : s[k] \in S
  OBVIOUS
<1>2. n \in Nat /\ 1 \in Int /\ n \in Int /\ \A k \in 1 .. n : s[k] \in S
  BY <1>1
<1> HIDE DEF n
<1>3. /\ SubSeq(s, 1, n) \in Seq(S)
      /\ Len(SubSeq(s, 1, n)) = IF 1 <= n THEN n - 1 + 1 ELSE 0
      /\ \A i \in 1 .. n - 1 + 1 : SubSeq(s, 1, n)[i] = s[1 + i - 1]
  BY <1>2, SubSeqProperties
<1>4. Front(s) = SubSeq(s, 1, n) /\ Last(s) = s[Len(s)]
  BY DEF Front, Last, n
<1>5. Len(SubSeq(s, 1, n)) = n /\ \A i \in 1 .. n : SubSeq(s, 1, n)[i] = s[i]
  BY <1>2, <1>3
<1>6. Last(s) \in S
  BY <1>1, <1>4
<1> QED
  BY <1>1, <1>3, <1>4, <1>5, <1>6 DEF n

InPath == {"walk", "readlink", "ready", "leased"}

(* A thread in path_get.                                                   *)
LEMMA WalkFacts ==
    ASSUME WasiInv, NEW t \in Threads, th[t].pc \in InPath
    PROVE  /\ th[t] \in CallType /\ Steps(th[t]) /\ stuck # t
           /\ th[t].pa \in LeaseType /\ th[t].pa # NULL /\ th[t].old \in LeaseType \cup {NULL}
           /\ th[t].fos = << >> /\ th[t].op \in DOMAIN PathRights /\ th[t].req \in Requests
           /\ th[t].pa.fo \in Objects /\ obj[th[t].pa.fo] # NULL
           /\ th[t].pa.fds \in Seq(HostFds) /\ th[t].pa.fds # << >>
           /\ th[t].pa.paths \in Seq(Paths) /\ th[t].pa.paths # << >>
           /\ Nums(th[t]) = OwnNumbers(th[t].pa) \cup Own(th[t].old)
           /\ \A k \in 1 .. Len(th[t].pa.fds) : Untainted(host, th[t].pa.fds[k])
           /\ stuck = NULL =>
                 /\ \A j, k \in 2 .. Len(th[t].pa.fds) :
                       th[t].pa.fds[j] = th[t].pa.fds[k] => j = k
                 /\ OwnNumbers(th[t].pa) \cap Own(th[t].old) = {}
<1> DEFINE d == th[t]
<1>1. d \in CallType /\ Steps(d) /\ CallUntainted(d, host) /\ (stuck = NULL => Tidy(d))
  BY DEF WasiInv, WasiTypes, Stepped, Below, Owned
<1>2. stuck # t
  BY NotStuck DEF InPath
<1>3. d.pa # NULL /\ d.pa \in LeaseType /\ d.old \in LeaseType \cup {NULL}
      /\ d.fos = << >> /\ d.op \in DOMAIN PathRights /\ d.req \in Requests
      /\ d.pa.fds # << >> /\ d.pa.paths # << >> /\ d.pc # "insert"
  BY <1>1 DEF InPath, Steps, CallType
<1>4. d.pa.fds \in Seq(HostFds) /\ d.pa.paths \in Seq(Paths) /\ d.pa.fo \in Objects
  BY <1>3 DEF LeaseType
<1>5. obj[d.pa.fo] # NULL
  BY <1>3, CallObjects DEF WasiInv
<1>6. Nums(d) = OwnNumbers(d.pa) \cup Own(d.old)
  BY <1>3 DEF Nums, Own
<1>7. \A k \in 1 .. Len(d.pa.fds) : Untainted(host, d.pa.fds[k])
  BY <1>1, <1>3 DEF CallUntainted
<1>8. stuck = NULL => /\ \A j, k \in 2 .. Len(d.pa.fds) : d.pa.fds[j] = d.pa.fds[k] => j = k
                      /\ OwnNumbers(d.pa) \cap Own(d.old) = {}
  BY <1>1, <1>3 DEF Tidy, Own
<1> QED
  BY <1>1, <1>2, <1>3, <1>4, <1>5, <1>6, <1>7, <1>8

(* A step of path_get that goes on, with lease pa and host descriptors hs. *)
LEMMA GotoInv ==
    ASSUME WasiInv, NEW t \in Threads, th[t].pc \in InPath, NEW pc \in InPath, NEW pa \in LeaseType,
           Goto(t, pc, pa), pa.fo = th[t].pa.fo, pa.fds # << >>, pa.paths # << >>,
           pc = "readlink" => LET comps == pa.paths[Len(pa.paths)].comps
                              IN comps # << >> /\ Head(comps) \in Names,
           pc \in {"ready", "leased"} => pa.file \in Names \cup {"."},
           UNCHANGED <<entries, obj, stuck, fs, lost>>,
           host' \in [HostFds -> Files \cup {NULL}],
           \A n \in HostFds : host'[n] = host[n] \/ host'[n] \in Inside \cup {"sock", NULL},
           \A k \in 1 .. Len(pa.fds) : Untainted(host', pa.fds[k]),
           stuck = NULL =>
              /\ \A j, k \in 2 .. Len(pa.fds) : pa.fds[j] = pa.fds[k] => j = k
              /\ OwnNumbers(pa) \cap Own(th[t].old) = {}
              /\ OwnedOnce(obj, host', [NumsOf EXCEPT ![t] = OwnNumbers(pa) \cup Own(th[t].old)], Gone)
    PROVE  WasiInv'
<1> DEFINE d == th[t]
           c == [d EXCEPT !.pc = pc, !.pa = pa]
           r == [obj |-> obj, host |-> host']
<1>1. /\ d \in CallType /\ Steps(d) /\ stuck # t /\ d.pa # NULL
      /\ d.fos = << >> /\ d.op \in DOMAIN PathRights /\ d.req \in Requests
  BY WalkFacts
<1>2. th' = [th EXCEPT ![t] = c]
  BY DEF Goto
<1>3. c \in CallType
  <2>1. pc \in {"idle", "use", "insert", "walk", "readlink", "ready", "leased"}
    BY DEF InPath
  <2> QED
    BY <1>1, <2>1 DEF CallType
<1>4. c.pc = pc /\ c.pa = pa /\ c.old = d.old /\ c.fos = d.fos /\ c.op = d.op /\ c.req = d.req
  BY <1>1 DEF CallType
<1>5. pa # NULL /\ pc # "insert" /\ pc # "idle" /\ pc # "use"
  BY NullLease DEF InPath
<1> HIDE DEF c
<1>6. Steps(c)
  <2>1. d.old # NULL => PathRights[d.op].second # {} /\ d.old.fds # << >>
    BY <1>1 DEF Steps, InPath
  <2> QED
    BY <1>1, <1>4, <1>5, <2>1 DEF Steps
<1>7. Nums(c) = OwnNumbers(pa) \cup Own(d.old)
  BY <1>4, <1>5 DEF Nums, Own
<1>8. stuck = NULL => Tidy(c)
  BY <1>4, <1>5 DEF Tidy, Own
<1>9. \A o : Holds(c, o) = Holds(d, o)
  BY <1>1, <1>4, <1>5 DEF Holds
<1>10. CallUntainted(c, host')
  <2>1. d.old # NULL => \A k \in 1 .. Len(d.old.fds) : d.old.fds[k] \in HostFds
    BY <1>1 DEF CallType, LeaseType
  <2>2. d.old # NULL => \A k \in 1 .. Len(d.old.fds) : Untainted(host, d.old.fds[k])
    BY DEF WasiInv, Below, CallUntainted
  <2>3. \A n \in HostFds : Untainted(host, n) => Untainted(host', n)
    BY DEF Untainted
  <2> QED
    BY <1>4, <1>5, <2>1, <2>2, <2>3 DEF CallUntainted
<1>11. r \in HeapType /\ r.obj = obj /\ r.host = host'
  BY DEF HeapType, WasiInv, WasiTypes
<1>12. \A o \in Objects : RefsOf(obj, o) = RefsOf(obj, o) - Holds(d, o) + Holds(c, o)
  <2> TAKE o \in Objects
  <2>1. RefsOf(obj, o) \in Nat /\ Holds(d, o) \in Nat
    BY HoldsType DEF RefsOf, WasiInv, WasiTypes, ObjectType
  <2> QED
    BY <1>9, <2>1
<1> HIDE DEF r
<1>13. Moved(t, c, r)
  BY <1>1, <1>3, <1>6, <1>7, <1>8, <1>10, <1>11, <1>12 DEF Moved
<1> QED
  BY <1>2, <1>11, <1>13, MovedInv

(* A component of the path is done: path_get goes on with directories fds. *)
LEMMA AdvanceInv ==
    ASSUME WasiInv, NEW t \in Threads, Walking(t), NEW fds \in Seq(HostFds), fds # << >>,
           Advance(t, fds), UNCHANGED <<entries, obj, stuck, fs, lost>>,
           host' \in [HostFds -> Files \cup {NULL}],
           \A n \in HostFds : host'[n] = host[n] \/ host'[n] \in Inside \cup {"sock", NULL},
           \A k \in 1 .. Len(fds) : Untainted(host', fds[k]),
           NEW N, N = {fds[k] : k \in 2 .. Len(fds)},
           stuck = NULL =>
              /\ \A j, k \in 2 .. Len(fds) : fds[j] = fds[k] => j = k
              /\ N \cap Own(th[t].old) = {}
              /\ OwnedOnce(obj, host', [NumsOf EXCEPT ![t] = N \cup Own(th[t].old)], Gone)
    PROVE  WasiInv'
<1> DEFINE d == th[t]
           pa == [d.pa EXCEPT !.fds = fds]
           n == Len(pa.paths)
           next == [pa EXCEPT !.paths[n].comps = rest(t)]
           back == [pa EXCEPT !.paths = Front(@)]
           done == [pa EXCEPT !.file = "."]
<1>1. /\ d.pc = "walk" /\ d.pa \in LeaseType /\ Walk(t).comps # << >>
      /\ d.pa.paths \in Seq(Paths) /\ d.pa.paths # << >>
  BY WalkFacts DEF Walking, InPath
<1>2. pa \in LeaseType /\ pa.fds = fds /\ pa.paths = d.pa.paths /\ pa.fo = d.pa.fo
  BY <1>1 DEF LeaseType
<1>3. n \in Nat \ {0} /\ n \in 1 .. n /\ Walk(t) = pa.paths[n] /\ pa.paths[n] \in Paths
      /\ Front(pa.paths) \in Seq(Paths) /\ Len(Front(pa.paths)) = n - 1
  <2>1. pa.paths \in Seq(Paths) /\ pa.paths # << >>
    BY <1>1, <1>2
  <2>2. /\ Front(pa.paths) \in Seq(Paths) /\ Len(Front(pa.paths)) = Len(pa.paths) - 1
        /\ Last(pa.paths) = pa.paths[Len(pa.paths)] /\ Last(pa.paths) \in Paths
        /\ Len(pa.paths) \in Nat \ {0}
    <3> HIDE DEF pa
    <3> QED
      BY <2>1, FrontLast
  <2> QED
    BY <1>2, <2>2 DEF Walk
<1>4. rest(t) \in Seq(Components)
  <2>1. Walk(t).comps \in Seq(Components) /\ Walk(t).comps # << >>
    BY <1>1, <1>3 DEF Paths
  <2> QED
    BY <2>1 DEF rest
<1> HIDE DEF pa
<1>5. next \in LeaseType /\ next.fds = fds /\ next.fo = d.pa.fo /\ Len(next.paths) = n
  <2> DEFINE p == [pa.paths[n] EXCEPT !.comps = rest(t)]
             ps == [pa.paths EXCEPT ![n] = p]
  <2>1. p \in Paths
    BY <1>3, <1>4 DEF Paths
  <2>2. pa.paths \in Seq(Paths)
    BY <1>1, <1>2
  <2>3. next = [pa EXCEPT !.paths = ps]
    BY <1>2 DEF LeaseType
  <2> HIDE DEF p
  <2>4. ps \in Seq(Paths) /\ Len(ps) = n
    BY <1>3, <2>1, <2>2
  <2> HIDE DEF ps, next, n
  <2>5. next \in LeaseType /\ next.fds = pa.fds /\ next.fo = pa.fo /\ next.paths = ps
    BY <1>2, <2>3, <2>4 DEF LeaseType
  <2> QED
    BY <1>2, <2>4, <2>5
<1>6. back \in LeaseType /\ back.fds = fds /\ back.fo = d.pa.fo /\ Len(back.paths) = n - 1
  <2> HIDE DEF n
  <2>1. back \in LeaseType /\ back.fds = pa.fds /\ back.fo = pa.fo /\ back.paths = Front(pa.paths)
    BY <1>2, <1>3 DEF LeaseType
  <2> QED
    BY <1>2, <1>3, <2>1
<1>7. done \in LeaseType /\ done.fds = fds /\ done.fo = d.pa.fo /\ Len(done.paths) = n
      /\ done.file = "."
  <2>1. done \in LeaseType /\ done.fds = pa.fds /\ done.fo = pa.fo /\ done.paths = pa.paths
        /\ done.file = "."
    BY <1>2 DEF LeaseType
  <2> QED
    BY <1>2, <2>1
<1>8. \/ rest(t) # << >> /\ Goto(t, "walk", next)
      \/ rest(t) = << >> /\ n > 1 /\ Goto(t, "walk", back)
      \/ rest(t) = << >> /\ n =< 1 /\ Goto(t, "ready", done)
  <2> HIDE DEF next, back, done
  <2>1. Goto(t, IF rest(t) # << >> \/ n > 1 THEN "walk" ELSE "ready",
             IF rest(t) # << >> THEN next ELSE IF n > 1 THEN back ELSE done)
    BY DEF Advance, pa, next, back, done
  <2> QED
    BY <1>3, <2>1
<1>9. PICK pc \in {"walk", "ready"}, lease \in LeaseType :
        /\ Goto(t, pc, lease) /\ (pc = "ready" => lease.file = ".")
        /\ lease.fds = fds /\ lease.fo = d.pa.fo /\ Len(lease.paths) >= 1
  <2> HIDE DEF next, back, done, n
  <2> QED
    BY <1>3, <1>5, <1>6, <1>7, <1>8
<1>10. /\ lease.paths # << >>
       /\ pc \in {"ready", "leased"} => lease.file \in Names \cup {"."}
  BY <1>9
<1>11. OwnNumbers(lease) = N
  BY <1>9 DEF OwnNumbers
<1>12. pc # "readlink" /\ pc \in InPath /\ d.pc \in InPath
  BY <1>1 DEF InPath
<1> HIDE DEF next, back, done
<1>13. \A k \in 1 .. Len(lease.fds) : Untainted(host', lease.fds[k])
  BY <1>9
<1>14. stuck = NULL =>
           /\ \A j, k \in 2 .. Len(lease.fds) : lease.fds[j] = lease.fds[k] => j = k
           /\ OwnNumbers(lease) \cap Own(th[t].old) = {}
           /\ OwnedOnce(obj, host', [NumsOf EXCEPT ![t] = OwnNumbers(lease) \cup Own(th[t].old)], Gone)
  BY <1>9, <1>11
<1> QED
  BY <1>9, <1>10, <1>12, <1>13, <1>14, GotoInv

(* "." : the directory stays.                                              *)
LEMMA WalkSameInv ==
    ASSUME WasiInv, NEW t \in Threads, WalkSame(t)
    PROVE  WasiInv'
<1> DEFINE fds == th[t].pa.fds
<1>1. Walking(t) /\ Advance(t, fds) /\ UNCHANGED <<entries, obj, host, stuck, fs, lost>>
  BY DEF WalkSame, fdVars
<1>2. /\ fds \in Seq(HostFds) /\ fds # << >> /\ NumsOf[t] = OwnNumbers(th[t].pa) \cup Own(th[t].old)
      /\ \A k \in 1 .. Len(fds) : Untainted(host, fds[k])
      /\ stuck = NULL => /\ \A j, k \in 2 .. Len(fds) : fds[j] = fds[k] => j = k
                         /\ OwnNumbers(th[t].pa) \cap Own(th[t].old) = {}
  BY <1>1, WalkFacts, NumsOfFacts DEF Walking, InPath
<1>3. host' \in [HostFds -> Files \cup {NULL}]
  BY <1>1 DEF WasiInv, WasiTypes
<1>4. stuck = NULL => OwnedOnce(obj, host, NumsOf, Gone)
  BY NumsOfFacts
<1>5. [NumsOf EXCEPT ![t] = OwnNumbers(th[t].pa) \cup Own(th[t].old)] = NumsOf
  BY <1>2 DEF NumsOf
<1> HIDE DEF fds
<1>6. /\ OwnNumbers(th[t].pa) = {fds[k] : k \in 2 .. Len(fds)}
      /\ \A k \in 1 .. Len(fds) : Untainted(host', fds[k])
  BY <1>1, <1>2 DEF OwnNumbers, fds
<1>7. stuck = NULL =>
        /\ \A j, k \in 2 .. Len(fds) : fds[j] = fds[k] => j = k
        /\ OwnNumbers(th[t].pa) \cap Own(th[t].old) = {}
        /\ OwnedOnce(obj, host', [NumsOf EXCEPT ![t] = OwnNumbers(th[t].pa) \cup Own(th[t].old)], Gone)
  BY <1>1, <1>2, <1>4, <1>5
<1>8. \A n \in HostFds : host'[n] = host[n] \/ host'[n] \in Inside \cup {"sock", NULL}
  BY <1>1
<1> QED
  BY <1>1, <1>2, <1>3, <1>6, <1>7, <1>8, AdvanceInv

(* "..": the last directory is closed.                                     *)
LEMMA WalkUpInv ==
    ASSUME WasiInv, NEW t \in Threads, WalkUp(t)
    PROVE  WasiInv'
<1> DEFINE fds == th[t].pa.fds
           up == Front(fds)
           n == Last(fds)
           N == {up[k] : k \in 2 .. Len(up)}
           old == Own(th[t].old)
<1>1. /\ Walking(t) /\ Advance(t, up) /\ UNCHANGED <<entries, obj, stuck, fs, lost>>
      /\ host' = [host EXCEPT ![n] = NULL] /\ Len(fds) > 1
  BY DEF WalkUp
<1>2. /\ fds \in Seq(HostFds) /\ fds # << >> /\ NumsOf[t] = OwnNumbers(th[t].pa) \cup old
      /\ \A k \in 1 .. Len(fds) : Untainted(host, fds[k])
      /\ stuck = NULL => /\ \A j, k \in 2 .. Len(fds) : fds[j] = fds[k] => j = k
                         /\ OwnNumbers(th[t].pa) \cap old = {}
  BY <1>1, WalkFacts, NumsOfFacts DEF Walking, InPath
<1>3. OwnNumbers(th[t].pa) = {fds[k] : k \in 2 .. Len(fds)}
  BY DEF OwnNumbers
<1> HIDE DEF fds
<1>4. /\ up \in Seq(HostFds) /\ Len(up) = Len(fds) - 1
      /\ \A k \in 1 .. Len(fds) - 1 : up[k] = fds[k]
      /\ n = fds[Len(fds)] /\ n \in HostFds /\ Len(fds) \in Nat
  BY <1>2, FrontLast
<1> HIDE DEF up, n, old
<1>5. up # << >> /\ \A k \in 2 .. Len(up) : up[k] = fds[k] /\ k \in 2 .. Len(fds)
  BY <1>1, <1>4
<1>6. host' = Closed(host, {n}) /\ host' \in [HostFds -> Files \cup {NULL}]
      /\ \A m \in HostFds : host'[m] \in {host[m], NULL}
  BY <1>1, <1>4 DEF Closed, WasiInv, WasiTypes
<1>7. \A k \in 1 .. Len(up) : Untainted(host', up[k])
  <2> TAKE k \in 1 .. Len(up)
  <2>1. up[k] = fds[k] /\ k \in 1 .. Len(fds) /\ fds[k] \in HostFds
    BY <1>2, <1>4
  <2> QED
    BY <1>2, <1>6, <2>1 DEF Untainted
<1>8. ASSUME stuck = NULL
      PROVE  /\ \A j, k \in 2 .. Len(up) : up[j] = up[k] => j = k
             /\ N \cap old = {}
             /\ OwnedOnce(obj, host', [NumsOf EXCEPT ![t] = N \cup old], Gone)
  <2>1. \A j, k \in 2 .. Len(up) : up[j] = up[k] => j = k
    BY <1>2, <1>5, <1>8
  <2>2. N \subseteq OwnNumbers(th[t].pa)
    BY <1>3, <1>5
  <2>3. N \cap old = {}
    BY <1>2, <1>8, <2>2
  <2>4. n \in OwnNumbers(th[t].pa) /\ n \notin N
    <3>1. Len(fds) \in 2 .. Len(fds)
      BY <1>1, <1>4
    <3>2. \A k \in 2 .. Len(up) : up[k] # n
      BY <1>2, <1>4, <1>5, <1>8, <3>1
    <3> QED
      BY <1>3, <1>4, <3>1, <3>2
  <2>5. N \cup old = NumsOf[t] \ {n}
    <3>1. OwnNumbers(th[t].pa) \ {n} \subseteq N
      <4>1. ASSUME NEW k \in 2 .. Len(fds), fds[k] # n PROVE fds[k] \in N
        <5>1. k \in 2 .. Len(up) /\ up[k] = fds[k]
          BY <1>4, <4>1
        <5> QED
          BY <5>1
      <4> QED
        BY <1>3, <4>1
    <3> QED
      BY <1>2, <1>8, <2>2, <2>4, <3>1
  <2>6. OwnedOnce(obj, host, NumsOf, Gone) /\ NumsOf = [u \in Threads |-> NumsOf[u]]
    BY <1>8, NumsOfFacts
  <2>7. {n} \subseteq NumsOf[t]
    BY <1>2, <2>4
  <2>8. OwnedOnce(obj, Closed(host, {n}), [NumsOf EXCEPT ![t] = @ \ {n}], Gone)
    BY <2>6, <2>7, ClosedOwned
  <2> QED
    BY <1>6, <2>1, <2>3, <2>5, <2>8
<1>9. \A m \in HostFds : host'[m] = host[m] \/ host'[m] \in Inside \cup {"sock", NULL}
  BY <1>6
<1> DEFINE M == N
<1>10. M = {up[k] : k \in 2 .. Len(up)}
  OBVIOUS
<1> HIDE DEF N
<1>11. stuck = NULL =>
        /\ \A j, k \in 2 .. Len(up) : up[j] = up[k] => j = k
        /\ M \cap Own(th[t].old) = {}
        /\ OwnedOnce(obj, host', [NumsOf EXCEPT ![t] = M \cup Own(th[t].old)], Gone)
  BY <1>8 DEF old
<1> HIDE DEF M
<1> QED
  BY <1>1, <1>4, <1>5, <1>6, <1>7, <1>9, <1>10, <1>11, AdvanceInv

(* A name that is a directory: it is opened.                               *)
LEMMA WalkDownInv ==
    ASSUME WasiInv, NEW t \in Threads, WalkDown(t)
    PROVE  WasiInv'
<1> DEFINE fds == th[t].pa.fds
           n == Min(HostFree)
           down == Append(fds, n)
           N == {down[k] : k \in 2 .. Len(down)}
           old == Own(th[t].old)
           node == Node(t)
<1>1. /\ Walking(t) /\ Advance(t, down) /\ UNCHANGED <<entries, obj, stuck, fs, lost>>
      /\ host' = HostOpened(n, node) /\ HostFree # {} /\ node \in DirNodes
  BY DEF WalkDown
<1>2. /\ fds \in Seq(HostFds) /\ fds # << >> /\ NumsOf[t] = OwnNumbers(th[t].pa) \cup old
      /\ \A k \in 1 .. Len(fds) : Untainted(host, fds[k])
      /\ stuck = NULL => /\ \A j, k \in 2 .. Len(fds) : fds[j] = fds[k] => j = k
                         /\ OwnNumbers(th[t].pa) \cap old = {}
  BY <1>1, WalkFacts, NumsOfFacts DEF Walking, InPath
<1>3. OwnNumbers(th[t].pa) = {fds[k] : k \in 2 .. Len(fds)}
  BY DEF OwnNumbers
<1>4. node \in Inside \cup {"sock"} /\ node # NULL
  BY <1>1, PathAssumption, FilesAssumption
<1> HIDE DEF fds, node, old
<1>5. /\ n \in HostFds /\ host[n] = NULL
      /\ Heap.obj = obj
      /\ stuck = NULL => OwnedOnce(obj, host', [NumsOf EXCEPT ![t] = @ \cup {n}], Gone)
      /\ \A m \in HostFds : host'[m] = IF m = n THEN node ELSE host[m]
      /\ host' \in [HostFds -> Files \cup {NULL}]
  <2> DEFINE s == [Heap EXCEPT !.host = HostOpened(n, node)]
  <2>1. /\ n \in HostFds /\ host[n] = NULL
        /\ s \in HeapType /\ s.obj = obj /\ s.host = HostOpened(n, node)
        /\ \A m \in HostFds : s.host[m] = IF m = n THEN node ELSE host[m]
        /\ stuck = NULL => OwnedOnce(s.obj, s.host, [NumsOf EXCEPT ![t] = @ \cup {n}], Gone)
    BY <1>1, <1>4, OpenedHeap
  <2>2. s.host \in [HostFds -> Files \cup {NULL}]
    BY <2>1 DEF HeapType
  <2>3. Heap.obj = obj
    BY DEF Heap
  <2> HIDE DEF n, s
  <2> QED
    BY <1>1, <2>1, <2>2, <2>3
<1> HIDE DEF n
<1>6. /\ down \in Seq(HostFds) /\ Len(down) = Len(fds) + 1 /\ Len(fds) \in Nat \ {0}
      /\ \A k \in 1 .. Len(fds) : down[k] = fds[k] /\ fds[k] \in HostFds
      /\ down[Len(fds) + 1] = n
  BY <1>2, <1>5
<1> HIDE DEF down
<1>7. down # << >>
  BY <1>6
<1>8. \A k \in 1 .. Len(down) : Untainted(host', down[k])
  <2> TAKE k \in 1 .. Len(down)
  <2>1. CASE k = Len(fds) + 1
    BY <1>4, <1>5, <1>6, <2>1 DEF Untainted
  <2>2. CASE k \in 1 .. Len(fds)
    BY <1>2, <1>4, <1>5, <1>6, <2>2 DEF Untainted
  <2> QED
    BY <1>6, <2>1, <2>2
<1>9. N = OwnNumbers(th[t].pa) \cup {n}
  <2>1. \A k \in 2 .. Len(down) : k = Len(fds) + 1 \/ k \in 2 .. Len(fds)
    BY <1>6
  <2>2. \A k \in 2 .. Len(fds) : k \in 2 .. Len(down) /\ k \in 1 .. Len(fds)
    BY <1>6
  <2>3. Len(fds) + 1 \in 2 .. Len(down)
    BY <1>6
  <2>4. N \subseteq OwnNumbers(th[t].pa) \cup {n}
    BY <1>3, <1>6, <2>1, <2>2
  <2>5. OwnNumbers(th[t].pa) \subseteq N /\ n \in N
    BY <1>3, <1>6, <2>2, <2>3
  <2> QED
    BY <2>4, <2>5
<1> DEFINE M == N
<1>10. M = {down[k] : k \in 2 .. Len(down)}
  OBVIOUS
<1> HIDE DEF N
<1>11. stuck = NULL =>
        /\ \A j, k \in 2 .. Len(down) : down[j] = down[k] => j = k
        /\ M \cap Own(th[t].old) = {}
        /\ OwnedOnce(obj, host', [NumsOf EXCEPT ![t] = M \cup Own(th[t].old)], Gone)
  <2> SUFFICES ASSUME stuck = NULL
               PROVE  /\ \A j, k \in 2 .. Len(down) : down[j] = down[k] => j = k
                      /\ N \cap old = {}
                      /\ OwnedOnce(obj, host', [NumsOf EXCEPT ![t] = N \cup old], Gone)
    BY DEF old
  <2>1. n \notin NumsOf[t]
    BY <1>5, NumsOfFacts DEF OwnedOnce
  <2>2. \A k \in 2 .. Len(fds) : fds[k] # n
    BY <1>2, <1>3, <2>1
  <2>3. ASSUME NEW j \in 2 .. Len(down), NEW k \in 2 .. Len(down), down[j] = down[k]
        PROVE  j = k
    <3>1. \A i \in 2 .. Len(down) : i = Len(fds) + 1 \/ (i \in 2 .. Len(fds) /\ down[i] = fds[i])
      BY <1>6
    <3> QED
      BY <1>2, <1>6, <2>2, <2>3, <3>1
  <2>4. N \cap old = {}
    BY <1>2, <1>9, <2>1
  <2>5. N \cup old = NumsOf[t] \cup {n}
    BY <1>2, <1>9
  <2> QED
    BY <1>5, <2>3, <2>4, <2>5
<1>12. \A m \in HostFds : host'[m] = host[m] \/ host'[m] \in Inside \cup {"sock", NULL}
  BY <1>4, <1>5
<1> HIDE DEF M
<1> QED
  BY <1>1, <1>5, <1>6, <1>7, <1>8, <1>10, <1>11, <1>12, AdvanceInv

(* A step of path_get that opens and closes nothing.                       *)
LEMMA StayInv ==
    ASSUME WasiInv, NEW t \in Threads, th[t].pc \in InPath, NEW pc \in InPath, NEW pa \in LeaseType,
           Goto(t, pc, pa), pa.fo = th[t].pa.fo, pa.fds = th[t].pa.fds, pa.paths # << >>,
           pc = "readlink" => LET comps == pa.paths[Len(pa.paths)].comps
                              IN comps # << >> /\ Head(comps) \in Names,
           pc \in {"ready", "leased"} => pa.file \in Names \cup {"."},
           UNCHANGED <<entries, obj, host, stuck, fs, lost>>
    PROVE  WasiInv'
<1> DEFINE fds == th[t].pa.fds
<1>1. /\ fds \in Seq(HostFds) /\ fds # << >> /\ NumsOf[t] = OwnNumbers(th[t].pa) \cup Own(th[t].old)
      /\ \A k \in 1 .. Len(fds) : Untainted(host, fds[k])
      /\ stuck = NULL => /\ \A j, k \in 2 .. Len(fds) : fds[j] = fds[k] => j = k
                         /\ OwnNumbers(th[t].pa) \cap Own(th[t].old) = {}
  BY WalkFacts, NumsOfFacts
<1>2. OwnNumbers(pa) = OwnNumbers(th[t].pa)
  BY DEF OwnNumbers
<1>3. [NumsOf EXCEPT ![t] = OwnNumbers(pa) \cup Own(th[t].old)] = NumsOf
  BY <1>1, <1>2 DEF NumsOf
<1>4. stuck = NULL => OwnedOnce(obj, host, NumsOf, Gone)
  BY NumsOfFacts
<1>5. host' \in [HostFds -> Files \cup {NULL}]
  BY DEF WasiInv, WasiTypes
<1>6. \A n \in HostFds : host'[n] = host[n] \/ host'[n] \in Inside \cup {"sock", NULL}
  OBVIOUS
<1>7. pa.fds # << >> /\ \A k \in 1 .. Len(pa.fds) : Untainted(host', pa.fds[k])
  BY <1>1
<1>8. stuck = NULL =>
           /\ \A j, k \in 2 .. Len(pa.fds) : pa.fds[j] = pa.fds[k] => j = k
           /\ OwnNumbers(pa) \cap Own(th[t].old) = {}
           /\ OwnedOnce(obj, host', [NumsOf EXCEPT ![t] = OwnNumbers(pa) \cup Own(th[t].old)], Gone)
  BY <1>1, <1>2, <1>3, <1>4
<1>9. UNCHANGED <<entries, obj, stuck, fs, lost>>
  OBVIOUS
<1> HIDE DEF fds
<1> QED
  BY <1>5, <1>6, <1>7, <1>8, <1>9, GotoInv

(* The path that is walked, and its first component.                       *)
LEMMA PathFacts ==
    ASSUME WasiInv, NEW t \in Threads, th[t].pc \in InPath
    PROVE  /\ Len(th[t].pa.paths) \in Nat \ {0}
           /\ Walk(t) = th[t].pa.paths[Len(th[t].pa.paths)] /\ Walk(t) \in Paths
           /\ Walk(t).comps # << >> => rest(t) \in Seq(Components)
           /\ th[t].pc = "readlink" => Walk(t).comps # << >> /\ file(t) \in Names
           /\ ends_with_slashes(t) \in BOOLEAN
<1> DEFINE ps == th[t].pa.paths
<1>1. ps \in Seq(Paths) /\ ps # << >> /\ Steps(th[t])
  BY WalkFacts
<1>2. Len(ps) \in Nat \ {0} /\ Last(ps) = ps[Len(ps)] /\ Last(ps) \in Paths
  BY <1>1, FrontLast
<1>3. Walk(t) = ps[Len(ps)] /\ Walk(t) \in Paths
  BY <1>2 DEF Walk
<1>4. Walk(t).comps # << >> => rest(t) \in Seq(Components)
  BY <1>3 DEF rest, Paths
<1>5. th[t].pc = "readlink" => Walk(t).comps # << >> /\ file(t) \in Names
  BY <1>1, <1>3 DEF Steps, file
<1>6. ends_with_slashes(t) \in BOOLEAN
  BY <1>3 DEF ends_with_slashes, Paths
<1> QED
  BY <1>2, <1>3, <1>4, <1>5, <1>6

(* A name that may be a link: it is read next.                             *)
LEMMA WalkLinkInv ==
    ASSUME WasiInv, NEW t \in Threads, WalkLink(t)
    PROVE  WasiInv'
<1> DEFINE pc == "readlink"
<1>1. /\ th[t].pc \in InPath /\ Walk(t).comps # << >> /\ file(t) \in Names
      /\ Goto(t, pc, th[t].pa) /\ UNCHANGED <<entries, obj, host, stuck, fs, lost>>
  BY DEF WalkLink, Walking, InPath, fdVars
<1>2. th[t].pa \in LeaseType /\ th[t].pa.paths # << >>
  BY <1>1, WalkFacts
<1>3. LET comps == th[t].pa.paths[Len(th[t].pa.paths)].comps
      IN comps # << >> /\ Head(comps) \in Names
  BY <1>1, PathFacts DEF file
<1>4. pc \in InPath /\ pc \notin {"ready", "leased"}
  BY DEF InPath
<1> HIDE DEF pc
<1> QED
  BY <1>1, <1>2, <1>3, <1>4, StayInv

(* A link: its target is walked, what is left of the path after it.        *)
LEMMA PushSymlinkInv ==
    ASSUME WasiInv, NEW t \in Threads, PushSymlink(t)
    PROVE  WasiInv'
<1> DEFINE pc == "walk"
           d == th[t]
           n == Len(d.pa.paths)
           link == [Target[Node(t)] EXCEPT !.slash = @ \/ ends_with_slashes(t)]
           p == [d.pa.paths[n] EXCEPT !.comps = rest(t)]
           left == [d.pa.paths EXCEPT ![n].comps = rest(t)]
           ps == IF rest(t) = << >> THEN [d.pa.paths EXCEPT ![n] = link] ELSE Append(left, link)
           pa == [d.pa EXCEPT !.expansions = @ + 1,
                 !.paths = IF rest(t) = << >> THEN [@ EXCEPT ![n] = link] ELSE Append(left, link)]
<1>1. /\ d.pc = "readlink" /\ d.pc \in InPath /\ Node(t) \in LinkNodes
      /\ Goto(t, pc, pa) /\ UNCHANGED <<entries, obj, host, stuck, fs, lost>>
  BY DEF PushSymlink, InPath, fdVars
<1>2. d.pa \in LeaseType /\ d.pa.paths \in Seq(Paths) /\ d.pa.paths # << >>
  BY <1>1, WalkFacts
<1>3. n \in Nat \ {0} /\ d.pa.paths[n] \in Paths /\ rest(t) \in Seq(Components)
      /\ ends_with_slashes(t) \in BOOLEAN
  BY <1>1, PathFacts
<1>4. link \in Paths
  <2>1. Target[Node(t)] \in Paths
    BY <1>1, PathAssumption
  <2> QED
    BY <1>3, <2>1 DEF Paths
<1>5. left \in Seq(Paths)
  <2>1. p \in Paths
    BY <1>3 DEF Paths
  <2>2. left = [d.pa.paths EXCEPT ![n] = p]
    OBVIOUS
  <2> HIDE DEF p, left
  <2> QED
    BY <1>2, <1>3, <2>1, <2>2
<1> HIDE DEF left, link, n
<1>6. ps \in Seq(Paths) /\ ps # << >>
  <2>1. CASE rest(t) = << >>
    <3>1. ps = [d.pa.paths EXCEPT ![n] = link]
      BY <2>1
    <3> HIDE DEF ps
    <3>2. ps \in Seq(Paths) /\ Len(ps) = Len(d.pa.paths)
      BY <1>2, <1>3, <1>4, <3>1 DEF n
    <3> QED
      BY <1>3, <3>2 DEF n
  <2>2. CASE rest(t) # << >>
    <3>1. ps = Append(left, link)
      BY <2>2
    <3> HIDE DEF ps
    <3> QED
      BY <1>4, <1>5, <3>1
  <2> QED
    BY <2>1, <2>2
<1>7. pa = [d.pa EXCEPT !.expansions = d.pa.expansions + 1, !.paths = ps]
  BY <1>2 DEF LeaseType
<1> HIDE DEF ps
<1>8. pa \in LeaseType /\ pa.fo = d.pa.fo /\ pa.fds = d.pa.fds /\ pa.paths # << >>
  <2> DEFINE more == d.pa.expansions + 1
  <2>1. more \in Nat
    BY <1>2 DEF LeaseType
  <2>2. pa = [d.pa EXCEPT !.expansions = more, !.paths = ps]
    BY <1>7
  <2> HIDE DEF pa, more, d
  <2>3. pa \in LeaseType /\ pa.fo = d.pa.fo /\ pa.fds = d.pa.fds /\ pa.paths = ps
    BY <1>2, <1>6, <2>1, <2>2 DEF LeaseType
  <2> QED
    BY <1>6, <2>3
<1>9. pc \in InPath /\ pc # "readlink" /\ pc \notin {"ready", "leased"}
  BY DEF InPath
<1> HIDE DEF pc, pa
<1> QED
  BY <1>1, <1>8, <1>9, StayInv

(* The last component is a name that is left to the call.                  *)
LEMMA LastComponentInv ==
    ASSUME WasiInv, NEW t \in Threads, LastComponent(t)
    PROVE  WasiInv'
<1> DEFINE pc == "ready"
           d == th[t]
           pa == [d.pa EXCEPT !.file = file(t), !.slash = ends_with_slashes(t)]
<1>1. /\ \/ Walking(t) /\ file(t) \in Names
         \/ d.pc = "readlink"
      /\ Goto(t, pc, pa) /\ UNCHANGED <<entries, obj, host, stuck, fs, lost>>
  BY DEF LastComponent, fdVars
<1>2. d.pc \in InPath
  BY <1>1 DEF Walking, InPath
<1>3. d.pa \in LeaseType /\ d.pa.paths # << >>
  BY <1>2, WalkFacts
<1>4. file(t) \in Names /\ ends_with_slashes(t) \in BOOLEAN
  BY <1>1, <1>2, PathFacts
<1>5. pa \in LeaseType /\ pa.fo = d.pa.fo /\ pa.fds = d.pa.fds /\ pa.paths = d.pa.paths
      /\ pa.file = file(t)
  BY <1>3, <1>4 DEF LeaseType
<1>6. pc \in InPath /\ pc # "readlink"
  BY DEF InPath
<1> HIDE DEF pc, pa
<1> QED
  BY <1>1, <1>2, <1>3, <1>4, <1>5, <1>6, StayInv

(* success: the directories on the way are closed, the last one kept.      *)
LEMMA PathGotInv ==
    ASSUME WasiInv, NEW t \in Threads, PathGot(t)
    PROVE  WasiInv'
<1> DEFINE pc == "leased"
           d == th[t]
           fds == d.pa.fds
           between == {fds[k] : k \in 2 .. Len(fds) - 1}
           kept == IF Len(fds) = 1 THEN fds ELSE <<fds[1], Last(fds)>>
           pa == [d.pa EXCEPT !.fds = kept]
           old == Own(d.old)
<1>1. /\ d.pc = "ready" /\ d.pc \in InPath /\ host' = Closed(host, between)
      /\ Goto(t, pc, pa) /\ UNCHANGED <<entries, obj, stuck, fs, lost>>
  BY DEF PathGot, InPath
<1>2. /\ fds \in Seq(HostFds) /\ fds # << >> /\ NumsOf[t] = OwnNumbers(d.pa) \cup old
      /\ \A k \in 1 .. Len(fds) : Untainted(host, fds[k])
      /\ stuck = NULL => /\ \A j, k \in 2 .. Len(fds) : fds[j] = fds[k] => j = k
                         /\ OwnNumbers(d.pa) \cap old = {}
      /\ d.pa \in LeaseType /\ d.pa.paths # << >> /\ d.pa.file \in Names \cup {"."}
  BY <1>1, WalkFacts, NumsOfFacts DEF Steps
<1>3. OwnNumbers(d.pa) = {fds[k] : k \in 2 .. Len(fds)}
  BY DEF OwnNumbers
<1>4. Len(fds) \in Nat \ {0} /\ Last(fds) = fds[Len(fds)] /\ Last(fds) \in HostFds
  BY <1>2, FrontLast
<1> HIDE DEF fds
<1>4a. Len(fds) = 1 \/ Len(fds) > 1
  BY <1>4
<1>5. fds[1] \in HostFds /\ kept \in Seq(HostFds) /\ kept # << >>
  <2>1. fds[1] \in HostFds
    BY <1>2, <1>4
  <2> QED
    BY <1>2, <1>4, <2>1
<1>6. /\ Len(fds) = 1 => kept = fds
      /\ Len(fds) > 1 => Len(kept) = 2 /\ kept[1] = fds[1] /\ kept[2] = fds[Len(fds)]
  BY <1>4
<1> HIDE DEF kept
<1>7. pa \in LeaseType /\ pa.fds = kept /\ pa.fo = d.pa.fo /\ pa.paths = d.pa.paths
      /\ pa.file = d.pa.file
  BY <1>2, <1>5 DEF LeaseType
<1>8. host' \in [HostFds -> Files \cup {NULL}] /\ \A m \in HostFds : host'[m] \in {host[m], NULL}
  BY <1>1 DEF Closed, WasiInv, WasiTypes
<1>9. \A k \in 1 .. Len(kept) : Untainted(host', kept[k])
  <2> TAKE k \in 1 .. Len(kept)
  <2>1. \A i \in 1 .. Len(fds) : Untainted(host, fds[i]) /\ fds[i] \in HostFds
    BY <1>2
  <2>2. \E i \in 1 .. Len(fds) : kept[k] = fds[i]
    <3>1. CASE Len(fds) = 1
      BY <1>6, <3>1
    <3>2. CASE Len(fds) > 1
      <4>1. Len(kept) = 2 /\ k \in 1 .. Len(kept)
        BY <1>6, <3>2
      <4>2. k = 1 \/ k = 2
        BY <4>1
      <4>3. kept[1] = fds[1] /\ kept[2] = fds[Len(fds)] /\ 1 \in 1 .. Len(fds)
            /\ Len(fds) \in 1 .. Len(fds)
        BY <1>4, <1>6, <3>2
      <4> QED
        BY <4>2, <4>3, Zenon
    <3> QED
      BY <1>4a, <3>1, <3>2, Zenon
  <2> QED
    BY <1>8, <2>1, <2>2 DEF Untainted
<1> HIDE DEF pa, pc
<1>10. OwnNumbers(pa) = {kept[k] : k \in 2 .. Len(kept)}
  BY <1>7 DEF OwnNumbers
<1>11. ASSUME stuck = NULL
       PROVE  /\ \A j, k \in 2 .. Len(kept) : kept[j] = kept[k] => j = k
              /\ OwnNumbers(pa) = OwnNumbers(d.pa) \ between
              /\ between \subseteq OwnNumbers(d.pa)
  <2>1. CASE Len(fds) = 1
    <3>1. OwnNumbers(pa) = OwnNumbers(d.pa)
      BY <1>3, <1>6, <1>10, <2>1
    <3>2. between = {}
      BY <2>1
    <3>3. \A j, k \in 2 .. Len(kept) : kept[j] = kept[k] => j = k
      BY <1>2, <1>6, <1>11, <2>1
    <3> QED
      BY <3>1, <3>2, <3>3
  <2>2. CASE Len(fds) > 1
    <3>0. Len(kept) = 2 /\ kept[2] = fds[Len(fds)]
      BY <1>6, <2>2
    <3>1. OwnNumbers(pa) = {fds[Len(fds)]}
      BY <1>10, <3>0
    <3>2. \A k \in 2 .. Len(fds) - 1 : k \in 2 .. Len(fds) /\ k # Len(fds)
      BY <1>4
    <3>3. Len(fds) \in 2 .. Len(fds)
      BY <1>4, <2>2
    <3>4. fds[Len(fds)] \notin between
      BY <1>2, <1>11, <3>2, <3>3
    <3>5. \A k \in 2 .. Len(fds) : k = Len(fds) \/ k \in 2 .. Len(fds) - 1
      BY <1>4
    <3>6. between \subseteq OwnNumbers(d.pa)
      BY <1>3, <3>2
    <3>7. OwnNumbers(d.pa) \subseteq between \cup {fds[Len(fds)]}
      BY <1>3, <3>5
    <3>8. fds[Len(fds)] \in OwnNumbers(d.pa)
      BY <1>3, <3>3
    <3> HIDE DEF between
    <3>9. OwnNumbers(pa) = OwnNumbers(d.pa) \ between
      BY <3>1, <3>4, <3>6, <3>7, <3>8
    <3>10. \A j, k \in 2 .. Len(kept) : kept[j] = kept[k] => j = k
      BY <3>0
    <3> QED
      BY <3>6, <3>9, <3>10
  <2>3. Len(fds) = 1 \/ Len(fds) > 1
    BY <1>4
  <2> HIDE DEF between
  <2> QED
    BY <2>1, <2>2, <2>3
<1> HIDE DEF between
<1>12. ASSUME stuck = NULL
       PROVE  /\ OwnNumbers(pa) \cap old = {}
              /\ OwnedOnce(obj, host', [NumsOf EXCEPT ![t] = OwnNumbers(pa) \cup old], Gone)
  <2>1. OwnNumbers(pa) \cap old = {} /\ between \subseteq NumsOf[t]
        /\ OwnNumbers(pa) \cup old = NumsOf[t] \ between
    BY <1>2, <1>11, <1>12
  <2>2. OwnedOnce(obj, host, NumsOf, Gone) /\ NumsOf = [u \in Threads |-> NumsOf[u]]
    BY <1>12, NumsOfFacts
  <2>3. OwnedOnce(obj, Closed(host, between), [NumsOf EXCEPT ![t] = @ \ between], Gone)
    BY <2>1, <2>2, ClosedOwned
  <2> QED
    BY <1>1, <2>1, <2>3
<1>13. pc \in InPath /\ pc # "readlink" /\ pc \in {"ready", "leased"}
  BY DEF InPath, pc
<1>14. \A m \in HostFds : host'[m] = host[m] \/ host'[m] \in Inside \cup {"sock", NULL}
  BY <1>8
<1>15. pa.fds # << >> /\ pa.paths # << >> /\ pa.file \in Names \cup {"."}
  BY <1>2, <1>5, <1>7
<1>16. \A k \in 1 .. Len(pa.fds) : Untainted(host', pa.fds[k])
  BY <1>7, <1>9
<1>17. stuck = NULL =>
         /\ \A j, k \in 2 .. Len(pa.fds) : pa.fds[j] = pa.fds[k] => j = k
         /\ OwnNumbers(pa) \cap Own(th[t].old) = {}
         /\ OwnedOnce(obj, host', [NumsOf EXCEPT ![t] = OwnNumbers(pa) \cup Own(th[t].old)], Gone)
  BY <1>7, <1>11, <1>12
<1> QED
  BY <1>1, <1>7, <1>8, <1>13, <1>14, <1>15, <1>16, <1>17, GotoInv

(* A descriptor with a right that only directories have is a directory.    *)
LEMMA DirectoryEntry ==
    ASSUME WasiInv, NEW fd \in FdTableSlots, entries[fd].object # NULL,
           NEW rights, OnlyDirectories(rights), rights \subseteq entries[fd].base
    PROVE  /\ entries[fd].object \in Objects /\ obj[entries[fd].object] \in ObjectType
           /\ obj[entries[fd].object] # NULL
           /\ Untainted(host, obj[entries[fd].object].number)
<1> DEFINE o == entries[fd].object
<1>1. o \in Objects /\ obj[o] # NULL /\ obj[o] \in ObjectType
  BY EntryObject DEF WasiInv
<1>2. entries[fd].base \subseteq MaxBase(obj[o].type)
  BY DEF WasiInv, Entered
<1>3. PICK x \in rights : x \notin MaxBase("file") \cup MaxBase("sock")
  BY DEF OnlyDirectories
<1>4. x \in MaxBase(obj[o].type)
  BY <1>2, <1>3
<1>5. obj[o].type \in {"file", "dir", "sock"}
  BY <1>1 DEF ObjectType, Types
<1> HIDE DEF o
<1>6. obj[o].type = "dir"
  BY <1>3, <1>4, <1>5
<1>7. Untainted(host, obj[o].number)
  BY <1>1, <1>6 DEF WasiInv, Below
<1> QED
  BY <1>1, <1>7 DEF o

(* A path_get starts: its lease is of a directory descriptor.              *)
LEMMA StartInv ==
    ASSUME WasiInv, NEW t \in Threads, NEW fd \in FdTableSlots, entries[fd].object # NULL,
           NEW rights, OnlyDirectories(rights), rights \subseteq entries[fd].base,
           NEW path \in Paths, NEW follow \in BOOLEAN, NEW final \in BOOLEAN,
           NEW c, th' = [th EXCEPT ![t] = c],
           NEW pa, pa = Lease(entries[fd].object, path, follow, final),
           pa \in LeaseType => c \in CallType,
           c.pc = "walk", c.fos = << >>, c.op \in DOMAIN PathRights, c.req \in Requests,
           c.pa = pa, c.old = th[t].pa,
           th[t].old = NULL, th[t].fos = << >>, th[t].pc # "insert",
           c.old # NULL => PathRights[c.op].second # {} /\ c.old.fds # << >>,
           obj' = Acquired(obj, entries[fd].object), UNCHANGED <<entries, host, stuck, fs, lost>>
    PROVE  WasiInv'
<1> DEFINE o == entries[fd].object
           d == th[t]
           objs == Acquired(obj, o)
           r == [obj |-> objs, host |-> host]
<1>1. o \in Objects /\ obj[o] # NULL /\ obj[o] \in ObjectType /\ Untainted(host, obj[o].number)
  BY DirectoryEntry
<1> HIDE DEF o
<1>2. /\ objs \in [Objects -> ObjectType \cup {NULL}]
      /\ RefsOf(objs, o) = RefsOf(obj, o) + 1
      /\ \A p \in Objects \ {o} : objs[p] = obj[p]
      /\ \A p \in Objects : /\ objs[p] # NULL <=> obj[p] # NULL
                            /\ objs[p].number = obj[p].number
                            /\ objs[p].type = obj[p].type
  BY <1>1, AcquiredFacts DEF WasiInv, WasiTypes
<1>3. pa = Lease(o, path, follow, final)
  BY DEF o
<1>4. /\ pa \in LeaseType /\ pa.fo = o /\ pa.fds = <<obj[o].number>> /\ pa.paths = <<path>>
  <2>1. obj[o].number \in HostFds
    BY <1>1 DEF ObjectType
  <2>2. <<obj[o].number>> \in Seq(HostFds) /\ <<path>> \in Seq(Paths)
    BY <2>1
  <2> QED
    BY <1>1, <1>3, <2>2 DEF Lease, LeaseType
<1>5. pa # NULL /\ c \in CallType /\ stuck # t
  BY <1>4, NullLease, NotStuck
<1>6. Len(pa.fds) = 1 /\ pa.fds[1] = obj[o].number /\ pa.fds # << >> /\ pa.paths # << >>
  BY <1>4
<1>7. Steps(c)
  BY <1>5, <1>6 DEF Steps
<1>8. OwnNumbers(pa) = {}
  BY <1>6 DEF OwnNumbers
<1>9. Nums(c) = Nums(d)
  BY <1>5, <1>8 DEF Nums, Own
<1>10. Tidy(c)
  BY <1>5, <1>6, <1>8 DEF Tidy, Own
<1>11. \A p : Holds(c, p) = (IF o = p THEN 1 ELSE 0) + Holds(d, p)
  <2> TAKE p
  <2>1. Holds(c, p) = (IF o = p THEN 1 ELSE 0)
                      + (IF d.pa # NULL /\ d.pa.fo = p THEN 1 ELSE 0)
    BY <1>4, <1>5 DEF Holds
  <2>2. Holds(d, p) = (IF d.pa # NULL /\ d.pa.fo = p THEN 1 ELSE 0)
    BY DEF Holds
  <2> QED
    BY <2>1, <2>2
<1>12. CallUntainted(c, host)
  <2>1. d.pa # NULL => \A k \in 1 .. Len(d.pa.fds) : Untainted(host, d.pa.fds[k])
    BY DEF WasiInv, Below, CallUntainted
  <2>2. \A k \in 1 .. Len(pa.fds) : Untainted(host, pa.fds[k])
    BY <1>1, <1>6
  <2> QED
    BY <2>1, <2>2 DEF CallUntainted
<1>13. obj' = objs
  BY DEF o
<1> HIDE DEF objs
<1>14. Moved(t, c, r)
  <2>1. r \in HeapType
    BY <1>2 DEF HeapType, WasiInv, WasiTypes
  <2>2. \A p \in Objects : RefsOf(r.obj, p) = RefsOf(obj, p) - Holds(th[t], p) + Holds(c, p)
    <3> TAKE p \in Objects
    <3>1. Holds(d, p) \in Nat
      BY HoldsType
    <3>2. RefsOf(obj, p) \in Nat
      BY DEF RefsOf, WasiInv, WasiTypes, ObjectType
    <3>3. CASE p = o
      BY <1>2, <1>11, <3>1, <3>2, <3>3
    <3>4. CASE p # o
      BY <1>2, <1>11, <3>1, <3>2, <3>4 DEF RefsOf
    <3> QED
      BY <3>3, <3>4
  <2>3. stuck = NULL => OwnedOnce(r.obj, r.host, [NumsOf EXCEPT ![t] = Nums(c)], Gone)
    <3>1. [NumsOf EXCEPT ![t] = Nums(c)] = NumsOf
      BY <1>9, NumsOfFacts
    <3>2. stuck = NULL => OwnedOnce(obj, host, NumsOf, Gone)
      BY NumsOfFacts
    <3> QED
      BY <1>2, <3>1, <3>2 DEF OwnedOnce
  <2> QED
    BY <1>2, <1>5, <1>7, <1>10, <1>12, <2>1, <2>2, <2>3 DEF Moved
<1>15. r.obj = obj' /\ r.host = host'
  BY <1>13
<1> HIDE DEF r
<1> QED
  BY <1>14, <1>15, MovedInv

(* What path_get demands of the descriptor.                                *)
LEMMA PathGetInv ==
    ASSUME WasiInv, NEW t \in Threads, NEW q \in Requests, NEW fd \in FdTableSlots,
           PathGet(t, q, fd)
    PROVE  WasiInv'
<1> DEFINE o == entries[fd].object
           final == PathRights[q.op].final
           pa == Lease(o, q.path, q.follow, final)
           a == [Idle EXCEPT !.pc = "walk", !.op = q.op]
           c == [Idle EXCEPT !.pc = "walk", !.op = q.op, !.req = q, !.pa = pa]
<1>1. /\ th[t] = Idle /\ o # NULL
      /\ PathRights[q.op].rights \subseteq entries[fd].base
      /\ obj' = Acquired(obj, o) /\ th' = [th EXCEPT ![t] = c]
      /\ UNCHANGED <<entries, host, stuck, fs, lost>>
  BY DEF PathGet, Begin, fd_table_get_entry, WasiInv, Stepped, Steps
<1>2. q.op \in DOMAIN PathRights /\ q.path \in Paths /\ q.follow \in BOOLEAN
  BY PathAssumption
<1>3. OnlyDirectories(PathRights[q.op].rights) /\ final \in BOOLEAN
  BY <1>2, PathRightsGood DEF GoodTable
<1> HIDE DEF pa, final
<1>4. pa \in LeaseType => c \in CallType
  <2>1. Idle \in CallType
    BY IdleFacts
  <2>2. a \in CallType
    BY <1>2, <2>1 DEF CallType
  <2>3. c = [a EXCEPT !.req = q, !.pa = pa]
    BY Zenon
  <2> HIDE DEF a, c
  <2> QED
    BY <2>2, <2>3 DEF CallType
<1>5. c.pc = "walk" /\ c.fos = << >> /\ c.op = q.op /\ c.req = q /\ c.pa = pa /\ c.old = NULL
  BY DEF Idle
<1>6. th[t].old = NULL /\ th[t].fos = << >> /\ th[t].pc # "insert" /\ th[t].pa = NULL
  BY <1>1 DEF Idle
<1>7. pa = Lease(o, q.path, q.follow, final)
  BY DEF pa
<1> HIDE DEF c
<1>8. c.op \in DOMAIN PathRights /\ c.req \in Requests /\ c.old = th[t].pa
      /\ (c.old # NULL => PathRights[c.op].second # {} /\ c.old.fds # << >>)
  BY <1>2, <1>5, <1>6
<1> QED
  BY <1>1, <1>2, <1>3, <1>4, <1>5, <1>6, <1>7, <1>8, StartInv, ZenonT(30)

(* The second path of path_rename and path_link.                           *)
LEMMA SecondPathInv ==
    ASSUME WasiInv, NEW t \in Threads, NEW fd \in FdTableSlots, SecondPath(t, fd)
    PROVE  WasiInv'
<1> DEFINE o == entries[fd].object
           d == th[t]
           follow == FALSE
           final == TRUE
           pa == Lease(o, d.req.path2, follow, final)
           c == [d EXCEPT !.pc = "walk", !.old = d.pa, !.pa = pa]
<1>1. /\ d.pc = "leased" /\ d.old = NULL /\ o # NULL
      /\ Second(t) # {} /\ Second(t) \subseteq entries[fd].base
      /\ obj' = Acquired(obj, o) /\ th' = [th EXCEPT ![t] = c]
      /\ UNCHANGED <<entries, host, stuck, fs, lost>>
  BY DEF SecondPath, fd_table_get_entry
<1>2. /\ d \in CallType /\ d.pa \in LeaseType /\ d.fos = << >>
      /\ d.op \in DOMAIN PathRights /\ d.req \in Requests /\ d.pa.fds # << >>
  BY <1>1, WalkFacts DEF InPath
<1>3. OnlyDirectories(Second(t)) /\ d.req.path2 \in Paths
  BY <1>1, <1>2, PathRightsGood, PathAssumption DEF GoodTable, Second
<1> HIDE DEF pa
<1>4. pa \in LeaseType => c \in CallType
  BY <1>2 DEF CallType
<1>5. c.pc = "walk" /\ c.fos = d.fos /\ c.op = d.op /\ c.req = d.req /\ c.pa = pa /\ c.old = d.pa
  BY <1>2 DEF CallType
<1>6. pa = Lease(o, d.req.path2, follow, final) /\ follow \in BOOLEAN /\ final \in BOOLEAN
  BY DEF pa
<1> HIDE DEF c, follow, final
<1>7. c.old # NULL => PathRights[c.op].second # {} /\ c.old.fds # << >>
  BY <1>1, <1>2, <1>5 DEF Second
<1>8. c.fos = << >> /\ c.op \in DOMAIN PathRights /\ c.req \in Requests
      /\ d.fos = << >> /\ d.pc # "insert"
  BY <1>1, <1>2, <1>5
<1> QED
  BY <1>1, <1>3, <1>4, <1>5, <1>6, <1>7, <1>8, StartInv, ZenonT(30)

(* A lease is given back: the objects have one reference less.             *)
LEMMA PutRefs ==
    ASSUME NEW s \in HeapType, NEW pa \in LeaseType, s.obj[pa.fo] # NULL, NEW p \in Objects
    PROVE  RefsOf(Put(s, pa).obj, p) = RefsOf(s.obj, p) - (IF pa.fo = p THEN 1 ELSE 0)
           /\ RefsOf(s.obj, p) \in Nat
<1> DEFINE r == Put(s, pa)
<1>1. /\ RefsOf(r.obj, pa.fo) = RefsOf(s.obj, pa.fo) - 1
      /\ \A q \in Objects \ {pa.fo} : r.obj[q] = s.obj[q]
  BY PutFacts
<1>2. RefsOf(s.obj, p) \in Nat
  BY DEF RefsOf, HeapType, ObjectType
<1> HIDE DEF r
<1>3. RefsOf(r.obj, p) = RefsOf(s.obj, p) - (IF pa.fo = p THEN 1 ELSE 0)
  <2>1. CASE pa.fo = p
    BY <1>1, <1>2, <2>1
  <2>2. CASE pa.fo # p
    <3>1. RefsOf(r.obj, p) = RefsOf(s.obj, p)
      BY <1>1, <2>2 DEF RefsOf
    <3> QED
      BY <1>2, <2>2, <3>1
  <2> QED
    BY <2>1, <2>2
<1> QED
  BY <1>2, <1>3 DEF r

(* The end of a call: both leases are given back.                          *)
LEMMA EndInv ==
    ASSUME WasiInv, NEW t \in Threads, th[t].pc \in InPath,
           obj' = PutAll(Put(Heap, th[t].pa), t).obj, host' = PutAll(Put(Heap, th[t].pa), t).host,
           th' = [th EXCEPT ![t] = Idle], UNCHANGED <<entries, stuck, fs, lost>>
    PROVE  WasiInv'
<1> DEFINE d == th[t]
           r == Put(Heap, d.pa)
           s == PutAll(r, t)
           ns == [NumsOf EXCEPT ![t] = @ \ OwnNumbers(d.pa)]
<1>1. /\ d.pa \in LeaseType /\ d.pa # NULL /\ d.old \in LeaseType \cup {NULL} /\ d.fos = << >>
      /\ d.pa.fo \in Objects /\ obj[d.pa.fo] # NULL /\ stuck # t
      /\ NumsOf[t] = OwnNumbers(d.pa) \cup Own(d.old)
  BY WalkFacts, NumsOfFacts
<1>2. /\ d.old # NULL => d.old.fo \in Objects /\ obj[d.old.fo] # NULL
      /\ d.old # NULL /\ d.pa.fo = d.old.fo => RefsOf(obj, d.pa.fo) >= 2
  BY <1>1, CallObjects DEF WasiInv
<1>3. Heap \in HeapType /\ Heap.obj = obj /\ Heap.host = host
  BY HeapFacts DEF WasiInv
<1>4. r \in HeapType /\ Shrinks(Heap, r)
  BY <1>1, <1>3, PutFacts
<1>5. \A p \in Objects : /\ RefsOf(r.obj, p) = RefsOf(obj, p) - (IF d.pa.fo = p THEN 1 ELSE 0)
                         /\ RefsOf(obj, p) \in Nat
  BY <1>1, <1>3, PutRefs
<1>6. stuck = NULL => OwnedOnce(r.obj, r.host, ns, Gone)
  <2> SUFFICES ASSUME stuck = NULL PROVE OwnedOnce(r.obj, r.host, ns, Gone)
    OBVIOUS
  <2>1. OwnedOnce(Heap.obj, Heap.host, NumsOf, Gone) /\ NumsOf = [u \in Threads |-> NumsOf[u]]
    BY <1>3, NumsOfFacts
  <2>2. OwnNumbers(d.pa) \subseteq NumsOf[t] /\ Heap.obj[d.pa.fo] # NULL
    BY <1>1, <1>3
  <2> QED
    BY <1>1, <1>3, <2>1, <2>2, PutOwned
<1>7. \A p \in Objects : Holds(d, p) = (IF d.pa.fo = p THEN 1 ELSE 0)
                              + (IF d.old # NULL /\ d.old.fo = p THEN 1 ELSE 0)
                         /\ Holds(Idle, p) = 0
  <2> TAKE p \in Objects
  <2>1. 1 \notin DOMAIN d.fos /\ 2 \notin DOMAIN d.fos
    BY <1>1
  <2>2. Holds(d, p) = (IF d.pa.fo = p THEN 1 ELSE 0)
                              + (IF d.old # NULL /\ d.old.fo = p THEN 1 ELSE 0)
    BY <1>1, <2>1 DEF Holds
  <2> QED
    BY <2>2, IdleFacts
<1>8. ns = [u \in Threads |-> ns[u]] /\ ns[t] = NumsOf[t] \ OwnNumbers(d.pa)
  BY DEF NumsOf
<1>9. Nums(Idle) = {}
  BY IdleFacts
<1> HIDE DEF r, ns
<1>10. /\ s \in HeapType /\ Shrinks(Heap, s)
       /\ \A p \in Objects : RefsOf(s.obj, p) = RefsOf(obj, p) - Holds(d, p) + Holds(Idle, p)
       /\ stuck = NULL => OwnedOnce(s.obj, s.host, [NumsOf EXCEPT ![t] = Nums(Idle)], Gone)
  <2>1. CASE d.old = NULL
    <3>1. s = r
      BY <2>1 DEF PutAll
    <3>2. \A p \in Objects : RefsOf(r.obj, p) = RefsOf(obj, p) - Holds(d, p) + Holds(Idle, p)
      BY <1>5, <1>7, <2>1
    <3>3. ns = [NumsOf EXCEPT ![t] = Nums(Idle)]
      <4>1. NumsOf[t] = OwnNumbers(d.pa)
        BY <1>1, <2>1 DEF Own
      <4> QED
        BY <1>9, <4>1 DEF ns
    <3> HIDE DEF s
    <3> QED
      BY <1>4, <1>6, <3>1, <3>2, <3>3
  <2>2. CASE d.old # NULL
    <3>1. s = Put(r, d.old) /\ d.old \in LeaseType /\ Own(d.old) = OwnNumbers(d.old)
      BY <1>1, <2>2 DEF PutAll, Own
    <3>2. r.obj[d.old.fo] # NULL
      <4>1. RefsOf(obj, d.old.fo) >= 1
        BY <1>2, <1>3, <2>2 DEF RefsOf, HeapType, ObjectType
      <4>2. RefsOf(r.obj, d.old.fo) >= 1
        BY <1>2, <1>5, <2>2, <4>1
      <4> QED
        BY <4>2 DEF RefsOf
    <3>3. s \in HeapType /\ Shrinks(r, s)
      BY <1>4, <3>1, <3>2, PutFacts
    <3>4. \A p \in Objects : RefsOf(s.obj, p) = RefsOf(r.obj, p) - (IF d.old.fo = p THEN 1 ELSE 0)
      BY <1>4, <3>1, <3>2, PutRefs
    <3>5. \A p \in Objects : RefsOf(s.obj, p) = RefsOf(obj, p) - Holds(d, p) + Holds(Idle, p)
      BY <1>5, <1>7, <2>2, <3>4
    <3>6. Shrinks(Heap, s)
      BY <1>4, <3>3, ShrinksOnce
    <3>7. stuck = NULL => OwnedOnce(s.obj, s.host, [NumsOf EXCEPT ![t] = Nums(Idle)], Gone)
      <4> SUFFICES ASSUME stuck = NULL
                   PROVE  OwnedOnce(s.obj, s.host, [NumsOf EXCEPT ![t] = Nums(Idle)], Gone)
        OBVIOUS
      <4>0. OwnNumbers(d.pa) \cap Own(d.old) = {}
        BY WalkFacts
      <4>1. OwnNumbers(d.old) \subseteq ns[t] /\ ns[t] \subseteq OwnNumbers(d.old)
        BY <1>1, <1>8, <3>1, <4>0
      <4>2. OwnedOnce(r.obj, r.host, ns, Gone)
        BY <1>6
      <4>3. OwnedOnce(s.obj, s.host, [ns EXCEPT ![t] = @ \ OwnNumbers(d.old)], Gone)
        BY <1>4, <1>8, <3>1, <3>2, <4>1, <4>2, PutOwned
      <4>4. [ns EXCEPT ![t] = @ \ OwnNumbers(d.old)] = [NumsOf EXCEPT ![t] = Nums(Idle)]
        <5>1. [ns EXCEPT ![t] = @ \ OwnNumbers(d.old)] = [ns EXCEPT ![t] = {}]
          BY <1>8, <4>1
        <5>2. [ns EXCEPT ![t] = {}] = [NumsOf EXCEPT ![t] = {}]
          BY DEF ns, NumsOf
        <5> QED
          BY <1>9, <5>1, <5>2
      <4> HIDE DEF s
      <4> QED
        BY <4>3, <4>4
    <3> QED
      BY <3>3, <3>5, <3>6, <3>7
  <2> QED
    BY <2>1, <2>2
<1>11. obj' = s.obj /\ host' = s.host
  BY DEF r
<1> HIDE DEF s
<1>12. \A p \in Objects : s.obj[p] # NULL =>
           obj[p] # NULL /\ s.obj[p].number = obj[p].number /\ s.obj[p].type = obj[p].type
  BY <1>3, <1>10 DEF Shrinks
<1>13. \A m \in HostFds : s.host[m] = host[m] \/ s.host[m] \in Inside \cup {"sock", NULL}
  BY <1>3, <1>10 DEF Shrinks
<1>14. Moved(t, Idle, s)
  BY <1>1, <1>10, <1>12, <1>13, IdleFacts DEF Moved
<1> QED
  BY <1>11, <1>14, MovedInv

(* path_get fails, or the call is done.                                    *)
LEMMA PathEndsInv ==
    ASSUME WasiInv, NEW t \in Threads, PathGetFails(t) \/ PathPut(t)
    PROVE  WasiInv'
<1>1. th[t].pc \in InPath
  BY DEF PathGetFails, PathPut, EmptyPath, Absolute, Escapes, TooDeep, HostRefuses, Walking, InPath
<1>2. /\ obj' = PutAll(Put(Heap, th[t].pa), t).obj /\ host' = PutAll(Put(Heap, th[t].pa), t).host
      /\ th' = [th EXCEPT ![t] = Idle] /\ UNCHANGED <<entries, stuck, fs, lost>>
  BY DEF PathGetFails, PathPut
<1> QED
  BY <1>1, <1>2, EndInv

(* What a call had opened has no owner any more that will close it.        *)
LEMMA LostOwned ==
    ASSUME NEW objs, NEW hst, NEW nums, NEW gone, OwnedOnce(objs, hst, nums, gone),
           NEW t \in Threads, nums = [u \in Threads |-> nums[u]]
    PROVE  OwnedOnce(objs, hst, [nums EXCEPT ![t] = {}], gone \cup nums[t])
<1> DEFINE ns == [nums EXCEPT ![t] = {}]
           G == gone \cup nums[t]
<1>1. ns[t] = {} /\ \A u \in Threads : u # t => ns[u] = nums[u]
  OBVIOUS
<1> HIDE DEF ns
<1>2. ASSUME NEW n \in HostFds
      PROVE  LET holds(o) == objs[o] # NULL /\ objs[o].number = n
             IN /\ hst[n] = NULL => /\ \A o \in Objects : ~holds(o)
                                    /\ \A u \in Threads : n \notin ns[u]
                                    /\ n \notin G
                /\ \A o, p \in Objects : holds(o) /\ holds(p) => o = p
                /\ \A o \in Objects : holds(o) => n \notin G /\ \A u \in Threads : n \notin ns[u]
                /\ \A u, v \in Threads : n \in ns[u] /\ n \in ns[v] => u = v
                /\ \A u \in Threads : n \in ns[u] => n \notin G
                /\ hst[n] # NULL /\ n \notin StdHost =>
                      n \in G \/ (\E o \in Objects : holds(o)) \/ (\E u \in Threads : n \in ns[u])
  <2> DEFINE holds(o) == objs[o] # NULL /\ objs[o].number = n
  <2>1. /\ hst[n] = NULL => /\ \A o \in Objects : ~holds(o)
                            /\ \A u \in Threads : n \notin nums[u]
                            /\ n \notin gone
        /\ \A o, p \in Objects : holds(o) /\ holds(p) => o = p
        /\ \A o \in Objects : holds(o) => n \notin gone /\ \A u \in Threads : n \notin nums[u]
        /\ \A u, v \in Threads : n \in nums[u] /\ n \in nums[v] => u = v
        /\ \A u \in Threads : n \in nums[u] => n \notin gone
        /\ hst[n] # NULL /\ n \notin StdHost =>
              n \in gone \/ (\E o \in Objects : holds(o)) \/ (\E u \in Threads : n \in nums[u])
    BY DEF OwnedOnce
  <2> HIDE DEF holds
  <2>2. /\ hst[n] = NULL => /\ \A o \in Objects : ~holds(o)
                            /\ \A u \in Threads : n \notin ns[u]
                            /\ n \notin G
        /\ \A o, p \in Objects : holds(o) /\ holds(p) => o = p
        /\ \A o \in Objects : holds(o) => n \notin G /\ \A u \in Threads : n \notin ns[u]
        /\ \A u, v \in Threads : n \in ns[u] /\ n \in ns[v] => u = v
        /\ \A u \in Threads : n \in ns[u] => n \notin G
        /\ hst[n] # NULL /\ n \notin StdHost =>
              n \in G \/ (\E o \in Objects : holds(o)) \/ (\E u \in Threads : n \in ns[u])
    <3>1. \A u \in Threads : n \in ns[u] <=> u # t /\ n \in nums[u]
      BY <1>1
    <3>2. n \in G <=> n \in gone \/ n \in nums[t]
      OBVIOUS
    <3> HIDE DEF G
    <3> QED
      BY <2>1, <3>1, <3>2
  <2> QED
    BY <2>2 DEF holds
<1> QED
  BY <1>2 DEF OwnedOnce, ns

(* validate_path refuses: the leases of the call are lost.                 *)
LEMMA ValidateFailsInv ==
    ASSUME WasiInv, NEW t \in Threads, ValidateFails(t)
    PROVE  WasiInv'
<1> DEFINE d == th[t]
           more == IF d.old = NULL THEN << >> ELSE <<d.old>>
           L == Len(lost)
           r == Heap
<1>1. /\ d.pc \in InPath /\ lost' = lost \o <<d.pa>> \o more
      /\ th' = [th EXCEPT ![t] = Idle] /\ UNCHANGED <<entries, obj, host, stuck, fs>>
  BY DEF ValidateFails, InPath, fdVars
<1>2. /\ d.pa \in LeaseType /\ d.pa # NULL /\ d.old \in LeaseType \cup {NULL} /\ d.fos = << >>
      /\ stuck # t /\ NumsOf[t] = OwnNumbers(d.pa) \cup Own(d.old)
  BY <1>1, WalkFacts, NumsOfFacts
<1>3. lost \in Seq(LeaseType) /\ L \in Nat
  BY DEF WasiInv, WasiTypes
<1>4. r \in HeapType /\ r.obj = obj /\ r.host = host
  BY HeapFacts DEF WasiInv
<1>5. /\ lost' \in Seq(LeaseType) /\ Len(lost') = L + (IF d.old = NULL THEN 1 ELSE 2)
      /\ \A k \in 1 .. L : lost'[k] = lost[k]
      /\ lost'[L + 1] = d.pa /\ (d.old # NULL => lost'[L + 2] = d.old)
  <2>1. CASE d.old = NULL
    <3>1. lost' = lost \o <<d.pa>> \o << >>
      BY <1>1, <2>1
    <3> HIDE DEF more, d
    <3> QED
      BY <1>2, <1>3, <2>1, <3>1
  <2>2. CASE d.old # NULL
    <3>1. lost' = lost \o <<d.pa>> \o <<d.old>> /\ d.old \in LeaseType
      BY <1>1, <1>2, <2>2
    <3> HIDE DEF more, d
    <3> QED
      BY <1>2, <1>3, <2>2, <3>1
  <2> QED
    BY <2>1, <2>2
<1> HIDE DEF more, L
<1>6. DOMAIN lost = 1 .. L /\ DOMAIN lost' = 1 .. Len(lost')
  BY <1>3, <1>5 DEF L
<1>7. \A k : k \in DOMAIN lost' <=>
         k \in DOMAIN lost \/ k = L + 1 \/ (d.old # NULL /\ k = L + 2)
  BY <1>3, <1>5, <1>6
<1>8. L + 1 \notin DOMAIN lost /\ L + 2 \notin DOMAIN lost /\ L + 1 # L + 2
  BY <1>3, <1>6
<1>9. \A k \in DOMAIN lost : lost'[k] = lost[k]
  BY <1>5, <1>6
<1>10. ASSUME NEW o \in Objects
       PROVE  InLost(o)' = InLost(o) + Holds(d, o) /\ InLost(o) \in Nat /\ Holds(d, o) \in Nat
  <2> DEFINE X == {k \in DOMAIN lost : lost[k].fo = o}
             Y == {k \in DOMAIN lost' : lost'[k].fo = o}
             p == L + 1
             q == L + 2
  <2>1. IsFiniteSet(X) /\ p # q /\ InLost(o) \in Nat
    BY <1>8, CountTypes DEF WasiInv
  <2>2. \A x : x = p \/ x = q \/ (x \in X <=> x \in Y)
    BY <1>7, <1>9
  <2>3. /\ p \notin X /\ q \notin X
        /\ p \in Y <=> d.pa.fo = o
        /\ q \in Y <=> d.old # NULL /\ d.old.fo = o
    BY <1>5, <1>7, <1>8
  <2>4. InLost(o) = Cardinality(X) /\ InLost(o)' = Cardinality(Y)
    BY DEF InLost
  <2> HIDE DEF X, Y, p, q
  <2>5. /\ Cardinality(X) \in Nat /\ Cardinality(Y) \in Nat
        /\ Cardinality(Y) = Cardinality(X) - In(p, X) - In(q, X) + In(p, Y) + In(q, Y)
    BY ONLY <2>1, <2>2, TwoPlaces
  <2>6. Holds(d, o) = In(p, Y) + In(q, Y)
    <3>1. 1 \notin DOMAIN d.fos /\ 2 \notin DOMAIN d.fos
      BY <1>2
    <3> QED
      BY <1>2, <2>3, <3>1 DEF Holds, In
  <2>7. In(p, X) = 0 /\ In(q, X) = 0 /\ In(p, Y) \in Nat /\ In(q, Y) \in Nat
    BY <2>3 DEF In
  <2> QED
    BY <2>1, <2>4, <2>5, <2>6, <2>7
<1>11. Gone' = Gone \cup NumsOf[t]
  <2>1. Gone' = UNION {OwnNumbers(lost'[k]) : k \in DOMAIN lost'}
    BY DEF Gone, OwnNumbers
  <2>2. \A n : n \in UNION {OwnNumbers(lost'[k]) : k \in DOMAIN lost'} <=>
                 n \in Gone \/ n \in OwnNumbers(d.pa) \/ n \in Own(d.old)
    <3> TAKE n
    <3>1. n \in UNION {OwnNumbers(lost'[k]) : k \in DOMAIN lost'}
             <=> \E k \in DOMAIN lost' : n \in OwnNumbers(lost'[k])
      OBVIOUS
    <3>2. n \in Gone <=> \E k \in DOMAIN lost : n \in OwnNumbers(lost[k])
      BY DEF Gone
    <3>3. L + 1 \in DOMAIN lost' /\ lost'[L + 1] = d.pa
      BY <1>5, <1>7
    <3>4. CASE d.old = NULL
      <4>1. Own(d.old) = {}
        BY <3>4 DEF Own
      <4>2. \A k \in DOMAIN lost' : k \in DOMAIN lost \/ k = L + 1
        BY <1>7, <3>4
      <4>3. \A k \in DOMAIN lost : k \in DOMAIN lost'
        BY <1>7
      <4> QED
        BY <1>9, <3>1, <3>2, <3>3, <4>1, <4>2, <4>3
    <3>5. CASE d.old # NULL
      <4>1. Own(d.old) = OwnNumbers(d.old) /\ L + 2 \in DOMAIN lost' /\ lost'[L + 2] = d.old
        BY <1>5, <1>7, <3>5 DEF Own
      <4>2. \A k \in DOMAIN lost' : k \in DOMAIN lost \/ k = L + 1 \/ k = L + 2
        BY <1>7, <3>5
      <4>3. \A k \in DOMAIN lost : k \in DOMAIN lost'
        BY <1>7
      <4> QED
        BY <1>9, <3>1, <3>2, <3>3, <4>1, <4>2, <4>3
    <3> QED
      BY <3>4, <3>5
  <2> QED
    BY <1>2, <2>1, <2>2
<1>12. stuck = NULL => OwnedOnce(r.obj, r.host, [NumsOf EXCEPT ![t] = Nums(Idle)], Gone')
  <2> SUFFICES ASSUME stuck = NULL
               PROVE  OwnedOnce(r.obj, r.host, [NumsOf EXCEPT ![t] = Nums(Idle)], Gone')
    OBVIOUS
  <2>1. OwnedOnce(obj, host, NumsOf, Gone) /\ NumsOf = [u \in Threads |-> NumsOf[u]]
    BY NumsOfFacts
  <2>2. OwnedOnce(obj, host, [NumsOf EXCEPT ![t] = {}], Gone \cup NumsOf[t])
    BY <2>1, LostOwned
  <2>3. Nums(Idle) = {}
    BY IdleFacts
  <2> QED
    BY <1>4, <1>11, <2>2, <2>3
<1>13. \A o \in Objects : RefsOf(r.obj, o) - InEntries(o)' - InLost(o)'
             = RefsOf(obj, o) - InEntries(o) - InLost(o) - Holds(th[t], o) + Holds(Idle, o)
  <2> TAKE o \in Objects
  <2>1. InEntries(o)' = InEntries(o) /\ InEntries(o) \in Nat
    BY <1>1, CountTypes DEF InEntries, WasiInv
  <2>2. RefsOf(obj, o) \in Nat
    BY DEF RefsOf, WasiInv, WasiTypes, ObjectType
  <2>3. Holds(Idle, o) = 0
    BY IdleFacts
  <2> QED
    BY <1>4, <1>10, <2>1, <2>2, <2>3
<1>14. entries' \in [FdTableSlots -> EntryType] /\ fs' \in [DirNodes -> [Names -> Inside \cup {NULL}]]
  BY <1>1 DEF WasiInv, WasiTypes
<1>15. /\ \A fd, gd \in FdTableSlots :
             entries'[fd].object = entries'[gd].object /\ entries'[fd].object # NULL => fd = gd
       /\ \A fd \in FdTableSlots :
             entries'[fd].object # NULL /\ r.obj[entries'[fd].object] # NULL =>
                entries'[fd].base \subseteq MaxBase(r.obj[entries'[fd].object].type)
  BY <1>1, <1>4 DEF WasiInv, Entered
<1>16. \A o \in Objects : r.obj[o] # NULL =>
          \/ obj[o] # NULL /\ r.obj[o].number = obj[o].number /\ r.obj[o].type = obj[o].type
          \/ r.obj[o].type = "dir" => Untainted(r.host, r.obj[o].number)
  BY <1>4
<1>17. \A n \in HostFds : r.host[n] = host[n] \/ r.host[n] \in Inside \cup {"sock", NULL}
  BY <1>4
<1>18. obj' = r.obj /\ host' = r.host /\ stuck' = stuck /\ (stuck = t => Idle.pc = "insert")
  BY <1>1, <1>2, <1>4
<1>19. Idle \in CallType /\ Steps(Idle) /\ Tidy(Idle) /\ CallUntainted(Idle, r.host)
  BY IdleFacts
<1> HIDE DEF r
<1> QED
  BY <1>1, <1>4, <1>5, <1>12, <1>13, <1>14, <1>15, <1>16, <1>17, <1>18, <1>19, StepInv

(* path_open opens what lies below the directory: O_NOFOLLOW.              *)
LEMMA OpenedInside ==
    ASSUME WasiInv, NEW t \in Threads, th[t].pc = "leased", OpenedNode(t) # NULL
    PROVE  OpenedNode(t) \in Inside \cup {"sock"}
<1> DEFINE pa == th[t].pa
           dir == host[Last(pa.fds)]
<1>1. /\ pa.fds \in Seq(HostFds) /\ pa.fds # << >> /\ pa.file \in Names \cup {"."}
      /\ \A k \in 1 .. Len(pa.fds) : Untainted(host, pa.fds[k])
  BY WalkFacts DEF InPath, Steps
<1>2. Last(pa.fds) = pa.fds[Len(pa.fds)] /\ Len(pa.fds) \in Nat \ {0}
  BY <1>1, FrontLast
<1>3. dir \in Inside \cup {"sock", NULL}
  BY <1>1, <1>2 DEF Untainted
<1>4. CASE pa.file = "."
  <2>1. OpenedNode(t) = dir
    BY <1>4 DEF OpenedNode
  <2> QED
    BY <1>3, <2>1
<1>5. CASE pa.file # "."
  <2>1. pa.file \in Names
    BY <1>1, <1>5
  <2>2. dir \in DirNodes /\ OpenedNode(t) = fs[dir][pa.file]
    BY <1>5 DEF OpenedNode
  <2>3. fs \in [DirNodes -> [Names -> Inside \cup {NULL}]]
    BY DEF WasiInv, WasiTypes
  <2> HIDE DEF dir, pa
  <2> QED
    BY <2>1, <2>2, <2>3
<1> QED
  BY <1>4, <1>5

(* path_open: the new descriptor is open on a node, the lease given back.  *)
LEMMA OpenedMoved ==
    ASSUME WasiInv, NEW t \in Threads, th[t].pc = "leased", th[t].op \in Opens, HostFree # {},
           NEW node \in Inside \cup {"sock"}, NEW type \in Types,
           NEW base \in SUBSET RIGHTS_ALL, NEW inheriting \in SUBSET RIGHTS_ALL,
           base \subseteq MaxBase(type)
    PROVE  Moved(t, Inserting(Min(HostFree), type, base, inheriting),
                 Put([Heap EXCEPT !.host = HostOpened(Min(HostFree), node)], th[t].pa))
<1> DEFINE d == th[t]
           n == Min(HostFree)
           c == Inserting(n, type, base, inheriting)
           s == [Heap EXCEPT !.host = HostOpened(n, node)]
           r == Put(s, d.pa)
           ns == [NumsOf EXCEPT ![t] = @ \cup {n}]
<1>1. d.pc = "leased" /\ d.pc \in InPath /\ d.op \in Opens /\ HostFree # {}
  BY DEF InPath
<1>2. /\ d.pa \in LeaseType /\ d.pa # NULL /\ d.fos = << >> /\ stuck # t
      /\ d.pa.fo \in Objects /\ obj[d.pa.fo] # NULL
      /\ NumsOf[t] = OwnNumbers(d.pa) \cup Own(d.old) /\ d.op \in DOMAIN PathRights /\ Steps(d)
  BY <1>1, WalkFacts, NumsOfFacts
<1>3. d.old = NULL
  <2>1. PathRights[d.op].second = {}
    BY <1>1, <1>2, PathRightsGood DEF GoodTable
  <2> QED
    BY <1>1, <1>2, <2>1 DEF Steps
<1>4. node \in Inside \cup {"sock"}
  OBVIOUS
<1>7. /\ n \in HostFds /\ host[n] = NULL
      /\ s \in HeapType /\ s.obj = obj /\ s.host = HostOpened(n, node)
      /\ \A m \in HostFds : s.host[m] = IF m = n THEN node ELSE host[m]
      /\ stuck = NULL => OwnedOnce(s.obj, s.host, ns, Gone)
  BY <1>1, <1>4, OpenedHeap
<1> HIDE DEF n
<1>8. /\ c \in CallType /\ Steps(c) /\ Tidy(c) /\ Nums(c) = {n} /\ c.pc = "insert"
      /\ \A o : Holds(c, o) = 0
      /\ \A hst : (type = "dir" => Untainted(hst, n)) => CallUntainted(c, hst)
  BY <1>7, InsertingFacts
<1> HIDE DEF c
<1> HIDE DEF s
<1>9. s.obj[d.pa.fo] # NULL
  BY <1>2, <1>7
<1>10. r \in HeapType /\ Shrinks(s, r)
  BY <1>2, <1>7, <1>9, PutFacts
<1>11. \A p \in Objects : /\ RefsOf(r.obj, p) = RefsOf(s.obj, p) - (IF d.pa.fo = p THEN 1 ELSE 0)
                          /\ RefsOf(s.obj, p) \in Nat
  BY <1>2, <1>7, <1>9, PutRefs
<1>12. stuck = NULL => OwnedOnce(r.obj, r.host, [NumsOf EXCEPT ![t] = Nums(c)], Gone)
  <2> SUFFICES ASSUME stuck = NULL
               PROVE  OwnedOnce(r.obj, r.host, [NumsOf EXCEPT ![t] = Nums(c)], Gone)
    OBVIOUS
  <2>1. OwnedOnce(obj, host, NumsOf, Gone)
    BY NumsOfFacts
  <2>2. n \notin NumsOf[t]
    BY <1>7, <2>1 DEF OwnedOnce
  <2>3. NumsOf[t] = OwnNumbers(d.pa)
    BY <1>2, <1>3 DEF Own
  <2>4. ns = [u \in Threads |-> ns[u]] /\ ns[t] = OwnNumbers(d.pa) \cup {n}
    BY <2>3 DEF NumsOf
  <2>5. OwnedOnce(s.obj, s.host, ns, Gone) /\ OwnNumbers(d.pa) \subseteq ns[t]
    BY <1>7, <2>4
  <2>6. [ns EXCEPT ![t] = @ \ OwnNumbers(d.pa)] = [NumsOf EXCEPT ![t] = Nums(c)]
    <3>1. ns[t] \ OwnNumbers(d.pa) = {n}
      BY <2>2, <2>3, <2>4
    <3>2. [ns EXCEPT ![t] = @ \ OwnNumbers(d.pa)] = [ns EXCEPT ![t] = {n}]
      BY <2>4, <3>1
    <3>3. [ns EXCEPT ![t] = {n}] = [NumsOf EXCEPT ![t] = {n}]
      BY DEF NumsOf
    <3> QED
      BY <1>8, <3>2, <3>3
  <2> HIDE DEF ns
  <2>7. OwnedOnce(Put(s, d.pa).obj, Put(s, d.pa).host,
                  [ns EXCEPT ![t] = @ \ OwnNumbers(d.pa)], Gone)
    BY <1>2, <1>7, <1>9, <2>4, <2>5, PutOwned
  <2> QED
    BY <2>6, <2>7
<1>13. \A p \in Objects : Holds(d, p) = (IF d.pa.fo = p THEN 1 ELSE 0)
  <2> TAKE p \in Objects
  <2>1. 1 \notin DOMAIN d.fos /\ 2 \notin DOMAIN d.fos
    BY <1>2
  <2> QED
    BY <1>2, <1>3, <2>1 DEF Holds
<1>14. CallUntainted(c, r.host)
  <2>1. r.host[n] \in {node, NULL}
    BY <1>7, <1>10 DEF Shrinks
  <2>2. Untainted(r.host, n)
    BY <1>4, <2>1 DEF Untainted
  <2> QED
    BY <1>8, <2>2
<1> HIDE DEF r, ns
<1>15. \A p \in Objects : RefsOf(r.obj, p) = RefsOf(obj, p) - Holds(d, p) + Holds(c, p)
  BY <1>7, <1>8, <1>11, <1>13
<1>16. \A p \in Objects : r.obj[p] # NULL =>
           obj[p] # NULL /\ r.obj[p].number = obj[p].number /\ r.obj[p].type = obj[p].type
  BY <1>7, <1>10 DEF Shrinks
<1>17. \A m \in HostFds : r.host[m] = host[m] \/ r.host[m] \in Inside \cup {"sock", NULL}
  <2> TAKE m \in HostFds
  <2>1. r.host[m] \in {s.host[m], NULL}
    BY <1>10 DEF Shrinks
  <2> QED
    BY <1>4, <1>7, <2>1
<1>18. Moved(t, c, r)
  BY <1>2, <1>8, <1>10, <1>12, <1>14, <1>15, <1>16, <1>17 DEF Moved
<1> QED
  BY <1>18 DEF c, r, s, n

(* What is opened gets rights of its type.                                 *)
LEMMA OpenedRights ==
    ASSUME NEW type \in Types, NEW req
    PROVE  /\ MaxBase(type) \ ExcludedByMode(req) \in SUBSET RIGHTS_ALL
           /\ req.inheriting \cap MaxInheriting(type) \in SUBSET RIGHTS_ALL
           /\ MaxBase(type) \ ExcludedByMode(req) \subseteq MaxBase(type)
BY RightsTyped

(* path_open of what is there.                                             *)
LEMMA PathOpenedInv ==
    ASSUME WasiInv, NEW t \in Threads, PathOpened(t)
    PROVE  WasiInv'
<1> DEFINE node == OpenedNode(t)
           type == TypeOf(node)
           base == MaxBase(type) \ ExcludedByMode(th[t].req)
           inheriting == th[t].req.inheriting \cap MaxInheriting(type)
           c == Inserting(Min(HostFree), type, base, inheriting)
           r == Put([Heap EXCEPT !.host = HostOpened(Min(HostFree), node)], th[t].pa)
<1>1. /\ th[t].pc = "leased" /\ th[t].op \in Opens /\ node # NULL /\ HostFree # {}
      /\ obj' = r.obj /\ host' = r.host /\ th' = [th EXCEPT ![t] = c]
      /\ UNCHANGED <<entries, stuck, fs, lost>>
  BY DEF PathOpened
<1>2. node \in Inside \cup {"sock"}
  BY <1>1, OpenedInside
<1>3. type \in Types
  BY DEF TypeOf, Types
<1> HIDE DEF node, type
<1>4. base \in SUBSET RIGHTS_ALL /\ inheriting \in SUBSET RIGHTS_ALL /\ base \subseteq MaxBase(type)
  BY <1>3, OpenedRights
<1> HIDE DEF base, inheriting
<1>5. Moved(t, c, r)
  BY <1>1, <1>2, <1>3, <1>4, OpenedMoved
<1> QED
  BY <1>1, <1>5, MovedInv

(* path_open that creates a file: one name of the leased directory changes.*)
LEMMA PathCreatedInv ==
    ASSUME WasiInv, NEW t \in Threads, PathCreated(t)
    PROVE  WasiInv'
<1> DEFINE dir == host[Last(th[t].pa.fds)]
           name == th[t].pa.file
           base == MaxBase("file") \ ExcludedByMode(th[t].req)
           inheriting == th[t].req.inheriting \cap MaxInheriting("file")
           c == Inserting(Min(HostFree), "file", base, inheriting)
           r == Put([Heap EXCEPT !.host = HostOpened(Min(HostFree), NewFile)], th[t].pa)
<1>1. /\ th[t].pc = "leased" /\ th[t].op = "path_open_creat" /\ HostFree # {}
      /\ name \in Names /\ dir \in DirNodes
      /\ fs' = [fs EXCEPT ![dir][name] = NewFile]
      /\ obj' = r.obj /\ host' = r.host /\ th' = [th EXCEPT ![t] = c]
      /\ UNCHANGED <<entries, stuck, lost>>
  BY DEF PathCreated
<1>2. th[t].op \in Opens /\ NewFile \in Inside /\ "file" \in Types
  BY <1>1, PathAssumption DEF Opens, OpenRights, Types
<1>3. base \in SUBSET RIGHTS_ALL /\ inheriting \in SUBSET RIGHTS_ALL /\ base \subseteq MaxBase("file")
  BY <1>2, OpenedRights
<1>4. fs' \in [DirNodes -> [Names -> Inside \cup {NULL}]]
  <2>1. fs \in [DirNodes -> [Names -> Inside \cup {NULL}]]
    BY DEF WasiInv, WasiTypes
  <2> DEFINE g == [fs[dir] EXCEPT ![name] = NewFile]
  <2> HIDE DEF dir, name
  <2>2. g \in [Names -> Inside \cup {NULL}]
    BY <1>1, <1>2, <2>1
  <2>3. fs' = [fs EXCEPT ![dir] = g]
    BY <1>1
  <2> HIDE DEF g
  <2> QED
    BY <1>1, <2>1, <2>2, <2>3
<1> HIDE DEF base, inheriting
<1>5. Moved(t, c, r)
  BY <1>1, <1>2, <1>3, OpenedMoved
<1> HIDE DEF c, r, dir, name
<1>6. /\ c \in CallType /\ Steps(c) /\ (stuck = t => c.pc = "insert") /\ r \in HeapType
      /\ stuck = NULL => Tidy(c)
      /\ \A n \in HostFds : r.host[n] = host[n] \/ r.host[n] \in Inside \cup {"sock", NULL}
      /\ CallUntainted(c, r.host)
  BY <1>5 DEF Moved
<1>7. \A o \in Objects : RefsOf(r.obj, o) - InEntries(o)' - InLost(o)'
             = RefsOf(obj, o) - InEntries(o) - InLost(o) - Holds(th[t], o) + Holds(c, o)
  <2> TAKE o \in Objects
  <2>1. InEntries(o)' = InEntries(o) /\ InLost(o)' = InLost(o)
    BY <1>1 DEF InEntries, InLost
  <2>2. /\ InEntries(o) \in Nat /\ InLost(o) \in Nat /\ RefsOf(obj, o) \in Nat
        /\ Holds(th[t], o) \in Nat /\ Holds(c, o) \in Nat
    BY CountTypes, HoldsType DEF RefsOf, WasiInv, WasiTypes, ObjectType
  <2>3. RefsOf(r.obj, o) = RefsOf(obj, o) - Holds(th[t], o) + Holds(c, o)
    BY <1>5 DEF Moved
  <2> QED
    BY <2>1, <2>2, <2>3
<1>8. \A o \in Objects : r.obj[o] # NULL =>
           obj[o] # NULL /\ r.obj[o].number = obj[o].number /\ r.obj[o].type = obj[o].type
  BY <1>5 DEF Moved
<1>9. stuck = NULL => OwnedOnce(r.obj, r.host, [NumsOf EXCEPT ![t] = Nums(c)], Gone')
  <2>1. Gone' = Gone
    BY <1>1 DEF Gone
  <2> QED
    BY <1>5, <2>1 DEF Moved
<1>10. entries' \in [FdTableSlots -> EntryType] /\ lost' \in Seq(LeaseType)
  BY <1>1 DEF WasiInv, WasiTypes
<1>11. /\ \A fd, gd \in FdTableSlots :
             entries'[fd].object = entries'[gd].object /\ entries'[fd].object # NULL => fd = gd
       /\ \A fd \in FdTableSlots :
             entries'[fd].object # NULL /\ r.obj[entries'[fd].object] # NULL =>
                entries'[fd].base \subseteq MaxBase(r.obj[entries'[fd].object].type)
  <2>1. \A fd \in FdTableSlots : entries[fd].object # NULL => entries[fd].object \in Objects
    BY DEF WasiInv, WasiTypes, EntryType
  <2> QED
    BY <1>1, <1>8, <2>1 DEF WasiInv, Entered
<1> QED
  BY <1>1, <1>4, <1>6, <1>7, <1>8, <1>9, <1>10, <1>11, StepInv


(* Another program changes a name.                                         *)
LEMMA SwapNameInv ==
    ASSUME WasiInv, SwapName
    PROVE  WasiInv'
<1>1. fs' \in [DirNodes -> [Names -> Inside \cup {NULL}]]
  <2>1. PICK x \in Swaps : fs' = [fs EXCEPT ![x[1]][x[2]] = x[3]]
    BY DEF SwapName
  <2>2. x[1] \in DirNodes /\ x[2] \in Names /\ x[3] \in Inside
    BY FilesAssumption
  <2>3. fs \in [DirNodes -> [Names -> Inside \cup {NULL}]]
    BY DEF WasiInv, WasiTypes
  <2> DEFINE g == [fs[x[1]] EXCEPT ![x[2]] = x[3]]
  <2>4. g \in [Names -> Inside \cup {NULL}]
    BY <2>2, <2>3
  <2>5. fs' = [fs EXCEPT ![x[1]] = g]
    BY <2>1
  <2> HIDE DEF g
  <2> QED
    BY <2>2, <2>3, <2>4, <2>5
<1>2. UNCHANGED <<entries, obj, host, th, stuck, lost>>
  BY DEF SwapName, fdVars
<1>3. (WasiTypes /\ Stepped)'
  BY <1>1, <1>2 DEF WasiInv, WasiTypes, Stepped
<1>4. Counted'
  BY <1>2 DEF WasiInv, Counted, Count, InEntries, InLeases, InLost, InUse, Leases, LeaseOf, RefsOf
<1>5. (Entered /\ Below)'
  BY <1>2 DEF WasiInv, Entered, Below, Confined
<1>6. Owned'
  BY <1>2 DEF WasiInv, Owned, Gone
<1> QED
  BY <1>3, <1>4, <1>5, <1>6 DEF WasiInv

----------------------------------------------------------------------------
(* The theorems *)

(* What the embedder hands over is exact.                                  *)
LEMMA InitInv ==
    ASSUME PathInit
    PROVE  WasiInv
<1> DEFINE D == DOMAIN Existing
           pick == CHOOSE f \in [DOMAIN Existing -> Objects] : IsInjective(f)
           of(o) == CHOOSE fd \in DOMAIN Existing : pick[fd] = o
           at(n) == CHOOSE fd \in DOMAIN Existing : Existing[fd].host = n
<1>1. /\ entries = [fd \in FdTableSlots |->
             IF fd \in D
             THEN [object |-> pick[fd], base |-> MaxBase(Existing[fd].type),
                   inheriting |-> MaxInheriting(Existing[fd].type)]
             ELSE NoEntry]
      /\ obj = [o \in Objects |->
             IF \E fd \in D : pick[fd] = o
             THEN [refs |-> 1, number |-> Existing[of(o)].host, type |-> Existing[of(o)].type]
             ELSE NULL]
      /\ host = [n \in HostFds |->
             IF \E fd \in D : Existing[fd].host = n THEN Existing[at(n)].file ELSE NULL]
      /\ th = [t \in Threads |-> Idle] /\ stuck = NULL
      /\ fs = FileSystem /\ lost = << >>
  BY DEF PathInit, FdInit
<1>2. /\ pick \in [D -> Objects]
      /\ \A fd, gd \in D : pick[fd] = pick[gd] => fd = gd
  <2>1. pick \in [DOMAIN Existing -> Objects] /\ IsInjective(pick)
    BY WasiFdAssumption
  <2> HIDE DEF pick
  <2> QED
    BY <2>1 DEF IsInjective
<1> HIDE DEF pick
<1>3. /\ \A fd \in D : of(pick[fd]) = fd
      /\ \A o \in Objects : (\E fd \in D : pick[fd] = o) => of(o) \in D /\ pick[of(o)] = o
  BY <1>2
<1>4. /\ \A fd \in D : at(Existing[fd].host) = fd
      /\ \A n : (\E fd \in D : Existing[fd].host = n) => at(n) \in D /\ Existing[at(n)].host = n
  BY ExistingAssumption
<1>5. /\ D \subseteq FdTableSlots
      /\ \A fd \in D : /\ Existing[fd].host \in HostFds /\ Existing[fd].type \in Types
                       /\ Existing[fd].file # NULL /\ Existing[fd].file \in Files
      /\ \A fd, gd \in D : Existing[fd].host = Existing[gd].host => fd = gd
  BY WasiFdAssumption, ExistingAssumption DEF Files
<1> HIDE DEF of, at, D
<1>6. /\ \A fd \in D : /\ entries[fd].object = pick[fd] /\ pick[fd] \in Objects
                       /\ entries[fd].base = MaxBase(Existing[fd].type)
                       /\ entries[fd] \in EntryType
      /\ \A fd \in FdTableSlots \ D : entries[fd].object = NULL /\ entries[fd] \in EntryType
  <2>1. ASSUME NEW fd \in D
        PROVE  /\ entries[fd].object = pick[fd] /\ pick[fd] \in Objects
               /\ entries[fd].base = MaxBase(Existing[fd].type)
               /\ entries[fd] \in EntryType
    <3>1. MaxBase(Existing[fd].type) \subseteq RIGHTS_ALL
          /\ MaxInheriting(Existing[fd].type) \subseteq RIGHTS_ALL
      BY <1>5, RightsTyped
    <3>2. entries[fd] = [object |-> pick[fd], base |-> MaxBase(Existing[fd].type),
                         inheriting |-> MaxInheriting(Existing[fd].type)]
      BY <1>1, <1>5
    <3>3. pick[fd] \in Objects
      BY <1>2
    <3> QED
      BY <3>1, <3>2, <3>3 DEF EntryType
  <2>2. ASSUME NEW fd \in FdTableSlots \ D
        PROVE  entries[fd].object = NULL /\ entries[fd] \in EntryType
    <3>1. entries[fd] = NoEntry
      BY <1>1
    <3> QED
      BY <3>1 DEF NoEntry, EntryType
  <2> QED
    BY <2>1, <2>2
<1>7. /\ \A fd \in D : /\ obj[pick[fd]] \in ObjectType /\ obj[pick[fd]] # NULL
                       /\ obj[pick[fd]].refs = 1
                       /\ obj[pick[fd]].number = Existing[fd].host
                       /\ obj[pick[fd]].type = Existing[fd].type
      /\ \A o \in Objects : obj[o] # NULL => \E fd \in D : pick[fd] = o
  <2>1. ASSUME NEW fd \in D
        PROVE  /\ obj[pick[fd]] \in ObjectType
               /\ obj[pick[fd]].refs = 1
               /\ obj[pick[fd]].number = Existing[fd].host
               /\ obj[pick[fd]].type = Existing[fd].type
    <3>1. pick[fd] \in Objects /\ of(pick[fd]) = fd
      BY <1>2, <1>3
    <3>2. obj[pick[fd]] = [refs |-> 1, number |-> Existing[fd].host, type |-> Existing[fd].type]
      BY <1>1, <3>1
    <3> QED
      BY <1>5, <3>2 DEF ObjectType
  <2>2. \A o \in Objects : obj[o] # NULL => \E fd \in D : pick[fd] = o
    BY <1>1
  <2> QED
    BY <2>1, <2>2, NullObject
<1>8. /\ \A fd \in D : host[Existing[fd].host] = Existing[fd].file
      /\ \A n \in HostFds : host[n] # NULL => \E fd \in D : Existing[fd].host = n
  BY <1>1, <1>4, <1>5
<1>9. \A t \in Threads : th[t] = Idle
  BY <1>1
<1>10. WasiTypes
  <2>1. entries \in [FdTableSlots -> EntryType]
    <3>1. \A fd \in FdTableSlots : entries[fd] \in EntryType
      BY <1>6
    <3>2. entries = [fd \in FdTableSlots |-> entries[fd]]
      BY <1>1
    <3> QED
      BY <3>1, <3>2
  <2>2. obj \in [Objects -> ObjectType \cup {NULL}]
    <3>1. \A o \in Objects : obj[o] \in ObjectType \cup {NULL}
      BY <1>7
    <3>2. obj = [o \in Objects |-> obj[o]]
      BY <1>1
    <3> QED
      BY <3>1, <3>2
  <2>3. host \in [HostFds -> Files \cup {NULL}]
    <3>1. \A n \in HostFds : host[n] \in Files \cup {NULL}
      BY <1>5, <1>8
    <3>2. host = [n \in HostFds |-> host[n]]
      BY <1>1
    <3> QED
      BY <3>1, <3>2
  <2>4. th \in [Threads -> CallType]
    BY <1>1, IdleFacts
  <2>5. fs \in [DirNodes -> [Names -> Inside \cup {NULL}]] /\ lost \in Seq(LeaseType)
        /\ stuck \in Threads \cup {NULL, CRASHED}
    BY <1>1, FilesAssumption
  <2> QED
    BY <2>1, <2>2, <2>3, <2>4, <2>5 DEF WasiTypes
<1>11. Stepped
  BY <1>9, IdleFacts DEF Stepped
<1>12. Counted
  <2>1. ASSUME NEW o \in Objects PROVE Count(o) = RefsOf(obj, o)
    <3>1. {l \in Leases : LeaseOf(l).fo = o} = {}
      <4>1. Leases = {}
        BY <1>9 DEF Leases, Idle
      <4> QED
        BY <4>1
    <3>2. {k \in DOMAIN lost : lost[k].fo = o} = {}
      BY <1>1
    <3>3. {k \in Threads \X (1 .. 2) :
              k[2] \in DOMAIN th[k[1]].fos /\ th[k[1]].fos[k[2]] = o} = {}
      BY <1>9 DEF Idle
    <3>4. InLeases(o) = 0 /\ InLost(o) = 0 /\ InUse(o) = 0
      BY <3>1, <3>2, <3>3, FS_EmptySet DEF InLeases, InLost, InUse
    <3>5. InEntries(o) = RefsOf(obj, o)
      <4>1. CASE \E fd \in D : pick[fd] = o
        <5>1. PICK fd \in D : pick[fd] = o
          BY <4>1
        <5>0. o # NULL /\ fd \in FdTableSlots /\ entries[fd].object = o
          BY <1>5, <1>6, <5>1, NullObject
        <5>2. {gd \in FdTableSlots : entries[gd].object = o} = {fd}
          <6>1. ASSUME NEW gd \in FdTableSlots, entries[gd].object = o PROVE gd = fd
            <7>1. gd \in D
              BY <1>6, <5>0, <6>1
            <7> QED
              BY <1>2, <1>6, <5>1, <6>1, <7>1
          <6> QED
            BY <5>0, <6>1
        <5>3. InEntries(o) = 1
          BY <5>2, FS_Singleton DEF InEntries
        <5>4. RefsOf(obj, o) = 1
          BY <1>7, <5>1 DEF RefsOf
        <5> QED
          BY <5>3, <5>4
      <4>2. CASE ~ \E fd \in D : pick[fd] = o
        <5>1. {gd \in FdTableSlots : entries[gd].object = o} = {}
          BY <1>6, <4>2, NullObject
        <5>2. InEntries(o) = 0
          BY <5>1, FS_EmptySet DEF InEntries
        <5>3. RefsOf(obj, o) = 0
          BY <1>7, <4>2 DEF RefsOf
        <5> QED
          BY <5>2, <5>3
      <4> QED
        BY <4>1, <4>2
    <3>6. RefsOf(obj, o) \in Nat
      BY <1>10 DEF RefsOf, WasiTypes, ObjectType
    <3> QED
      BY <3>4, <3>5, <3>6 DEF Count
  <2>2. \A o \in Objects : RefsOf(obj, o) \in Nat
    BY <1>10 DEF RefsOf, WasiTypes, ObjectType
  <2> QED
    BY <1>1, <2>1, <2>2, NullObject DEF Counted
<1>13. Entered
  <2>0. \A fd \in FdTableSlots : entries[fd].object # NULL => fd \in D
    BY <1>6
  <2>1. ASSUME NEW fd \in FdTableSlots, NEW gd \in FdTableSlots,
               entries[fd].object = entries[gd].object, entries[fd].object # NULL
        PROVE  fd = gd
    <3>1. fd \in D /\ gd \in D
      BY <2>0, <2>1
    <3> QED
      BY <1>2, <1>6, <2>1, <3>1
  <2>2. ASSUME NEW fd \in FdTableSlots, entries[fd].object # NULL
        PROVE  entries[fd].base \subseteq MaxBase(obj[entries[fd].object].type)
    <3>1. fd \in D
      BY <2>0, <2>2
    <3>2. entries[fd].object = pick[fd] /\ entries[fd].base = MaxBase(Existing[fd].type)
          /\ obj[pick[fd]].type = Existing[fd].type
      BY <1>6, <1>7, <3>1
    <3> QED
      BY <3>2
  <2> QED
    BY <2>1, <2>2 DEF Entered
<1>14. Below
  <2>1. Confined
    <3>1. ASSUME NEW n \in HostFds \ StdHost, host[n] # NULL
          PROVE  host[n] \in Inside \cup {"sock"}
      <4>1. PICK fd \in D : Existing[fd].host = n
        BY <1>8, <3>1
      <4>2. Existing[fd].file \in Inside \cup {"sock"}
        BY <4>1, FilesAssumption DEF D
      <4> QED
        BY <1>8, <4>1, <4>2
    <3> QED
      BY <3>1 DEF Confined
  <2>2. ASSUME NEW o \in Objects, obj[o] # NULL, obj[o].type = "dir"
        PROVE  Untainted(host, obj[o].number)
    <3>1. PICK fd \in D : pick[fd] = o
      BY <1>7, <2>2
    <3>2. Existing[fd].type = "dir" /\ obj[o].number = Existing[fd].host
      BY <1>7, <2>2, <3>1
    <3>3. Existing[fd].file \in Inside \cup {"sock"}
      BY <3>2, FilesAssumption DEF D
    <3> QED
      BY <1>8, <3>2, <3>3 DEF Untainted
  <2>3. \A t \in Threads : CallUntainted(th[t], host)
    BY <1>9, IdleFacts
  <2> QED
    BY <2>1, <2>2, <2>3 DEF Below
<1>15. Owned
  <2>1. Gone = {}
    BY <1>1 DEF Gone
  <2> DEFINE nums == [t \in Threads |-> Nums(th[t])]
  <2>2. \A t \in Threads : nums[t] = {}
    BY <1>9, IdleFacts
  <2> HIDE DEF nums
  <2>3. OwnedOnce(obj, host, nums, Gone)
    <3>1. ASSUME NEW n \in HostFds, NEW o \in Objects, obj[o] # NULL /\ obj[o].number = n
          PROVE  host[n] # NULL /\ \E fd \in D : pick[fd] = o /\ Existing[fd].host = n
      BY <1>5, <1>7, <1>8, <3>1
    <3>2. ASSUME NEW n \in HostFds, host[n] # NULL
          PROVE  \E o \in Objects : obj[o] # NULL /\ obj[o].number = n
      <4>1. PICK fd \in D : Existing[fd].host = n
        BY <1>8, <3>2
      <4> QED
        BY <1>2, <1>7, <4>1
    <3>3. ASSUME NEW n \in HostFds, NEW o \in Objects, NEW p \in Objects,
                 obj[o] # NULL /\ obj[o].number = n, obj[p] # NULL /\ obj[p].number = n
          PROVE  o = p
      BY <1>5, <3>1, <3>3
    <3> QED
      BY <2>1, <2>2, <3>1, <3>2, <3>3 DEF OwnedOnce
  <2>4. \A t \in Threads : Tidy(th[t])
    BY <1>9, IdleFacts
  <2> QED
    BY <2>3, <2>4 DEF Owned, nums
<1> QED
  BY <1>10, <1>11, <1>12, <1>13, <1>14, <1>15 DEF WasiInv

(* Every step of the app's threads, of the table and of another program.   *)
LEMMA NextInv ==
    ASSUME WasiInv, [Next]_vars
    PROVE  WasiInv'
<1>1. CASE FdNext /\ UNCHANGED <<fs, swaps, lost>>
  <2>1. PICK t \in Threads :
          \/ \E op \in FdCalls, fd \in FdTableSlots : fd_object_get(t, op, fd)
          \/ \E a, b \in DOMAIN Existing : PollGet(t, a, b)
          \/ fd_object_release(t)
          \/ \E fd \in FdTableSlots : fd_close(t, fd)
          \/ \E from, to \in FdTableSlots : fd_renumber(t, from, to)
          \/ \E fd \in FdTableSlots : fd_renumber_same(t, fd)
          \/ \E fd \in FdTableSlots, base \in RightsCalls :
                fd_fdstat_set_rights(t, fd, base, {})
          \/ sock_open(t) \/ sock_accept(t)
          \/ fd_table_insert_fd(t) \/ InsertFails(t)
    BY <1>1 DEF FdNext
  <2>2. CASE \E op \in FdCalls, fd \in FdTableSlots : fd_object_get(t, op, fd)
    BY <1>1, <2>2, GetInv
  <2>3. CASE \E a, b \in DOMAIN Existing : PollGet(t, a, b)
    BY <1>1, <2>3, PollInv
  <2>4. CASE fd_object_release(t)
    BY <1>1, <2>4, ReleaseInv
  <2>5. CASE \E fd \in FdTableSlots : fd_close(t, fd)
    BY <1>1, <2>5, CloseInv
  <2>6. CASE \E from, to \in FdTableSlots : fd_renumber(t, from, to)
    BY <1>1, <2>6, RenumberInv
  <2>10. CASE \E fd \in FdTableSlots : fd_renumber_same(t, fd)
    BY <1>1, <2>10, RenumberSameInv
  <2>7. CASE \E fd \in FdTableSlots, base \in RightsCalls : fd_fdstat_set_rights(t, fd, base, {})
    BY <1>1, <2>7, SetRightsInv
  <2>8. CASE sock_open(t) \/ sock_accept(t)
    BY <1>1, <2>8, SockOpenInv, SockAcceptInv
  <2>9. CASE fd_table_insert_fd(t) \/ InsertFails(t)
    BY <1>1, <2>9, InsertInv, InsertFailsInv
  <2> QED
    BY <2>1, <2>2, <2>3, <2>4, <2>5, <2>6, <2>7, <2>8, <2>9, <2>10
<1>2. CASE fd_table_destroy /\ UNCHANGED <<fs, swaps, lost>>
  BY <1>2, DestroyInv
<1>3. ASSUME NEW t \in Threads,
             \/ \E r \in Requests, fd \in FdTableSlots : PathGet(t, r, fd)
             \/ WalkSame(t) \/ WalkUp(t) \/ WalkDown(t) \/ WalkLink(t) \/ PushSymlink(t)
             \/ LastComponent(t) \/ PathGetFails(t) \/ PathGot(t)
             \/ \E fd \in FdTableSlots : SecondPath(t, fd)
             \/ PathPut(t) \/ ValidateFails(t) \/ PathOpened(t) \/ PathCreated(t)
      PROVE  WasiInv'
  <2>1. CASE \E r \in Requests, fd \in FdTableSlots : PathGet(t, r, fd)
    BY <2>1, PathGetInv
  <2>2. CASE WalkSame(t) \/ WalkUp(t) \/ WalkDown(t)
    BY <2>2, WalkSameInv, WalkUpInv, WalkDownInv
  <2>3. CASE WalkLink(t) \/ PushSymlink(t) \/ LastComponent(t) \/ PathGot(t)
    BY <2>3, WalkLinkInv, PushSymlinkInv, LastComponentInv, PathGotInv
  <2>4. CASE \E fd \in FdTableSlots : SecondPath(t, fd)
    BY <2>4, SecondPathInv
  <2>5. CASE PathGetFails(t) \/ PathPut(t)
    BY <2>5, PathEndsInv
  <2>6. CASE ValidateFails(t) \/ PathOpened(t) \/ PathCreated(t)
    BY <2>6, ValidateFailsInv, PathOpenedInv, PathCreatedInv
  <2> QED
    BY <1>3, <2>1, <2>2, <2>3, <2>4, <2>5, <2>6
<1>4. CASE SwapName
  BY <1>4, SwapNameInv
<1>5. CASE UNCHANGED vars
  <2>1. UNCHANGED <<entries, obj, host, th, stuck, fs, lost>>
    BY <1>5 DEF vars
  <2>2. (WasiTypes /\ Stepped)'
    BY <2>1 DEF WasiInv, WasiTypes, Stepped
  <2>3. Counted'
    BY <2>1 DEF WasiInv, Counted, Count, InEntries, InLeases, InLost, InUse, Leases, LeaseOf, RefsOf
  <2>4. (Entered /\ Below)'
    BY <2>1 DEF WasiInv, Entered, Below, Confined
  <2>5. Owned'
    BY <2>1 DEF WasiInv, Owned, Gone
  <2> QED
    BY <2>2, <2>3, <2>4, <2>5 DEF WasiInv
<1> QED
  BY <1>1, <1>2, <1>3, <1>4, <1>5 DEF Next

(* The inductive invariant of the descriptor table and of path_get.        *)
THEOREM WasiInvariant ==
    Spec => []WasiInv
<1>1. PathInit => WasiInv
  BY InitInv
<1>2. WasiInv /\ [Next]_vars => WasiInv'
  BY NextInv
<1> QED
  BY <1>1, <1>2, PTL DEF Spec

(* An fd_object has as many references as there are entries and calls that *)
(* refer to it, whatever is closed, renumbered or polled while calls use   *)
(* it, and one more for each lease that a refused path_link or path_symlink*)
(* never gives back: nothing else keeps fd_object_release from freeing it, *)
(* or lets it free it early.                                               *)
THEOREM RefsExactHolds ==
    Spec => []RefsExact
<1>1. WasiInv => RefsExact
  <2> SUFFICES ASSUME WasiInv, NEW o \in Objects, stuck = NULL
               PROVE  IF obj[o] = NULL THEN InTable(o) + Users(o) = 0 /\ Leaked(o) = 0
                      ELSE obj[o].refs - Leaked(o) = InTable(o) + Users(o)
    BY DEF RefsExact
  <2>1. Count(o) = RefsOf(obj, o)
    BY DEF WasiInv, Counted
  <2>2. InEntries(o) \in Nat /\ InLeases(o) \in Nat /\ InLost(o) \in Nat /\ InUse(o) \in Nat
    BY CountTypes DEF WasiInv
  <2>3. InTable(o) = InEntries(o) /\ Users(o) = InLeases(o) + InUse(o) /\ Leaked(o) = InLost(o)
    BY DEF InTable, Users, Leaked, InEntries, InLeases, InUse, InLost
  <2>4. obj[o] # NULL => obj[o].refs \in Nat
    BY DEF WasiInv, WasiTypes, ObjectType
  <2>5. Count(o) = InTable(o) + Users(o) + Leaked(o)
        /\ InTable(o) \in Nat /\ Users(o) \in Nat /\ Leaked(o) \in Nat
    <3>1. Count(o) = InEntries(o) + InLeases(o) + InLost(o) + InUse(o)
      BY DEF Count
    <3> QED
      BY <2>2, <2>3, <3>1
  <2>6. CASE obj[o] = NULL
    <3>1. Count(o) = 0
      BY <2>1, <2>6 DEF RefsOf
    <3>2. InTable(o) + Users(o) = 0 /\ Leaked(o) = 0
      BY <2>5, <3>1
    <3> QED
      BY <2>6, <3>2
  <2>7. CASE obj[o] # NULL
    <3>1. Count(o) = obj[o].refs
      BY <2>1, <2>7 DEF RefsOf
    <3>2. obj[o].refs - Leaked(o) = InTable(o) + Users(o)
      BY <2>4, <2>5, <2>7, <3>1
    <3> QED
      BY <2>7, <3>2
  <2> QED
    BY <2>6, <2>7
<1> QED
  BY <1>1, WasiInvariant, PTL

(* What a call opens or leases lies below the preopened directories:       *)
(* path_get opens component by component and never follows a link itself,  *)
(* so that no change of the file system under the walk leads outside.      *)
THEOREM ConfinedHolds ==
    Spec => []Confined
<1>1. WasiInv => Confined
  BY DEF WasiInv, Below
<1> QED
  BY <1>1, WasiInvariant, PTL

(* Every open descriptor of the host has exactly one owner, which will     *)
(* close it: an object, a walk or a call that inserts it. The only ones    *)
(* without are the directories that the calls of path_link or path_symlink *)
(* refused by validate_path had walked into: they stay open for ever.      *)
THEOREM HostExactHolds ==
    Spec => []HostExact
<1>1. WasiInv => HostExact
  <2> SUFFICES ASSUME WasiInv, stuck = NULL
               PROVE  LET objects == {o \in Objects : obj[o] # NULL}
                          owned == {obj[o].number : o \in objects}
                          walks == UNION {OwnNumbers(LeaseOf(l)) : l \in Leases}
                          new == {th[t].number : t \in {u \in Threads : th[u].pc = "insert"}}
                          orphans == UNION {OwnNumbers(lost[k]) : k \in DOMAIN lost}
                          open == {n \in HostFds : host[n] # NULL}
                      IN /\ (open \ orphans) \ StdHost = (owned \cup walks \cup new) \ StdHost
                         /\ orphans \subseteq open
                         /\ Cardinality(owned) = Cardinality(objects)
                         /\ owned \cap (walks \cup new) = {} /\ walks \cap new = {}
    BY DEF HostExact
  <2> DEFINE objects == {o \in Objects : obj[o] # NULL}
             owned == {obj[o].number : o \in objects}
             walks == UNION {OwnNumbers(LeaseOf(l)) : l \in Leases}
             new == {th[t].number : t \in {u \in Threads : th[u].pc = "insert"}}
             open == {n \in HostFds : host[n] # NULL}
  <2>1. OwnedOnce(obj, host, NumsOf, Gone) /\ \A t \in Threads : NumsOf[t] = Nums(th[t])
    BY NumsOfFacts
  <2>2. \A n : n \in owned <=> \E o \in Objects : obj[o] # NULL /\ obj[o].number = n
    OBVIOUS
  <2>3. \A n : n \in walks <=> \E t \in Threads : n \in Own(th[t].pa) \/ n \in Own(th[t].old)
    <3> TAKE n
    <3>1. n \in walks <=> \E l \in Leases : n \in OwnNumbers(LeaseOf(l))
      OBVIOUS
    <3>2. ASSUME NEW l \in Leases, n \in OwnNumbers(LeaseOf(l))
          PROVE  \E t \in Threads : n \in Own(th[t].pa) \/ n \in Own(th[t].old)
      <4>1. PICK t \in Threads : \/ l = <<t, "pa">> /\ th[t].pa # NULL
                                 \/ l = <<t, "old">> /\ th[t].old # NULL
        BY <3>2 DEF Leases
      <4>2. \/ LeaseOf(l) = th[t].pa /\ th[t].pa # NULL
            \/ LeaseOf(l) = th[t].old /\ th[t].old # NULL
        BY <4>1 DEF LeaseOf
      <4> QED
        BY <3>2, <4>2 DEF Own
    <3>3. ASSUME NEW t \in Threads, n \in Own(th[t].pa)
          PROVE  \E l \in Leases : n \in OwnNumbers(LeaseOf(l))
      <4>1. th[t].pa # NULL /\ n \in OwnNumbers(th[t].pa)
        BY <3>3 DEF Own
      <4>2. <<t, "pa">> \in Leases /\ LeaseOf(<<t, "pa">>) = th[t].pa
        BY <4>1 DEF Leases, LeaseOf
      <4> QED
        BY <4>1, <4>2
    <3>4. ASSUME NEW t \in Threads, n \in Own(th[t].old)
          PROVE  \E l \in Leases : n \in OwnNumbers(LeaseOf(l))
      <4>1. th[t].old # NULL /\ n \in OwnNumbers(th[t].old)
        BY <3>4 DEF Own
      <4>2. <<t, "old">> \in Leases /\ LeaseOf(<<t, "old">>) = th[t].old
        BY <4>1 DEF Leases, LeaseOf
      <4> QED
        BY <4>1, <4>2
    <3> QED
      BY <3>1, <3>2, <3>3, <3>4
  <2>4. \A n : n \in new <=> \E t \in Threads : th[t].pc = "insert" /\ th[t].number = n
    OBVIOUS
  <2>5. \A n : n \in walks \/ n \in new <=> \E t \in Threads : n \in NumsOf[t]
    <3> HIDE DEF walks, new
    <3>1. \A n, t : n \in Nums(th[t]) <=>
             n \in Own(th[t].pa) \/ n \in Own(th[t].old) \/ (th[t].pc = "insert" /\ th[t].number = n)
      BY DEF Nums
    <3>2. \A n, t : t \in Threads => (n \in NumsOf[t] <=>
             n \in Own(th[t].pa) \/ n \in Own(th[t].old) \/ (th[t].pc = "insert" /\ th[t].number = n))
      BY <2>1, <3>1
    <3> TAKE n
    <3>3. ASSUME n \in walks \/ n \in new PROVE \E t \in Threads : n \in NumsOf[t]
      BY <2>3, <2>4, <3>2, <3>3
    <3>4. ASSUME NEW t \in Threads, n \in NumsOf[t] PROVE n \in walks \/ n \in new
      BY <2>3, <2>4, <3>2, <3>4
    <3> QED
      BY <3>3, <3>4
  <2>6. owned \subseteq HostFds /\ Gone \subseteq HostFds /\ walks \subseteq HostFds
        /\ new \subseteq HostFds
    <3>1. \A pa \in LeaseType : OwnNumbers(pa) \subseteq HostFds
      <4> TAKE pa \in LeaseType
      <4>1. pa.fds \in Seq(HostFds)
        BY DEF LeaseType
      <4>2. \A k \in 2 .. Len(pa.fds) : pa.fds[k] \in HostFds
        BY <4>1
      <4> QED
        BY <4>2 DEF OwnNumbers
    <3>2. owned \subseteq HostFds
      BY <2>2 DEF WasiInv, WasiTypes, ObjectType
    <3>3. Gone \subseteq HostFds
      <4>1. \A k \in DOMAIN lost : lost[k] \in LeaseType
        BY DEF WasiInv, WasiTypes
      <4> QED
        BY <3>1, <4>1 DEF Gone
    <3>4. walks \subseteq HostFds
      <4>1. \A t \in Threads : th[t].pa \in LeaseType \cup {NULL} /\ th[t].old \in LeaseType \cup {NULL}
        BY DEF WasiInv, WasiTypes, CallType
      <4>2. \A t \in Threads : Own(th[t].pa) \subseteq HostFds /\ Own(th[t].old) \subseteq HostFds
        BY <3>1, <4>1 DEF Own
      <4> HIDE DEF walks
      <4> QED
        BY <2>3, <4>2
    <3>5. new \subseteq HostFds
      BY DEF WasiInv, Stepped, Steps
    <3> QED
      BY <3>2, <3>3, <3>4, <3>5
  <2>7. Cardinality(owned) = Cardinality(objects)
    <3> DEFINE f == [o \in objects |-> obj[o].number]
    <3>1. IsFiniteSet(objects)
      BY WasiFdAssumption, FS_Subset
    <3>2. \A a, b \in objects : obj[a].number = obj[b].number => a = b
      <4>1. \A a \in objects : obj[a].number \in HostFds
        BY <2>2, <2>6
      <4> QED
        BY <2>1, <4>1 DEF OwnedOnce
    <3>3. f \in [objects -> owned] /\ \A n \in owned : \E o \in objects : f[o] = n
      OBVIOUS
    <3> HIDE DEF owned
    <3>4. f \in Surjection(objects, owned)
      BY <3>3 DEF Surjection
    <3>5. f \in Injection(objects, owned)
      BY <3>2, <3>3 DEF Injection, IsInjective
    <3> HIDE DEF f, objects
    <3> QED
      BY <3>1, <3>4, <3>5, FS_Surjection
  <2>8. \A n : n \in open <=> n \in HostFds /\ host[n] # NULL
    OBVIOUS
  <2>9. \A n \in walks : n \notin new
    <3> SUFFICES ASSUME NEW n \in walks, n \in new PROVE FALSE
      OBVIOUS
    <3>1. PICK t \in Threads : n \in Own(th[t].pa) \/ n \in Own(th[t].old)
      BY <2>3
    <3>2. PICK u \in Threads : th[u].pc = "insert" /\ th[u].number = n
      BY <2>4
    <3>3. n \in NumsOf[t] /\ n \in NumsOf[u] /\ n \in HostFds
      BY <2>1, <2>6, <3>1, <3>2 DEF Nums
    <3>4. t = u
      BY <2>1, <3>3 DEF OwnedOnce
    <3>5. th[u].pa = NULL /\ th[u].old = NULL
      BY <3>2 DEF WasiInv, Stepped, Steps
    <3> QED
      BY <3>1, <3>4, <3>5 DEF Own
  <2> HIDE DEF owned, walks, new, open, objects
  <2>10. \A n \in HostFds :
           /\ n \in open /\ n \notin StdHost => n \in owned \/ n \in walks \/ n \in Gone \/ n \in new
           /\ n \in owned \/ n \in walks \/ n \in Gone \/ n \in new => n \in open
           /\ n \in owned => n \notin walks /\ n \notin new /\ n \notin Gone
           /\ n \in walks \/ n \in new => n \notin Gone
    <3> TAKE n \in HostFds
    <3>1. n \in open /\ n \notin StdHost => n \in owned \/ n \in walks \/ n \in Gone \/ n \in new
      BY <2>1, <2>2, <2>5, <2>8 DEF OwnedOnce
    <3>2. n \in owned \/ n \in walks \/ n \in Gone \/ n \in new => n \in open
      BY <2>1, <2>2, <2>5, <2>8 DEF OwnedOnce
    <3>3. n \in owned => n \notin walks /\ n \notin new /\ n \notin Gone
      BY <2>1, <2>2, <2>5 DEF OwnedOnce
    <3>4. n \in walks \/ n \in new => n \notin Gone
      BY <2>1, <2>5 DEF OwnedOnce
    <3> QED
      BY <3>1, <3>2, <3>3, <3>4
  <2>11. open \subseteq HostFds
    BY <2>8
  <2>12. /\ (open \ Gone) \ StdHost = (owned \cup walks \cup new) \ StdHost
         /\ Gone \subseteq open
         /\ owned \cap (walks \cup new) = {} /\ walks \cap new = {}
    BY <2>6, <2>9, <2>10, <2>11
  <2> QED
    BY <2>7, <2>12 DEF Gone, owned, walks, new, open, objects
<1> QED
  BY <1>1, WasiInvariant, PTL

(* A descriptor that stays on its object never gains rights:               *)
(* fd_fdstat_set_rights looks the entry up with the rights it is to get,   *)
(* and no call changes an entry in place otherwise.                        *)
THEOREM RightsShrinkHolds ==
    Spec => RightsShrink
<1> DEFINE Kept(fd) ==
              entries[fd].object # NULL /\ entries'[fd].object = entries[fd].object =>
                 /\ entries'[fd].base \subseteq entries[fd].base
                 /\ entries'[fd].inheriting \subseteq entries[fd].inheriting
           A == \A fd \in FdTableSlots : Kept(fd)
<1>1. WasiInv /\ [Next]_vars => A
  <2> SUFFICES ASSUME WasiInv, [Next]_vars, NEW gd \in FdTableSlots PROVE Kept(gd)
    OBVIOUS
  <2>0. entries \in [FdTableSlots -> EntryType] /\ NoEntry.object = NULL
    BY DEF WasiInv, WasiTypes, NoEntry
  <2>1. CASE UNCHANGED entries
    BY <2>1
  <2>2. CASE fd_table_destroy
    <3>1. entries'[gd] = NoEntry
      BY <2>2 DEF fd_table_destroy
    <3> QED
      BY <2>0, <3>1
  <2>3. ASSUME NEW t \in Threads, NEW fd \in FdTableSlots, fd_close(t, fd) PROVE Kept(gd)
    <3>1. entries' = [entries EXCEPT ![fd] = NoEntry]
      BY <2>3 DEF fd_close, Detached
    <3>2. entries'[gd] = NoEntry \/ entries'[gd] = entries[gd]
      BY <2>0, <3>1
    <3> QED
      BY <2>0, <3>2
  <2>4. ASSUME NEW t \in Threads, NEW from \in FdTableSlots, NEW to \in FdTableSlots,
               fd_renumber(t, from, to)
        PROVE  Kept(gd)
    <3> DEFINE e == entries[from]
               x == [object |-> e.object, base |-> e.base, inheriting |-> e.inheriting]
    <3>1. /\ entries' = [[entries EXCEPT ![to] = x] EXCEPT ![from] = NoEntry]
          /\ from # to /\ entries[from].object # NULL
      BY <2>4 DEF fd_renumber, Attached, Detached, fd_table_get_entry
    <3>2. x.object = e.object
      OBVIOUS
    <3>3. entries[to].object # e.object
      BY <3>1 DEF WasiInv, Entered
    <3> HIDE DEF x, e
    <3>4. \/ entries'[gd] = NoEntry \/ entries'[gd] = entries[gd]
          \/ gd = to /\ entries'[gd] = x
      BY <2>0, <3>1
    <3> QED
      BY <2>0, <3>2, <3>3, <3>4
  <2>9. ASSUME NEW t \in Threads, NEW fd \in FdTableSlots, fd_renumber_same(t, fd) PROVE Kept(gd)
    <3>1. entries' = [entries EXCEPT ![fd] = NoEntry]
      BY <2>9 DEF fd_renumber_same, Detached
    <3>2. entries'[gd] = NoEntry \/ entries'[gd] = entries[gd]
      BY <2>0, <3>1
    <3> QED
      BY <2>0, <3>2
  <2>5. ASSUME NEW t \in Threads, NEW fd \in FdTableSlots, NEW base, NEW inheriting,
               fd_fdstat_set_rights(t, fd, base, inheriting)
        PROVE  Kept(gd)
    <3>1. /\ entries' = [entries EXCEPT ![fd].base = base, ![fd].inheriting = inheriting]
          /\ base \subseteq entries[fd].base /\ inheriting \subseteq entries[fd].inheriting
      BY <2>5 DEF fd_fdstat_set_rights, fd_table_get_entry
    <3>2. CASE gd = fd
      <4>1. entries[gd] \in EntryType
        BY <2>0
      <4>2. entries'[gd].base = base /\ entries'[gd].inheriting = inheriting
        BY <2>0, <3>1, <3>2, <4>1 DEF EntryType
      <4> QED
        BY <3>1, <3>2, <4>2
    <3>3. CASE gd # fd
      <4>1. entries'[gd] = entries[gd]
        BY <2>0, <3>1, <3>3
      <4> QED
        BY <4>1
    <3> QED
      BY <3>2, <3>3
  <2>6. ASSUME NEW t \in Threads, fd_table_insert_fd(t) PROVE Kept(gd)
    <3>1. \/ UNCHANGED entries
          \/ \E fd, x : entries[fd].object = NULL /\ entries' = [entries EXCEPT ![fd] = x]
      BY <2>6 DEF fd_table_insert_fd, Attached
    <3>2. ASSUME NEW fd, NEW x, entries[fd].object = NULL, entries' = [entries EXCEPT ![fd] = x]
          PROVE  Kept(gd)
      <4>1. CASE gd = fd
        BY <3>2, <4>1
      <4>2. CASE gd # fd
        <5>1. entries'[gd] = entries[gd]
          BY <2>0, <3>2, <4>2
        <5> QED
          BY <5>1
      <4> QED
        BY <4>1, <4>2
    <3> QED
      BY <2>1, <3>1, <3>2
  <2> HIDE DEF Kept
  <2>7. CASE FdNext
    <3>1. PICK t \in Threads :
          \/ \E op \in FdCalls, fd \in FdTableSlots : fd_object_get(t, op, fd)
          \/ \E a, b \in DOMAIN Existing : PollGet(t, a, b)
          \/ fd_object_release(t)
          \/ \E fd \in FdTableSlots : fd_close(t, fd)
          \/ \E from, to \in FdTableSlots : fd_renumber(t, from, to)
          \/ \E fd \in FdTableSlots : fd_renumber_same(t, fd)
          \/ \E fd \in FdTableSlots, base \in RightsCalls :
                fd_fdstat_set_rights(t, fd, base, {})
          \/ sock_open(t) \/ sock_accept(t)
          \/ fd_table_insert_fd(t) \/ InsertFails(t)
      BY <2>7 DEF FdNext
    <3>2. CASE \/ \E op \in FdCalls, fd \in FdTableSlots : fd_object_get(t, op, fd)
               \/ \E a, b \in DOMAIN Existing : PollGet(t, a, b)
               \/ fd_object_release(t) \/ sock_open(t) \/ sock_accept(t) \/ InsertFails(t)
      <4>1. UNCHANGED entries
        BY <3>2 DEF fd_object_get, PollGet, fd_object_release, sock_open, sock_accept, InsertFails
      <4> QED
        BY <2>1, <4>1
    <3> QED
      BY <2>3, <2>4, <2>5, <2>6, <2>9, <3>1, <3>2
  <2>8. CASE \/ SwapName \/ UNCHANGED vars
             \/ \E t \in Threads :
                  \/ \E r \in Requests, fd \in FdTableSlots : PathGet(t, r, fd)
                  \/ WalkSame(t) \/ WalkUp(t) \/ WalkDown(t) \/ WalkLink(t) \/ PushSymlink(t)
                  \/ LastComponent(t) \/ PathGetFails(t) \/ PathGot(t)
                  \/ \E fd \in FdTableSlots : SecondPath(t, fd)
                  \/ PathPut(t) \/ ValidateFails(t) \/ PathOpened(t) \/ PathCreated(t)
    <3>1. CASE SwapName \/ UNCHANGED vars
      BY <2>1, <3>1 DEF SwapName, vars, fdVars
    <3>2. ASSUME NEW t \in Threads,
                 \/ WalkSame(t) \/ WalkUp(t) \/ WalkDown(t) \/ WalkLink(t) \/ PushSymlink(t)
                 \/ LastComponent(t) \/ PathGetFails(t) \/ PathGot(t)
          PROVE  UNCHANGED entries
      BY <3>2 DEF fdVars, WalkSame, WalkUp, WalkDown, WalkLink, PushSymlink,
                  LastComponent, PathGetFails, PathGot
    <3>3. ASSUME NEW t \in Threads,
                 \/ \E r \in Requests, fd \in FdTableSlots : PathGet(t, r, fd)
                 \/ \E fd \in FdTableSlots : SecondPath(t, fd)
                 \/ PathPut(t) \/ ValidateFails(t) \/ PathOpened(t) \/ PathCreated(t)
          PROVE  UNCHANGED entries
      BY <3>3 DEF fdVars, PathGet, SecondPath, PathPut, ValidateFails, PathOpened, PathCreated
    <3> QED
      BY <2>1, <2>8, <3>1, <3>2, <3>3
  <2> QED
    BY <2>2, <2>7, <2>8 DEF Next
<1>2. RightsShrink <=> [][A]_vars
  BY PTL DEF RightsShrink
<1>3. [Next]_vars /\ WasiInv => [A]_vars
  BY <1>1
<1> QED
  BY <1>2, <1>3, WasiInvariant, PTL DEF Spec
=============================================================================
