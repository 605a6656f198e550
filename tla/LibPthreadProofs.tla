--------------------------- MODULE LibPthreadProofs ---------------------------
(***************************************************************************)
(* What LibPthread promises, for any number of threads, environments and   *)
(* auxiliary stacks: no segment is lost or shared (AuxExact), a native     *)
(* thread is joined or detached once (Reclaimed), and pthread_join waits   *)
(* for the thread it was called for (JoinWaits).                           *)
(*                                                                         *)
(* The invariant IInv says whose each environment is, at which steps it is *)
(* in the list, what its handle and its count of joins say of the native   *)
(* thread, and why the environment a node leads to is that of its thread   *)
(* or the thread has ended.  Most steps are those of one thread p that     *)
(* leave the others and the environments alone: Moved(p), and the lemmas   *)
(* from MovedFramed to QuietInv, which leave to each action what it really *)
(* changes.                                                                *)
(***************************************************************************)
EXTENDS LibPthread, SequenceTheorems, TLAPS

Labels ==
    {"none", "run", "over", "create_thread", "create_wait", "create_fail2", "create_failed",
     "start", "init", "leave", "exit_detach", "exit_del", "exit_test", "destroy",
     "join_status", "joined", "traverse",
     "find", "join", "detach", "cancel", "os_thread_join", "joining"}
EnvType ==
    [alive : BOOLEAN, tid : Tid \cup {NULL}, handle : Tid \cup {NULL}, wait_count : Nat,
     detached : BOOLEAN, terminate : BOOLEAN, aux : Seg \cup {NULL}]
LocalType ==
    [exec_env : Addr \cup {NULL}, parent : Tid \cup {NULL}, new : Addr \cup {NULL},
     e : Addr \cup {NULL}, h : Tid \cup {NULL}, then : {"none", "join", "detach", "cancel"},
     back : {"none", "run", "traverse", "joined"}, ret : {0, 1}, info : Thread \cup {NULL},
     node : Addr \cup {NULL}, nextNode : Addr \cup {NULL}, self : Addr \cup {NULL},
     cancel : BOOLEAN, done : {"none", "destroy", "exit_del", "create_failed"}]
InfoType ==
    [alive : BOOLEAN, mapped : BOOLEAN, exec_env : Addr \cup {NULL},
     status : {"THREAD_INIT", "THREAD_RUNNING", "THREAD_CANCELLED", "THREAD_EXIT"},
     joinable : BOOLEAN, ret : Thread \cup {NULL}]

PthreadTypes ==
    /\ list \in Seq(Addr) /\ next \in [Addr -> Addr \cup {NULL}] /\ occupied \subseteq Seg
    /\ env \in [Addr -> EnvType] /\ destroyed \in BOOLEAN
    /\ native \in [Tid -> {"none", "running", "detached", "zombie", "gone"}]
    /\ pc \in [Tid -> Labels] /\ loc \in [Tid -> LocalType]
    /\ handle_id \in Nat \ {0} /\ info \in [Thread -> InfoType]
    /\ app \in [Thread -> {"none", "joinable", "joined", "detached"}]
    /\ ended \subseteq Thread
    /\ joined \in [Thread -> {"none", "failed", "value", "other"}]
    /\ createFailed \in BOOLEAN /\ aliased \in BOOLEAN

InCluster == {"find", "join", "detach", "cancel", "os_thread_join", "joining"}
Exits == {"exit_detach", "exit_del", "exit_test"}

(* What a thread's locals are at each of its steps.                        *)
Frame(p) ==
    /\ pc[p] \in {"none", "run", "create_thread", "create_wait", "create_fail2", "start",
                  "init", "leave", "exit_detach", "join_status", "joined"} => loc[p].done = "none"
    /\ pc[p] \in {"traverse", "destroy", "create_failed"} => loc[p].done # "none"
    /\ pc[p] = "create_failed" => loc[p].done = "create_failed"
    /\ loc[p].done \in {"destroy", "exit_del"} => p = 0
    /\ pc[p] = "destroy" => p = 0
    /\ pc[p] \in {"start", "init", "leave", "exit_detach"} => p # 0
    /\ pc[p] \in InCluster =>
          /\ loc[p].e # NULL /\ loc[p].then # "none" /\ loc[p].back # "none"
          /\ loc[p].back = "traverse" <=> loc[p].done # "none"
          /\ loc[p].then = "join" => loc[p].back \in {"traverse", "joined"}
          /\ loc[p].then = "detach" => loc[p].back = "run" /\ loc[p].info # NULL
          /\ loc[p].then = "cancel" => loc[p].back \in {"run", "traverse"}
          /\ loc[p].back = "joined" => loc[p].then = "join" /\ loc[p].info # NULL
    /\ pc[p] \in {"join", "detach", "cancel"} => loc[p].then = pc[p]
    /\ pc[p] \in {"os_thread_join", "joining"} => loc[p].then = "join"
    /\ pc[p] = "joining" => loc[p].h # NULL
    /\ pc[p] \in {"join_status", "joined"} => loc[p].info # NULL
    /\ pc[p] = "join_status" => loc[p].e # NULL
Framed == \A p \in Tid : Frame(p)

Runs(t) == pc[t] \notin {"none", "over"}
Creating(p) == pc[p] \in {"create_thread", "create_fail2"} \/ loc[p].done = "create_failed"

(* A thread that runs has an environment of its own, which is in the list  *)
(* until the thread takes it out.                                          *)
Own(t) ==
    LET a == loc[t].exec_env IN
    Runs(t) => /\ a # NULL /\ env[a].alive /\ env[a].tid = t
               /\ env[a].aux = NULL <=> t = 0
               /\ pc[t] # "start" => env[a].handle = t
               /\ pc[t] # "exit_test" => a \in ToSet(list)
Owners ==
    /\ \A t \in Tid : Own(t)
    /\ \A a, b \in Addr : env[a].alive /\ env[b].alive /\ env[a].tid = env[b].tid => a = b
    /\ \A a \in Addr : env[a].alive => env[a].tid # NULL /\ pc[env[a].tid] # "over"

(* A creation has its environment to itself, and threads not created yet   *)
(* have nothing.                                                           *)
Creator(p) ==
    LET a == loc[p].new IN
    Creating(p) => /\ a # NULL /\ env[a].alive /\ env[a].tid \in Thread /\ env[a].aux # NULL
                   /\ pc[env[a].tid] = "none"
Created ==
    /\ \A p \in Tid : Creator(p)
    /\ \A p, q \in Tid : Creating(p) /\ Creating(q) /\ loc[p].new = loc[q].new => p = q
    /\ \A a \in Addr : env[a].tid # NULL => env[a].tid < handle_id
    /\ \A t \in Thread : t >= handle_id => pc[t] = "none"
    /\ \A t \in Thread : pc[t] \in {"none", "start", "init"} =>
          app[t] = "none" /\ ~info[t].mapped /\ info[t].status = "THREAD_INIT"

Once(s) == \A j, k \in 1 .. Len(s) : s[j] = s[k] => j = k
Listed ==
    /\ Once(list)
    /\ \A p \in Tid : pc[p] = "create_thread" => loc[p].new \in ToSet(list)
    /\ \A a \in ToSet(list) :
          /\ env[a].alive
          /\ \A p \in Tid : Creating(p) /\ pc[p] # "create_thread" => loc[p].new # a
          /\ \A t \in Tid : pc[t] = "exit_test" => loc[t].exec_env # a

(* The handle of an environment, and what is known of the native thread.   *)
Handled ==
    /\ \A t \in Tid : native[t] = "none" <=> pc[t] = "none"
    /\ \A t \in Thread : native[t] \in {"zombie", "gone"} <=> pc[t] = "over"
    /\ native[0] \in {"running", "detached"}
    /\ \A t \in Tid : pc[t] = "start" =>
          native[t] = "running" /\ \A a \in Addr : env[a].handle # t
    /\ \A a \in Addr :
          LET h == env[a].handle IN
          /\ h \in {NULL, env[a].tid}
          /\ h # NULL => pc[h] # "none"
          /\ env[a].alive /\ h = NULL => ~env[a].detached
          /\ env[a].alive /\ h \in Thread => (env[a].detached <=> native[h] = "detached")
          /\ ~env[a].alive /\ h \in Thread => native[h] \in {"zombie", "gone"}
          /\ env[a].tid = 0 => a = MainEnv

AtJoin(p) == pc[p] \in {"os_thread_join", "joining"}
Joiner(t) == \E p \in Tid : AtJoin(p) /\ loc[p].h \in {t, NULL}

(* Joins are counted, and whoever is counted is joined or detached.        *)
Waits ==
    /\ \A p \in Tid : AtJoin(p) /\ loc[p].h \in Thread =>
          /\ native[loc[p].h] \notin {"none", "detached"} /\ pc[loc[p].h] # "start"
          /\ \A a \in Addr : env[a].alive /\ env[a].handle = loc[p].h => env[a].wait_count > 0
    /\ \A p, q \in Tid : \A t \in Thread : Joins(p, t) /\ Joins(q, t) => p = q
    /\ \A p \in Tid : pc[p] = "joining" /\ loc[p].h \in Thread => native[loc[p].h] # "gone"
    /\ \A t \in Thread : pc[t] \in {"exit_del", "exit_test"} =>
          env[loc[t].exec_env].detached \/ env[loc[t].exec_env].wait_count > 0
    /\ ~createFailed =>
          /\ \A a \in Addr : env[a].alive /\ env[a].tid \in Thread /\ env[a].wait_count > 0
                               => Joiner(env[a].tid)
          /\ \A t \in Thread : native[t] = "zombie" => Joiner(t)

(* Threads join later ones only.                                           *)
JoinCall(p) == pc[p] = "join_status" \/ (pc[p] \in InCluster /\ loc[p].back = "joined")
Order(p) ==
    /\ JoinCall(p) => loc[p].info > p /\ env[loc[p].e].tid >= loc[p].info
    /\ ~createFailed =>
          /\ pc[p] # "create_fail2"
          /\ pc[p] \in InCluster /\ loc[p].back = "traverse" => loc[p].e # MainEnv
          /\ loc[p].done # "none" => p = 0 /\ loc[p].self = MainEnv
          /\ pc[p] = "join" => env[loc[p].e].tid # NULL
          /\ AtJoin(p) /\ loc[p].h # NULL => loc[p].h > p
Ordered ==
    /\ \A h \in Thread : info[h].mapped =>
          info[h].exec_env # NULL /\ env[info[h].exec_env].tid >= h
    /\ \A p \in Tid : Order(p)

(* The environment e that the node of h leads to is that of thread h, or   *)
(* thread h has ended.                                                     *)
Leads(e, h) == h \in ended \/ (env[e].alive /\ env[e].tid = h /\ pc[h] # "none")
Asks(p) ==
    /\ JoinCall(p) => Leads(loc[p].e, loc[p].info) /\ app[loc[p].info] = "joined"
    /\ AtJoin(p) /\ loc[p].back = "joined" =>
          loc[p].h \in {NULL, loc[p].info} \/ loc[p].info \in ended
    /\ pc[p] = "joined" /\ loc[p].ret = 0 => aliased \/ loc[p].info \in ended
    /\ pc[p] \in InCluster /\ loc[p].then = "detach" => app[loc[p].info] = "detached"
Ends ==
    /\ \A t \in Thread : pc[t] \in Exits \cup {"leave", "over"} => t \in ended
    /\ \A h \in Thread :
          /\ info[h].mapped => Leads(info[h].exec_env, h)
          /\ app[h] = "joinable" => info[h].mapped \/ h \in ended
          /\ info[h].status = "THREAD_EXIT" => h \in ended
    /\ \A p \in Tid : Asks(p)
    /\ ~aliased => \A a \in Addr :
          env[a].alive /\ env[a].tid \in Thread /\ env[a].detached =>
              env[a].tid \in ended \/ app[env[a].tid] = "detached"
    /\ JoinWaits

IInv == PthreadTypes /\ Framed /\ Owners /\ Created /\ Listed /\ Handled /\ Waits /\ Ordered /\ Ends /\ AuxExact

----------------------------------------------------------------------------
(* The list of a cluster *)

(* What bh_list_remove leaves of a list that has the node once: the nodes  *)
(* before it and the nodes after it.                                       *)
LEMMA RemoveNode ==
    ASSUME NEW s \in Seq(Addr), NEW t \in Addr, Contains(s, t),
           \A j, k \in 1 .. Len(s) : s[j] = s[k] => j = k
    PROVE  LET rest == RemoveFirst(s, t)
           IN  /\ rest \in Seq(Addr)
               /\ \A k \in 1 .. Len(rest) : \E j \in 1 .. Len(s) :
                        rest[k] = s[j] /\ s[j] # t
               /\ \A j \in 1 .. Len(s) : s[j] # t =>
                        \E k \in 1 .. Len(rest) : rest[k] = s[j]
               /\ \A j, k \in 1 .. Len(rest) : rest[j] = rest[k] => j = k
<1>1. PICK n \in 1 .. Len(s) : s[n] = t
  BY DEF Contains
<1> DEFINE a == SubSeq(s, 1, n - 1)
           b == SubSeq(s, n + 1, Len(s))
           rest == RemoveFirst(s, t)
<1>2. rest = a \o b
  <2>1. {i \in 1 .. Len(s) : s[i] = t} = {n}
    BY <1>1
  <2>2. Min({n}) = n
    BY DEF Min
  <2>3. SelectInSeq(s, LAMBDA v : v = t) = n
    BY <2>1, <2>2 DEF SelectInSeq
  <2> QED
    BY <1>1, <2>3 DEF RemoveFirst, RemoveAt
<1>3. Len(s) \in Nat /\ n \in Nat /\ n >= 1 /\ n <= Len(s)
  OBVIOUS
<1>4. a \in Seq(Addr) /\ Len(a) = n - 1 /\ \A k \in 1 .. (n - 1) : a[k] = s[k]
  BY <1>3, SubSeqProperties
<1>5. /\ b \in Seq(Addr) /\ Len(b) = Len(s) - n
      /\ \A k \in 1 .. (Len(s) - n) : b[k] = s[n + k]
  BY <1>3, SubSeqProperties
<1> HIDE DEF a, b, rest
<1>6. /\ rest \in Seq(Addr) /\ Len(rest) = Len(s) - 1
      /\ \A k \in 1 .. (Len(s) - 1) : rest[k] = IF k < n THEN s[k] ELSE s[k + 1]
  <2>1. /\ a \o b \in Seq(Addr) /\ Len(a \o b) = Len(a) + Len(b)
        /\ \A k \in 1 .. Len(a) + Len(b) :
              (a \o b)[k] = IF k <= Len(a) THEN a[k] ELSE b[k - Len(a)]
    <3>1. a \in Seq(Addr) /\ b \in Seq(Addr)
      BY <1>4, <1>5
    <3> HIDE DEF a, b
    <3> QED
      BY <3>1, ConcatProperties
  <2>2. Len(a) + Len(b) = Len(s) - 1
    BY <1>3, <1>4, <1>5
  <2>3. ASSUME NEW k \in 1 .. (Len(s) - 1)
        PROVE  (a \o b)[k] = IF k < n THEN s[k] ELSE s[k + 1]
    <3>1. (a \o b)[k] = IF k <= n - 1 THEN a[k] ELSE b[k - (n - 1)]
      BY <2>1, <2>2, <1>4
    <3>2. CASE k < n
      BY <3>1, <3>2, <1>3, <1>4
    <3>3. CASE ~(k < n)
      <4>1. /\ k - (n - 1) \in 1 .. (Len(s) - n) /\ n + (k - (n - 1)) = k + 1
            /\ ~(k <= n - 1)
        BY <3>3, <1>3
      <4> QED
        BY <3>1, <3>3, <4>1, <1>5
    <3> QED
      BY <3>2, <3>3
  <2> QED
    BY <2>1, <2>2, <2>3, <1>2
<1>7. ASSUME NEW k \in 1 .. Len(rest)
      PROVE  \E j \in 1 .. Len(s) : rest[k] = s[j] /\ s[j] # t
  <2>1. CASE k < n
    BY <2>1, <1>1, <1>3, <1>6
  <2>2. CASE ~(k < n)
    <3>1. k + 1 \in 1 .. Len(s) /\ k + 1 # n
      BY <2>2, <1>3, <1>6
    <3> QED
      BY <2>2, <3>1, <1>1, <1>6
  <2> QED
    BY <2>1, <2>2
<1>8. ASSUME NEW j \in 1 .. Len(s), s[j] # t
      PROVE  \E k \in 1 .. Len(rest) : rest[k] = s[j]
  <2>1. CASE j < n
    BY <2>1, <1>3, <1>6
  <2>2. CASE j > n
    <3>1. j - 1 \in 1 .. Len(rest) /\ ~(j - 1 < n) /\ (j - 1) + 1 = j
      BY <2>2, <1>3, <1>6
    <3> QED
      BY <3>1, <1>6
  <2>3. j # n
    BY <1>1, <1>8
  <2> QED
    BY <2>1, <2>2, <2>3, <1>3
<1>9. ASSUME NEW j \in 1 .. Len(rest), NEW k \in 1 .. Len(rest), rest[j] = rest[k]
      PROVE  j = k
  <2> DEFINE at(m) == IF m < n THEN m ELSE m + 1
  <2>1. /\ rest[j] = s[at(j)] /\ rest[k] = s[at(k)]
        /\ at(j) \in 1 .. Len(s) /\ at(k) \in 1 .. Len(s)
    BY <1>3, <1>6
  <2>2. at(j) = at(k)
    BY <2>1, <1>9
  <2> QED
    BY <2>2, <1>3, <1>6
<1> QED
  BY <1>6, <1>7, <1>8, <1>9 DEF rest

(* The environments in a list.                                           *)
LEMMA ToSetIs ==
    ASSUME NEW s \in Seq(Addr)
    PROVE  ToSet(s) = {s[i] : i \in 1 .. Len(s)}
<1>1. DOMAIN s = 1 .. Len(s)
  OBVIOUS
<1> QED
  BY <1>1 DEF ToSet

(* bh_list_insert at the front.                                            *)
LEMMA InsertFacts ==
    ASSUME PthreadTypes, Listed, NEW a \in Addr, a \notin ToSet(list), bh_list_insert(a)
    PROVE  /\ list' \in Seq(Addr) /\ ToSet(list') = ToSet(list) \cup {a} /\ Once(list')
           /\ next' \in [Addr -> Addr \cup {NULL}]
<1>1. list \in Seq(Addr) /\ next \in [Addr -> Addr \cup {NULL}] /\ Once(list)
  BY DEF PthreadTypes, Listed
<1>2. list' = <<a>> \o list
  BY DEF bh_list_insert
<1>3. <<a>> \in Seq(Addr) /\ Len(<<a>>) = 1 /\ <<a>>[1] = a
  OBVIOUS
<1>4. /\ <<a>> \o list \in Seq(Addr) /\ Len(<<a>> \o list) = 1 + Len(list)
      /\ \A i \in 1 .. 1 + Len(list) : (<<a>> \o list)[i] = IF i <= 1 THEN <<a>>[i] ELSE list[i - 1]
  BY <1>1, <1>3, ConcatProperties
<1>5. /\ list' \in Seq(Addr) /\ Len(list') = 1 + Len(list) /\ Len(list) \in Nat
      /\ list'[1] = a /\ \A i \in 1 .. Len(list) : list'[i + 1] = list[i]
      /\ \A i \in 2 .. Len(list') : list'[i] = list[i - 1] /\ i - 1 \in 1 .. Len(list)
  <2>1. \A i \in 1 .. Len(list) : i + 1 \in 1 .. 1 + Len(list) /\ ~(i + 1 <= 1) /\ (i + 1) - 1 = i
    BY <1>1
  <2>2. \A i \in 2 .. 1 + Len(list) : i \in 1 .. 1 + Len(list) /\ ~(i <= 1) /\ i - 1 \in 1 .. Len(list)
    BY <1>1
  <2>3. 1 \in 1 .. 1 + Len(list) /\ Len(list) \in Nat
    BY <1>1
  <2> QED
    BY <1>2, <1>3, <1>4, <2>1, <2>2, <2>3
<1>6. ToSet(list) = {list[i] : i \in 1 .. Len(list)}
      /\ ToSet(list') = {list'[i] : i \in 1 .. Len(list')}
  BY <1>1, <1>5, ToSetIs
<1>7. ToSet(list') = ToSet(list) \cup {a}
  <2>1. ASSUME NEW i \in 1 .. Len(list') PROVE list'[i] \in ToSet(list) \cup {a}
    <3>1. i = 1 \/ i \in 2 .. Len(list')
      BY <1>5
    <3> QED
      BY <3>1, <1>5, <1>6
  <2>2. ASSUME NEW i \in 1 .. Len(list) PROVE list[i] \in ToSet(list')
    <3>1. i + 1 \in 1 .. Len(list') /\ list'[i + 1] = list[i]
      BY <1>5
    <3> QED
      BY <3>1, <1>6
  <2>3. a \in ToSet(list')
    <3>1. 1 \in 1 .. Len(list')
      BY <1>5
    <3> QED
      BY <3>1, <1>5, <1>6
  <2> QED
    BY <2>1, <2>2, <2>3, <1>6
<1>8. Once(list')
  <2>1. SUFFICES ASSUME NEW j \in 1 .. Len(list'), NEW k \in 1 .. Len(list'), list'[j] = list'[k]
                 PROVE  j = k
    BY DEF Once
  <2>2. \A i \in 1 .. Len(list') : i = 1 \/ i \in 2 .. Len(list')
    BY <1>5
  <2>3. \A i \in 2 .. Len(list') : list'[i] # a
    BY <1>5, <1>6
  <2>4. CASE j = 1 \/ k = 1
    BY <2>1, <2>2, <2>3, <2>4, <1>5
  <2>5. CASE j \in 2 .. Len(list') /\ k \in 2 .. Len(list')
    <3>1. list[j - 1] = list[k - 1] /\ j - 1 \in 1 .. Len(list) /\ k - 1 \in 1 .. Len(list)
      BY <2>1, <2>5, <1>5
    <3>2. j - 1 = k - 1
      BY <3>1, <1>1 DEF Once
    <3>3. j \in Nat /\ k \in Nat
      BY <2>5
    <3> QED
      BY <3>2, <3>3
  <2> QED
    BY <2>2, <2>4, <2>5
<1>9. next' \in [Addr -> Addr \cup {NULL}]
  <2>1. list # << >> => Head(list) \in Addr
    BY <1>1
  <2> QED
    BY <1>1, <2>1 DEF bh_list_insert
<1> QED
  BY <1>5, <1>7, <1>8, <1>9

(* bh_list_remove.                                                         *)
LEMMA RemoveFacts ==
    ASSUME PthreadTypes, Listed, NEW a \in Addr, bh_list_remove(a)
    PROVE  /\ list' \in Seq(Addr) /\ ToSet(list') = ToSet(list) \ {a} /\ Once(list')
           /\ next' \in [Addr -> Addr \cup {NULL}]
<1>1. list \in Seq(Addr) /\ next \in [Addr -> Addr \cup {NULL}] /\ Once(list)
  BY DEF PthreadTypes, Listed
<1>2. list' = RemoveFirst(list, a)
  BY DEF bh_list_remove
<1>3. next' \in [Addr -> Addr \cup {NULL}]
  BY <1>1 DEF bh_list_remove
<1>4. CASE Contains(list, a)
  <2>1. LET rest == RemoveFirst(list, a)
        IN  /\ rest \in Seq(Addr)
            /\ \A k \in 1 .. Len(rest) : \E j \in 1 .. Len(list) :
                     rest[k] = list[j] /\ list[j] # a
            /\ \A j \in 1 .. Len(list) : list[j] # a =>
                     \E k \in 1 .. Len(rest) : rest[k] = list[j]
            /\ \A j, k \in 1 .. Len(rest) : rest[j] = rest[k] => j = k
    BY <1>1, <1>4, RemoveNode DEF Once
  <2>2. /\ list' \in Seq(Addr) /\ Once(list')
        /\ \A k \in 1 .. Len(list') : \E j \in 1 .. Len(list) : list'[k] = list[j] /\ list[j] # a
        /\ \A j \in 1 .. Len(list) : list[j] # a => \E k \in 1 .. Len(list') : list'[k] = list[j]
    BY <2>1, <1>2 DEF Once
  <2>3. ToSet(list) = {list[i] : i \in 1 .. Len(list)}
        /\ ToSet(list') = {list'[i] : i \in 1 .. Len(list')}
    BY <1>1, <2>2, ToSetIs
  <2>4. \A x : x \in ToSet(list') => x \in ToSet(list) /\ x # a
    BY <2>2, <2>3
  <2>5. \A x : x \in ToSet(list) /\ x # a => x \in ToSet(list')
    BY <2>2, <2>3
  <2>6. ToSet(list') = ToSet(list) \ {a}
    BY <2>4, <2>5
  <2> QED
    BY <2>2, <2>6, <1>3
<1>5. CASE ~Contains(list, a)
  <2>1. list' = list
    BY <1>2, <1>5 DEF RemoveFirst, Contains
  <2>2. a \notin ToSet(list)
    BY <1>1, <1>5 DEF ToSet, Contains
  <2> QED
    BY <1>1, <1>3, <2>1, <2>2
<1> QED
  BY <1>4, <1>5

----------------------------------------------------------------------------
(* Steps of one thread *)

(* What most steps of a thread p leave alone: the other threads, but that  *)
(* one which waits for p to start is woken; what an environment is; and    *)
(* the list.                                                               *)
OthersStay(p) ==
    \A q \in Tid : q # p =>
        /\ loc'[q] = loc[q]
        /\ pc'[q] = pc[q] \/ (pc[q] = "create_wait" /\ pc'[q] = "run")
EnvSame ==
    \A a \in Addr : /\ env'[a].alive = env[a].alive /\ env'[a].tid = env[a].tid
                    /\ env'[a].handle = env[a].handle /\ env'[a].aux = env[a].aux
Stepped(p) ==
    /\ OthersStay(p) /\ EnvSame
    /\ pc[p] \notin {"none", "over", "start"}
    /\ pc'[p] \notin {"none", "over", "start", "init", "create_thread"}
    /\ loc'[p].exec_env = loc[p].exec_env
    /\ Creating(p)' => Creating(p) /\ loc'[p].new = loc[p].new
    /\ handle_id' = handle_id
Moved(p) ==
    /\ Stepped(p)
    /\ pc[p] # "exit_test" /\ pc'[p] # "exit_test"
    /\ Creating(p)' => pc[p] # "create_thread"
    /\ list' = list

(* The locals of the other threads stay what they were.                    *)
LEMMA MovedFramed ==
    ASSUME PthreadTypes, PthreadTypes', Framed, NEW p \in Tid, OthersStay(p), Frame(p)'
    PROVE  Framed'
<1>1. SUFFICES ASSUME NEW q \in Tid, q # p PROVE Frame(q)'
  BY DEF Framed
<1>2. Frame(q)
  BY DEF Framed
<1> QED
  BY <1>1, <1>2 DEF OthersStay, Frame, InCluster

(* No environment changes hands in such a step.                            *)
LEMMA MovedOwners ==
    ASSUME PthreadTypes, PthreadTypes', Owners, NEW p \in Tid, Moved(p)
    PROVE  Owners'
<1>1. ASSUME NEW t \in Tid PROVE Own(t)'
  <2>1. Own(t) /\ (Runs(t)' <=> Runs(t)) /\ loc'[t].exec_env = loc[t].exec_env
    BY DEF Owners, Moved, Stepped, OthersStay, Runs
  <2>2. loc[t].exec_env \in Addr \cup {NULL}
    BY DEF PthreadTypes, LocalType
  <2>3. /\ pc'[t] # "start" => pc[t] # "start"
        /\ pc'[t] # "exit_test" => pc[t] # "exit_test"
    BY DEF Moved, Stepped, OthersStay
  <2> QED
    BY <2>1, <2>2, <2>3 DEF Own, Moved, Stepped, EnvSame
<1>2. ASSUME NEW a \in Addr, NEW b \in Addr, env'[a].alive, env'[b].alive, env'[a].tid = env'[b].tid
      PROVE  a = b
  BY <1>2 DEF Owners, Moved, Stepped, EnvSame
<1>3. ASSUME NEW a \in Addr, env'[a].alive
      PROVE  env'[a].tid # NULL /\ pc'[env'[a].tid] # "over"
  <2>1. env[a].alive /\ env'[a].tid = env[a].tid /\ env[a].tid \in Tid \cup {NULL}
    BY <1>3 DEF Moved, Stepped, EnvSame, PthreadTypes, EnvType
  <2>2. env[a].tid # NULL /\ pc[env[a].tid] # "over"
    BY <2>1 DEF Owners
  <2> QED
    BY <2>1, <2>2 DEF Moved, Stepped, OthersStay
<1> QED
  BY <1>1, <1>2, <1>3 DEF Owners

(* Such a step disturbs no creation (wasm_cluster_create_thread) of        *)
(* another thread.                                                         *)
LEMMA MovedCreated ==
    ASSUME PthreadTypes, PthreadTypes', Created, NEW p \in Tid, Stepped(p),
           \A t \in Thread : pc'[t] \in {"none", "start", "init"} =>
               /\ app'[t] = app[t] /\ info'[t].mapped = info[t].mapped
               /\ info'[t].status = info[t].status
    PROVE  Created'
<1>1. ASSUME NEW q \in Tid PROVE Creating(q)' => Creating(q) /\ loc'[q].new = loc[q].new
  BY DEF Moved, Stepped, OthersStay, Creating
<1>2. ASSUME NEW q \in Tid PROVE Creator(q)'
  <2>1. SUFFICES ASSUME Creating(q)'
                 PROVE  LET a == loc'[q].new IN
                        /\ a # NULL /\ env'[a].alive /\ env'[a].tid \in Thread /\ env'[a].aux # NULL
                        /\ pc'[env'[a].tid] = "none"
    BY DEF Creator
  <2>2. Creating(q) /\ loc'[q].new = loc[q].new /\ Creator(q)
    BY <1>1, <2>1 DEF Created
  <2>3. loc[q].new \in Addr \cup {NULL}
    BY DEF PthreadTypes, LocalType
  <2>4. \A t \in Thread : pc[t] = "none" => pc'[t] = "none"
    BY DEF Moved, Stepped, OthersStay, Thread
  <2> QED
    BY <2>2, <2>3, <2>4 DEF Creator, Moved, Stepped, EnvSame
<1>3. \A t \in Thread : t \in Tid /\ (pc'[t] \in {"none", "start", "init"} <=>
                             pc[t] \in {"none", "start", "init"} /\ t # p)
  BY DEF Moved, Stepped, OthersStay, Thread
<1>4. \A a \in Addr : env'[a].tid # NULL => env'[a].tid < handle_id'
  BY DEF Created, Moved, Stepped, EnvSame
<1>5. \A t \in Thread : t >= handle_id' => pc'[t] = "none"
  BY DEF Created, Moved, Stepped, OthersStay, Thread
<1>6. \A t \in Thread : pc'[t] \in {"none", "start", "init"} =>
          app'[t] = "none" /\ ~info'[t].mapped /\ info'[t].status = "THREAD_INIT"
  BY <1>3 DEF Created
<1>7. \A q, r \in Tid : Creating(q)' /\ Creating(r)' /\ loc'[q].new = loc'[r].new => q = r
  BY <1>1 DEF Created
<1> QED
  BY <1>2, <1>4, <1>5, <1>6, <1>7 DEF Created

(* The list of the cluster, when a step leaves it alone.                   *)
LEMMA MovedListed ==
    ASSUME PthreadTypes, PthreadTypes', Listed, NEW p \in Tid, Moved(p)
    PROVE  Listed'
<1>1. list' = list /\ ToSet(list) \subseteq Addr
  BY ToSetIs DEF Moved, Stepped, PthreadTypes
<1>2. Once(list')
  BY <1>1 DEF Listed
<1>3. ASSUME NEW a \in ToSet(list')
      PROVE  /\ env'[a].alive
             /\ \A q \in Tid : Creating(q)' /\ pc'[q] # "create_thread" => loc'[q].new # a
             /\ \A t \in Tid : pc'[t] = "exit_test" => loc'[t].exec_env # a
  <2>1. a \in ToSet(list) /\ a \in Addr
    BY <1>1
  <2>2. env'[a].alive
    BY <2>1 DEF Listed, Moved, Stepped, EnvSame
  <2>3. ASSUME NEW q \in Tid, Creating(q)', pc'[q] # "create_thread" PROVE loc'[q].new # a
    BY <2>1, <2>3 DEF Listed, Moved, Stepped, OthersStay, Creating
  <2>4. ASSUME NEW t \in Tid, pc'[t] = "exit_test" PROVE loc'[t].exec_env # a
    BY <2>1, <2>4 DEF Listed, Moved, Stepped, OthersStay
  <2> QED
    BY <2>2, <2>3, <2>4
<1>4. ASSUME NEW q \in Tid, pc'[q] = "create_thread" PROVE loc'[q].new \in ToSet(list')
  BY <1>1, <1>4 DEF Listed, Moved, Stepped, OthersStay
<1> QED
  BY <1>2, <1>3, <1>4 DEF Listed

(* The segments, when a step gives none back (allocate_aux_stack,          *)
(* free_aux_stack).                                                        *)
LEMMA MovedAux ==
    ASSUME PthreadTypes, PthreadTypes', Owners, AuxExact, NEW p \in Tid, Stepped(p),
           occupied' = occupied,
           pc'[p] \in {"create_thread", "create_fail2"} <=> pc[p] \in {"create_thread", "create_fail2"},
           loc'[p].new = loc[p].new \/ pc[p] \notin {"create_thread", "create_fail2"},
           p # 0 => (pc'[p] \in Exits <=> pc[p] \in Exits),
           \A t \in Tid : native'[t] = "none" <=> native[t] = "none"
    PROVE  AuxExact'
<1>1. ASSUME NEW a \in Addr PROVE HasSegment(a)' <=> HasSegment(a)
  <2>1. SUFFICES ASSUME env[a].alive, env[a].aux # NULL PROVE HasSegment(a)' <=> HasSegment(a)
    BY DEF HasSegment, Moved, Stepped, EnvSame
  <2> DEFINE t == env[a].tid
  <2>2. t \in Tid /\ env'[a].tid = t /\ env'[a].alive /\ env'[a].aux # NULL
    BY <2>1 DEF Owners, Moved, Stepped, EnvSame, PthreadTypes, EnvType
  <2> HIDE DEF t
  <2>3. \A q \in Tid :
           /\ pc'[q] \in {"create_thread", "create_fail2"} <=> pc[q] \in {"create_thread", "create_fail2"}
           /\ pc[q] \in {"create_thread", "create_fail2"} => loc'[q].new = loc[q].new
    BY DEF Moved, Stepped, OthersStay
  <2>4. t # 0 \/ Runs(0) \/ pc[0] \in {"none", "over"}
    BY DEF Runs
  <2>5. ASSUME native[t] # "none" PROVE pc'[t] \in Exits <=> pc[t] \in Exits
    <3>1. CASE t # p
      BY <2>2, <3>1 DEF Moved, Stepped, OthersStay, Exits
    <3>2. CASE t = p /\ p # 0
      BY <3>2
    <3>3. CASE t = p /\ p = 0
      <4>1. Own(0) /\ Runs(0) /\ loc[0].exec_env \in Addr \cup {NULL}
        BY <3>3 DEF Owners, Moved, Stepped, Runs, PthreadTypes, LocalType, Tid
      <4>2. env[loc[0].exec_env].aux = NULL /\ env[loc[0].exec_env].alive /\ env[loc[0].exec_env].tid = 0
        BY <4>1 DEF Own
      <4>3. loc[0].exec_env = a
        BY <4>1, <4>2, <2>1, <3>3 DEF Owners, Own, t
      <4> QED
        BY <4>2, <4>3, <2>1
    <3> QED
      BY <3>1, <3>2, <3>3
  <2>6. HasSegment(a) <=>
          IF native[t] = "none"
          THEN \E q \in Tid : loc[q].new = a /\ pc[q] \in {"create_thread", "create_fail2"}
          ELSE pc[t] \notin Exits
    BY <2>1 DEF HasSegment, t, Exits
  <2>7. HasSegment(a)' <=>
          IF native'[t] = "none"
          THEN \E q \in Tid : loc'[q].new = a /\ pc'[q] \in {"create_thread", "create_fail2"}
          ELSE pc'[t] \notin Exits
    BY <2>2 DEF HasSegment, Exits
  <2>8. native'[t] = "none" <=> native[t] = "none"
    BY <2>2
  <2>9. (\E q \in Tid : loc'[q].new = a /\ pc'[q] \in {"create_thread", "create_fail2"})
        <=> \E q \in Tid : loc[q].new = a /\ pc[q] \in {"create_thread", "create_fail2"}
    BY <2>3
  <2> QED
    BY <2>5, <2>6, <2>7, <2>8, <2>9
<1>2. {a \in Addr : HasSegment(a)'} = {a \in Addr : HasSegment(a)}
  BY <1>1
<1>3. \A a \in Addr : env'[a].aux = env[a].aux
  BY DEF Moved, Stepped, EnvSame
<1> QED
  BY <1>2, <1>3 DEF AuxExact

(* The handles, when a step changes no native thread but one that it has   *)
(* joined.                                                                 *)
LEMMA MovedHandled ==
    ASSUME PthreadTypes, PthreadTypes', Handled, NEW p \in Tid, Stepped(p),
           \A t \in Tid : \/ native'[t] = native[t]
                          \/ t \in Thread /\ native[t] = "zombie" /\ native'[t] = "gone",
           \A a \in Addr : env'[a].detached = env[a].detached
    PROVE  Handled'
<1>1. \A t \in Tid : /\ pc'[t] = "none" <=> pc[t] = "none"
                     /\ pc'[t] = "over" <=> pc[t] = "over"
  BY DEF Moved, Stepped, OthersStay
<1>2. \A t \in Tid : native'[t] = "none" <=> pc'[t] = "none"
  BY <1>1 DEF Handled
<1>3. \A t \in Thread : native'[t] \in {"zombie", "gone"} <=> pc'[t] = "over"
  BY <1>1 DEF Handled, Thread
<1>4. native'[0] \in {"running", "detached"}
  BY ThreadAssumption DEF Handled, Thread, Tid
<1>5. ASSUME NEW a \in Addr
      PROVE  LET h == env'[a].handle IN
             /\ h \in {NULL, env'[a].tid}
             /\ h # NULL => pc'[h] # "none"
             /\ env'[a].alive /\ h = NULL => ~env'[a].detached
             /\ env'[a].alive /\ h \in Thread => (env'[a].detached <=> native'[h] = "detached")
             /\ ~env'[a].alive /\ h \in Thread => native'[h] \in {"zombie", "gone"}
             /\ env'[a].tid = 0 => a = MainEnv
  <2>1. /\ env'[a].handle = env[a].handle /\ env'[a].tid = env[a].tid /\ env'[a].alive = env[a].alive
        /\ env'[a].detached = env[a].detached
    BY DEF Moved, Stepped, EnvSame
  <2>2. env[a].handle \in Tid \cup {NULL}
    BY DEF PthreadTypes, EnvType
  <2>3. \A t \in Thread : t \in Tid
    BY DEF Thread
  <2> QED
    BY <2>1, <2>2, <2>3, <1>1 DEF Handled
<1>6. ASSUME NEW t \in Tid, pc'[t] = "start"
      PROVE  native'[t] = "running" /\ \A a \in Addr : env'[a].handle # t
  <2>1. pc[t] = "start"
    BY <1>6 DEF Stepped, OthersStay
  <2>2. native[t] = "running" /\ \A a \in Addr : env[a].handle # t
    BY <2>1 DEF Handled
  <2> QED
    BY <2>2 DEF Stepped, EnvSame
<1> QED
  BY <1>2, <1>3, <1>4, <1>5, <1>6 DEF Handled

(* The counts of joins, in a step outside wasm_cluster_join_thread.        *)
LEMMA MovedWaits ==
    ASSUME PthreadTypes, PthreadTypes', Owners, Waits, NEW p \in Tid, Stepped(p),
           \A t \in Tid : native'[t] = native[t],
           \A a \in Addr : env'[a].detached = env[a].detached /\ env'[a].wait_count = env[a].wait_count,
           AtJoin(p)' <=> AtJoin(p), AtJoin(p) => loc'[p].h = loc[p].h,
           pc'[p] = "joining" => pc[p] = "joining",
           p # 0 /\ pc'[p] \in {"exit_del", "exit_test"} => pc[p] \in {"exit_del", "exit_test"},
           createFailed => createFailed'
    PROVE  Waits'
<1>1. \A q \in Tid : /\ AtJoin(q)' <=> AtJoin(q)
                     /\ AtJoin(q) => loc'[q].h = loc[q].h
                     /\ pc'[q] = "joining" => pc[q] = "joining"
  BY DEF Moved, Stepped, OthersStay, AtJoin
<1>2. \A t \in Thread : t \in Tid /\ (pc'[t] = "start" => pc[t] = "start")
  BY DEF Thread, Stepped, OthersStay
<1>3. \A q \in Tid : pc[q] = "joining" => AtJoin(q)
  BY DEF AtJoin
<1>4. ASSUME NEW q \in Tid, AtJoin(q)', loc'[q].h \in Thread
      PROVE  /\ native'[loc'[q].h] \notin {"none", "detached"} /\ pc'[loc'[q].h] # "start"
             /\ \A a \in Addr : env'[a].alive /\ env'[a].handle = loc'[q].h => env'[a].wait_count > 0
  BY <1>1, <1>2, <1>4 DEF Waits, Moved, Stepped, EnvSame
<1>5. \A q, r \in Tid : \A t \in Thread : Joins(q, t)' /\ Joins(r, t)' => q = r
  BY <1>1, <1>3 DEF Waits, Joins
<1>6. \A q \in Tid : pc'[q] = "joining" /\ loc'[q].h \in Thread => native'[loc'[q].h] # "gone"
  BY <1>1, <1>2, <1>3 DEF Waits
<1>7. ASSUME NEW t \in Thread, pc'[t] \in {"exit_del", "exit_test"}
      PROVE  env'[loc'[t].exec_env].detached \/ env'[loc'[t].exec_env].wait_count > 0
  <2>1. pc[t] \in {"exit_del", "exit_test"} /\ loc'[t].exec_env = loc[t].exec_env
    BY <1>7, <1>2 DEF Moved, Stepped, OthersStay, Thread
  <2>2. Runs(t) /\ t \in Tid /\ Own(t) /\ loc[t].exec_env \in Addr \cup {NULL}
    BY <2>1, <1>2 DEF PthreadTypes, LocalType, Owners, Runs
  <2>3. loc[t].exec_env \in Addr
    BY <2>2 DEF Own
  <2>4. env[loc[t].exec_env].detached \/ env[loc[t].exec_env].wait_count > 0
    BY <2>1 DEF Waits
  <2> QED
    BY <2>1, <2>3, <2>4
<1>8. ASSUME ~createFailed'
      PROVE  /\ \A a \in Addr : env'[a].alive /\ env'[a].tid \in Thread /\ env'[a].wait_count > 0
                                  => Joiner(env[a].tid)'
             /\ \A t \in Thread : native'[t] = "zombie" => Joiner(t)'
  <2>1. \A t : Joiner(t) => Joiner(t)'
    BY <1>1 DEF Joiner
  <2> QED
    BY <1>8, <2>1, <1>2 DEF Waits, Moved, Stepped, EnvSame
<1> QED
  BY <1>4, <1>5, <1>6, <1>7, <1>8 DEF Waits

(* The node of h leads to the environment of thread h.                     *)
Placed(h) ==
    LET e == info[h].exec_env IN e \in Addr /\ env[e].alive /\ env[e].tid = h /\ pc[h] # "none"

(* The order of joins, when a step of p respects it.                       *)
LEMMA MovedOrdered ==
    ASSUME PthreadTypes, PthreadTypes', Framed, Ordered, NEW p \in Tid, OthersStay(p), Order(p)',
           \A a \in Addr : env'[a].tid = env[a].tid,
           \A h \in Thread : info'[h].mapped =>
               (info[h].mapped /\ info'[h].exec_env = info[h].exec_env) \/ Placed(h)',
           createFailed => createFailed'
    PROVE  Ordered'
<1>1. ASSUME NEW q \in Tid, q # p PROVE Order(q)'
  <2>1. Order(q) /\ loc'[q] = loc[q] /\ loc[q].e \in Addr \cup {NULL}
    BY <1>1 DEF Ordered, OthersStay, PthreadTypes, LocalType
  <2>2. /\ JoinCall(q)' => JoinCall(q)
        /\ pc'[q] \in InCluster => pc[q] \in InCluster
        /\ pc'[q] = "join" => pc[q] = "join"
        /\ pc'[q] = "create_fail2" => pc[q] = "create_fail2"
        /\ AtJoin(q)' => AtJoin(q)
    BY <1>1 DEF OthersStay, JoinCall, InCluster, AtJoin
  <2>3. JoinCall(q) \/ pc[q] = "join" => loc[q].e \in Addr
    BY <2>1 DEF Framed, Frame, JoinCall, InCluster
  <2>4. JoinCall(q) \/ pc[q] = "join" => env'[loc[q].e].tid = env[loc[q].e].tid
    BY <2>3 
  <2> QED
    BY <2>1, <2>2, <2>4 DEF Order
<1>2. ASSUME NEW h \in Thread, info'[h].mapped
      PROVE  info'[h].exec_env # NULL /\ env'[info'[h].exec_env].tid >= h
  <2>1. CASE info[h].mapped /\ info'[h].exec_env = info[h].exec_env
    <3>1. info[h].exec_env \in Addr \cup {NULL}
      BY DEF PthreadTypes, InfoType
    <3> QED
      BY <2>1, <3>1 DEF Ordered
  <2>2. CASE Placed(h)'
    <3>1. h >= h
      BY ThreadAssumption DEF Thread, Tid
    <3> QED
      BY <2>2, <3>1, ThreadAssumption DEF Placed, Addr
  <2> QED
    BY <2>1, <2>2, <1>2
<1> QED
  BY <1>1, <1>2 DEF Ordered

(* What is known of threads that have ended, when a step of p respects it. *)
LEMMA MovedEnds ==
    ASSUME PthreadTypes, PthreadTypes', Framed, Ordered, Ends, NEW p \in Tid, Stepped(p), Asks(p)',
           ended \subseteq ended', aliased => aliased',
           \A h \in Thread :
               /\ info'[h].mapped =>
                     (info[h].mapped /\ info'[h].exec_env = info[h].exec_env) \/ Placed(h)'
               /\ info'[h].status = "THREAD_EXIT" => info[h].status = "THREAD_EXIT" \/ h \in ended'
               /\ app'[h] = "joinable" =>
                     info'[h].mapped \/ h \in ended' \/ (app[h] = "joinable" /\ ~info[h].mapped)
               /\ app[h] \in {"joined", "detached"} => app'[h] = app[h]
               /\ joined'[h] \in {joined[h], "failed"} \/ h \in ended' \/ aliased',
           p # 0 /\ pc'[p] \in Exits \cup {"leave"} => p \in ended',
           \A a \in Addr : env'[a].detached =>
               \/ env[a].detached \/ aliased'
               \/ env[a].tid \in ended' \/ app'[env[a].tid] = "detached"
    PROVE  Ends'
<1>1. \A t \in Thread : t \in Tid /\ t # 0
  BY DEF Thread
<1>2. \A t \in Thread : pc'[t] \in Exits \cup {"leave", "over"} => t \in ended'
  BY <1>1 DEF Ends, Moved, Stepped, OthersStay, Exits
<1>3. \A e \in Addr : \A h \in Thread : Leads(e, h) => Leads(e, h)'
  BY <1>1 DEF Leads, Moved, Stepped, OthersStay, EnvSame
<1>4. ASSUME NEW h \in Thread
      PROVE  /\ info'[h].mapped => Leads(info[h].exec_env, h)'
             /\ app'[h] = "joinable" => info'[h].mapped \/ h \in ended'
             /\ info'[h].status = "THREAD_EXIT" => h \in ended'
  <2>1. info'[h].mapped => Leads(info[h].exec_env, h)'
    <3>1. SUFFICES ASSUME info'[h].mapped, ~Placed(h)' PROVE Leads(info[h].exec_env, h)'
      BY DEF Placed, Leads
    <3>2. info[h].mapped /\ info'[h].exec_env = info[h].exec_env /\ Leads(info[h].exec_env, h)
      BY <3>1 DEF Ends
    <3>3. info[h].exec_env \in Addr
      BY <3>2 DEF PthreadTypes, InfoType, Ordered
    <3> QED
      BY <3>2, <3>3, <1>3
  <2> QED
    BY <2>1 DEF Ends
<1>5. ASSUME NEW q \in Tid, q # p PROVE Asks(q)'
  <2>1. Asks(q) /\ Frame(q) /\ loc'[q] = loc[q] /\ loc[q] \in LocalType
    BY <1>5 DEF Ends, Framed, Moved, Stepped, OthersStay, PthreadTypes
  <2>2. /\ JoinCall(q)' => JoinCall(q)
        /\ pc'[q] \in InCluster => pc[q] \in InCluster
        /\ pc'[q] = "joined" => pc[q] = "joined"
        /\ AtJoin(q)' => AtJoin(q)
    BY <1>5 DEF Moved, Stepped, OthersStay, JoinCall, InCluster, AtJoin
  <2>3. JoinCall(q) => loc[q].e \in Addr /\ loc[q].info \in Thread
    BY <2>1 DEF Frame, JoinCall, InCluster, LocalType
  <2>4. JoinCall(q)' => Leads(loc[q].e, loc[q].info)' /\ app'[loc[q].info] = "joined"
    BY <2>1, <2>2, <2>3, <1>3 DEF Asks
  <2>5. AtJoin(q) /\ loc[q].back = "joined" =>
            loc[q].h \in {NULL, loc[q].info} \/ loc[q].info \in ended'
    BY <2>1 DEF Asks
  <2>6. pc[q] = "joined" /\ loc[q].ret = 0 => aliased' \/ loc[q].info \in ended'
    BY <2>1 DEF Asks
  <2>7. pc[q] \in InCluster /\ loc[q].then = "detach" => app'[loc[q].info] = "detached"
    <3>1. SUFFICES ASSUME pc[q] \in InCluster, loc[q].then = "detach"
                   PROVE  app'[loc[q].info] = "detached"
      OBVIOUS
    <3>2. loc[q].info \in Thread /\ app[loc[q].info] = "detached"
      BY <2>1, <3>1 DEF Frame, LocalType, Asks
    <3> QED
      BY <3>2
  <2> QED
    BY <2>1, <2>2, <2>4, <2>5, <2>6, <2>7 DEF Asks
<1>6. ASSUME ~aliased', NEW a \in Addr, env'[a].alive, env'[a].tid \in Thread, env'[a].detached
      PROVE  env'[a].tid \in ended' \/ app'[env'[a].tid] = "detached"
  BY <1>6 DEF Ends, Moved, Stepped, EnvSame
<1>7. JoinWaits'
  BY DEF JoinWaits, Ends
<1> QED
  BY <1>2, <1>4, <1>5, <1>6, <1>7 DEF Ends

(* What of the app's calls a step of p may change: nodes are deleted when  *)
(* their thread has ended, and handles are joined or detached once.        *)
AppMoved ==
    /\ \A t \in Thread :
          /\ pc'[t] \in {"none", "start", "init"} =>
                /\ app'[t] = app[t] /\ info'[t].mapped = info[t].mapped
                /\ info'[t].status = info[t].status
          /\ info'[t].mapped =>
                (info[t].mapped /\ info'[t].exec_env = info[t].exec_env) \/ Placed(t)'
          /\ info'[t].status = "THREAD_EXIT" => info[t].status = "THREAD_EXIT" \/ t \in ended'
          /\ app'[t] = "joinable" =>
                info'[t].mapped \/ t \in ended' \/ (app[t] = "joinable" /\ ~info[t].mapped)
          /\ app[t] \in {"joined", "detached"} => app'[t] = app[t]
          /\ joined'[t] \in {joined[t], "failed"} \/ t \in ended' \/ aliased'
    /\ ended \subseteq ended' /\ (aliased => aliased') /\ (createFailed => createFailed')

(* What is left to show of such a step.                                    *)
LEMMA MovedRest ==
    ASSUME IInv, PthreadTypes', NEW p \in Tid, Moved(p), Frame(p)', Order(p)', Asks(p)', AppMoved,
           Handled', Waits', AuxExact',
           p # 0 /\ pc'[p] \in Exits \cup {"leave"} => p \in ended',
           \A a \in Addr : env'[a].detached =>
               \/ env[a].detached \/ aliased'
               \/ env[a].tid \in ended' \/ app'[env[a].tid] = "detached"
    PROVE  IInv'
<1>1. /\ PthreadTypes /\ Framed /\ Owners /\ Created /\ Listed /\ Ordered
      /\ Ends /\ AuxExact /\ OthersStay(p) /\ EnvSame
  BY DEF IInv, Moved, Stepped
<1>2. Framed'
  BY <1>1, MovedFramed
<1>3. Owners'
  BY <1>1, MovedOwners
<1>4. Created'
  <2>1. \A t \in Thread : pc'[t] \in {"none", "start", "init"} =>
               /\ app'[t] = app[t] /\ info'[t].mapped = info[t].mapped
               /\ info'[t].status = info[t].status
    BY DEF AppMoved
  <2> QED
    BY <1>1, <2>1, MovedCreated DEF Moved
<1>5. Listed'
  BY <1>1, MovedListed
<1>6. Ordered'
  <2>1. /\ \A h \in Thread : info'[h].mapped =>
               (info[h].mapped /\ info'[h].exec_env = info[h].exec_env) \/ Placed(h)'
        /\ createFailed => createFailed'
    BY DEF AppMoved
  <2> QED
    BY <1>1, <2>1, MovedOrdered DEF EnvSame
<1>7. Ends'
  <2>1. /\ ended \subseteq ended' /\ (aliased => aliased')
        /\ \A h \in Thread :
               /\ info'[h].mapped =>
                     (info[h].mapped /\ info'[h].exec_env = info[h].exec_env) \/ Placed(h)'
               /\ info'[h].status = "THREAD_EXIT" => info[h].status = "THREAD_EXIT" \/ h \in ended'
               /\ app'[h] = "joinable" =>
                     info'[h].mapped \/ h \in ended' \/ (app[h] = "joinable" /\ ~info[h].mapped)
               /\ app[h] \in {"joined", "detached"} => app'[h] = app[h]
               /\ joined'[h] \in {joined[h], "failed"} \/ h \in ended' \/ aliased'
    BY DEF AppMoved
  <2> QED
    BY <1>1, <2>1, MovedEnds DEF Moved
<1> QED
  BY <1>2, <1>3, <1>4, <1>5, <1>6, <1>7 DEF IInv

(* A step that gives no segment back.                                      *)
LEMMA MovedInv ==
    ASSUME IInv, PthreadTypes', NEW p \in Tid, Moved(p), Frame(p)', Order(p)', Asks(p)', AppMoved,
           Handled', Waits', occupied' = occupied,
           \A t \in Tid : native'[t] = "none" <=> native[t] = "none",
           pc'[p] \in {"create_thread", "create_fail2"} <=> pc[p] \in {"create_thread", "create_fail2"},
           loc'[p].new = loc[p].new \/ pc[p] \notin {"create_thread", "create_fail2"},
           p # 0 => (pc'[p] \in Exits <=> pc[p] \in Exits),
           p # 0 /\ pc'[p] \in Exits \cup {"leave"} => p \in ended',
           \A a \in Addr : env'[a].detached =>
               \/ env[a].detached \/ aliased'
               \/ env[a].tid \in ended' \/ app'[env[a].tid] = "detached"
    PROVE  IInv'
<1>1. AuxExact'
  BY MovedAux DEF Moved, IInv
<1> QED
  BY <1>1, MovedRest

(* A step that joins, detaches and ends nothing.                           *)
LEMMA QuietInv ==
    ASSUME IInv, PthreadTypes', NEW p \in Tid, Moved(p), Frame(p)', Order(p)', Asks(p)', AppMoved,
           \A t \in Tid : native'[t] = native[t],
           \A a \in Addr : env'[a].detached = env[a].detached /\ env'[a].wait_count = env[a].wait_count,
           ~AtJoin(p), ~AtJoin(p)', occupied' = occupied,
           pc'[p] \in {"create_thread", "create_fail2"} <=> pc[p] \in {"create_thread", "create_fail2"},
           loc'[p].new = loc[p].new \/ pc[p] \notin {"create_thread", "create_fail2"},
           p # 0 => (pc'[p] \in Exits <=> pc[p] \in Exits),
           p # 0 /\ pc'[p] \in {"exit_del", "exit_test"} => pc[p] \in {"exit_del", "exit_test"},
           p # 0 /\ pc'[p] \in Exits \cup {"leave"} => p \in ended'
    PROVE  IInv'
<1>1. PthreadTypes /\ Owners /\ Handled /\ Waits
  BY DEF IInv
<1>2. Handled'
  <2>1. \A a \in Addr : env'[a].detached = env[a].detached
    OBVIOUS
  <2>2. \A t \in Tid : \/ native'[t] = native[t]
                       \/ t \in Thread /\ native[t] = "zombie" /\ native'[t] = "gone"
    OBVIOUS
  <2> QED
    BY <1>1, <2>1, <2>2, MovedHandled DEF Moved
<1>3. Waits'
  <2>1. /\ AtJoin(p)' <=> AtJoin(p)
        /\ AtJoin(p) => loc'[p].h = loc[p].h
        /\ pc'[p] = "joining" => pc[p] = "joining"
        /\ createFailed => createFailed'
    BY DEF AtJoin, AppMoved
  <2> QED
    BY <1>1, <2>1, MovedWaits DEF Moved
<1>4. \A t \in Tid : native'[t] = "none" <=> native[t] = "none"
  OBVIOUS
<1>5. \A a \in Addr : env'[a].detached =>
          \/ env[a].detached \/ aliased'
          \/ env[a].tid \in ended' \/ app'[env[a].tid] = "detached"
  OBVIOUS
<1> QED
  BY <1>2, <1>3, <1>4, <1>5, MovedInv

(* A cluster call returns.                                                 *)
LEMMA ReturnMoves ==
    ASSUME PthreadTypes, Framed, NEW p \in Tid, pc[p] \in InCluster, NEW ret \in {0, 1},
           Return(p, ret)
    PROVE  /\ pc' \in [Tid -> Labels] /\ loc' \in [Tid -> LocalType]
           /\ \A q \in Tid : q # p => pc'[q] = pc[q] /\ loc'[q] = loc[q]
           /\ Frame(p)' /\ pc'[p] \in {"run", "find", "traverse", "joined"}
           /\ loc'[p].exec_env = loc[p].exec_env
           /\ Creating(p)' => Creating(p) /\ loc'[p].new = loc[p].new
           /\ loc'[p].done # "none" => loc'[p].done = loc[p].done /\ loc'[p].self = loc[p].self
           /\ pc'[p] = "find" =>
                 loc[p].back = "traverse" /\ loc'[p].back = "traverse" /\ loc'[p].then = "join"
                 /\ loc'[p].e = loc[p].e
           /\ pc'[p] = "joined" =>
                 loc[p].back = "joined" /\ loc'[p].info = loc[p].info /\ loc'[p].ret = ret
<1>1. pc \in [Tid -> Labels] /\ loc \in [Tid -> LocalType] /\ Frame(p) /\ loc[p] \in LocalType
  BY DEF PthreadTypes, Framed
<1>2. CASE loc[p].back = "run" /\ Goto(p, "run") /\ ToApp(p)
  <2>1. loc' = [loc EXCEPT ![p] = Locals(loc[p].exec_env)] /\ pc' = [pc EXCEPT ![p] = "run"]
    BY <1>2 DEF ToApp, Goto
  <2>2. /\ Locals(loc[p].exec_env) \in LocalType /\ Locals(loc[p].exec_env).exec_env = loc[p].exec_env
        /\ Locals(loc[p].exec_env).done = "none"
    BY <1>1 DEF Locals, NoLocals, LocalType
  <2>3. /\ pc' \in [Tid -> Labels] /\ loc' \in [Tid -> LocalType] /\ pc'[p] = "run"
        /\ \A q \in Tid : q # p => pc'[q] = pc[q] /\ loc'[q] = loc[q]
        /\ loc'[p].done = "none" /\ loc'[p].exec_env = loc[p].exec_env
    BY <1>1, <2>1, <2>2 DEF Labels
  <2> QED
    BY <2>3 DEF Frame, Creating, InCluster
<1>3. CASE /\ loc[p].back = "traverse" /\ loc[p].then = "cancel"
           /\ Goto(p, "find")
           /\ loc' = [loc EXCEPT ![p].then = "join"]
  <2>1. /\ pc' \in [Tid -> Labels] /\ loc' \in [Tid -> LocalType] /\ pc'[p] = "find"
        /\ \A q \in Tid : q # p => pc'[q] = pc[q] /\ loc'[q] = loc[q]
        /\ loc'[p] = [loc[p] EXCEPT !.then = "join"]
    BY <1>1, <1>3 DEF Goto, Labels, LocalType
  <2>2. /\ loc'[p].done = loc[p].done /\ loc'[p].exec_env = loc[p].exec_env /\ loc'[p].e = loc[p].e
        /\ loc'[p].back = "traverse" /\ loc'[p].then = "join" /\ loc'[p].self = loc[p].self
        /\ loc'[p].new = loc[p].new
    BY <1>1, <1>3, <2>1 DEF LocalType
  <2>3. Frame(p)'
    BY <1>1, <2>1, <2>2 DEF Frame, InCluster
  <2> QED
    BY <1>1, <1>3, <2>1, <2>2, <2>3 DEF Creating, InCluster
<1>4. CASE /\ loc[p].back = "traverse" /\ loc[p].then = "join"
           /\ Goto(p, "traverse")
           /\ loc' = [loc EXCEPT ![p].node = loc[p].nextNode, ![p].nextNode = NULL,
                                 ![p].e = NULL, ![p].h = NULL]
  <2>1. /\ pc' \in [Tid -> Labels] /\ pc'[p] = "traverse"
        /\ \A q \in Tid : q # p => pc'[q] = pc[q]
    BY <1>1, <1>4 DEF Goto, Labels
  <2> DEFINE c == [loc[p] EXCEPT !.node = loc[p].nextNode, !.nextNode = NULL, !.e = NULL, !.h = NULL]
  <2>2. c \in LocalType /\ loc' = [loc EXCEPT ![p] = c]
    BY <1>1, <1>4 DEF LocalType
  <2>3. c.done = loc[p].done /\ c.exec_env = loc[p].exec_env /\ c.self = loc[p].self /\ c.new = loc[p].new
    BY <1>1 DEF LocalType
  <2> HIDE DEF c
  <2>4. loc' \in [Tid -> LocalType] /\ loc'[p] = c /\ \A q \in Tid : q # p => loc'[q] = loc[q]
    BY <1>1, <2>2
  <2>5. Frame(p)'
    BY <1>1, <1>4, <2>1, <2>3, <2>4 DEF Frame, InCluster
  <2> QED
    BY <1>1, <1>4, <2>1, <2>3, <2>4, <2>5 DEF Creating, InCluster
<1>5. CASE /\ loc[p].back = "joined"
           /\ Goto(p, "joined")
           /\ loc' = [loc EXCEPT ![p].ret = ret]
  <2>1. /\ pc' \in [Tid -> Labels] /\ loc' \in [Tid -> LocalType] /\ pc'[p] = "joined"
        /\ \A q \in Tid : q # p => pc'[q] = pc[q] /\ loc'[q] = loc[q]
        /\ loc'[p] = [loc[p] EXCEPT !.ret = ret]
    BY <1>1, <1>5 DEF Goto, Labels, LocalType
  <2>2. /\ loc'[p].done = loc[p].done /\ loc'[p].exec_env = loc[p].exec_env /\ loc'[p].ret = ret
        /\ loc'[p].self = loc[p].self /\ loc'[p].new = loc[p].new /\ loc'[p].info = loc[p].info
    BY <1>1, <2>1 DEF LocalType
  <2>3. Frame(p)'
    BY <1>1, <1>5, <2>1, <2>2 DEF Frame, InCluster
  <2> QED
    BY <1>1, <1>5, <2>1, <2>2, <2>3 DEF Creating, InCluster
<1> QED
  BY <1>2, <1>3, <1>4, <1>5 DEF Return

(* As in all steps of the thread manager but the last one of the cluster.  *)
LEMMA ClusterRest ==
    ASSUME IInv, NEW p \in Tid, Cluster(p), destroyed' = destroyed
    PROVE  /\ UNCHANGED <<handle_id, info, app, ended, joined>>
           /\ createFailed' \in BOOLEAN /\ aliased' \in BOOLEAN
           /\ createFailed => createFailed'
           /\ aliased => aliased'
           /\ pc'[p] = "create_fail2" => createFailed'
           /\ AppMoved
           /\ pc[p] = "detach" /\ env[loc[p].e].tid # loc[p].info => aliased' \/ undefined
<1>1. UNCHANGED <<handle_id, info, app, ended, joined>>
  BY DEF Cluster
<1>2. /\ createFailed' \in BOOLEAN /\ (createFailed => createFailed')
      /\ pc'[p] = "create_fail2" => createFailed'
  <2>1. createFailed' = (createFailed \/ pc'[p] = "create_fail2")
    BY Zenon DEF Cluster
  <2>2. createFailed \in BOOLEAN
    BY DEF IInv, PthreadTypes
  <2> QED
    BY <2>1, <2>2, Zenon
<1>3. /\ aliased' \in BOOLEAN /\ (aliased => aliased')
      /\ pc[p] = "detach" /\ env[loc[p].e].tid # loc[p].info => aliased' \/ undefined
  <2>1. aliased' = (aliased \/ (At(p, "detach") /\ env[loc[p].e].tid # loc[p].info))
    BY Zenon DEF Cluster
  <2>2. aliased \in BOOLEAN
    BY DEF IInv, PthreadTypes
  <2> QED
    BY <2>1, <2>2, Zenon DEF At
<1>4. AppMoved
  BY <1>1, <1>2, <1>3 DEF AppMoved
<1> QED
  BY <1>1, <1>2, <1>3, <1>4

(* Freed memory is used.                                                   *)
LEMMA UndefinedInv ==
    ASSUME IInv,
           UNCHANGED <<list, next, occupied, env, destroyed, native, pc, loc,
                       handle_id, info, app, ended, joined>>,
           createFailed' \in BOOLEAN, aliased' \in BOOLEAN,
           createFailed => createFailed', aliased => aliased'
    PROVE  IInv'
<1>1. PthreadTypes'
  BY DEF IInv, PthreadTypes
<1>2. Framed' /\ Owners' /\ Created' /\ Listed' /\ Handled' /\ AuxExact'
  <2>1. Framed'
    BY DEF IInv, Framed, Frame
  <2>2. Owners'
    BY DEF IInv, Owners, Own, Runs
  <2>3. Created'
    BY DEF IInv, Created, Creator, Creating
  <2>4. Listed'
    BY DEF IInv, Listed, Creating
  <2>5. Handled'
    BY DEF IInv, Handled
  <2>6. AuxExact'
    BY DEF IInv, AuxExact, HasSegment
  <2> QED
    BY <2>1, <2>2, <2>3, <2>4, <2>5, <2>6
<1>3. Waits'
  BY DEF IInv, Waits, AtJoin, Joiner, Joins
<1>4. Ordered'
  BY DEF IInv, Ordered, Order, JoinCall, AtJoin
<1>5. Ends'
  <2>1. \A p \in Tid : Asks(p)'
    BY DEF IInv, Ends, Asks, JoinCall, AtJoin, Leads
  <2>2. JoinWaits'
    BY DEF IInv, Ends, JoinWaits
  <2>3. \A h \in Thread :
          /\ info'[h].mapped => Leads(info[h].exec_env, h)'
          /\ app'[h] = "joinable" => info'[h].mapped \/ h \in ended'
          /\ info'[h].status = "THREAD_EXIT" => h \in ended'
    BY DEF IInv, Ends, Leads
  <2> QED
    BY <2>1, <2>2, <2>3 DEF IInv, Ends
<1> QED
  BY <1>1, <1>2, <1>3, <1>4, <1>5 DEF IInv

(* A cluster call returns and nothing else happens to the thread: a join   *)
(* that returns 0 knows that its thread has ended.                         *)
LEMMA ReturnStep ==
    ASSUME IInv, NEW p \in Tid, pc[p] \in InCluster, NEW ret \in {0, 1}, Return(p, ret), EnvSame,
           UNCHANGED <<list, handle_id, app, ended>>,
           createFailed => createFailed', aliased => aliased',
           ret = 0 /\ loc[p].back = "joined" => aliased' \/ loc[p].info \in ended
    PROVE  /\ pc' \in [Tid -> Labels] /\ loc' \in [Tid -> LocalType]
           /\ \A q \in Tid : q # p => pc'[q] = pc[q] /\ loc'[q] = loc[q]
           /\ pc'[p] \in {"run", "find", "traverse", "joined"}
           /\ Moved(p) /\ Frame(p)' /\ Order(p)' /\ Asks(p)'
<1>1. /\ PthreadTypes /\ Framed /\ Frame(p) /\ Order(p) /\ Asks(p)
  BY DEF IInv, Framed, Ordered, Ends
<1>2. /\ pc' \in [Tid -> Labels] /\ loc' \in [Tid -> LocalType]
      /\ \A q \in Tid : q # p => pc'[q] = pc[q] /\ loc'[q] = loc[q]
      /\ Frame(p)' /\ pc'[p] \in {"run", "find", "traverse", "joined"}
      /\ loc'[p].exec_env = loc[p].exec_env
      /\ Creating(p)' => Creating(p) /\ loc'[p].new = loc[p].new
      /\ loc'[p].done # "none" => loc'[p].done = loc[p].done /\ loc'[p].self = loc[p].self
      /\ pc'[p] = "find" =>
            loc[p].back = "traverse" /\ loc'[p].back = "traverse" /\ loc'[p].then = "join"
            /\ loc'[p].e = loc[p].e
      /\ pc'[p] = "joined" =>
            loc[p].back = "joined" /\ loc'[p].info = loc[p].info /\ loc'[p].ret = ret
  BY <1>1, ReturnMoves
<1>3. Moved(p)
  BY <1>2 DEF Moved, Stepped, OthersStay, InCluster
<1>4. Order(p)'
  BY <1>1, <1>2 DEF Order, JoinCall, AtJoin, InCluster
<1>5. Asks(p)'
  BY <1>2 DEF Asks, JoinCall, AtJoin, InCluster
<1> QED
  BY <1>2, <1>3, <1>4, <1>5

(* clusters_have_exec_env: an environment that is in no list is that of a  *)
(* thread which has ended.                                                 *)
LEMMA FindInv ==
    ASSUME IInv, NEW p \in Tid, Cluster(p), Find(p)
    PROVE  IInv'
<1>1. /\ pc[p] = "find" /\ UNCHANGED <<list, next, occupied, env, native>> /\ destroyed' = destroyed
      /\ \/ clusters_have_exec_env(loc[p].e) /\ Goto(p, loc[p].then) /\ loc' = loc
         \/ ~clusters_have_exec_env(loc[p].e) /\ Return(p, 0)
  BY DEF Find, At
<1>2. /\ PthreadTypes /\ Framed /\ Frame(p) /\ Owners /\ Order(p) /\ Asks(p) /\ Listed /\ Ends
      /\ loc[p] \in LocalType /\ loc[p].e \in Addr
  BY <1>1 DEF IInv, Framed, Frame, InCluster, Ordered, Ends, PthreadTypes, LocalType
<1>3. /\ UNCHANGED <<handle_id, info, app, ended, joined>>
      /\ createFailed' \in BOOLEAN /\ aliased' \in BOOLEAN /\ AppMoved
      /\ (createFailed => createFailed') /\ (aliased => aliased')
  <2>1. destroyed' = destroyed
    BY <1>1
  <2> QED
    BY <2>1, ClusterRest
<1>4. CASE clusters_have_exec_env(loc[p].e) /\ Goto(p, loc[p].then) /\ loc' = loc
  <2>1. /\ pc' \in [Tid -> Labels] /\ pc'[p] = loc[p].then /\ pc'[p] \in {"join", "detach", "cancel"}
        /\ \A q \in Tid : q # p => pc'[q] = pc[q]
    BY <1>1, <1>2, <1>4 DEF Goto, PthreadTypes, LocalType, Labels, Frame, InCluster
  <2>2. PthreadTypes'
    BY <1>1, <1>2, <1>3, <1>4, <2>1 DEF PthreadTypes
  <2>3. Moved(p)
    BY <1>1, <1>3, <1>4, <2>1 DEF Moved, Stepped, OthersStay, EnvSame, Creating
  <2>4. Frame(p)'
    BY <1>1, <1>2, <1>4, <2>1 DEF Frame, InCluster
  <2>5. env[loc[p].e].alive /\ env[loc[p].e].tid # NULL
    BY <1>2, <1>4 DEF clusters_have_exec_env, Listed, Owners
  <2>6. Order(p)'
    BY <1>1, <1>2, <1>3, <1>4, <2>1, <2>5 DEF Order, JoinCall, InCluster, AtJoin
  <2>7. Asks(p)'
    <3>1. JoinCall(p)' => JoinCall(p)
      BY <1>1, <1>4, <2>1 DEF JoinCall, InCluster
    <3>2. JoinCall(p) => loc[p].info \in Tid
      BY <1>1, <1>2 DEF JoinCall, InCluster, Frame, LocalType, Thread
    <3>3. JoinCall(p) /\ Leads(loc[p].e, loc[p].info) => Leads(loc[p].e, loc[p].info)'
      BY <1>1, <1>3, <1>4, <2>1, <3>2 DEF Leads
    <3> QED
      BY <1>1, <1>2, <1>3, <1>4, <2>1, <3>1, <3>3 DEF Asks, AtJoin, InCluster
  <2> QED
    BY <1>1, <1>2, <1>3, <1>4, <2>1, <2>2, <2>3, <2>4, <2>6, <2>7, QuietInv DEF AtJoin, Exits
<1>5. CASE ~clusters_have_exec_env(loc[p].e) /\ Return(p, 0)
  <2>1. loc[p].back = "joined" => loc[p].info \in ended
    <3>1. SUFFICES ASSUME loc[p].back = "joined", loc[p].info \notin ended PROVE FALSE
      OBVIOUS
    <3> DEFINE h == loc[p].info
    <3>2. h \in Thread /\ h \in Tid /\ env[loc[p].e].alive /\ env[loc[p].e].tid = h /\ pc[h] # "none"
      BY <3>1, <1>1, <1>2 DEF Asks, JoinCall, Leads, InCluster, Frame, LocalType, Thread
    <3> HIDE DEF h
    <3>3. Runs(h) /\ Own(h) /\ loc[h].exec_env \in Addr \cup {NULL}
      BY <3>2, <1>2 DEF Runs, Owners, PthreadTypes, LocalType
    <3>4. loc[h].exec_env = loc[p].e
      BY <3>2, <3>3, <1>2 DEF Own, Owners
    <3>5. pc[h] = "exit_test"
      BY <3>3, <3>4, <1>5 DEF Own, clusters_have_exec_env
    <3> QED
      BY <3>1, <3>2, <3>5, <1>2 DEF Ends, Exits, h
  <2>2. /\ pc' \in [Tid -> Labels] /\ loc' \in [Tid -> LocalType]
        /\ \A q \in Tid : q # p => pc'[q] = pc[q] /\ loc'[q] = loc[q]
        /\ pc'[p] \in {"run", "find", "traverse", "joined"}
        /\ Moved(p) /\ Frame(p)' /\ Order(p)' /\ Asks(p)'
    <3>1. pc[p] \in InCluster /\ EnvSame /\ UNCHANGED <<list, handle_id, app, ended>>
          /\ (createFailed => createFailed') /\ (aliased => aliased')
      BY <1>1, <1>3 DEF InCluster, EnvSame
    <3> QED
      BY <3>1, <2>1, <1>5, ReturnStep
  <2>3. PthreadTypes'
    BY <1>1, <1>2, <1>3, <2>2 DEF PthreadTypes
  <2> QED
    BY <1>1, <1>2, <1>3, <2>2, <2>3, QuietInv DEF AtJoin, Exits
<1> QED
  BY <1>1, <1>4, <1>5

(* wasm_cluster_join_thread: the thread is detached, or the join counted.  *)
LEMMA JoinMarkInv ==
    ASSUME IInv, NEW p \in Tid, Cluster(p), JoinMark(p)
    PROVE  IInv'
<1> DEFINE e == loc[p].e
<1>1. /\ pc[p] = "join" /\ UNCHANGED <<list, next, occupied, native>> /\ destroyed' = destroyed
  BY DEF JoinMark, At
<1>2. /\ PthreadTypes /\ Frame(p) /\ Owners /\ Order(p) /\ Asks(p) /\ Ends /\ Handled /\ Waits
      /\ loc[p] \in LocalType /\ e \in Addr /\ env[e] \in EnvType /\ loc[p].then = "join"
  BY <1>1 DEF IInv, Framed, Frame, InCluster, Ordered, Ends, PthreadTypes, LocalType
<1>3. /\ UNCHANGED <<handle_id, info, app, ended, joined>>
      /\ createFailed' \in BOOLEAN /\ aliased' \in BOOLEAN /\ AppMoved
      /\ (createFailed => createFailed') /\ (aliased => aliased')
  <2>1. destroyed' = destroyed
    BY <1>1
  <2> QED
    BY <2>1, ClusterRest
<1>4. CASE env[e].detached /\ Return(p, 0) /\ UNCHANGED env
  <2>1. loc[p].back = "joined" => aliased' \/ loc[p].info \in ended
    <3>1. SUFFICES ASSUME loc[p].back = "joined", ~aliased, loc[p].info \notin ended PROVE FALSE
      BY <1>3
    <3>2. /\ loc[p].info \in Thread /\ env[e].alive /\ env[e].tid = loc[p].info
          /\ app[loc[p].info] = "joined"
      BY <3>1, <1>1, <1>2 DEF Asks, JoinCall, Leads, InCluster, Frame, LocalType
    <3> QED
      BY <3>1, <3>2, <1>2, <1>4 DEF Ends
  <2>2. /\ pc' \in [Tid -> Labels] /\ loc' \in [Tid -> LocalType]
        /\ \A q \in Tid : q # p => pc'[q] = pc[q] /\ loc'[q] = loc[q]
        /\ pc'[p] \in {"run", "find", "traverse", "joined"}
        /\ Moved(p) /\ Frame(p)' /\ Order(p)' /\ Asks(p)'
    <3>1. pc[p] \in InCluster /\ EnvSame /\ UNCHANGED <<list, handle_id, app, ended>>
          /\ (createFailed => createFailed') /\ (aliased => aliased')
      BY <1>1, <1>3, <1>4 DEF InCluster, EnvSame
    <3> QED
      BY <3>1, <2>1, <1>4, ReturnStep
  <2>3. PthreadTypes'
    BY <1>1, <1>2, <1>3, <1>4, <2>2 DEF PthreadTypes
  <2> QED
    BY <1>1, <1>2, <1>3, <1>4, <2>2, <2>3, QuietInv DEF AtJoin, Exits
<1>5. CASE /\ ~env[e].detached
           /\ env' = [env EXCEPT ![e].wait_count = @ + 1]
           /\ loc' = [loc EXCEPT ![p].h = env[e].handle]
           /\ Goto(p, "os_thread_join")
  <2>1. /\ env' \in [Addr -> EnvType] /\ env'[e].wait_count > 0 /\ EnvSame
        /\ \A a \in Addr : /\ env'[a].detached = env[a].detached
                           /\ a # e => env'[a].wait_count = env[a].wait_count
                           /\ env[a].wait_count > 0 => env'[a].wait_count > 0
    <3>1. [env[e] EXCEPT !.wait_count = @ + 1] \in EnvType
      BY <1>2 DEF EnvType
    <3>2. env' \in [Addr -> EnvType] /\ env'[e] = [env[e] EXCEPT !.wait_count = @ + 1]
          /\ \A a \in Addr : a # e => env'[a] = env[a]
      BY <1>2, <1>5, <3>1 DEF PthreadTypes
    <3>3. /\ env'[e].alive = env[e].alive /\ env'[e].tid = env[e].tid /\ env'[e].handle = env[e].handle
          /\ env'[e].aux = env[e].aux /\ env'[e].detached = env[e].detached
          /\ env'[e].wait_count = env[e].wait_count + 1 /\ env[e].wait_count \in Nat
      BY <1>2, <3>2 DEF EnvType
    <3>4. env'[e].wait_count > 0
      BY <3>3
    <3> QED
      BY <3>2, <3>3, <3>4 DEF EnvSame
  <2>2. /\ pc' \in [Tid -> Labels] /\ pc'[p] = "os_thread_join"
        /\ loc' \in [Tid -> LocalType]
        /\ \A q \in Tid : q # p => pc'[q] = pc[q] /\ loc'[q] = loc[q]
    <3>1. [loc[p] EXCEPT !.h = env[e].handle] \in LocalType
      BY <1>2 DEF LocalType, EnvType
    <3>2. loc' = [loc EXCEPT ![p] = [loc[p] EXCEPT !.h = env[e].handle]]
      BY <1>5
    <3>3. loc \in [Tid -> LocalType] /\ pc \in [Tid -> Labels]
      BY <1>2 DEF PthreadTypes
    <3> QED
      BY <1>5, <3>1, <3>2, <3>3 DEF Goto, Labels
  <2>3. /\ loc'[p].h = env[e].handle /\ loc'[p].e = e /\ loc'[p].done = loc[p].done
        /\ loc'[p].self = loc[p].self /\ loc'[p].new = loc[p].new /\ loc'[p].info = loc[p].info
        /\ loc'[p].exec_env = loc[p].exec_env /\ loc'[p].back = loc[p].back /\ loc'[p].then = loc[p].then
    BY <1>2, <1>5 DEF PthreadTypes, LocalType
  <2>4. PthreadTypes'
    BY <1>1, <1>2, <1>3, <2>1, <2>2 DEF PthreadTypes
  <2>5. Moved(p)
    BY <1>1, <1>3, <2>1, <2>2, <2>3 DEF Moved, Stepped, OthersStay, Creating
  <2>6. Frame(p)'
    BY <1>1, <1>2, <2>2, <2>3 DEF Frame, InCluster
  <2>7. /\ env[e].handle \in Tid \cup {NULL} /\ env[e].tid \in Tid \cup {NULL}
        /\ env[e].handle \in {NULL, env[e].tid} /\ env'[e].tid = env[e].tid
        /\ env[e].tid = 0 => e = MainEnv
    BY <1>2, <2>1 DEF EnvType, Handled, EnvSame
  <2>8. Order(p)'
    <3>1. JoinCall(p)' => JoinCall(p)
      BY <1>1, <2>2, <2>3 DEF JoinCall, InCluster
    <3>2. ASSUME ~createFailed', loc'[p].h # NULL PROVE loc'[p].h > p
      <4>1. ~createFailed /\ env[e].handle = env[e].tid /\ env[e].tid \in Tid
        BY <3>2, <1>3, <2>3, <2>7
      <4>2. CASE loc[p].back = "joined"
        <5>1. loc[p].info > p /\ env[e].tid >= loc[p].info /\ loc[p].info \in Thread
          BY <4>2, <1>1, <1>2 DEF Order, JoinCall, InCluster, Frame, LocalType
        <5> QED
          BY <5>1, <4>1, <2>3, ThreadAssumption DEF Tid, Thread
      <4>3. CASE loc[p].back = "traverse"
        <5>1. e # MainEnv /\ p = 0
          BY <4>1, <4>3, <1>1, <1>2 DEF Order, InCluster, Frame
        <5> QED
          BY <5>1, <4>1, <2>3, <2>7, ThreadAssumption DEF Tid
      <4> QED
        BY <4>2, <4>3, <1>1, <1>2 DEF Frame, InCluster
    <3> QED
      BY <1>1, <1>2, <1>3, <2>2, <2>3, <2>7, <3>1, <3>2 DEF Order, InCluster
  <2>9. Asks(p)'
    <3>1. JoinCall(p)' <=> loc[p].back = "joined"
      BY <2>2, <2>3 DEF JoinCall, InCluster
    <3>2. loc[p].back = "joined" =>
            JoinCall(p) /\ loc[p].info \in Thread /\ Leads(e, loc[p].info) /\ app[loc[p].info] = "joined"
      BY <1>1, <1>2 DEF Asks, JoinCall, InCluster, Frame, LocalType
    <3>3. \A h \in Thread : Leads(e, h) => Leads(e, h)'
      <4>1. \A h \in Thread : pc[h] # "none" => pc'[h] # "none"
        BY <2>2 DEF Thread
      <4>2. env'[e].alive = env[e].alive /\ env'[e].tid = env[e].tid
        BY <1>2, <2>1 DEF EnvSame
      <4> QED
        BY <1>2, <1>3, <2>3, <4>1, <4>2 DEF Leads
    <3>4. loc[p].back = "joined" => env[e].handle \in {NULL, loc[p].info} \/ loc[p].info \in ended
      BY <3>2, <2>7 DEF Leads
    <3> QED
      BY <1>2, <1>3, <2>2, <2>3, <3>1, <3>2, <3>3, <3>4 DEF Asks, InCluster
  <2>10. Handled'
    <3>1. \A t \in Tid : \/ native'[t] = native[t]
                         \/ t \in Thread /\ native[t] = "zombie" /\ native'[t] = "gone"
      BY <1>1
    <3> QED
      BY <1>2, <2>1, <2>4, <2>5, <3>1, MovedHandled DEF Moved
  <2>11. ASSUME env[e].handle \in Thread
         PROVE  /\ native[env[e].handle] \notin {"none", "detached"} /\ pc[env[e].handle] # "start"
                /\ \A a \in Addr : env[a].alive /\ env[a].handle = env[e].handle => a = e
    <3>1. env[e].handle = env[e].tid /\ env[e].tid \in Thread /\ env[e].tid \in Tid /\ NULL \notin Thread
      BY <2>7, <2>11, ThreadAssumption DEF Thread, Tid
    <3>2. native[env[e].handle] \notin {"none", "detached"} /\ pc[env[e].handle] # "start"
      BY <3>1, <1>2, <1>5 DEF Handled
    <3>3. ASSUME NEW a \in Addr, env[a].alive, env[a].handle = env[e].handle PROVE a = e
      <4>1. env[a].tid = env[e].tid
        BY <3>1, <3>3, <1>2 DEF Handled
      <4>2. pc[env[e].tid] # "over"
        BY <4>1, <3>3, <1>2 DEF Owners
      <4>3. env[e].alive
        BY <4>2, <3>1, <1>2 DEF Handled
      <4> QED
        BY <3>3, <4>1, <4>3, <1>2 DEF Owners
    <3> QED
      BY <3>2, <3>3
  <2>12. Waits'
    <3>1. \A q \in Tid : q # p => (AtJoin(q)' <=> AtJoin(q)) /\ loc'[q].h = loc[q].h
      BY <2>2 DEF AtJoin
    <3>2. \A t \in Thread : pc'[t] = "start" => pc[t] = "start"
      BY <2>2 DEF Thread
    <3>3. ~AtJoin(p) /\ AtJoin(p)'
      BY <1>1, <2>2 DEF AtJoin
    <3>4. ASSUME NEW q \in Tid, AtJoin(q)', loc'[q].h \in Thread
          PROVE  /\ native'[loc'[q].h] \notin {"none", "detached"} /\ pc'[loc'[q].h] # "start"
                 /\ \A a \in Addr : env'[a].alive /\ env'[a].handle = loc'[q].h => env'[a].wait_count > 0
      <4>1. CASE q = p
        BY <4>1, <3>4, <3>2, <1>1, <2>1, <2>3, <2>11 DEF EnvSame
      <4>2. CASE q # p
        BY <4>2, <3>4, <3>2, <3>1, <1>1, <1>2, <2>1 DEF EnvSame, Waits
      <4> QED
        BY <4>1, <4>2
    <3>5. \A q, r \in Tid : \A t \in Thread : Joins(q, t)' /\ Joins(r, t)' => q = r
      BY <1>2, <2>2 DEF Waits, Joins
    <3>6. \A q \in Tid : pc'[q] = "joining" /\ loc'[q].h \in Thread => native'[loc'[q].h] # "gone"
      BY <1>1, <1>2, <2>2 DEF Waits
    <3>7. ASSUME NEW t \in Thread, pc'[t] \in {"exit_del", "exit_test"}
          PROVE  env'[loc'[t].exec_env].detached \/ env'[loc'[t].exec_env].wait_count > 0
      <4>1. t \in Tid /\ t # p /\ pc[t] \in {"exit_del", "exit_test"} /\ loc'[t] = loc[t]
        BY <3>7, <2>2 DEF Thread
      <4>2. loc[t].exec_env \in Addr
        BY <4>1, <1>2 DEF Owners, Own, Runs, PthreadTypes, LocalType
      <4> QED
        BY <4>1, <4>2, <2>1, <1>2 DEF Waits
    <3>8. \A t : Joiner(t) => Joiner(t)'
      BY <3>1, <3>3 DEF Joiner
    <3>9. ASSUME ~createFailed', NEW a \in Addr, env'[a].alive, env'[a].tid \in Thread, env'[a].wait_count > 0
          PROVE  Joiner(env[a].tid)'
      <4>1. CASE a = e
        <5>1. AtJoin(p)' /\ loc'[p].h \in {env'[e].tid, NULL}
          BY <3>3, <2>3, <2>7
        <5> QED
          BY <4>1, <5>1 DEF Joiner
      <4>2. CASE a # e
        BY <4>2, <3>9, <3>8, <1>2, <1>3, <2>1 DEF Waits, EnvSame
      <4> QED
        BY <4>1, <4>2
    <3>10. ~createFailed' => \A t \in Thread : native'[t] = "zombie" => Joiner(t)'
      BY <3>8, <1>1, <1>2, <1>3 DEF Waits
    <3> QED
      BY <3>4, <3>5, <3>6, <3>7, <3>9, <3>10 DEF Waits
  <2>13. /\ pc'[p] \in {"create_thread", "create_fail2"} <=> pc[p] \in {"create_thread", "create_fail2"}
         /\ p # 0 => (pc'[p] \in Exits <=> pc[p] \in Exits)
         /\ p # 0 /\ pc'[p] \in Exits \cup {"leave"} => p \in ended'
         /\ occupied' = occupied
         /\ \A t \in Tid : native'[t] = "none" <=> native[t] = "none"
         /\ \A a \in Addr : env'[a].detached =>
                \/ env[a].detached \/ aliased'
                \/ env[a].tid \in ended' \/ app'[env[a].tid] = "detached"
    BY <1>1, <2>1, <2>2 DEF Exits
  <2> QED
    BY <1>3, <2>3, <2>4, <2>5, <2>6, <2>8, <2>9, <2>10, <2>12, <2>13, MovedInv
<1> QED
  BY <1>4, <1>5 DEF JoinMark

(* A step that ends the wait of p: whoever p alone was waiting for has     *)
(* been released.                                                          *)
LEMMA LeftWaits ==
    ASSUME PthreadTypes, PthreadTypes', Owners, Waits, NEW p \in Tid, Stepped(p), AtJoin(p), ~AtJoin(p)',
           \A a \in Addr : env'[a].detached = env[a].detached /\ env'[a].wait_count = env[a].wait_count,
           \A t \in Tid : native'[t] = native[t] \/ (native'[t] = "gone" /\ Joins(p, t)),
           pc'[p] \notin {"exit_del", "exit_test"}, createFailed => createFailed',
           ~createFailed' => \A t \in Thread :
               Joiner(t) => Joiner(t)' \/ (native'[t] = "gone" /\ pc[t] = "over")
    PROVE  Waits'
<1>1. \A q \in Tid : q # p => /\ AtJoin(q)' <=> AtJoin(q)
                              /\ pc'[q] = "joining" <=> pc[q] = "joining"
                              /\ loc'[q].h = loc[q].h
  BY DEF Moved, Stepped, OthersStay, AtJoin
<1>2. pc'[p] # "joining"
  BY DEF AtJoin
<1>3. \A t \in Thread : t \in Tid /\ (pc'[t] = "start" => pc[t] = "start")
  BY DEF Thread, Stepped, OthersStay
<1>4. ASSUME NEW q \in Tid, AtJoin(q)', loc'[q].h \in Thread
      PROVE  /\ native'[loc'[q].h] \notin {"none", "detached"} /\ pc'[loc'[q].h] # "start"
             /\ \A a \in Addr : env'[a].alive /\ env'[a].handle = loc'[q].h => env'[a].wait_count > 0
  BY <1>1, <1>3, <1>4 DEF Waits, Moved, Stepped, EnvSame
<1>5. \A q, r \in Tid : \A t \in Thread : Joins(q, t)' /\ Joins(r, t)' => q = r
  BY <1>1, <1>2 DEF Waits, Joins
<1>6. ASSUME NEW q \in Tid, pc'[q] = "joining", loc'[q].h \in Thread
      PROVE  native'[loc'[q].h] # "gone"
  <2>1. q # p /\ pc[q] = "joining" /\ loc'[q].h = loc[q].h
    BY <1>1, <1>2, <1>6
  <2>2. ~Joins(p, loc[q].h)
    BY <2>1, <1>6 DEF Waits, Joins
  <2> QED
    BY <2>1, <2>2, <1>3, <1>6 DEF Waits
<1>7. ASSUME NEW t \in Thread, pc'[t] \in {"exit_del", "exit_test"}
      PROVE  env'[loc'[t].exec_env].detached \/ env'[loc'[t].exec_env].wait_count > 0
  <2>1. t \in Tid /\ pc[t] \in {"exit_del", "exit_test"} /\ loc'[t].exec_env = loc[t].exec_env
    BY <1>7, <1>3 DEF Moved, Stepped, OthersStay
  <2>2. loc[t].exec_env \in Addr
    BY <2>1 DEF PthreadTypes, LocalType, Owners, Own, Runs
  <2> QED
    BY <2>1, <2>2 DEF Waits
<1>8. ASSUME ~createFailed'
      PROVE  /\ \A a \in Addr : env'[a].alive /\ env'[a].tid \in Thread /\ env'[a].wait_count > 0
                                  => Joiner(env[a].tid)'
             /\ \A t \in Thread : native'[t] = "zombie" => Joiner(t)'
  <2>1. ASSUME NEW a \in Addr, env'[a].alive, env'[a].tid \in Thread, env'[a].wait_count > 0
        PROVE  Joiner(env[a].tid)'
    <3>1. env[a].alive /\ env[a].tid \in Thread /\ env[a].wait_count > 0
      BY <2>1 DEF Moved, Stepped, EnvSame
    <3>2. Joiner(env[a].tid) /\ pc[env[a].tid] # "over"
      BY <3>1, <1>8 DEF Waits, Owners
    <3>3. env'[a].tid = env[a].tid
      BY DEF Moved, Stepped, EnvSame
    <3>4. PICK t \in Thread : t = env[a].tid
      BY <3>1
    <3>5. Joiner(t)'
      BY <3>2, <3>4, <1>8
    <3> QED
      BY <3>3, <3>4, <3>5 DEF Joiner
  <2>2. ASSUME NEW t \in Thread, native'[t] = "zombie" PROVE Joiner(t)'
    BY <2>2, <1>3, <1>8 DEF Waits
  <2> QED
    BY <2>1, <2>2
<1>9. \A a \in Addr : env'[a].tid = env[a].tid
  BY DEF Moved, Stepped, EnvSame
<1> QED
  BY <1>4, <1>5, <1>6, <1>7, <1>8, <1>9 DEF Waits

(* os_thread_join begins to wait, or fails at once.                        *)
LEMMA OsThreadJoinInv ==
    ASSUME IInv, NEW p \in Tid, Cluster(p), OsThreadJoin(p)
    PROVE  IInv'
<1>1. /\ pc[p] = "os_thread_join" /\ UNCHANGED <<list, next, occupied, env, native>>
      /\ destroyed' = destroyed
  BY DEF OsThreadJoin, At
<1>2. /\ PthreadTypes /\ Framed /\ Frame(p) /\ Owners /\ Order(p) /\ Asks(p) /\ Ends /\ Handled /\ Waits
      /\ Ordered /\ loc[p] \in LocalType /\ loc[p].then = "join"
  BY <1>1 DEF IInv, Framed, Frame, InCluster, Ordered, Ends, PthreadTypes, LocalType
<1>3. /\ UNCHANGED <<handle_id, info, app, ended, joined>>
      /\ createFailed' \in BOOLEAN /\ aliased' \in BOOLEAN /\ AppMoved
      /\ (createFailed => createFailed') /\ (aliased => aliased')
  <2>1. destroyed' = destroyed
    BY <1>1
  <2> QED
    BY <2>1, ClusterRest
<1>4. CASE pc' = pc /\ loc' = loc
  BY <1>1, <1>3, <1>4, UndefinedInv
<1>5. EnvSame /\ (\A t \in Tid : native'[t] = "none" <=> native[t] = "none")
      /\ (\A a \in Addr : env'[a].detached = env[a].detached /\ env'[a].wait_count = env[a].wait_count)
      /\ \A t \in Tid : \/ native'[t] = native[t]
                        \/ t \in Thread /\ native[t] = "zombie" /\ native'[t] = "gone"
  BY <1>1 DEF EnvSame
<1>6. CASE /\ loc[p].h = p \/ Joins(loc[p].h, p) \/ \E q \in Tid : Joins(q, loc[p].h)
           /\ Return(p, 1) /\ loc[p].h # NULL
  <2>1. /\ pc' \in [Tid -> Labels] /\ loc' \in [Tid -> LocalType]
        /\ \A q \in Tid : q # p => pc'[q] = pc[q] /\ loc'[q] = loc[q]
        /\ pc'[p] \in {"run", "find", "traverse", "joined"}
        /\ Moved(p) /\ Frame(p)' /\ Order(p)' /\ Asks(p)'
    <3>1. pc[p] \in InCluster /\ UNCHANGED <<list, handle_id, app, ended>>
      BY <1>1, <1>3 DEF InCluster
    <3> QED
      BY <3>1, <1>3, <1>5, <1>6, ReturnStep
  <2>2. PthreadTypes'
    BY <1>1, <1>2, <1>3, <2>1 DEF PthreadTypes
  <2>3. Handled'
    BY <1>2, <1>5, <2>1, <2>2, MovedHandled DEF Moved
  <2>4. AtJoin(p) /\ ~AtJoin(p)' /\ pc'[p] \notin {"exit_del", "exit_test"}
    BY <1>1, <2>1 DEF AtJoin
  <2>5. ASSUME ~createFailed, NEW t \in Thread, Joiner(t) PROVE Joiner(t)'
    <3>1. PICK q \in Tid : AtJoin(q) /\ loc[q].h \in {t, NULL}
      BY <2>5 DEF Joiner
    <3>2. CASE q # p
      <4>1. AtJoin(q)' /\ loc'[q].h \in {t, NULL}
        BY <3>1, <3>2, <2>1 DEF AtJoin
      <4> QED
        BY <4>1 DEF Joiner
    <3>3. CASE q = p
      <4>1. loc[p].h = t /\ t > p /\ t \in Tid
        BY <3>1, <3>3, <1>2, <1>6, <2>4, <2>5 DEF Order, Thread
      <4>2. ~Joins(t, p)
        <5>1. SUFFICES ASSUME Joins(t, p) PROVE FALSE
          OBVIOUS
        <5>2. AtJoin(t) /\ loc[t].h = p /\ Order(t)
          BY <5>1, <4>1, <1>2 DEF Joins, AtJoin, Ordered
        <5>3. p > t
          BY <5>2, <2>5, ThreadAssumption DEF Order, Tid
        <5> QED
          BY <4>1, <5>3, ThreadAssumption DEF Tid
      <4>3. PICK r \in Tid : Joins(r, t)
        BY <4>1, <4>2, <1>6, ThreadAssumption DEF Tid
      <4>4. r # p
        BY <4>3, <1>1 DEF Joins
      <4>5. AtJoin(r)' /\ loc'[r].h = t
        BY <4>3, <4>4, <2>1 DEF Joins, AtJoin
      <4> QED
        BY <4>5 DEF Joiner
    <3> QED
      BY <3>2, <3>3
  <2>6. Waits'
    <3>1. ~createFailed' => \A t \in Thread :
               Joiner(t) => Joiner(t)' \/ (native'[t] = "gone" /\ pc[t] = "over")
      BY <1>3, <2>5
    <3>2. \A t \in Tid : native'[t] = native[t] \/ (native'[t] = "gone" /\ Joins(p, t))
      BY <1>1
    <3> QED
      BY <1>2, <1>3, <1>5, <2>1, <2>2, <2>4, <3>1, <3>2, LeftWaits DEF Moved
  <2>7. /\ pc'[p] \in {"create_thread", "create_fail2"} <=> pc[p] \in {"create_thread", "create_fail2"}
        /\ loc'[p].new = loc[p].new \/ pc[p] \notin {"create_thread", "create_fail2"}
        /\ p # 0 => (pc'[p] \in Exits <=> pc[p] \in Exits)
        /\ p # 0 /\ pc'[p] \in Exits \cup {"leave"} => p \in ended'
        /\ occupied' = occupied
        /\ \A a \in Addr : env'[a].detached =>
               \/ env[a].detached \/ aliased'
               \/ env[a].tid \in ended' \/ app'[env[a].tid] = "detached"
    BY <1>1, <1>5, <2>1 DEF Exits
  <2> QED
    BY <1>3, <1>5, <2>1, <2>2, <2>3, <2>6, <2>7, MovedInv
<1>7. CASE /\ ~\E q \in Tid : Joins(q, loc[p].h)
           /\ native[loc[p].h] # "gone" /\ loc[p].h # NULL
           /\ Goto(p, "joining") /\ loc' = loc
  <2>1. /\ pc' \in [Tid -> Labels] /\ pc'[p] = "joining"
        /\ \A q \in Tid : q # p => pc'[q] = pc[q]
    BY <1>2, <1>7 DEF Goto, PthreadTypes, Labels
  <2>2. PthreadTypes'
    BY <1>1, <1>2, <1>3, <1>7, <2>1 DEF PthreadTypes
  <2>3. Moved(p)
    BY <1>1, <1>3, <1>5, <1>7, <2>1 DEF Moved, Stepped, OthersStay, Creating
  <2>4. Frame(p)'
    BY <1>1, <1>2, <1>7, <2>1 DEF Frame, InCluster
  <2>5. Order(p)'
    BY <1>1, <1>2, <1>3, <1>7, <2>1 DEF Order, JoinCall, InCluster, AtJoin
  <2>6. Asks(p)'
    <3>1. JoinCall(p)' => JoinCall(p)
      BY <1>1, <1>7, <2>1 DEF JoinCall, InCluster
    <3>2. JoinCall(p) => loc[p].info \in Tid
      BY <1>1, <1>2 DEF JoinCall, InCluster, Frame, LocalType, Thread
    <3>3. JoinCall(p) /\ Leads(loc[p].e, loc[p].info) => Leads(loc[p].e, loc[p].info)'
      BY <1>1, <1>3, <1>7, <2>1, <3>2 DEF Leads
    <3> QED
      BY <1>1, <1>2, <1>3, <1>7, <2>1, <3>1, <3>3 DEF Asks, AtJoin, InCluster
  <2>7. Handled'
    BY <1>2, <1>5, <2>2, <2>3, MovedHandled DEF Moved
  <2>8. Waits'
    <3>1. \A q \in Tid : AtJoin(q)' <=> AtJoin(q)
      BY <1>1, <2>1 DEF AtJoin
    <3>2. \A q \in Tid : \A t \in Thread : Joins(q, t)' => Joins(q, t) \/ (q = p /\ t = loc[p].h)
      BY <1>7, <2>1 DEF Joins
    <3>3. \A q, r \in Tid : \A t \in Thread : Joins(q, t)' /\ Joins(r, t)' => q = r
      BY <1>2, <1>7, <3>2 DEF Waits
    <3>4. \A q \in Tid : pc'[q] = "joining" /\ loc'[q].h \in Thread => native'[loc'[q].h] # "gone"
      BY <1>1, <1>2, <1>7, <2>1 DEF Waits
    <3>5. \A t \in Thread : pc'[t] \in {"exit_del", "exit_test"} => pc[t] \in {"exit_del", "exit_test"}
      BY <2>1 DEF Thread
    <3>6. \A t \in Thread : pc'[t] = "start" => pc[t] = "start"
      BY <2>1 DEF Thread
    <3>7. \A t : Joiner(t) => Joiner(t)'
      BY <1>7, <3>1 DEF Joiner
    <3> QED
      BY <1>1, <1>2, <1>3, <1>7, <3>1, <3>3, <3>4, <3>5, <3>7, <3>6 DEF Waits
  <2>9. /\ pc'[p] \in {"create_thread", "create_fail2"} <=> pc[p] \in {"create_thread", "create_fail2"}
        /\ loc'[p].new = loc[p].new \/ pc[p] \notin {"create_thread", "create_fail2"}
        /\ p # 0 => (pc'[p] \in Exits <=> pc[p] \in Exits)
        /\ p # 0 /\ pc'[p] \in Exits \cup {"leave"} => p \in ended'
        /\ occupied' = occupied
        /\ \A a \in Addr : env'[a].detached =>
               \/ env[a].detached \/ aliased'
               \/ env[a].tid \in ended' \/ app'[env[a].tid] = "detached"
    BY <1>1, <1>5, <2>1 DEF Exits
  <2> QED
    BY <1>3, <1>5, <2>2, <2>3, <2>4, <2>5, <2>6, <2>7, <2>8, <2>9, MovedInv
<1> QED
  BY <1>4, <1>6, <1>7 DEF OsThreadJoin

(* os_thread_join returns: the thread has ended, and its resources go.     *)
LEMMA JoinedInv ==
    ASSUME IInv, NEW p \in Tid, Cluster(p), Joined(p)
    PROVE  IInv'
<1> DEFINE t == loc[p].h
<1>1. /\ pc[p] = "joining" /\ UNCHANGED <<list, next, occupied, env>> /\ destroyed' = destroyed
      /\ native[t] = "zombie" /\ native' = [native EXCEPT ![t] = "gone"] /\ Return(p, 0)
  BY DEF Joined, At
<1>2. /\ PthreadTypes /\ Frame(p) /\ Owners /\ Asks(p) /\ Ends /\ Handled /\ Waits
      /\ loc[p] \in LocalType
  BY DEF IInv, Framed, Ends, PthreadTypes
<1>3. /\ UNCHANGED <<handle_id, info, app, ended, joined>>
      /\ createFailed' \in BOOLEAN /\ aliased' \in BOOLEAN /\ AppMoved
      /\ (createFailed => createFailed') /\ (aliased => aliased')
  <2>1. destroyed' = destroyed
    BY <1>1
  <2> QED
    BY <2>1, ClusterRest
<1>4. t \in Thread /\ t \in Tid /\ pc[t] = "over" /\ t \in ended
  <2>1. t \in Tid /\ t # 0
    BY <1>1, <1>2 DEF Frame, LocalType, Handled
  <2> QED
    BY <2>1, <1>1, <1>2 DEF Thread, Handled, Ends
<1>5. EnvSame
      /\ (\A a \in Addr : env'[a].detached = env[a].detached /\ env'[a].wait_count = env[a].wait_count)
      /\ native' \in [Tid -> {"none", "running", "detached", "zombie", "gone"}]
      /\ native'[t] = "gone" /\ (\A s \in Tid : s # t => native'[s] = native[s])
  BY <1>1, <1>2, <1>4 DEF EnvSame, PthreadTypes
<1>6. /\ pc' \in [Tid -> Labels] /\ loc' \in [Tid -> LocalType]
      /\ \A q \in Tid : q # p => pc'[q] = pc[q] /\ loc'[q] = loc[q]
      /\ pc'[p] \in {"run", "find", "traverse", "joined"}
      /\ Moved(p) /\ Frame(p)' /\ Order(p)' /\ Asks(p)'
  <2>1. loc[p].back = "joined" => loc[p].info \in ended
    BY <1>1, <1>2, <1>4, ThreadAssumption DEF Asks, AtJoin, Thread, Tid
  <2>2. pc[p] \in InCluster /\ UNCHANGED <<list, handle_id, app, ended>>
    BY <1>1, <1>3 DEF InCluster
  <2> QED
    BY <2>1, <2>2, <1>1, <1>3, <1>5, ReturnStep
<1>7. PthreadTypes'
  BY <1>1, <1>2, <1>3, <1>5, <1>6 DEF PthreadTypes
<1>8. Handled'
  <2>1. \A s \in Tid : \/ native'[s] = native[s]
                       \/ s \in Thread /\ native[s] = "zombie" /\ native'[s] = "gone"
    BY <1>1, <1>4, <1>5
  <2> QED
    BY <1>2, <1>5, <1>6, <1>7, <2>1, MovedHandled DEF Moved
<1>9. Waits'
  <2>1. AtJoin(p) /\ ~AtJoin(p)' /\ pc'[p] \notin {"exit_del", "exit_test"}
    BY <1>1, <1>6 DEF AtJoin
  <2>2. ASSUME NEW s \in Thread, Joiner(s) PROVE Joiner(s)' \/ (native'[s] = "gone" /\ pc[s] = "over")
    <3>1. SUFFICES ASSUME s # t PROVE Joiner(s)'
      BY <1>4, <1>5
    <3>2. PICK q \in Tid : AtJoin(q) /\ loc[q].h \in {s, NULL}
      BY <2>2 DEF Joiner
    <3>3. q # p
      BY <3>1, <3>2, <1>4, ThreadAssumption DEF Tid
    <3>4. AtJoin(q)' /\ loc'[q].h \in {s, NULL}
      BY <3>2, <3>3, <1>6 DEF AtJoin
    <3> QED
      BY <3>4 DEF Joiner
  <2>3. \A s \in Tid : native'[s] = native[s] \/ (native'[s] = "gone" /\ Joins(p, s))
    BY <1>1, <1>5 DEF Joins
  <2> QED
    BY <1>2, <1>3, <1>5, <1>6, <1>7, <2>1, <2>2, <2>3, LeftWaits DEF Moved
<1>10. /\ pc'[p] \in {"create_thread", "create_fail2"} <=> pc[p] \in {"create_thread", "create_fail2"}
       /\ loc'[p].new = loc[p].new \/ pc[p] \notin {"create_thread", "create_fail2"}
       /\ p # 0 => (pc'[p] \in Exits <=> pc[p] \in Exits)
       /\ p # 0 /\ pc'[p] \in Exits \cup {"leave"} => p \in ended'
       /\ occupied' = occupied
       /\ \A s \in Tid : native'[s] = "none" <=> native[s] = "none"
       /\ \A a \in Addr : env'[a].detached =>
              \/ env[a].detached \/ aliased'
              \/ env[a].tid \in ended' \/ app'[env[a].tid] = "detached"
  BY <1>1, <1>5, <1>6 DEF Exits
<1> QED
  BY <1>3, <1>6, <1>7, <1>8, <1>9, <1>10, MovedInv

(* The rest of wasm_cluster_detach_thread changes one environment and its  *)
(* thread.                                                                 *)
LEMMA DetachFacts ==
    ASSUME PthreadTypes, NEW e \in Addr, Detach(e), Detachable(e) => env[e].handle # NULL
    PROVE  /\ env' \in [Addr -> EnvType] /\ EnvSame
           /\ native' \in [Tid -> {"none", "running", "detached", "zombie", "gone"}]
           /\ \A a \in Addr : env'[a].wait_count = env[a].wait_count
           /\ \A a \in Addr : env'[a].detached <=> env[a].detached \/ (a = e /\ Detachable(e))
           /\ \A t \in Tid : native'[t] =
                  IF Detachable(e) /\ t = env[e].handle /\ native[t] = "running" THEN "detached"
                  ELSE native[t]
           /\ env'[e].detached \/ env'[e].wait_count > 0
<1>1. /\ env \in [Addr -> EnvType] /\ env[e] \in EnvType /\ env[e].wait_count \in Nat
      /\ native \in [Tid -> {"none", "running", "detached", "zombie", "gone"}]
      /\ env[e].handle \in Tid \cup {NULL}
  BY DEF PthreadTypes, EnvType
<1>2. CASE Detachable(e)
  <2>1. [env[e] EXCEPT !.detached = TRUE] \in EnvType /\ env' = [env EXCEPT ![e] = [env[e] EXCEPT !.detached = TRUE]]
    BY <1>1, <1>2 DEF Detach, EnvType
  <2>2. env' \in [Addr -> EnvType] /\ env'[e] = [env[e] EXCEPT !.detached = TRUE]
        /\ \A a \in Addr : a # e => env'[a] = env[a]
    BY <1>1, <2>1
  <2>3. /\ env'[e].alive = env[e].alive /\ env'[e].tid = env[e].tid /\ env'[e].handle = env[e].handle
        /\ env'[e].aux = env[e].aux /\ env'[e].detached /\ env'[e].wait_count = env[e].wait_count
    BY <1>1, <2>2 DEF EnvType
  <2>4. EnvSame
    BY <2>2, <2>3 DEF EnvSame
  <2>5. /\ native' \in [Tid -> {"none", "running", "detached", "zombie", "gone"}]
        /\ \A t \in Tid : native'[t] =
               IF t = env[e].handle /\ native[t] = "running" THEN "detached" ELSE native[t]
    BY <1>1, <1>2 DEF Detach
  <2>6. \A a \in Addr : env[a].detached \in BOOLEAN /\ env'[a].detached \in BOOLEAN
    BY <1>1, <2>2 DEF EnvType
  <2> QED
    BY <1>2, <2>2, <2>3, <2>4, <2>5, <2>6
<1>3. CASE ~Detachable(e)
  <2>1. env' = env /\ native' = native
    BY <1>3 DEF Detach
  <2>2. env[e].detached \/ env[e].wait_count > 0
    BY <1>1, <1>3 DEF Detachable
  <2> QED
    BY <1>1, <1>3, <2>1, <2>2 DEF EnvSame
<1> QED
  BY <1>2, <1>3

(* A thread that is detached is waited for by nobody, and a thread comes   *)
(* to its end either detached or with a joiner.                            *)
LEMMA DetachKeeps ==
    ASSUME IInv, PthreadTypes', NEW p \in Tid, Moved(p), NEW e \in Addr, Detach(e),
           Detachable(e) => env[e].handle # NULL,
           ~AtJoin(p), ~AtJoin(p)', createFailed => createFailed',
           p # 0 /\ pc'[p] \in {"exit_del", "exit_test"} => loc[p].exec_env = e
    PROVE  Handled' /\ Waits'
<1>1. /\ PthreadTypes /\ Owners /\ Handled /\ Waits
  BY DEF IInv
<1>2. /\ EnvSame
      /\ \A a \in Addr : env'[a].wait_count = env[a].wait_count
      /\ \A a \in Addr : env'[a].detached <=> env[a].detached \/ (a = e /\ Detachable(e))
      /\ \A t \in Tid : native'[t] =
             IF Detachable(e) /\ t = env[e].handle /\ native[t] = "running" THEN "detached"
             ELSE native[t]
      /\ env'[e].detached \/ env'[e].wait_count > 0
  BY <1>1, DetachFacts
<1>3. \A t \in Tid : /\ pc'[t] = "start" => pc[t] = "start"
                     /\ pc'[t] = "none" <=> pc[t] = "none"
                     /\ pc'[t] = "over" <=> pc[t] = "over"
  BY DEF Moved, Stepped, OthersStay
<1>4. /\ env[e].handle \in Tid \cup {NULL} /\ env[e].handle \in {NULL, env[e].tid}
      /\ \A t \in Thread : t \in Tid /\ t # 0
      /\ \A a \in Addr : env[a].handle \in Tid \cup {NULL} /\ env[a].handle \in {NULL, env[a].tid}
      /\ 0 \in Tid
  BY <1>1, ThreadAssumption DEF PthreadTypes, EnvType, Handled, Thread, Tid
<1>5. ASSUME NEW a \in Addr, env[a].alive, env[a].handle \in Thread
      PROVE  /\ native[env[a].handle] \notin {"none", "zombie", "gone"}
             /\ env[e].handle = env[a].handle => e = a
  <2>1. env[a].handle = env[a].tid /\ env[a].handle \in Tid /\ env[a].handle # NULL
    BY <1>4, <1>5, ThreadAssumption DEF Tid
  <2>2. pc[env[a].handle] # "over" /\ pc[env[a].handle] # "none"
    BY <1>1, <1>5, <2>1 DEF Owners, Handled
  <2>3. native[env[a].handle] \notin {"none", "zombie", "gone"}
    BY <1>1, <1>5, <2>1, <2>2 DEF Handled
  <2>4. ASSUME env[e].handle = env[a].handle PROVE e = a
    <3>1. env[e].alive
      BY <2>3, <2>4, <1>1, <1>5 DEF Handled
    <3>2. env[e].tid = env[a].tid
      BY <2>1, <2>4, <1>4
    <3> QED
      BY <3>1, <3>2, <1>1, <1>5 DEF Owners
  <2> QED
    BY <2>3, <2>4
<1>6. Handled'
  <2>1. \A t \in Tid : native'[t] = "none" <=> pc'[t] = "none"
    BY <1>1, <1>2, <1>3 DEF Handled
  <2>2. \A t \in Thread : native'[t] \in {"zombie", "gone"} <=> pc'[t] = "over"
    BY <1>1, <1>2, <1>3, <1>4 DEF Handled
  <2>3. native'[0] \in {"running", "detached"}
    BY <1>1, <1>2, <1>4 DEF Handled
  <2>4. ASSUME NEW a \in Addr
        PROVE  LET h == env'[a].handle IN
               /\ h \in {NULL, env'[a].tid}
               /\ h # NULL => pc'[h] # "none"
               /\ env'[a].alive /\ h = NULL => ~env'[a].detached
               /\ env'[a].alive /\ h \in Thread => (env'[a].detached <=> native'[h] = "detached")
               /\ ~env'[a].alive /\ h \in Thread => native'[h] \in {"zombie", "gone"}
               /\ env'[a].tid = 0 => a = MainEnv
    <3>1. /\ env'[a].handle = env[a].handle /\ env'[a].tid = env[a].tid /\ env'[a].alive = env[a].alive
      BY <1>2 DEF EnvSame
    <3>2. env[a].handle # NULL => pc'[env[a].handle] # "none"
      BY <1>1, <1>3, <1>4 DEF Handled
    <3>3. env[a].alive /\ env[a].handle = NULL => ~env'[a].detached
      BY <1>1, <1>2 DEF Handled
    <3>4. ASSUME env[a].alive, env[a].handle \in Thread
          PROVE  env'[a].detached <=> native'[env[a].handle] = "detached"
      <4>1. CASE Detachable(e) /\ env[e].handle = env[a].handle
        <5>1. a = e /\ env'[a].detached
          BY <1>2, <1>5, <3>4, <4>1
        <5>2. native[env[a].handle] \in {"running", "detached"}
          BY <1>1, <1>4, <1>5, <3>4 DEF PthreadTypes
        <5> QED
          BY <1>2, <1>4, <3>4, <4>1, <5>1, <5>2
      <4>2. CASE ~(Detachable(e) /\ env[e].handle = env[a].handle)
        BY <1>1, <1>2, <1>4, <3>4, <4>2 DEF Handled
      <4> QED
        BY <4>1, <4>2
    <3>5. ~env[a].alive /\ env[a].handle \in Thread => native'[env[a].handle] \in {"zombie", "gone"}
      BY <1>1, <1>2, <1>4 DEF Handled
    <3> QED
      BY <3>1, <3>2, <3>3, <3>4, <3>5, <1>1 DEF Handled
  <2>5. ASSUME NEW t \in Tid, pc'[t] = "start"
        PROVE  native'[t] = "running" /\ \A a \in Addr : env'[a].handle # t
    BY <2>5, <1>1, <1>2, <1>3 DEF Handled, EnvSame
  <2> QED
    BY <2>1, <2>2, <2>3, <2>4, <2>5 DEF Handled
<1>7. Waits'
  <2>1. \A q \in Tid : /\ AtJoin(q)' <=> AtJoin(q)
                       /\ AtJoin(q) => loc'[q].h = loc[q].h
                       /\ pc'[q] = "joining" <=> pc[q] = "joining"
    BY DEF Moved, Stepped, OthersStay, AtJoin
  <2>2. \A q \in Tid : pc[q] = "joining" => AtJoin(q)
    BY DEF AtJoin
  <2>3. ASSUME NEW q \in Tid, AtJoin(q)', loc'[q].h \in Thread
        PROVE  /\ native'[loc'[q].h] \notin {"none", "detached"} /\ pc'[loc'[q].h] # "start"
               /\ \A a \in Addr : env'[a].alive /\ env'[a].handle = loc'[q].h => env'[a].wait_count > 0
    <3>1. /\ AtJoin(q) /\ loc'[q].h = loc[q].h /\ native[loc[q].h] \notin {"none", "detached"}
          /\ pc[loc[q].h] # "start"
          /\ \A a \in Addr : env[a].alive /\ env[a].handle = loc[q].h => env[a].wait_count > 0
      BY <1>1, <2>1, <2>3 DEF Waits
    <3>2. ~(Detachable(e) /\ env[e].handle = loc[q].h /\ native[loc[q].h] = "running")
      <4>1. SUFFICES ASSUME Detachable(e), env[e].handle = loc[q].h, native[loc[q].h] = "running" PROVE FALSE
        OBVIOUS
      <4>2. env[e].alive
        BY <4>1, <1>1, <2>3, <3>1 DEF Handled
      <4> QED
        BY <3>1, <4>1, <4>2 DEF Detachable
    <3> QED
      BY <3>1, <3>2, <2>3, <1>2, <1>3, <1>4 DEF EnvSame
  <2>4. \A q, r \in Tid : \A t \in Thread : Joins(q, t)' /\ Joins(r, t)' => q = r
    BY <1>1, <2>1, <2>2 DEF Waits, Joins
  <2>5. \A q \in Tid : pc'[q] = "joining" /\ loc'[q].h \in Thread => native'[loc'[q].h] # "gone"
    BY <1>1, <1>2, <1>4, <2>1, <2>2 DEF Waits
  <2>6. ASSUME NEW t \in Thread, pc'[t] \in {"exit_del", "exit_test"}
        PROVE  env'[loc'[t].exec_env].detached \/ env'[loc'[t].exec_env].wait_count > 0
    <3>1. CASE t = p
      BY <3>1, <2>6, <1>2, <1>4 DEF Moved, Stepped
    <3>2. CASE t # p
      <4>1. t \in Tid /\ pc[t] \in {"exit_del", "exit_test"} /\ loc'[t] = loc[t]
        BY <2>6, <3>2, <1>4 DEF Moved, Stepped, OthersStay
      <4>2. loc[t].exec_env \in Addr
        BY <1>1, <4>1 DEF PthreadTypes, LocalType, Owners, Own, Runs
      <4> QED
        BY <4>1, <4>2, <1>1, <1>2 DEF Waits
    <3> QED
      BY <3>1, <3>2
  <2>7. \A t : Joiner(t) => Joiner(t)'
    BY <2>1 DEF Joiner
  <2>8. ASSUME ~createFailed'
        PROVE  /\ \A a \in Addr : env'[a].alive /\ env'[a].tid \in Thread /\ env'[a].wait_count > 0
                                    => Joiner(env[a].tid)'
               /\ \A t \in Thread : native'[t] = "zombie" => Joiner(t)'
    BY <2>7, <2>8, <1>1, <1>2, <1>4 DEF Waits, EnvSame
  <2> QED
    BY <2>3, <2>4, <2>5, <2>6, <2>8, <1>2 DEF Waits, EnvSame
<1> QED
  BY <1>6, <1>7

(* wasm_cluster_detach_thread, called by pthread_detach.                   *)
LEMMA DetachMarkInv ==
    ASSUME IInv, NEW p \in Tid, Cluster(p), DetachMark(p)
    PROVE  IInv'
<1> DEFINE e == loc[p].e
<1>1. /\ pc[p] = "detach" /\ ~undefined /\ UNCHANGED <<list, next, occupied>> /\ destroyed' = destroyed
  BY DEF DetachMark, At
<1>2. /\ PthreadTypes /\ Framed /\ Frame(p) /\ Asks(p) /\ e \in Addr
      /\ loc[p].then = "detach" /\ loc[p].back = "run"
  BY <1>1 DEF IInv, Framed, Frame, InCluster, Ends, PthreadTypes, LocalType
<1>3. /\ UNCHANGED <<handle_id, info, app, ended, joined>>
      /\ createFailed' \in BOOLEAN /\ aliased' \in BOOLEAN /\ AppMoved
      /\ (createFailed => createFailed') /\ (aliased => aliased')
      /\ env[e].tid # loc[p].info => aliased'
  <2>1. destroyed' = destroyed
    BY <1>1
  <2> QED
    BY <2>1, <1>1, ClusterRest
<1>4. CASE UNCHANGED <<env, native, pc, loc>>
  BY <1>1, <1>3, <1>4, UndefinedInv
<1>5. CASE /\ ~(Detachable(e) /\ env[e].handle = NULL)
           /\ Detach(e) /\ Return(p, 0)
  <2>1. Detachable(e) => env[e].handle # NULL
    BY <1>5
  <2>2. /\ env' \in [Addr -> EnvType] /\ EnvSame
        /\ native' \in [Tid -> {"none", "running", "detached", "zombie", "gone"}]
        /\ \A a \in Addr : env'[a].wait_count = env[a].wait_count
        /\ \A a \in Addr : env'[a].detached <=> env[a].detached \/ (a = e /\ Detachable(e))
        /\ \A t \in Tid : native'[t] =
               IF Detachable(e) /\ t = env[e].handle /\ native[t] = "running" THEN "detached"
               ELSE native[t]
    BY <1>2, <1>5, <2>1, DetachFacts
  <2>3. /\ pc' \in [Tid -> Labels] /\ loc' \in [Tid -> LocalType]
        /\ \A q \in Tid : q # p => pc'[q] = pc[q] /\ loc'[q] = loc[q]
        /\ pc'[p] \in {"run", "find", "traverse", "joined"}
        /\ Moved(p) /\ Frame(p)' /\ Order(p)' /\ Asks(p)'
    <3>1. pc[p] \in InCluster /\ UNCHANGED <<list, handle_id, app, ended>> /\ loc[p].back # "joined"
      BY <1>1, <1>2, <1>3 DEF InCluster
    <3> QED
      BY <3>1, <1>3, <1>5, <2>2, ReturnStep
  <2>4. PthreadTypes'
    BY <1>1, <1>2, <1>3, <2>2, <2>3 DEF PthreadTypes
  <2>5. Handled' /\ Waits'
    <3>1. ~AtJoin(p) /\ ~AtJoin(p)' /\ pc'[p] \notin {"exit_del", "exit_test"}
      BY <1>1, <2>3 DEF AtJoin
    <3> QED
      BY <3>1, <1>2, <1>3, <1>5, <2>1, <2>3, <2>4, DetachKeeps
  <2>6. \A a \in Addr : env'[a].detached =>
              \/ env[a].detached \/ aliased'
              \/ env[a].tid \in ended' \/ app'[env[a].tid] = "detached"
    <3>1. app[loc[p].info] = "detached"
      BY <1>1, <1>2 DEF Asks, InCluster
    <3> QED
      BY <3>1, <1>3, <2>2
  <2>7. /\ pc'[p] \in {"create_thread", "create_fail2"} <=> pc[p] \in {"create_thread", "create_fail2"}
        /\ loc'[p].new = loc[p].new \/ pc[p] \notin {"create_thread", "create_fail2"}
        /\ p # 0 => (pc'[p] \in Exits <=> pc[p] \in Exits)
        /\ p # 0 /\ pc'[p] \in Exits \cup {"leave"} => p \in ended'
        /\ occupied' = occupied
        /\ \A t \in Tid : native'[t] = "none" <=> native[t] = "none"
    BY <1>1, <2>2, <2>3 DEF Exits
  <2> QED
    BY <1>3, <2>3, <2>4, <2>5, <2>6, <2>7, MovedInv
<1> QED
  BY <1>4, <1>5 DEF DetachMark

(* wasm_cluster_cancel_thread sets a flag and returns.                     *)
LEMMA CancelMarkInv ==
    ASSUME IInv, NEW p \in Tid, Cluster(p), CancelMark(p)
    PROVE  IInv'
<1> DEFINE e == loc[p].e
<1>1. /\ pc[p] = "cancel" /\ UNCHANGED <<list, next, occupied, native>> /\ destroyed' = destroyed
      /\ env' = [env EXCEPT ![e].terminate = TRUE] /\ Return(p, 0)
  BY DEF CancelMark, At
<1>2. /\ PthreadTypes /\ Framed /\ Frame(p) /\ e \in Addr /\ loc[p].back # "joined" /\ env[e] \in EnvType
  BY <1>1 DEF IInv, Framed, Frame, InCluster, PthreadTypes, LocalType
<1>3. /\ UNCHANGED <<handle_id, info, app, ended, joined>>
      /\ createFailed' \in BOOLEAN /\ aliased' \in BOOLEAN /\ AppMoved
      /\ (createFailed => createFailed') /\ (aliased => aliased')
  <2>1. destroyed' = destroyed
    BY <1>1
  <2> QED
    BY <2>1, ClusterRest
<1>4. /\ env' \in [Addr -> EnvType] /\ EnvSame
      /\ \A a \in Addr : env'[a].detached = env[a].detached /\ env'[a].wait_count = env[a].wait_count
  <2>1. env' \in [Addr -> EnvType] /\ env'[e] = [env[e] EXCEPT !.terminate = TRUE]
        /\ \A a \in Addr : a # e => env'[a] = env[a]
    BY <1>1, <1>2 DEF PthreadTypes, EnvType
  <2>2. /\ env'[e].alive = env[e].alive /\ env'[e].tid = env[e].tid /\ env'[e].handle = env[e].handle
        /\ env'[e].aux = env[e].aux /\ env'[e].detached = env[e].detached
        /\ env'[e].wait_count = env[e].wait_count
    BY <1>2, <2>1 DEF EnvType
  <2> QED
    BY <2>1, <2>2 DEF EnvSame
<1>5. /\ pc' \in [Tid -> Labels] /\ loc' \in [Tid -> LocalType]
      /\ \A q \in Tid : q # p => pc'[q] = pc[q] /\ loc'[q] = loc[q]
      /\ pc'[p] \in {"run", "find", "traverse", "joined"}
      /\ Moved(p) /\ Frame(p)' /\ Order(p)' /\ Asks(p)'
  <2>1. pc[p] \in InCluster /\ UNCHANGED <<list, handle_id, app, ended>>
    BY <1>1, <1>3 DEF InCluster
  <2> QED
    BY <2>1, <1>1, <1>2, <1>3, <1>4, ReturnStep
<1>6. PthreadTypes'
  BY <1>1, <1>2, <1>3, <1>4, <1>5 DEF PthreadTypes
<1> QED
  BY <1>1, <1>3, <1>4, <1>5, <1>6, QuietInv DEF AtJoin, Exits

(* The steps that use freed memory.                                        *)
LEMMA FreedInv ==
    ASSUME IInv, NEW p \in Tid, Cluster(p), UseFreedEnv(p) \/ UseFreedNode(p) \/ ExitDestroyed(p)
    PROVE  IInv'
<1>1. UNCHANGED <<list, next, occupied, env, destroyed, native, pc, loc>> /\ destroyed' = destroyed
  BY DEF UseFreedEnv, UseFreedNode, ExitDestroyed
<1>2. /\ UNCHANGED <<handle_id, info, app, ended, joined>>
      /\ createFailed' \in BOOLEAN /\ aliased' \in BOOLEAN
      /\ (createFailed => createFailed') /\ (aliased => aliased')
  <2>1. destroyed' = destroyed
    BY <1>1
  <2> QED
    BY <2>1, ClusterRest
<1> QED
  BY <1>1, <1>2, UndefinedInv

(* A traversal of the list goes on to its next node, or ends.              *)
LEMMA TraverseNextInv ==
    ASSUME IInv, NEW p \in Tid, Cluster(p), TraverseNext(p)
    PROVE  IInv'
<1> DEFINE n == loc[p].node
<1>1. /\ pc[p] = "traverse" /\ UNCHANGED <<list, next, occupied, env, native>> /\ destroyed' = destroyed
  BY DEF TraverseNext, At
<1>2. /\ PthreadTypes /\ Framed /\ Frame(p) /\ Order(p) /\ loc[p] \in LocalType
      /\ loc[p].done \in {"destroy", "exit_del", "create_failed"}
      /\ (loc[p].done \in {"destroy", "exit_del"} => p = 0)
      /\ n \in Addr \cup {NULL} /\ NULL \notin Nat
  BY <1>1, ThreadAssumption DEF IInv, Framed, Frame, Ordered, PthreadTypes, LocalType
<1>3. /\ UNCHANGED <<handle_id, info, app, ended, joined>>
      /\ createFailed' \in BOOLEAN /\ aliased' \in BOOLEAN /\ AppMoved
      /\ (createFailed => createFailed') /\ (aliased => aliased')
  <2>1. destroyed' = destroyed
    BY <1>1
  <2> QED
    BY <2>1, ClusterRest
<1>4. EnvSame
      /\ \A a \in Addr : env'[a].detached = env[a].detached /\ env'[a].wait_count = env[a].wait_count
  BY <1>1 DEF EnvSame
<1> DEFINE done == /\ Goto(p, loc[p].done) /\ loc' = loc
           skip == /\ n # NULL /\ pc' = pc
                   /\ loc' = [loc EXCEPT ![p] = [loc[p] EXCEPT !.node = next[n]]]
           visit == /\ n # NULL /\ n # loc[p].self /\ Goto(p, "find")
                    /\ loc' = [loc EXCEPT ![p] =
                         [loc[p] EXCEPT !.nextNode = next[n], !.e = n,
                                        !.then = IF loc[p].cancel THEN "cancel" ELSE "join",
                                        !.back = "traverse"]]
<1>5. done \/ skip \/ visit
  BY <1>2 DEF TraverseNext
<1>6. /\ pc' \in [Tid -> Labels] /\ loc' \in [Tid -> LocalType]
      /\ \A q \in Tid : q # p => pc'[q] = pc[q] /\ loc'[q] = loc[q]
      /\ loc'[p].done = loc[p].done /\ loc'[p].new = loc[p].new /\ loc'[p].self = loc[p].self
      /\ loc'[p].exec_env = loc[p].exec_env
      /\ \/ pc'[p] = loc[p].done \/ pc'[p] = "traverse"
         \/ /\ pc'[p] = "find" /\ loc'[p].e = n /\ n \in Addr /\ n # loc[p].self
            /\ loc'[p].then \in {"join", "cancel"} /\ loc'[p].back = "traverse"
  <2>1. CASE done
    BY <1>2, <2>1 DEF Goto, PthreadTypes, Labels
  <2>2. CASE skip
    <3>1. n \in Addr /\ next[n] \in Addr \cup {NULL}
      BY <1>2, <2>2 DEF PthreadTypes
    <3> DEFINE c == [loc[p] EXCEPT !.node = next[n]]
    <3>2. c \in LocalType /\ c.done = loc[p].done /\ c.new = loc[p].new /\ c.self = loc[p].self
          /\ c.exec_env = loc[p].exec_env
      BY <1>2, <3>1 DEF LocalType
    <3>3. loc' = [loc EXCEPT ![p] = c] /\ pc' = pc
      BY <2>2
    <3> HIDE DEF c
    <3> QED
      BY <1>1, <1>2, <3>2, <3>3 DEF PthreadTypes
  <2>3. CASE visit
    <3>1. n \in Addr /\ next[n] \in Addr \cup {NULL}
      BY <1>2, <2>3 DEF PthreadTypes
    <3> DEFINE th == IF loc[p].cancel THEN "cancel" ELSE "join"
               c == [loc[p] EXCEPT !.nextNode = next[n], !.e = n, !.then = th, !.back = "traverse"]
    <3>2. th \in {"join", "cancel"}
      OBVIOUS
    <3>3. loc' = [loc EXCEPT ![p] = c]
      BY <2>3
    <3> HIDE DEF th
    <3>4. c \in LocalType /\ c.done = loc[p].done /\ c.new = loc[p].new /\ c.self = loc[p].self
          /\ c.exec_env = loc[p].exec_env /\ c.e = n /\ c.then = th /\ c.back = "traverse"
      <4> DEFINE b == [loc[p] EXCEPT !.nextNode = next[n], !.e = n]
      <4>1. b \in LocalType /\ b.done = loc[p].done /\ b.new = loc[p].new /\ b.self = loc[p].self
            /\ b.exec_env = loc[p].exec_env /\ b.e = n
        BY <1>2, <3>1 DEF LocalType
      <4>2. c = [b EXCEPT !.then = th, !.back = "traverse"]
        BY <1>2 DEF LocalType
      <4> HIDE DEF b, c
      <4> QED
        BY <3>2, <4>1, <4>2 DEF LocalType
    <3> HIDE DEF c
    <3>5. loc' \in [Tid -> LocalType] /\ loc'[p] = c /\ \A q \in Tid : q # p => loc'[q] = loc[q]
      BY <1>2, <3>3, <3>4 DEF PthreadTypes
    <3>6. pc' \in [Tid -> Labels] /\ pc'[p] = "find" /\ \A q \in Tid : q # p => pc'[q] = pc[q]
      BY <1>2, <2>3 DEF PthreadTypes, Goto, Labels
    <3> QED
      BY <2>3, <3>1, <3>2, <3>4, <3>5, <3>6
  <2> QED
    BY <1>5, <2>1, <2>2, <2>3
<1> HIDE DEF done, skip, visit
<1>7. PthreadTypes'
  BY <1>1, <1>2, <1>3, <1>6 DEF PthreadTypes
<1>8. Moved(p)
  <2>1. pc'[p] \in {"destroy", "exit_del", "create_failed", "traverse", "find"}
    BY <1>2, <1>6
  <2>2. Creating(p)' => Creating(p)
    BY <1>6, <2>1 DEF Creating
  <2> QED
    <3>1. OthersStay(p) /\ EnvSame
      BY <1>4, <1>6 DEF OthersStay
    <3>2. pc[p] = "traverse" /\ list' = list /\ handle_id' = handle_id
      BY <1>1, <1>3
    <3>3. loc'[p].exec_env = loc[p].exec_env /\ loc'[p].new = loc[p].new
      BY <1>6
    <3> QED
      BY <2>1, <2>2, <3>1, <3>2, <3>3 DEF Moved, Stepped
<1>9. Frame(p)'
  <2>1. loc'[p].done = loc[p].done
    BY <1>6
  <2>2. CASE pc'[p] = loc[p].done
    BY <1>2, <2>1, <2>2 DEF Frame, InCluster
  <2>3. CASE pc'[p] = "traverse"
    BY <1>2, <2>1, <2>3 DEF Frame, InCluster
  <2>4. CASE pc'[p] = "find" /\ loc'[p].e = n /\ n \in Addr
             /\ loc'[p].then \in {"join", "cancel"} /\ loc'[p].back = "traverse"
    <3>1. loc'[p].e # NULL
      BY <2>4, ThreadAssumption DEF Addr
    <3> QED
      BY <1>2, <2>1, <2>4, <3>1 DEF Frame, InCluster
  <2> QED
    BY <1>6, <2>2, <2>3, <2>4
<1>10. Order(p)'
  BY <1>1, <1>2, <1>3, <1>6 DEF Order, JoinCall, AtJoin, InCluster
<1>11. Asks(p)'
  BY <1>2, <1>6 DEF Asks, JoinCall, AtJoin, InCluster
<1> QED
  BY <1>1, <1>2, <1>3, <1>4, <1>6, <1>7, <1>8, <1>9, <1>10, <1>11, QuietInv DEF AtJoin, Exits

(* The environment of a creation is no other thread's and no other         *)
(* creation's.                                                             *)
LEMMA CreatorFacts ==
    ASSUME PthreadTypes, Owners, Created, NEW p \in Tid, Creating(p)
    PROVE  /\ loc[p].new \in Addr /\ env[loc[p].new].alive
           /\ env[loc[p].new].tid \in Thread /\ env[loc[p].new].tid \in Tid /\ env[loc[p].new].tid # 0
           /\ env[loc[p].new].tid < handle_id
           /\ env[loc[p].new].aux # NULL /\ pc[env[loc[p].new].tid] = "none"
           /\ \A q \in Tid : Runs(q) => loc[q].exec_env # loc[p].new
           /\ \A q \in Tid : q # p /\ Creating(q) => loc[q].new # loc[p].new
           /\ \A b \in Addr : env[b].alive /\ env[b].tid = env[loc[p].new].tid => b = loc[p].new
<1> DEFINE a == loc[p].new
<1>1. /\ a \in Addr /\ env[a].alive /\ env[a].tid \in Thread /\ env[a].aux # NULL
      /\ pc[env[a].tid] = "none" /\ env[a].tid \in Tid /\ env[a].tid # 0
  BY DEF Created, Creator, PthreadTypes, LocalType, Thread
<1>2. env[a].tid < handle_id
  BY <1>1, ThreadAssumption DEF Created, Tid
<1>3. ASSUME NEW q \in Tid, Runs(q) PROVE loc[q].exec_env # a
  BY <1>1, <1>3 DEF Owners, Own, Runs
<1>4. \A q \in Tid : q # p /\ Creating(q) => loc[q].new # a
  BY DEF Created
<1>5. \A b \in Addr : env[b].alive /\ env[b].tid = env[a].tid => b = a
  BY <1>1 DEF Owners
<1> QED
  BY <1>1, <1>2, <1>3, <1>4, <1>5

(* os_thread_create succeeds.                                              *)
LEMMA CreateThreadInv ==
    ASSUME IInv, NEW p \in Tid, Cluster(p), CreateThread(p)
    PROVE  IInv'
<1> DEFINE a == loc[p].new
           t == env[a].tid
           l == [Locals(a) EXCEPT !.parent = p]
           m == Locals(loc[p].exec_env)
<1>1. /\ pc[p] = "create_thread" /\ UNCHANGED <<list, next, occupied, env>> /\ destroyed' = destroyed
      /\ native' = [native EXCEPT ![t] = "running"]
      /\ pc' = [pc EXCEPT ![p] = "create_wait", ![t] = "start"]
      /\ loc' = [loc EXCEPT ![p] = m, ![t] = l]
  BY DEF CreateThread, At
<1>2. /\ PthreadTypes /\ Framed /\ Owners /\ Created /\ Listed /\ Handled /\ Waits /\ Ordered /\ Ends
      /\ AuxExact /\ Frame(p) /\ Creating(p)
  BY <1>1 DEF IInv, Framed, Creating
<1>3. /\ UNCHANGED <<handle_id, info, app, ended, joined>>
      /\ createFailed' \in BOOLEAN /\ aliased' \in BOOLEAN /\ AppMoved
      /\ (createFailed => createFailed') /\ (aliased => aliased')
  <2>1. destroyed' = destroyed
    BY <1>1
  <2> QED
    BY <2>1, ClusterRest
<1>4. /\ a \in Addr /\ env[a].alive /\ t \in Thread /\ t \in Tid /\ t # 0 /\ t < handle_id
      /\ env[a].aux # NULL /\ pc[t] = "none" /\ t # p
      /\ \A q \in Tid : q # p /\ Creating(q) => loc[q].new # a
      /\ \A b \in Addr : env[b].alive /\ env[b].tid = t => b = a
      /\ native[t] = "none" /\ a \in ToSet(list)
  <2>1. /\ a \in Addr /\ env[a].alive /\ t \in Thread /\ t \in Tid /\ t # 0 /\ t < handle_id
        /\ env[a].aux # NULL /\ pc[t] = "none"
        /\ \A q \in Tid : q # p /\ Creating(q) => loc[q].new # a
        /\ \A b \in Addr : env[b].alive /\ env[b].tid = t => b = a
    BY <1>2, CreatorFacts
  <2>2. native[t] = "none" /\ a \in ToSet(list)
    BY <1>1, <1>2, <2>1 DEF Handled, Listed
  <2>3. t # p
    BY <1>1, <2>1
  <2> QED
    BY <2>1, <2>2, <2>3
<1>5. /\ l \in LocalType /\ l.exec_env = a /\ l.done = "none"
      /\ m \in LocalType /\ m.exec_env = loc[p].exec_env /\ m.done = "none"
  <2>1. loc[p].exec_env \in Addr \cup {NULL}
    BY <1>2 DEF PthreadTypes, LocalType
  <2> QED
    BY <2>1, <1>4 DEF Locals, NoLocals, LocalType
<1> HIDE DEF l, m, t
<1>6. /\ pc' \in [Tid -> Labels] /\ loc' \in [Tid -> LocalType]
      /\ native' \in [Tid -> {"none", "running", "detached", "zombie", "gone"}]
      /\ pc'[p] = "create_wait" /\ pc'[t] = "start" /\ loc'[t] = l /\ loc'[p] = m
      /\ native'[t] = "running"
      /\ \A q \in Tid : q # p /\ q # t => pc'[q] = pc[q]
      /\ \A q \in Tid : q # t => native'[q] = native[q] /\ loc'[q].exec_env = loc[q].exec_env
      /\ \A q \in Tid : q # t /\ q # p => loc'[q] = loc[q]
  BY <1>1, <1>2, <1>4, <1>5 DEF PthreadTypes, Labels
<1>7. PthreadTypes'
  BY <1>1, <1>2, <1>3, <1>6 DEF PthreadTypes
<1>8. Framed'
  <2>1. ASSUME NEW q \in Tid PROVE Frame(q)'
    <3>1. CASE q = p
      BY <3>1, <1>4, <1>5, <1>6 DEF Frame, InCluster
    <3>2. CASE q = t
      BY <3>2, <1>4, <1>5, <1>6 DEF Frame, InCluster
    <3>3. CASE q # p /\ q # t
      BY <3>3, <1>2, <1>6 DEF Framed, Frame, InCluster
    <3> QED
      BY <3>1, <3>2, <3>3
  <2> QED
    BY <2>1 DEF Framed
<1>9. Owners'
  <2>1. ASSUME NEW q \in Tid PROVE Own(q)'
    <3>1. CASE q = t
      <4>1. loc'[q].exec_env = a /\ pc'[q] = "start" /\ env'[a] = env[a] /\ list' = list
        BY <1>1, <1>5, <1>6, <3>1
      <4>2. a # NULL
        BY <1>4, ThreadAssumption DEF Addr
      <4> QED
        BY <4>1, <4>2, <1>4, <3>1 DEF Own, t
    <3>2. CASE q # t
      <4>1. Own(q) /\ loc'[q].exec_env = loc[q].exec_env /\ (Runs(q)' => Runs(q))
        BY <3>2, <1>1, <1>2, <1>6 DEF Owners, Runs
      <4>2. (pc'[q] # "start" => pc[q] # "start") /\ (pc'[q] # "exit_test" => pc[q] # "exit_test")
        BY <3>2, <1>1, <1>6
      <4> QED
        BY <4>1, <4>2, <1>1 DEF Own
    <3> QED
      BY <3>1, <3>2
  <2>2. \A b \in Addr : env[b].alive => env[b].tid # NULL /\ pc'[env[b].tid] # "over"
    <3>1. \A q \in Tid : pc[q] # "over" => pc'[q] # "over"
      BY <1>6
    <3>2. \A b \in Addr : env[b].tid \in Tid \cup {NULL}
      BY <1>2 DEF PthreadTypes, EnvType
    <3> QED
      BY <3>1, <3>2, <1>2 DEF Owners
  <2> QED
    BY <2>1, <2>2, <1>1, <1>2 DEF Owners
<1>10. \A q \in Tid : Creating(q)' => Creating(q) /\ q # p /\ q # t /\ loc'[q] = loc[q] /\ pc'[q] = pc[q]
  BY <1>5, <1>6 DEF Creating
<1>11. Created'
  <2>1. ASSUME NEW q \in Tid PROVE Creator(q)'
    <3>1. SUFFICES ASSUME Creating(q)'
                   PROVE  LET b == loc'[q].new IN
                          /\ b # NULL /\ env'[b].alive /\ env'[b].tid \in Thread /\ env'[b].aux # NULL
                          /\ pc'[env'[b].tid] = "none"
      BY DEF Creator
    <3>2. Creating(q) /\ q # p /\ loc'[q] = loc[q] /\ loc[q].new # a
      BY <1>4, <1>10, <3>1
    <3>3. /\ loc[q].new \in Addr /\ loc[q].new # NULL /\ env[loc[q].new].alive
          /\ env[loc[q].new].tid \in Thread /\ env[loc[q].new].tid \in Tid
          /\ env[loc[q].new].aux # NULL /\ pc[env[loc[q].new].tid] = "none"
      BY <1>2, <3>2, CreatorFacts, ThreadAssumption DEF Addr
    <3>4. env[loc[q].new].tid # t /\ env[loc[q].new].tid # p
      BY <3>2, <3>3, <1>1, <1>4
    <3> QED
      BY <3>2, <3>3, <3>4, <1>1, <1>6
  <2>2. \A q, r \in Tid : Creating(q)' /\ Creating(r)' /\ loc'[q].new = loc'[r].new => q = r
    BY <1>2, <1>10 DEF Created
  <2>3. \A s \in Thread : s >= handle_id' => pc'[s] = "none"
    <3>1. SUFFICES ASSUME NEW s \in Thread, s >= handle_id PROVE pc'[s] = "none"
      BY <1>3
    <3>2. s \in Tid /\ pc[s] = "none" /\ s # p
      BY <3>1, <1>1, <1>2 DEF Created, Thread
    <3>3. s # t
      BY <3>1, <1>2, <1>4, ThreadAssumption DEF PthreadTypes, Tid
    <3> QED
      BY <3>2, <3>3, <1>6
  <2>4. \A s \in Thread : pc'[s] \in {"none", "start", "init"} =>
            app'[s] = "none" /\ ~info'[s].mapped /\ info'[s].status = "THREAD_INIT"
    BY <1>2, <1>3, <1>4, <1>6 DEF Created, Thread
  <2> QED
    BY <2>1, <2>2, <2>3, <2>4, <1>1, <1>2, <1>3 DEF Created
<1>12. Listed'
  <2>1. \A q \in Tid : pc'[q] = "create_thread" => pc[q] = "create_thread" /\ loc'[q] = loc[q]
    BY <1>6
  <2>2. \A q \in Tid : pc'[q] = "exit_test" => pc[q] = "exit_test" /\ loc'[q] = loc[q]
    BY <1>6
  <2> QED
    <3>1. Once(list) /\ \A q \in Tid : pc[q] = "create_thread" => loc[q].new \in ToSet(list)
      BY <1>2 DEF Listed
    <3>2. ASSUME NEW b \in ToSet(list)
          PROVE  /\ env[b].alive
                 /\ \A q \in Tid : Creating(q)' /\ pc'[q] # "create_thread" => loc'[q].new # b
                 /\ \A q \in Tid : pc'[q] = "exit_test" => loc'[q].exec_env # b
      BY <3>2, <2>2, <1>2, <1>10 DEF Listed
    <3> QED
      BY <3>1, <3>2, <2>1, <1>1 DEF Listed
<1>13. Handled'
  <2>1. \A q \in Tid : native'[q] = "none" <=> pc'[q] = "none"
    BY <1>1, <1>2, <1>6 DEF Handled
  <2>2. \A q \in Thread : native'[q] \in {"zombie", "gone"} <=> pc'[q] = "over"
    BY <1>1, <1>2, <1>6 DEF Handled, Thread
  <2>3. \A b \in Addr : env[b].handle \in Tid \cup {NULL} /\ env[b].handle # t
    BY <1>2, <1>4, ThreadAssumption DEF Handled, PthreadTypes, EnvType, Tid
  <2>4. \A b \in Addr : env[b].handle # NULL => pc'[env[b].handle] # "none"
    BY <2>3, <1>2, <1>6 DEF Handled
  <2>5. native'[0] \in {"running", "detached"} /\ \A h \in Thread : h # t => native'[h] = native[h]
    BY <1>2, <1>4, <1>6, ThreadAssumption DEF Handled, Thread, Tid
  <2> QED
    <3>1. \A b \in Addr :
            LET h == env[b].handle IN
            /\ h \in {NULL, env[b].tid}
            /\ env[b].alive /\ h = NULL => ~env[b].detached
            /\ env[b].alive /\ h \in Thread => (env[b].detached <=> native[h] = "detached")
            /\ ~env[b].alive /\ h \in Thread => native[h] \in {"zombie", "gone"}
            /\ env[b].tid = 0 => b = MainEnv
      BY <1>2 DEF Handled
    <3>2. \A b \in Addr : env[b].handle \in Thread => native'[env[b].handle] = native[env[b].handle]
      BY <2>3, <2>5
    <3> QED
      <4>1. ASSUME NEW b \in Addr
            PROVE  LET h == env'[b].handle IN
                   /\ h \in {NULL, env'[b].tid}
                   /\ h # NULL => pc'[h] # "none"
                   /\ env'[b].alive /\ h = NULL => ~env'[b].detached
                   /\ env'[b].alive /\ h \in Thread => (env'[b].detached <=> native'[h] = "detached")
                   /\ ~env'[b].alive /\ h \in Thread => native'[h] \in {"zombie", "gone"}
                   /\ env'[b].tid = 0 => b = MainEnv
        <5>1. env' = env
          BY <1>1
        <5> QED
          BY ONLY <5>1, <3>1, <3>2, <2>4, b \in Addr
      <4>2. ASSUME NEW q \in Tid, pc'[q] = "start"
            PROVE  native'[q] = "running" /\ \A b \in Addr : env'[b].handle # q
        BY <4>2, <2>3, <1>1, <1>2, <1>6 DEF Handled
      <4> QED
        BY <4>1, <4>2, <2>1, <2>2, <2>5 DEF Handled
<1>14. \A q \in Tid : /\ AtJoin(q)' <=> AtJoin(q) /\ q # p /\ q # t
                      /\ AtJoin(q) => q # p /\ q # t
                      /\ JoinCall(q)' => JoinCall(q) /\ q # p /\ q # t
                      /\ pc'[q] \in InCluster => pc[q] \in InCluster /\ q # p /\ q # t
                      /\ pc'[q] = "joined" => pc[q] = "joined" /\ q # p /\ q # t
                      /\ pc'[q] \in {"exit_del", "exit_test"} => pc[q] = pc'[q] /\ q # t
  BY <1>1, <1>4, <1>6 DEF AtJoin, JoinCall, InCluster
<1>15. Waits'
  <2>1. \A q \in Tid : AtJoin(q) /\ loc[q].h \in Thread => loc[q].h # t
    BY <1>2, <1>4 DEF Waits
  <2>2. \A s : Joiner(s) => Joiner(s)'
    BY <1>6, <1>14 DEF Joiner
  <2>3. \A h \in Thread : h \in Tid /\ (h # t => native'[h] = native[h]) /\ native'[t] = "running"
    BY <1>6 DEF Thread
  <2>4. \A q \in Tid : pc'[q] = "joining" => AtJoin(q)' /\ pc[q] = "joining" /\ loc'[q] = loc[q]
    BY <1>6 DEF AtJoin
  <2>5. \A q, r \in Tid : \A s \in Thread : Joins(q, s)' /\ Joins(r, s)' => q = r
    BY <2>4, <1>2 DEF Waits, Joins
  <2>6. \A q \in Tid : AtJoin(q)' /\ loc'[q].h \in Thread =>
          /\ native'[loc'[q].h] \notin {"none", "detached"} /\ pc'[loc'[q].h] # "start"
          /\ \A b \in Addr : env'[b].alive /\ env'[b].handle = loc'[q].h => env'[b].wait_count > 0
    BY <2>1, <2>3, <1>1, <1>2, <1>6, <1>14 DEF Waits
  <2>7. \A q \in Tid : pc'[q] = "joining" /\ loc'[q].h \in Thread => native'[loc'[q].h] # "gone"
    BY <2>1, <2>3, <2>4, <1>2 DEF Waits, AtJoin
  <2>8. \A s \in Thread : pc'[s] \in {"exit_del", "exit_test"} =>
          env'[loc'[s].exec_env].detached \/ env'[loc'[s].exec_env].wait_count > 0
    BY <2>3, <1>1, <1>2, <1>6, <1>14 DEF Waits
  <2>9. ~createFailed' =>
          /\ \A b \in Addr : env'[b].alive /\ env'[b].tid \in Thread /\ env'[b].wait_count > 0
                               => Joiner(env[b].tid)'
          /\ \A s \in Thread : native'[s] = "zombie" => Joiner(s)'
    BY <2>2, <2>3, <1>1, <1>2, <1>3 DEF Waits
  <2> QED
    BY <2>5, <2>6, <2>7, <2>8, <2>9, <1>1 DEF Waits
<1>16. Ordered'
  <2>1. ASSUME NEW q \in Tid PROVE Order(q)'
    <3>1. q = p \/ q = t => loc'[q].done = "none"
      BY <1>5, <1>6
    <3>2. q # p /\ q # t => pc'[q] = pc[q] /\ loc'[q] = loc[q] /\ Order(q)
      BY <1>2, <1>6 DEF Ordered
    <3>3. CASE q = p \/ q = t
      <4>1. ~JoinCall(q)' /\ ~AtJoin(q)' /\ pc'[q] \notin InCluster \cup {"join", "create_fail2"}
        BY <3>3, <1>6, <1>14 DEF InCluster
      <4> QED
        BY <3>1, <3>3, <4>1 DEF Order
    <3>4. CASE q # p /\ q # t
      BY <3>2, <3>4, <1>1, <1>3 DEF Order, JoinCall, AtJoin
    <3> QED
      BY <3>3, <3>4
  <2> QED
    BY <2>1, <1>1, <1>2, <1>3 DEF Ordered
<1>17. Ends'
  <2>1. \A q \in Thread : q \in Tid /\ (pc[q] # "none" => pc'[q] # "none")
                          /\ (pc'[q] \in Exits \cup {"leave", "over"} => pc[q] \in Exits \cup {"leave", "over"})
    BY <1>1, <1>6 DEF Thread, Exits
  <2>2. \A e : \A h \in Thread : Leads(e, h) => Leads(e, h)'
    BY <2>1, <1>1, <1>3 DEF Leads
  <2>3. ASSUME NEW q \in Tid PROVE Asks(q)'
    <3>1. CASE q = p \/ q = t
      <4>1. ~JoinCall(q)' /\ ~AtJoin(q)' /\ pc'[q] \notin InCluster /\ pc'[q] # "joined"
        BY <3>1, <1>6, <1>14 DEF InCluster
      <4> QED
        BY <3>1, <4>1 DEF Asks
    <3>2. CASE q # p /\ q # t
      <4>1. pc'[q] = pc[q] /\ loc'[q] = loc[q] /\ Asks(q) /\ Frame(q) /\ loc[q] \in LocalType
        BY <3>2, <1>2, <1>6 DEF Ends, Framed, PthreadTypes
      <4>2. JoinCall(q) => loc[q].info \in Thread
        BY <4>1 DEF Frame, JoinCall, InCluster, LocalType
      <4>3. JoinCall(q) => Leads(loc[q].e, loc[q].info)'
        BY <2>2, <4>1, <4>2 DEF Asks, Leads
      <4> QED
        BY <4>1, <4>3, <1>3 DEF Asks, JoinCall, AtJoin
    <3> QED
      BY <3>1, <3>2
  <2>4. \A h \in Thread : info'[h].mapped => Leads(info[h].exec_env, h)'
    BY <2>2, <1>2, <1>3 DEF Ends
  <2>5. JoinWaits'
    BY <1>2, <1>3 DEF Ends, JoinWaits
  <2> QED
    BY <2>1, <2>3, <2>4, <2>5, <1>1, <1>2, <1>3 DEF Ends, Leads
<1>18. AuxExact'
  <2>1. ASSUME NEW b \in Addr PROVE HasSegment(b)' <=> HasSegment(b)
    <3>1. CASE b = a
      <4>1. HasSegment(b)
        BY <3>1, <1>1, <1>4 DEF HasSegment, t
      <4>2. HasSegment(b)'
        BY <3>1, <1>1, <1>4, <1>6 DEF HasSegment, t
      <4> QED
        BY <4>1, <4>2
    <3>2. CASE b # a
      <4>1. SUFFICES ASSUME env[b].alive, env[b].aux # NULL PROVE HasSegment(b)' <=> HasSegment(b)
        BY <1>1 DEF HasSegment
      <4>2. env[b].tid \in Tid /\ env[b].tid # t
        BY <3>2, <4>1, <1>2, <1>4 DEF Owners, PthreadTypes, EnvType
      <4>3. native'[env[b].tid] = native[env[b].tid]
            /\ (pc'[env[b].tid] \in Exits <=> pc[env[b].tid] \in Exits)
        BY <4>2, <1>1, <1>6 DEF Exits
      <4>4. (\E q \in Tid : loc'[q].new = b /\ pc'[q] \in {"create_thread", "create_fail2"})
            <=> \E q \in Tid : loc[q].new = b /\ pc[q] \in {"create_thread", "create_fail2"}
        BY <3>2, <1>1, <1>4, <1>6
      <4> QED
        BY <4>1, <4>3, <4>4, <1>1 DEF HasSegment, Exits
    <3> QED
      BY <3>1, <3>2
  <2>2. {b \in Addr : HasSegment(b)'} = {b \in Addr : HasSegment(b)}
    BY <2>1
  <2> QED
    BY <2>2, <1>1, <1>2 DEF AuxExact
<1> QED
  BY <1>7, <1>8, <1>9, <1>11, <1>12, <1>13, <1>15, <1>16, <1>17, <1>18 DEF IInv

(* An environment leaves the list.                                         *)
LEMMA RemovedKeeps ==
    ASSUME PthreadTypes, PthreadTypes', Owners, Listed, NEW p \in Tid, Stepped(p), pc[p] # "exit_test",
           NEW a \in Addr, ToSet(list') = ToSet(list) \ {a}, Once(list'),
           \A q \in Tid : Runs(q)' /\ pc'[q] # "exit_test" => loc[q].exec_env # a,
           \A q \in Tid : pc'[q] = "create_thread" => loc[q].new # a,
           pc'[p] = "exit_test" => loc[p].exec_env = a,
           Creating(p)' => loc[p].new = a \/ pc[p] # "create_thread"
    PROVE  Owners' /\ Listed'
<1>1. \A q \in Tid : /\ pc'[q] # "start" => pc[q] # "start"
                     /\ loc'[q].exec_env = loc[q].exec_env
                     /\ Runs(q)' => Runs(q)
                     /\ pc'[q] = "create_thread" => q # p /\ pc[q] = "create_thread" /\ loc'[q] = loc[q]
                     /\ q # p => (pc'[q] = "exit_test" <=> pc[q] = "exit_test")
  BY DEF Stepped, OthersStay, Runs
<1>2. ASSUME NEW q \in Tid PROVE Own(q)'
  <2>1. Own(q) /\ loc[q].exec_env \in Addr \cup {NULL}
    BY DEF Owners, PthreadTypes, LocalType
  <2>2. pc'[q] # "exit_test" => pc[q] # "exit_test"
    BY <1>1
  <2>3. Runs(q)' /\ pc'[q] # "exit_test" => loc[q].exec_env # a
    OBVIOUS
  <2> QED
    BY <1>1, <2>1, <2>2, <2>3 DEF Own, Stepped, EnvSame
<1>3. \A b, c \in Addr : env'[b].alive /\ env'[c].alive /\ env'[b].tid = env'[c].tid => b = c
  BY DEF Owners, Stepped, EnvSame
<1>4. ASSUME NEW b \in Addr, env'[b].alive
      PROVE  env'[b].tid # NULL /\ pc'[env'[b].tid] # "over"
  <2>1. env[b].alive /\ env'[b].tid = env[b].tid /\ env[b].tid \in Tid \cup {NULL}
    BY <1>4 DEF Stepped, EnvSame, PthreadTypes, EnvType
  <2>2. env[b].tid # NULL /\ pc[env[b].tid] # "over"
    BY <2>1 DEF Owners
  <2> QED
    BY <2>1, <2>2 DEF Stepped, OthersStay
<1>5. Owners'
  BY <1>2, <1>3, <1>4 DEF Owners
<1>6. ASSUME NEW b \in ToSet(list')
      PROVE  /\ env'[b].alive
             /\ \A q \in Tid : Creating(q)' /\ pc'[q] # "create_thread" => loc'[q].new # b
             /\ \A t \in Tid : pc'[t] = "exit_test" => loc'[t].exec_env # b
  <2>1. b \in ToSet(list) /\ b # a /\ b \in Addr
    BY <1>6, ToSetIs DEF PthreadTypes
  <2>2. env'[b].alive
    BY <2>1 DEF Listed, Stepped, EnvSame
  <2>3. ASSUME NEW q \in Tid, Creating(q)', pc'[q] # "create_thread" PROVE loc'[q].new # b
    <3>1. CASE q = p
      BY <2>1, <2>3, <3>1 DEF Listed, Stepped
    <3>2. CASE q # p
      BY <2>1, <2>3, <3>2 DEF Listed, Stepped, OthersStay, Creating
    <3> QED
      BY <3>1, <3>2
  <2>4. ASSUME NEW t \in Tid, pc'[t] = "exit_test" PROVE loc'[t].exec_env # b
    BY <2>1, <2>4, <1>1 DEF Listed
  <2> QED
    BY <2>2, <2>3, <2>4
<1>7. ASSUME NEW q \in Tid, pc'[q] = "create_thread" PROVE loc'[q].new \in ToSet(list')
  BY <1>1, <1>7 DEF Listed
<1>8. Listed'
  BY <1>6, <1>7 DEF Listed
<1> QED
  BY <1>5, <1>8

(* os_thread_create fails: the environment leaves the list.                *)
LEMMA CreateFailsInv ==
    ASSUME IInv, NEW p \in Tid, Cluster(p), CreateFails(p)
    PROVE  IInv'
<1> DEFINE a == loc[p].new
<1>1. /\ pc[p] = "create_thread" /\ UNCHANGED <<occupied, env, native, loc>> /\ destroyed' = destroyed
      /\ bh_list_remove(a) /\ pc' = [pc EXCEPT ![p] = "create_fail2"]
  BY DEF CreateFails, At, Goto
<1>2. /\ PthreadTypes /\ Framed /\ Owners /\ Created /\ Listed /\ Handled /\ Waits /\ Ordered /\ Ends
      /\ AuxExact /\ Frame(p) /\ Creating(p) /\ Order(p)
  BY <1>1 DEF IInv, Framed, Creating, Ordered
<1>3. pc' \in [Tid -> Labels] /\ pc'[p] = "create_fail2" /\ \A q \in Tid : q # p => pc'[q] = pc[q]
  BY <1>1, <1>2 DEF PthreadTypes, Labels
<1>4. /\ UNCHANGED <<handle_id, info, app, ended, joined>>
      /\ createFailed' = TRUE /\ aliased' \in BOOLEAN /\ AppMoved
      /\ (createFailed => createFailed') /\ (aliased => aliased')
  <2>1. destroyed' = destroyed
    BY <1>1
  <2>2. createFailed' /\ createFailed' \in BOOLEAN /\ (createFailed => createFailed')
        /\ aliased' \in BOOLEAN /\ (aliased => aliased') /\ AppMoved
        /\ UNCHANGED <<handle_id, info, app, ended, joined>>
    BY <2>1, <1>3, ClusterRest
  <2>3. createFailed' = TRUE
    BY <2>2, Zenon
  <2> QED
    BY <2>2, <2>3
<1>5. /\ a \in Addr
      /\ \A q \in Tid : Runs(q) => loc[q].exec_env # a
      /\ \A q \in Tid : q # p /\ Creating(q) => loc[q].new # a
  BY <1>2, CreatorFacts
<1>6. /\ list' \in Seq(Addr) /\ ToSet(list') = ToSet(list) \ {a} /\ Once(list')
      /\ next' \in [Addr -> Addr \cup {NULL}]
  BY <1>1, <1>2, <1>5, RemoveFacts
<1>7. PthreadTypes'
  BY <1>1, <1>2, <1>3, <1>4, <1>6 DEF PthreadTypes
<1>8. Stepped(p)
  <2>1. OthersStay(p) /\ EnvSame
    BY <1>1, <1>3 DEF OthersStay, EnvSame
  <2> QED
    BY <2>1, <1>1, <1>2, <1>3, <1>4 DEF Stepped
<1>9. Framed'
  <2>1. Frame(p)'
    BY <1>1, <1>2, <1>3 DEF Frame, InCluster
  <2> QED
    BY <2>1, <1>2, <1>7, <1>8, MovedFramed DEF Stepped
<1>10. Owners' /\ Listed'
  <2>1. \A q \in Tid : Runs(q)' => Runs(q)
    BY <1>1, <1>3 DEF Runs
  <2>2. \A q \in Tid : pc'[q] = "create_thread" => loc[q].new # a
    BY <1>3, <1>5 DEF Creating
  <2>3. \A q \in Tid : Runs(q)' /\ pc'[q] # "exit_test" => loc[q].exec_env # a
    BY <2>1, <1>5
  <2>4. pc[p] # "exit_test" /\ pc'[p] # "exit_test" /\ (Creating(p)' => loc[p].new = a)
    BY <1>1, <1>3
  <2> QED
    BY <1>2, <1>5, <1>6, <1>7, <1>8, <2>2, <2>3, <2>4, RemovedKeeps
<1>11. Created'
  <2>1. \A t \in Thread : pc'[t] \in {"none", "start", "init"} =>
               /\ app'[t] = app[t] /\ info'[t].mapped = info[t].mapped
               /\ info'[t].status = info[t].status
    BY <1>4
  <2> QED
    BY <1>2, <1>7, <1>8, <2>1, MovedCreated
<1>12. /\ \A b \in Addr : env'[b].detached = env[b].detached /\ env'[b].wait_count = env[b].wait_count
       /\ \A t \in Tid : native'[t] = native[t]
       /\ ~AtJoin(p) /\ ~AtJoin(p)'
  BY <1>1, <1>3 DEF AtJoin
<1>13. Handled'
  <2>1. /\ \A t \in Tid : \/ native'[t] = native[t]
                          \/ t \in Thread /\ native[t] = "zombie" /\ native'[t] = "gone"
        /\ \A b \in Addr : env'[b].detached = env[b].detached
    BY <1>12
  <2> QED
    BY <1>2, <1>7, <1>8, <2>1, MovedHandled
<1>14. Waits'
  <2>1. /\ AtJoin(p)' <=> AtJoin(p)
        /\ AtJoin(p) => loc'[p].h = loc[p].h
        /\ pc'[p] = "joining" => pc[p] = "joining"
        /\ pc'[p] \notin {"exit_del", "exit_test"}
    BY <1>3, <1>12
  <2> QED
    BY <1>2, <1>4, <1>7, <1>8, <1>12, <2>1, MovedWaits
<1>15. Ordered'
  <2>1. Order(p)'
    BY <1>3, <1>4 DEF Order, JoinCall, InCluster
  <2>2. /\ \A h \in Thread : info'[h].mapped =>
               info[h].mapped /\ info'[h].exec_env = info[h].exec_env
        /\ OthersStay(p) /\ EnvSame
    BY <1>4, <1>8 DEF Stepped
  <2> QED
    BY <1>2, <1>4, <1>7, <2>1, <2>2, MovedOrdered DEF EnvSame
<1>16. Ends'
  <2>1. Asks(p)'
    BY <1>3 DEF Asks, JoinCall, AtJoin, InCluster
  <2>2. pc'[p] \notin Exits \cup {"leave"}
    BY <1>3 DEF Exits
  <2>3. \A h \in Thread :
             /\ info'[h].mapped => info[h].mapped /\ info'[h].exec_env = info[h].exec_env
             /\ info'[h].status = "THREAD_EXIT" => info[h].status = "THREAD_EXIT" \/ h \in ended'
             /\ app'[h] = "joinable" =>
                   app[h] = "joinable" /\ (info[h].mapped => info'[h].mapped \/ h \in ended')
             /\ app[h] \in {"joined", "detached"} => app'[h] = app[h]
             /\ joined'[h] \in {joined[h], "failed"} \/ h \in ended' \/ aliased'
    BY <1>4
  <2>4. \A b \in Addr : env'[b].detached =>
               \/ env[b].detached \/ aliased'
               \/ env[b].tid \in ended' \/ app'[env[b].tid] = "detached"
    BY <1>12
  <2> QED
    BY <1>2, <1>4, <1>7, <1>8, <2>1, <2>2, <2>3, <2>4, MovedEnds
<1>17. AuxExact'
  <2>1. p # 0 => (pc'[p] \in Exits <=> pc[p] \in Exits)
    BY <1>1, <1>3 DEF Exits
  <2> QED
    BY <1>1, <1>2, <1>3, <1>7, <1>8, <2>1, MovedAux
<1> QED
  BY <1>7, <1>9, <1>10, <1>11, <1>13, <1>14, <1>15, <1>16, <1>17 DEF IInv

(* free_aux_stack: one environment less has a segment, and that is free.   *)
LEMMA AuxFreed ==
    ASSUME AuxExact, NEW a \in Addr, HasSegment(a), ~HasSegment(a)',
           \A b \in Addr : b # a => (HasSegment(b)' <=> HasSegment(b)),
           \A b \in Addr : env'[b].aux = env[b].aux,
           occupied' = occupied \ {env[a].aux}
    PROVE  AuxExact'
<1> DEFINE users == {b \in Addr : HasSegment(b)}
           users2 == {b \in Addr : HasSegment(b)'}
<1>1. a \in users /\ \A b : b \in users2 <=> b \in users /\ b # a
  OBVIOUS
<1>2. occupied = {env[b].aux : b \in users} /\ \A b, c \in users : b # c => env[b].aux # env[c].aux
  BY DEF AuxExact
<1>3. users2 \subseteq Addr
  OBVIOUS
<1> HIDE DEF users, users2
<1>4. occupied' = {env[b].aux : b \in users2}
  BY <1>1, <1>2
<1>5. occupied' = {env'[b].aux : b \in users2}
  BY <1>3, <1>4
<1>6. \A b, c \in users2 : b # c => env'[b].aux # env'[c].aux
  BY <1>1, <1>2, <1>3
<1> QED
  BY <1>5, <1>6 DEF AuxExact, users2

(* A traversal begins.                                                     *)
LEMMA TraverseFacts ==
    ASSUME PthreadTypes, NEW p \in Tid, NEW self \in Addr, NEW cancel \in BOOLEAN,
           NEW label \in {"destroy", "exit_del", "create_failed"},
           Traverse(p, self, cancel, label)
    PROVE  /\ pc' \in [Tid -> Labels] /\ loc' \in [Tid -> LocalType]
           /\ \A q \in Tid : q # p => pc'[q] = pc[q] /\ loc'[q] = loc[q]
           /\ pc'[p] = "traverse" /\ loc'[p].done = label /\ loc'[p].self = self
           /\ loc'[p].new = loc[p].new /\ loc'[p].exec_env = loc[p].exec_env
<1> DEFINE n == IF list = <<>> THEN NULL ELSE Head(list)
           a == [loc[p] EXCEPT !.node = n]
           b == [a EXCEPT !.self = self]
           c == [b EXCEPT !.cancel = cancel]
           d == [c EXCEPT !.done = label]
<1>1. n \in Addr \cup {NULL}
  BY DEF PthreadTypes
<1>2. loc[p] \in LocalType
  BY DEF PthreadTypes
<1>3. loc' = [loc EXCEPT ![p] = d]
  BY <1>2 DEF Traverse, LocalType
<1> HIDE DEF n, a, b, c, d
<1>4. a \in LocalType /\ a.new = loc[p].new /\ a.exec_env = loc[p].exec_env
  BY <1>1, <1>2 DEF LocalType, a
<1>5. b \in LocalType /\ b.self = self /\ b.new = a.new /\ b.exec_env = a.exec_env
  BY <1>4 DEF LocalType, b
<1>6. c \in LocalType /\ c.self = b.self /\ c.new = b.new /\ c.exec_env = b.exec_env
  BY <1>5 DEF LocalType, c
<1>7. d \in LocalType /\ d.self = c.self /\ d.new = c.new /\ d.exec_env = c.exec_env
      /\ d.done = label
  BY <1>6 DEF LocalType, d
<1>8. pc' = [pc EXCEPT ![p] = "traverse"]
  BY DEF Traverse, Goto
<1> QED
  BY <1>3, <1>4, <1>5, <1>6, <1>7, <1>8 DEF PthreadTypes, Labels

(* The auxiliary stack of a creation that failed is given back.            *)
LEMMA CreateFail2Inv ==
    ASSUME IInv, NEW p \in Tid, Cluster(p), CreateFail2(p)
    PROVE  IInv'
<1> DEFINE a == loc[p].new
<1>1. /\ pc[p] = "create_fail2" /\ UNCHANGED <<list, next, env, native>> /\ destroyed' = destroyed
      /\ occupied' = occupied \ {env[a].aux} /\ Traverse(p, a, TRUE, "create_failed")
  BY DEF CreateFail2, At, free_aux_stack
<1>2. /\ PthreadTypes /\ Owners /\ Created /\ Handled /\ Waits /\ AuxExact /\ Creating(p) /\ Order(p)
  BY <1>1 DEF IInv, Creating, Ordered
<1>3. /\ UNCHANGED <<handle_id, info, app, ended, joined>>
      /\ createFailed' \in BOOLEAN /\ aliased' \in BOOLEAN /\ AppMoved
      /\ (createFailed => createFailed') /\ (aliased => aliased')
  <2>1. destroyed' = destroyed
    BY <1>1
  <2> QED
    BY <2>1, ClusterRest
<1>4. createFailed /\ createFailed'
  BY <1>1, <1>2, <1>3 DEF Order
<1>5. /\ a \in Addr /\ env[a].alive /\ env[a].aux # NULL /\ env[a].tid \in Tid /\ pc[env[a].tid] = "none"
      /\ native[env[a].tid] = "none"
      /\ \A q \in Tid : q # p /\ Creating(q) => loc[q].new # a
  BY <1>2, CreatorFacts DEF Handled
<1>6. /\ pc' \in [Tid -> Labels] /\ loc' \in [Tid -> LocalType]
      /\ \A q \in Tid : q # p => pc'[q] = pc[q] /\ loc'[q] = loc[q]
      /\ pc'[p] = "traverse" /\ loc'[p].done = "create_failed"
      /\ loc'[p].new = loc[p].new /\ loc'[p].exec_env = loc[p].exec_env
  BY <1>1, <1>2, <1>5, TraverseFacts
<1>7. PthreadTypes'
  BY <1>1, <1>2, <1>3, <1>6 DEF PthreadTypes
<1>8. Moved(p)
  <2>1. OthersStay(p) /\ EnvSame
    BY <1>1, <1>6 DEF OthersStay, EnvSame
  <2> QED
    BY <2>1, <1>1, <1>2, <1>3, <1>6 DEF Moved, Stepped
<1>9. Frame(p)' /\ Asks(p)'
  BY <1>6 DEF Frame, Asks, JoinCall, AtJoin, InCluster
<1>10. Order(p)'
  BY <1>4, <1>6 DEF Order, JoinCall, InCluster
<1>11. /\ \A b \in Addr : env'[b].detached = env[b].detached /\ env'[b].wait_count = env[b].wait_count
       /\ \A t \in Tid : native'[t] = native[t]
       /\ ~AtJoin(p) /\ ~AtJoin(p)' /\ pc'[p] \notin Exits \cup {"leave", "joining"}
  BY <1>1, <1>6 DEF AtJoin, Exits
<1>12. Handled'
  <2>1. /\ \A t \in Tid : \/ native'[t] = native[t]
                          \/ t \in Thread /\ native[t] = "zombie" /\ native'[t] = "gone"
        /\ \A b \in Addr : env'[b].detached = env[b].detached
    BY <1>11
  <2> QED
    BY <1>2, <1>7, <1>8, <2>1, MovedHandled DEF Moved
<1>13. Waits'
  <2>1. /\ AtJoin(p)' <=> AtJoin(p)
        /\ AtJoin(p) => loc'[p].h = loc[p].h
        /\ pc'[p] = "joining" => pc[p] = "joining"
        /\ pc'[p] \notin {"exit_del", "exit_test"}
    BY <1>6, <1>11
  <2> QED
    BY <1>2, <1>3, <1>7, <1>8, <1>11, <2>1, MovedWaits DEF Moved
<1>14. AuxExact'
  <2>1. HasSegment(a)
    BY <1>1, <1>5 DEF HasSegment
  <2>2. \A q \in Tid : pc'[q] \in {"create_thread", "create_fail2"} <=>
                          pc[q] \in {"create_thread", "create_fail2"} /\ q # p
    BY <1>6
  <2>3. ~HasSegment(a)'
    <3>1. \A q \in Tid : pc'[q] \in {"create_thread", "create_fail2"} => loc'[q].new # a
      BY <1>5, <1>6, <2>2 DEF Creating
    <3> QED
      BY <3>1, <1>1, <1>5, <1>6 DEF HasSegment
  <2>4. ASSUME NEW b \in Addr, b # a PROVE HasSegment(b)' <=> HasSegment(b)
    <3>1. (\E q \in Tid : loc'[q].new = b /\ pc'[q] \in {"create_thread", "create_fail2"})
            <=> \E q \in Tid : loc[q].new = b /\ pc[q] \in {"create_thread", "create_fail2"}
      BY <2>2, <2>4, <1>6
    <3>2. SUFFICES ASSUME env[b].alive PROVE HasSegment(b)' <=> HasSegment(b)
      BY <1>1 DEF HasSegment
    <3>3. env[b].tid \in Tid
      BY <3>2, <1>2 DEF Owners, PthreadTypes, EnvType
    <3>4. pc'[env[b].tid] \in Exits <=> pc[env[b].tid] \in Exits
      BY <3>3, <1>1, <1>6 DEF Exits
    <3> QED
      BY <3>1, <3>4, <1>1 DEF HasSegment, Exits
  <2> QED
    BY <2>1, <2>3, <2>4, <1>1, <1>2, <1>5, <1>6, AuxFreed
<1>15. p # 0 /\ pc'[p] \in Exits \cup {"leave"} => p \in ended'
  BY <1>11
<1>16. \A b \in Addr : env'[b].detached =>
               \/ env[b].detached \/ aliased'
               \/ env[b].tid \in ended' \/ app'[env[b].tid] = "detached"
  BY <1>11
<1> QED
  BY <1>3, <1>7, <1>8, <1>9, <1>10, <1>12, <1>13, <1>14, <1>15, <1>16, MovedRest

(* A thread sets the handle of its environment, which nobody has read yet. *)
LEMMA StartInv ==
    ASSUME IInv, NEW t \in Tid, Cluster(t), Start(t)
    PROVE  IInv'
<1> DEFINE a == loc[t].exec_env
<1>1. /\ pc[t] = "start" /\ UNCHANGED <<list, next, occupied, native, loc>> /\ destroyed' = destroyed
      /\ env' = [env EXCEPT ![a].handle = t] /\ pc' = [pc EXCEPT ![t] = "init"]
  BY DEF Start, At, Goto
<1>2. /\ PthreadTypes /\ Framed /\ Owners /\ Created /\ Listed /\ Handled /\ Waits /\ Ordered /\ Ends
      /\ AuxExact /\ Frame(t)
  BY DEF IInv, Framed
<1>3. /\ UNCHANGED <<handle_id, info, app, ended, joined>>
      /\ createFailed' \in BOOLEAN /\ aliased' \in BOOLEAN
      /\ (createFailed => createFailed') /\ (aliased => aliased')
  <2>1. destroyed' = destroyed
    BY <1>1
  <2> QED
    BY <2>1, ClusterRest
<1>4. /\ a \in Addr /\ env[a].alive /\ env[a].tid = t /\ env[a] \in EnvType
      /\ \A q \in Tid : q # t /\ Runs(q) => loc[q].exec_env # a
      /\ \A b \in Addr : env[b].alive /\ env[b].tid = t => b = a
      /\ native[t] = "running" /\ \A b \in Addr : env[b].handle # t
  <2>1. Own(t) /\ Runs(t) /\ a \in Addr \cup {NULL}
    BY <1>1, <1>2 DEF Owners, Runs, PthreadTypes, LocalType
  <2>2. a \in Addr /\ env[a].alive /\ env[a].tid = t
    BY <2>1 DEF Own
  <2>3. \A q \in Tid : q # t /\ Runs(q) => loc[q].exec_env # a
    BY <2>2, <1>2 DEF Owners, Own
  <2> QED
    BY <2>2, <2>3, <1>1, <1>2 DEF Owners, Handled, PthreadTypes
<1>5. /\ env' \in [Addr -> EnvType] /\ env'[a].handle = t
      /\ \A b \in Addr : /\ env'[b].alive = env[b].alive /\ env'[b].tid = env[b].tid
                         /\ env'[b].aux = env[b].aux /\ env'[b].detached = env[b].detached
                         /\ env'[b].wait_count = env[b].wait_count
                         /\ b # a => env'[b].handle = env[b].handle
  <2>1. [env[a] EXCEPT !.handle = t] \in EnvType
    BY <1>4 DEF EnvType
  <2>2. env' \in [Addr -> EnvType] /\ env'[a] = [env[a] EXCEPT !.handle = t]
        /\ \A b \in Addr : b # a => env'[b] = env[b]
    BY <1>1, <1>2, <1>4, <2>1 DEF PthreadTypes
  <2>3. /\ env'[a].alive = env[a].alive /\ env'[a].tid = env[a].tid
        /\ env'[a].aux = env[a].aux /\ env'[a].detached = env[a].detached
        /\ env'[a].wait_count = env[a].wait_count /\ env'[a].handle = t
    <3>1. env[a] \in EnvType /\ env'[a] = [env[a] EXCEPT !.handle = t]
      BY <1>4, <2>2
    <3> QED
      BY ONLY <3>1 DEF EnvType
  <2> QED
    BY <2>2, <2>3
<1>6. pc' \in [Tid -> Labels] /\ pc'[t] = "init" /\ \A q \in Tid : q # t => pc'[q] = pc[q]
  BY <1>1, <1>2 DEF PthreadTypes, Labels
<1>7. /\ OthersStay(t)
      /\ \A q \in Tid : /\ Runs(q)' <=> Runs(q)
                        /\ Creating(q)' <=> Creating(q)
                        /\ AtJoin(q)' <=> AtJoin(q)
                        /\ JoinCall(q)' <=> JoinCall(q)
  BY <1>1, <1>6 DEF OthersStay, Runs, Creating, AtJoin, JoinCall, InCluster
<1>8. PthreadTypes'
  BY <1>1, <1>2, <1>3, <1>5, <1>6 DEF PthreadTypes
<1>9. Framed'
  <2>1. Frame(t)'
    BY <1>1, <1>2, <1>6 DEF Frame, InCluster
  <2> QED
    BY <2>1, <1>2, <1>7, <1>8, MovedFramed
<1>10. Owners'
  <2>1. ASSUME NEW q \in Tid PROVE Own(q)'
    <3>1. Own(q) /\ loc'[q] = loc[q] /\ loc[q].exec_env \in Addr \cup {NULL}
      BY <1>1, <1>2 DEF Owners, PthreadTypes, LocalType
    <3>2. CASE q = t
      BY <3>1, <3>2, <1>1, <1>4, <1>5, <1>7 DEF Own
    <3>3. CASE q # t
      BY <3>1, <3>3, <1>1, <1>4, <1>5, <1>6, <1>7 DEF Own
    <3> QED
      BY <3>2, <3>3
  <2>2. \A b, c \in Addr : env'[b].alive /\ env'[c].alive /\ env'[b].tid = env'[c].tid => b = c
    BY <1>2, <1>5 DEF Owners
  <2>3. \A b \in Addr : env'[b].alive => env'[b].tid # NULL /\ pc'[env'[b].tid] # "over"
    <3>1. \A q \in Tid : pc'[q] = "over" => pc[q] = "over"
      BY <1>6
    <3>2. \A b \in Addr : env[b].tid \in Tid \cup {NULL}
      BY <1>2 DEF PthreadTypes, EnvType
    <3> QED
      BY <3>1, <3>2, <1>2, <1>5 DEF Owners
  <2> QED
    BY <2>1, <2>2, <2>3 DEF Owners
<1>11. Created'
  <2>1. ASSUME NEW q \in Tid PROVE Creator(q)'
    <3>1. CASE Creating(q)
      <4>1. /\ loc[q].new \in Addr /\ env[loc[q].new].alive /\ env[loc[q].new].tid \in Thread
            /\ env[loc[q].new].tid \in Tid
            /\ env[loc[q].new].aux # NULL /\ pc[env[loc[q].new].tid] = "none"
        BY <1>2, <3>1, CreatorFacts
      <4>2. loc[q].new # NULL /\ env[loc[q].new].tid # t
        BY <4>1, <1>1, ThreadAssumption DEF Addr
      <4> QED
        BY <4>1, <4>2, <1>1, <1>5, <1>6 DEF Creator
    <3> QED
      BY <3>1, <1>7 DEF Creator
  <2>2. \A s \in Thread : /\ s >= handle_id' => pc'[s] = "none"
                          /\ pc'[s] \in {"none", "start", "init"} =>
                                app'[s] = "none" /\ ~info'[s].mapped /\ info'[s].status = "THREAD_INIT"
    BY <1>1, <1>2, <1>3, <1>6 DEF Created, Thread
  <2> QED
    BY <2>1, <2>2, <1>1, <1>2, <1>3, <1>5, <1>7 DEF Created
<1>12. Listed'
  <2>1. Once(list') /\ \A q \in Tid : pc'[q] = "create_thread" => loc'[q].new \in ToSet(list')
    BY <1>1, <1>2, <1>6 DEF Listed
  <2>2. ASSUME NEW b \in ToSet(list')
        PROVE  /\ env'[b].alive
               /\ \A q \in Tid : Creating(q)' /\ pc'[q] # "create_thread" => loc'[q].new # b
               /\ \A q \in Tid : pc'[q] = "exit_test" => loc'[q].exec_env # b
    <3>1. b \in ToSet(list) /\ b \in Addr
      BY <2>2, <1>1, <1>2, ToSetIs DEF PthreadTypes
    <3>2. \A q \in Tid : /\ pc'[q] # "create_thread" => pc[q] # "create_thread"
                         /\ pc'[q] = "exit_test" => pc[q] = "exit_test"
      BY <1>1, <1>6
    <3> QED
      BY <3>1, <3>2, <1>1, <1>2, <1>5, <1>7 DEF Listed
  <2> QED
    BY <2>1, <2>2 DEF Listed
<1>13. Handled'
  <2>1. /\ \A q \in Tid : native'[q] = "none" <=> pc'[q] = "none"
        /\ \A q \in Thread : native'[q] \in {"zombie", "gone"} <=> pc'[q] = "over"
        /\ native'[0] \in {"running", "detached"}
    BY <1>1, <1>2, <1>6 DEF Handled, Thread
  <2>2. ASSUME NEW q \in Tid, pc'[q] = "start"
        PROVE  native'[q] = "running" /\ \A b \in Addr : env'[b].handle # q
    <3>1. q # t /\ pc[q] = "start"
      BY <2>2, <1>6
    <3> QED
      BY <3>1, <1>1, <1>2, <1>5 DEF Handled
  <2>3. ASSUME NEW b \in Addr
        PROVE  LET h == env'[b].handle IN
               /\ h \in {NULL, env'[b].tid}
               /\ h # NULL => pc'[h] # "none"
               /\ env'[b].alive /\ h = NULL => ~env'[b].detached
               /\ env'[b].alive /\ h \in Thread => (env'[b].detached <=> native'[h] = "detached")
               /\ ~env'[b].alive /\ h \in Thread => native'[h] \in {"zombie", "gone"}
               /\ env'[b].tid = 0 => b = MainEnv
    <3>1. CASE b = a
      <4>1. env[a].handle = NULL
        BY <1>2, <1>4 DEF Handled
      <4>2. ~env[a].detached /\ (env[a].tid = 0 => a = MainEnv)
        BY <4>1, <1>2, <1>4 DEF Handled
      <4>3. t # NULL
        BY ThreadAssumption DEF Tid
      <4> QED
        BY <3>1, <4>2, <4>3, <1>1, <1>4, <1>5, <1>6
    <3>2. CASE b # a
      <4>1. env[b].handle \in Tid \cup {NULL}
        BY <1>2 DEF PthreadTypes, EnvType
      <4>2. env[b].handle # NULL => pc'[env[b].handle] # "none"
        BY <4>1, <1>2, <1>6 DEF Handled
      <4> QED
        BY <3>2, <4>2, <1>1, <1>2, <1>5 DEF Handled
    <3> QED
      BY <3>1, <3>2
  <2> QED
    BY <2>1, <2>2, <2>3 DEF Handled
<1>14. Waits'
  <2>1. ASSUME NEW q \in Tid, AtJoin(q)', loc'[q].h \in Thread
        PROVE  /\ native'[loc'[q].h] \notin {"none", "detached"} /\ pc'[loc'[q].h] # "start"
               /\ \A b \in Addr : env'[b].alive /\ env'[b].handle = loc'[q].h => env'[b].wait_count > 0
    <3>1. /\ AtJoin(q) /\ loc'[q].h = loc[q].h
          /\ native[loc[q].h] \notin {"none", "detached"} /\ pc[loc[q].h] # "start"
          /\ \A b \in Addr : env[b].alive /\ env[b].handle = loc[q].h => env[b].wait_count > 0
      BY <2>1, <1>1, <1>2, <1>7 DEF Waits
    <3>2. loc[q].h # t /\ loc[q].h \in Tid
      BY <2>1, <3>1, <1>1 DEF Thread
    <3> QED
      BY <3>1, <3>2, <1>1, <1>5, <1>6
  <2>2. \A q, r \in Tid : \A s \in Thread : Joins(q, s)' /\ Joins(r, s)' => q = r
    BY <1>1, <1>2, <1>6 DEF Waits, Joins
  <2>3. \A q \in Tid : pc'[q] = "joining" /\ loc'[q].h \in Thread => native'[loc'[q].h] # "gone"
    BY <1>1, <1>2, <1>6 DEF Waits
  <2>4. ASSUME NEW s \in Thread, pc'[s] \in {"exit_del", "exit_test"}
        PROVE  env'[loc'[s].exec_env].detached \/ env'[loc'[s].exec_env].wait_count > 0
    <3>1. s \in Tid /\ pc[s] \in {"exit_del", "exit_test"}
      BY <2>4, <1>6 DEF Thread
    <3>2. loc[s].exec_env \in Addr
      BY <3>1, <1>2 DEF Owners, Own, Runs, PthreadTypes, LocalType
    <3> QED
      BY <3>1, <3>2, <1>1, <1>2, <1>5 DEF Waits
  <2>5. \A s : Joiner(s) => Joiner(s)'
    BY <1>1, <1>7 DEF Joiner
  <2>6. ~createFailed' =>
          /\ \A b \in Addr : env'[b].alive /\ env'[b].tid \in Thread /\ env'[b].wait_count > 0
                               => Joiner(env[b].tid)'
          /\ \A s \in Thread : native'[s] = "zombie" => Joiner(s)'
    <3>1. \A b \in Addr : env'[b].tid = env[b].tid
      BY <1>5
    <3> QED
      BY <3>1, <2>5, <1>1, <1>2, <1>3, <1>5 DEF Waits
  <2> QED
    BY <2>1, <2>2, <2>3, <2>4, <2>6, <1>5 DEF Waits
<1>15. Ordered'
  <2>1. Order(t)'
    <3>1. Order(t) /\ pc'[t] \notin InCluster \cup {"join", "create_fail2"} /\ ~JoinCall(t)' /\ ~AtJoin(t)'
      BY <1>1, <1>2, <1>6 DEF Ordered, InCluster, JoinCall, AtJoin
    <3> QED
      BY <3>1, <1>1, <1>3 DEF Order
  <2>2. \A b \in Addr : env'[b].tid = env[b].tid
    BY <1>5
  <2> QED
    BY <2>1, <2>2, <1>2, <1>3, <1>7, <1>8, MovedOrdered
<1>16. Ends'
  <2>1. \A q \in Thread : q \in Tid /\ (pc[q] # "none" => pc'[q] # "none")
                          /\ (pc'[q] \in Exits \cup {"leave", "over"} => pc[q] \in Exits \cup {"leave", "over"})
    BY <1>1, <1>6 DEF Thread, Exits
  <2>2. \A e \in Addr : \A h \in Thread : Leads(e, h) => Leads(e, h)'
    BY <2>1, <1>3, <1>5 DEF Leads
  <2>3. ASSUME NEW q \in Tid PROVE Asks(q)'
    <3>1. loc'[q] = loc[q] /\ Asks(q) /\ Frame(q) /\ loc[q] \in LocalType
      BY <1>1, <1>2 DEF Ends, Framed, PthreadTypes
    <3>2. JoinCall(q) => loc[q].info \in Thread /\ loc[q].e \in Addr
      BY <3>1 DEF Frame, JoinCall, InCluster, LocalType
    <3>3. JoinCall(q) => Leads(loc[q].e, loc[q].info)'
      BY <2>2, <3>1, <3>2 DEF Asks, Leads
    <3>4. /\ pc'[q] = "joined" => pc[q] = "joined"
          /\ pc'[q] \in InCluster => pc[q] \in InCluster
      BY <1>1, <1>6 DEF InCluster
    <3> QED
      BY <3>1, <3>3, <3>4, <1>3, <1>7 DEF Asks
  <2>4. \A h \in Thread : info'[h].mapped => Leads(info[h].exec_env, h)'
    <3>1. \A h \in Thread : info[h].mapped => info[h].exec_env \in Addr
      BY <1>2 DEF Ordered, PthreadTypes, InfoType
    <3> QED
      BY <3>1, <2>2, <1>2, <1>3 DEF Ends
  <2>5. JoinWaits'
    BY <1>2, <1>3 DEF Ends, JoinWaits
  <2>6. \A b \in Addr : ~aliased' /\ env'[b].alive /\ env'[b].tid \in Thread /\ env'[b].detached =>
             env'[b].tid \in ended' \/ app'[env'[b].tid] = "detached"
    BY <1>2, <1>3, <1>5 DEF Ends
  <2> QED
    BY <2>1, <2>3, <2>4, <2>5, <2>6, <1>2, <1>3 DEF Ends, Leads
<1>17. AuxExact'
  <2>1. ASSUME NEW b \in Addr PROVE HasSegment(b)' <=> HasSegment(b)
    <3>1. \A q \in Tid : /\ pc'[q] \in {"create_thread", "create_fail2"} <=> pc[q] \in {"create_thread", "create_fail2"}
                         /\ pc'[q] \in Exits <=> pc[q] \in Exits
      BY <1>1, <1>6 DEF Exits
    <3>2. SUFFICES ASSUME env[b].alive PROVE HasSegment(b)' <=> HasSegment(b)
      BY <1>5 DEF HasSegment
    <3>3. env[b].tid \in Tid
      BY <3>2, <1>2 DEF Owners, PthreadTypes, EnvType
    <3> QED
      BY <3>1, <3>3, <1>1, <1>5 DEF HasSegment, Exits
  <2>2. {b \in Addr : HasSegment(b)'} = {b \in Addr : HasSegment(b)}
    BY <2>1
  <2> QED
    BY <2>2, <1>1, <1>2, <1>5 DEF AuxExact
<1> QED
  BY <1>8, <1>9, <1>10, <1>11, <1>12, <1>13, <1>14, <1>15, <1>16, <1>17 DEF IInv

(* A thread detaches itself at its end.                                    *)
LEMMA ExitDetachInv ==
    ASSUME IInv, NEW t \in Tid, Cluster(t), ExitDetach(t)
    PROVE  IInv'
<1> DEFINE a == loc[t].exec_env
<1>1. /\ pc[t] = "exit_detach" /\ UNCHANGED <<list, next, occupied, loc>> /\ destroyed' = destroyed
      /\ Detach(a) /\ pc' = [pc EXCEPT ![t] = "exit_del"]
  BY DEF ExitDetach, At, Goto
<1>2. /\ PthreadTypes /\ Framed /\ Owners /\ Ends /\ Frame(t) /\ Order(t) /\ t # 0 /\ t \in Thread
  BY <1>1 DEF IInv, Framed, Frame, Thread, Ordered
<1>3. /\ UNCHANGED <<handle_id, info, app, ended, joined>>
      /\ createFailed' \in BOOLEAN /\ aliased' \in BOOLEAN /\ AppMoved
      /\ (createFailed => createFailed') /\ (aliased => aliased')
  <2>1. destroyed' = destroyed
    BY <1>1
  <2> QED
    BY <2>1, ClusterRest
<1>4. /\ a \in Addr /\ env[a].tid = t /\ env[a].handle = t /\ t # NULL /\ t \in ended
  <2>1. Own(t) /\ Runs(t) /\ a \in Addr \cup {NULL}
    BY <1>1, <1>2 DEF Owners, Runs, PthreadTypes, LocalType
  <2> QED
    BY <2>1, <1>1, <1>2, ThreadAssumption DEF Own, Tid, Ends, Exits
<1>5. /\ env' \in [Addr -> EnvType] /\ EnvSame
      /\ native' \in [Tid -> {"none", "running", "detached", "zombie", "gone"}]
      /\ \A b \in Addr : env'[b].detached <=> env[b].detached \/ (b = a /\ Detachable(a))
      /\ \A s \in Tid : native'[s] =
             IF Detachable(a) /\ s = env[a].handle /\ native[s] = "running" THEN "detached"
             ELSE native[s]
  BY <1>1, <1>2, <1>4, DetachFacts
<1>6. pc' \in [Tid -> Labels] /\ pc'[t] = "exit_del" /\ \A q \in Tid : q # t => pc'[q] = pc[q]
  BY <1>1, <1>2 DEF PthreadTypes, Labels
<1>7. PthreadTypes'
  BY <1>1, <1>2, <1>3, <1>5, <1>6 DEF PthreadTypes
<1>8. Moved(t)
  <2>1. OthersStay(t)
    BY <1>1, <1>6 DEF OthersStay
  <2>2. Creating(t)' => Creating(t)
    BY <1>1, <1>6 DEF Creating
  <2> QED
    BY <2>1, <2>2, <1>1, <1>3, <1>5, <1>6 DEF Moved, Stepped
<1>9. Frame(t)' /\ Asks(t)'
  BY <1>1, <1>2, <1>6 DEF Frame, Asks, JoinCall, AtJoin, InCluster
<1>10. Order(t)'
  BY <1>1, <1>2, <1>3, <1>6 DEF Order, JoinCall, AtJoin, InCluster
<1>11. Handled' /\ Waits'
  <2>1. ~AtJoin(t) /\ ~AtJoin(t)'
    BY <1>1, <1>6 DEF AtJoin
  <2>2. Detachable(a) => env[a].handle # NULL
    BY <1>4
  <2> QED
    BY <2>1, <2>2, <1>1, <1>3, <1>4, <1>7, <1>8, DetachKeeps
<1>12. \A b \in Addr : env'[b].detached =>
              \/ env[b].detached \/ aliased'
              \/ env[b].tid \in ended' \/ app'[env[b].tid] = "detached"
  BY <1>3, <1>4, <1>5
<1>13. /\ pc'[t] \in {"create_thread", "create_fail2"} <=> pc[t] \in {"create_thread", "create_fail2"}
       /\ loc'[t].new = loc[t].new \/ pc[t] \notin {"create_thread", "create_fail2"}
       /\ t # 0 => (pc'[t] \in Exits <=> pc[t] \in Exits)
       /\ t # 0 /\ pc'[t] \in Exits \cup {"leave"} => t \in ended'
       /\ occupied' = occupied
       /\ \A s \in Tid : native'[s] = "none" <=> native[s] = "none"
  BY <1>1, <1>3, <1>4, <1>5, <1>6 DEF Exits
<1> QED
  BY <1>3, <1>7, <1>8, <1>9, <1>10, <1>11, <1>12, <1>13, MovedInv

(* wasm_cluster_del_exec_env: the environment leaves the list.             *)
LEMMA ExitDelInv ==
    ASSUME IInv, NEW t \in Tid, Cluster(t), ExitDel(t)
    PROVE  IInv'
<1> DEFINE a == loc[t].exec_env
<1>1. /\ pc[t] = "exit_del" /\ UNCHANGED <<occupied, env, native, loc>> /\ destroyed' = destroyed
      /\ bh_list_remove(a) /\ pc' = [pc EXCEPT ![t] = "exit_test"]
  BY DEF ExitDel, At, Goto
<1>2. /\ PthreadTypes /\ Framed /\ Owners /\ Created /\ Listed /\ Handled /\ Waits /\ Ordered /\ Ends
      /\ AuxExact /\ Frame(t) /\ Order(t)
  BY DEF IInv, Framed, Ordered
<1>3. pc' \in [Tid -> Labels] /\ pc'[t] = "exit_test" /\ \A q \in Tid : q # t => pc'[q] = pc[q]
  BY <1>1, <1>2 DEF PthreadTypes, Labels
<1>4. /\ UNCHANGED <<handle_id, info, app, ended, joined>>
      /\ createFailed' \in BOOLEAN /\ aliased' \in BOOLEAN /\ AppMoved
      /\ (createFailed => createFailed') /\ (aliased => aliased')
  <2>1. destroyed' = destroyed
    BY <1>1
  <2> QED
    BY <2>1, ClusterRest
<1>5. /\ a \in Addr
      /\ \A q \in Tid : q # t /\ Runs(q) => loc[q].exec_env # a
      /\ \A q \in Tid : Creating(q) => loc[q].new # a
  <2>1. Own(t) /\ Runs(t) /\ a \in Addr \cup {NULL}
    BY <1>1, <1>2 DEF Owners, Runs, PthreadTypes, LocalType
  <2>2. a \in Addr /\ env[a].alive /\ env[a].tid = t
    BY <2>1 DEF Own
  <2>3. \A q \in Tid : q # t /\ Runs(q) => loc[q].exec_env # a
    BY <2>2, <1>2 DEF Owners, Own
  <2>4. \A q \in Tid : Creating(q) => loc[q].new # a
    BY <2>1, <1>2, CreatorFacts
  <2> QED
    BY <2>2, <2>3, <2>4
<1>6. /\ list' \in Seq(Addr) /\ ToSet(list') = ToSet(list) \ {a} /\ Once(list')
      /\ next' \in [Addr -> Addr \cup {NULL}]
  BY <1>1, <1>2, <1>5, RemoveFacts
<1>7. PthreadTypes'
  BY <1>1, <1>2, <1>3, <1>4, <1>6 DEF PthreadTypes
<1>8. Stepped(t)
  <2>1. OthersStay(t) /\ EnvSame
    BY <1>1, <1>3 DEF OthersStay, EnvSame
  <2>2. Creating(t)' => Creating(t)
    BY <1>1, <1>3 DEF Creating
  <2> QED
    BY <2>1, <2>2, <1>1, <1>2, <1>3, <1>4 DEF Stepped
<1>9. Framed'
  <2>1. Frame(t)'
    BY <1>1, <1>2, <1>3 DEF Frame, InCluster
  <2> QED
    BY <2>1, <1>2, <1>7, <1>8, MovedFramed DEF Stepped
<1>10. Owners' /\ Listed'
  <2>1. \A q \in Tid : Runs(q)' /\ pc'[q] # "exit_test" => Runs(q) /\ q # t
    BY <1>1, <1>3 DEF Runs
  <2>2. \A q \in Tid : pc'[q] = "create_thread" => loc[q].new # a
    BY <1>3, <1>5 DEF Creating
  <2>3. \A q \in Tid : Runs(q)' /\ pc'[q] # "exit_test" => loc[q].exec_env # a
    BY <2>1, <1>5
  <2>4. pc[t] # "exit_test" /\ (pc'[t] = "exit_test" => loc[t].exec_env = a) /\ pc[t] # "create_thread"
    BY <1>1
  <2> QED
    BY <1>2, <1>5, <1>6, <1>7, <1>8, <2>2, <2>3, <2>4, RemovedKeeps
<1>11. Created'
  <2>1. \A s \in Thread : pc'[s] \in {"none", "start", "init"} =>
               /\ app'[s] = app[s] /\ info'[s].mapped = info[s].mapped
               /\ info'[s].status = info[s].status
    BY <1>4
  <2> QED
    BY <1>2, <1>7, <1>8, <2>1, MovedCreated
<1>12. /\ \A b \in Addr : env'[b].detached = env[b].detached /\ env'[b].wait_count = env[b].wait_count
       /\ \A s \in Tid : native'[s] = native[s]
       /\ ~AtJoin(t) /\ ~AtJoin(t)'
  BY <1>1, <1>3 DEF AtJoin
<1>13. Handled'
  <2>1. /\ \A s \in Tid : \/ native'[s] = native[s]
                          \/ s \in Thread /\ native[s] = "zombie" /\ native'[s] = "gone"
        /\ \A b \in Addr : env'[b].detached = env[b].detached
    BY <1>12
  <2> QED
    BY <1>2, <1>7, <1>8, <2>1, MovedHandled
<1>14. Waits'
  <2>1. /\ AtJoin(t)' <=> AtJoin(t)
        /\ AtJoin(t) => loc'[t].h = loc[t].h
        /\ pc'[t] = "joining" => pc[t] = "joining"
        /\ pc[t] \in {"exit_del", "exit_test"}
    BY <1>1, <1>3, <1>12
  <2> QED
    BY <1>2, <1>4, <1>7, <1>8, <1>12, <2>1, MovedWaits
<1>15. Ordered'
  <2>1. Order(t)'
    BY <1>1, <1>2, <1>3, <1>4 DEF Order, JoinCall, AtJoin, InCluster
  <2>2. /\ \A h \in Thread : info'[h].mapped =>
               info[h].mapped /\ info'[h].exec_env = info[h].exec_env
        /\ OthersStay(t)
        /\ \A b \in Addr : env'[b].tid = env[b].tid
    BY <1>4, <1>8 DEF Stepped, EnvSame
  <2> QED
    BY <1>2, <1>4, <1>7, <2>1, <2>2, MovedOrdered
<1>16. Ends'
  <2>1. Asks(t)'
    BY <1>3 DEF Asks, JoinCall, AtJoin, InCluster
  <2>2. t # 0 /\ pc'[t] \in Exits \cup {"leave"} => t \in ended'
    BY <1>1, <1>2, <1>4 DEF Ends, Exits, Thread
  <2>3. \A h \in Thread :
             /\ info'[h].mapped => info[h].mapped /\ info'[h].exec_env = info[h].exec_env
             /\ info'[h].status = "THREAD_EXIT" => info[h].status = "THREAD_EXIT" \/ h \in ended'
             /\ app'[h] = "joinable" =>
                   app[h] = "joinable" /\ (info[h].mapped => info'[h].mapped \/ h \in ended')
             /\ app[h] \in {"joined", "detached"} => app'[h] = app[h]
             /\ joined'[h] \in {joined[h], "failed"} \/ h \in ended' \/ aliased'
    BY <1>4
  <2>4. \A b \in Addr : env'[b].detached =>
               \/ env[b].detached \/ aliased'
               \/ env[b].tid \in ended' \/ app'[env[b].tid] = "detached"
    BY <1>12
  <2> QED
    BY <1>2, <1>4, <1>7, <1>8, <2>1, <2>2, <2>3, <2>4, MovedEnds
<1>17. AuxExact'
  <2>1. t # 0 => (pc'[t] \in Exits <=> pc[t] \in Exits)
    BY <1>1, <1>3 DEF Exits
  <2> QED
    BY <1>1, <1>2, <1>3, <1>7, <1>8, <2>1, MovedAux
<1> QED
  BY <1>7, <1>9, <1>10, <1>11, <1>13, <1>14, <1>15, <1>16, <1>17 DEF IInv

(* wasm_exec_env_destroy_internal and os_thread_exit; info' is what is     *)
(* left of the nodes, all of them or none.                                 *)
LEMMA DestroyedInv ==
    ASSUME IInv, NEW t \in Tid, pc[t] = "exit_test", ExecEnvDestroy(t),
           UNCHANGED <<list, next, occupied, loc, handle_id, app, ended, joined>>,
           destroyed' \in BOOLEAN, createFailed' \in BOOLEAN, aliased' \in BOOLEAN,
           createFailed => createFailed', aliased => aliased',
           info' \in [Thread -> InfoType],
           \A h \in Thread :
               /\ info'[h].mapped => info[h].mapped
               /\ info'[h].exec_env = info[h].exec_env /\ info'[h].status = info[h].status
               /\ app[h] = "joinable" => info'[h].mapped \/ h \in ended
    PROVE  IInv'
<1> DEFINE a == loc[t].exec_env
<1>1. /\ env' = [env EXCEPT ![a].alive = FALSE] /\ pc' = [pc EXCEPT ![t] = "over"]
      /\ native' = [native EXCEPT ![t] = IF t = 0 THEN @
                                         ELSE IF @ = "detached" THEN "gone" ELSE "zombie"]
  BY DEF ExecEnvDestroy, Goto
<1>2. /\ PthreadTypes /\ Framed /\ Owners /\ Created /\ Listed /\ Handled /\ Waits /\ Ordered /\ Ends
      /\ AuxExact /\ Frame(t)
  BY DEF IInv, Framed
<1>3. /\ a \in Addr /\ env[a].alive /\ env[a].tid = t /\ env[a].handle = t /\ env[a] \in EnvType
      /\ a \notin ToSet(list)
      /\ \A q \in Tid : q # t /\ Runs(q) => loc[q].exec_env # a
      /\ \A q \in Tid : Creating(q) => loc[q].new # a
      /\ \A b \in Addr : env[b].alive /\ env[b].tid = t => b = a
  <2>1. Own(t) /\ Runs(t) /\ a \in Addr \cup {NULL}
    BY <1>2 DEF Owners, Runs, PthreadTypes, LocalType
  <2>2. a \in Addr /\ env[a].alive /\ env[a].tid = t /\ env[a].handle = t /\ env[a] \in EnvType
    BY <2>1, <1>2 DEF Own, PthreadTypes
  <2>3. \A q \in Tid : q # t /\ Runs(q) => loc[q].exec_env # a
    BY <2>2, <1>2 DEF Owners, Own
  <2>4. \A q \in Tid : Creating(q) => loc[q].new # a
    BY <2>1, <1>2, CreatorFacts
  <2> QED
    BY <2>2, <2>3, <2>4, <1>2 DEF Owners, Listed
<1>4. /\ env' \in [Addr -> EnvType] /\ ~env'[a].alive
      /\ \A b \in Addr : /\ env'[b].handle = env[b].handle /\ env'[b].tid = env[b].tid
                         /\ env'[b].aux = env[b].aux /\ env'[b].detached = env[b].detached
                         /\ env'[b].wait_count = env[b].wait_count
                         /\ b # a => env'[b].alive = env[b].alive
                         /\ env'[b].alive <=> env[b].alive /\ b # a
  <2>1. [env[a] EXCEPT !.alive = FALSE] \in EnvType
    BY <1>3 DEF EnvType
  <2>2. env' \in [Addr -> EnvType] /\ env'[a] = [env[a] EXCEPT !.alive = FALSE]
        /\ \A b \in Addr : b # a => env'[b] = env[b]
    BY <1>1, <1>2, <1>3, <2>1 DEF PthreadTypes
  <2>3. /\ env'[a].alive = FALSE /\ env'[a].tid = env[a].tid /\ env'[a].handle = env[a].handle
        /\ env'[a].aux = env[a].aux /\ env'[a].detached = env[a].detached
        /\ env'[a].wait_count = env[a].wait_count
    <3>1. env[a] \in EnvType /\ env'[a] = [env[a] EXCEPT !.alive = FALSE]
      BY <1>3, <2>2
    <3> QED
      BY ONLY <3>1 DEF EnvType
  <2> QED
    BY <2>2, <2>3
<1>5. /\ pc' \in [Tid -> Labels] /\ pc'[t] = "over" /\ \A q \in Tid : q # t => pc'[q] = pc[q]
      /\ native' \in [Tid -> {"none", "running", "detached", "zombie", "gone"}]
      /\ \A q \in Tid : q # t \/ t = 0 => native'[q] = native[q]
      /\ t # 0 => native'[t] = IF native[t] = "detached" THEN "gone" ELSE "zombie"
  BY <1>1, <1>2 DEF PthreadTypes, Labels
<1>6. native[t] # "none" /\ t # NULL /\ (t # 0 => t \in Thread /\ t \in ended)
  BY <1>2, ThreadAssumption DEF Handled, Tid, Thread, Ends, Exits
<1>7. /\ OthersStay(t)
      /\ \A q \in Tid : /\ Runs(q)' <=> Runs(q) /\ q # t
                        /\ Creating(q)' => Creating(q)
                        /\ AtJoin(q)' <=> AtJoin(q)
                        /\ JoinCall(q)' <=> JoinCall(q)
                        /\ pc[q] \in InCluster <=> pc'[q] \in InCluster
                        /\ pc'[q] \in {"start", "joined", "joining", "create_thread", "create_fail2", "join"}
                              => q # t /\ pc[q] = pc'[q]
  BY <1>5 DEF OthersStay, Runs, Creating, AtJoin, JoinCall, InCluster
<1>8. PthreadTypes'
  BY <1>2, <1>4, <1>5 DEF PthreadTypes
<1>9. Framed'
  <2>1. Frame(t)'
    BY <1>2, <1>5 DEF Frame, InCluster
  <2> QED
    BY <2>1, <1>2, <1>7, <1>8, MovedFramed
<1>10. Owners'
  <2>1. ASSUME NEW q \in Tid PROVE Own(q)'
    <3>1. SUFFICES ASSUME Runs(q), q # t PROVE Own(q)'
      BY <1>7 DEF Own
    <3>2. Own(q) /\ loc[q].exec_env \in Addr \cup {NULL} /\ loc[q].exec_env # a /\ pc'[q] = pc[q]
      BY <3>1, <1>2, <1>3, <1>5 DEF Owners, PthreadTypes, LocalType
    <3> QED
      BY <3>1, <3>2, <1>4 DEF Own
  <2>2. \A b, c \in Addr : env'[b].alive /\ env'[c].alive /\ env'[b].tid = env'[c].tid => b = c
    BY <1>2, <1>4 DEF Owners
  <2>3. ASSUME NEW b \in Addr, env'[b].alive PROVE env'[b].tid # NULL /\ pc'[env'[b].tid] # "over"
    <3>1. env[b].alive /\ b # a /\ env[b].tid # t /\ env[b].tid \in Tid \cup {NULL}
      BY <2>3, <1>2, <1>3, <1>4 DEF PthreadTypes, EnvType
    <3> QED
      BY <3>1, <1>2, <1>4, <1>5 DEF Owners
  <2> QED
    BY <2>1, <2>2, <2>3 DEF Owners
<1>11. Created'
  <2>1. ASSUME NEW q \in Tid PROVE Creator(q)'
    <3>1. CASE Creating(q)
      <4>1. /\ loc[q].new \in Addr /\ env[loc[q].new].alive /\ env[loc[q].new].tid \in Thread
            /\ env[loc[q].new].tid \in Tid
            /\ env[loc[q].new].aux # NULL /\ pc[env[loc[q].new].tid] = "none"
        BY <1>2, <3>1, CreatorFacts
      <4>2. loc[q].new # NULL /\ env[loc[q].new].tid # t /\ loc[q].new # a
        BY <4>1, <3>1, <1>3, ThreadAssumption DEF Addr
      <4> QED
        BY <4>1, <4>2, <1>4, <1>5 DEF Creator
    <3> QED
      BY <3>1, <1>7 DEF Creator
  <2>2. \A s \in Thread : s \in Tid /\ (pc'[s] \in {"none", "start", "init"} => pc[s] = pc'[s])
                          /\ (pc[s] = "none" => pc'[s] = "none")
    BY <1>5 DEF Thread
  <2>3. \A s \in Thread : /\ s >= handle_id' => pc'[s] = "none"
                          /\ pc'[s] \in {"none", "start", "init"} =>
                                app'[s] = "none" /\ ~info'[s].mapped /\ info'[s].status = "THREAD_INIT"
    BY <1>2, <2>2 DEF Created
  <2> QED
    BY <2>1, <2>3, <1>2, <1>4, <1>7 DEF Created
<1>12. Listed'
  <2>1. Once(list') /\ \A q \in Tid : pc'[q] = "create_thread" => loc'[q].new \in ToSet(list')
    BY <1>2, <1>7 DEF Listed
  <2>2. ASSUME NEW b \in ToSet(list')
        PROVE  /\ env'[b].alive
               /\ \A q \in Tid : Creating(q)' /\ pc'[q] # "create_thread" => loc'[q].new # b
               /\ \A q \in Tid : pc'[q] = "exit_test" => loc'[q].exec_env # b
    <3>1. b \in ToSet(list) /\ b \in Addr /\ b # a
      BY <2>2, <1>2, <1>3, ToSetIs DEF PthreadTypes
    <3>2. \A q \in Tid : /\ pc'[q] # "create_thread" => pc[q] # "create_thread"
                         /\ pc'[q] = "exit_test" => pc[q] = "exit_test"
      BY <1>5
    <3> QED
      BY <3>1, <3>2, <1>2, <1>4, <1>7 DEF Listed
  <2> QED
    BY <2>1, <2>2 DEF Listed
<1>13. Handled'
  <2>1. /\ \A q \in Tid : native'[q] = "none" <=> pc'[q] = "none"
        /\ \A q \in Thread : native'[q] \in {"zombie", "gone"} <=> pc'[q] = "over"
        /\ native'[0] \in {"running", "detached"}
    <3>1. \A q \in Tid : native'[q] = "none" <=> pc'[q] = "none"
      BY <1>2, <1>5, <1>6 DEF Handled
    <3>2. \A q \in Thread : q \in Tid /\ q # 0
      BY DEF Thread
    <3>3. \A q \in Thread : native'[q] \in {"zombie", "gone"} <=> pc'[q] = "over"
      BY <3>2, <1>2, <1>5 DEF Handled
    <3>4. native'[0] = native[0]
      BY <1>5, ThreadAssumption DEF Tid
    <3> QED
      BY <3>1, <3>3, <3>4, <1>2 DEF Handled
  <2>2. ASSUME NEW q \in Tid, pc'[q] = "start"
        PROVE  native'[q] = "running" /\ \A b \in Addr : env'[b].handle # q
    BY <2>2, <1>2, <1>4, <1>5, <1>7 DEF Handled
  <2>3. ASSUME NEW b \in Addr
        PROVE  LET h == env'[b].handle IN
               /\ h \in {NULL, env'[b].tid}
               /\ h # NULL => pc'[h] # "none"
               /\ env'[b].alive /\ h = NULL => ~env'[b].detached
               /\ env'[b].alive /\ h \in Thread => (env'[b].detached <=> native'[h] = "detached")
               /\ ~env'[b].alive /\ h \in Thread => native'[h] \in {"zombie", "gone"}
               /\ env'[b].tid = 0 => b = MainEnv
    <3>1. env[b].handle \in Tid \cup {NULL} /\ \A q \in Tid : pc[q] # "none" => pc'[q] # "none"
      BY <1>2, <1>5 DEF PthreadTypes, EnvType
    <3>2. env[b].handle # NULL => pc'[env[b].handle] # "none"
      BY <3>1, <1>2 DEF Handled
    <3>3. CASE b = a
      BY <3>2, <3>3, <1>2, <1>3, <1>4, <1>5, <1>6 DEF Handled, Thread
    <3>4. CASE b # a
      <4>1. env[b].alive => env[b].handle # t
        BY <3>4, <1>2, <1>3, <1>6 DEF Handled
      <4>2. ~env[b].alive /\ env[b].handle \in Thread => native'[env[b].handle] \in {"zombie", "gone"}
        BY <3>1, <1>2, <1>5 DEF Handled, Thread
      <4>3. env[b].alive /\ env[b].handle \in Thread => native'[env[b].handle] = native[env[b].handle]
        BY <3>1, <4>1, <1>5 DEF Thread
      <4> QED
        BY <3>2, <3>4, <4>2, <4>3, <1>2, <1>4 DEF Handled
    <3> QED
      BY <3>3, <3>4
  <2> QED
    BY <2>1, <2>2, <2>3 DEF Handled
<1>14. Waits'
  <2>1. ASSUME NEW q \in Tid, AtJoin(q), loc[q].h \in Thread
        PROVE  native'[loc[q].h] \notin {"none", "detached"} /\ (native'[loc[q].h] = "gone" => native[loc[q].h] = "gone")
               /\ pc'[loc[q].h] # "start"
    <3>1. native[loc[q].h] \notin {"none", "detached"} /\ loc[q].h \in Tid /\ pc[loc[q].h] # "start"
      BY <2>1, <1>2 DEF Waits, Thread
    <3> QED
      BY <3>1, <1>5, <1>7
  <2>2. \A q \in Tid : AtJoin(q)' /\ loc'[q].h \in Thread =>
          /\ native'[loc'[q].h] \notin {"none", "detached"} /\ pc'[loc'[q].h] # "start"
          /\ \A b \in Addr : env'[b].alive /\ env'[b].handle = loc'[q].h => env'[b].wait_count > 0
    BY <2>1, <1>2, <1>4, <1>7 DEF Waits
  <2>3. \A q, r \in Tid : \A s \in Thread : Joins(q, s)' /\ Joins(r, s)' => q = r
    BY <1>2, <1>7 DEF Waits, Joins
  <2>4. \A q \in Tid : pc'[q] = "joining" /\ loc'[q].h \in Thread => native'[loc'[q].h] # "gone"
    BY <2>1, <1>2, <1>7 DEF Waits, AtJoin
  <2>5. ASSUME NEW s \in Thread, pc'[s] \in {"exit_del", "exit_test"}
        PROVE  env'[loc'[s].exec_env].detached \/ env'[loc'[s].exec_env].wait_count > 0
    <3>1. s \in Tid /\ pc[s] \in {"exit_del", "exit_test"}
      BY <2>5, <1>5 DEF Thread
    <3>2. loc[s].exec_env \in Addr
      BY <3>1, <1>2 DEF Owners, Own, Runs, PthreadTypes, LocalType
    <3> QED
      BY <3>1, <3>2, <1>2, <1>4 DEF Waits
  <2>6. \A s : Joiner(s) => Joiner(s)'
    BY <1>7 DEF Joiner
  <2>7. ASSUME ~createFailed', NEW s \in Thread, native'[s] = "zombie" PROVE Joiner(s)'
    <3>1. CASE s = t
      <4>1. native[t] # "detached" /\ t # 0
        BY <2>7, <3>1, <1>5 DEF Thread
      <4>2. ~env[a].detached
        BY <4>1, <3>1, <1>2, <1>3 DEF Handled
      <4>3. env[a].wait_count > 0
        BY <4>2, <3>1, <1>2 DEF Waits
      <4> QED
        BY <4>3, <3>1, <2>6, <2>7, <1>2, <1>3 DEF Waits
    <3>2. CASE s # t
      BY <3>2, <2>6, <2>7, <1>2, <1>5 DEF Waits, Thread
    <3> QED
      BY <3>1, <3>2
  <2>8. ASSUME ~createFailed', NEW b \in Addr, env'[b].alive, env'[b].tid \in Thread, env'[b].wait_count > 0
        PROVE  Joiner(env[b].tid)'
    <3>1. Joiner(env[b].tid) /\ env'[b].tid = env[b].tid
      BY <2>8, <1>2, <1>4 DEF Waits
    <3> QED
      BY <3>1, <2>6
  <2> QED
    BY <2>2, <2>3, <2>4, <2>5, <2>7, <2>8, <1>4 DEF Waits
<1>15. Ordered'
  <2>1. Order(t)'
    <3>1. Order(t) /\ pc'[t] \notin InCluster \cup {"join", "create_fail2"} /\ ~JoinCall(t)' /\ ~AtJoin(t)'
      BY <1>2, <1>5 DEF Ordered, InCluster, JoinCall, AtJoin
    <3> QED
      BY <3>1 DEF Order
  <2>2. \A b \in Addr : env'[b].tid = env[b].tid
    BY <1>4
  <2>3. \A h \in Thread : info'[h].mapped =>
               info[h].mapped /\ info'[h].exec_env = info[h].exec_env
    OBVIOUS
  <2> QED
    BY <2>1, <2>2, <2>3, <1>2, <1>7, <1>8, MovedOrdered
<1>16. Ends'
  <2>1. \A q \in Thread : q \in Tid /\ (pc[q] # "none" => pc'[q] # "none")
                          /\ (pc'[q] \in Exits \cup {"leave", "over"} => pc[q] \in Exits \cup {"leave", "over"})
    BY <1>5 DEF Thread, Exits
  <2>2. ASSUME NEW e \in Addr, NEW h \in Thread, Leads(e, h) PROVE Leads(e, h)'
    <3>1. CASE e = a /\ h = t
      BY <3>1, <1>6 DEF Leads, Thread
    <3>2. CASE ~(e = a /\ h = t)
      BY <2>1, <2>2, <3>2, <1>3, <1>4 DEF Leads
    <3> QED
      BY <3>1, <3>2
  <2>3. ASSUME NEW q \in Tid PROVE Asks(q)'
    <3>1. loc'[q] = loc[q] /\ Asks(q) /\ Frame(q) /\ loc[q] \in LocalType
      BY <1>2 DEF Ends, Framed, PthreadTypes
    <3>2. JoinCall(q) => loc[q].info \in Thread /\ loc[q].e \in Addr
      BY <3>1 DEF Frame, JoinCall, InCluster, LocalType
    <3>3. JoinCall(q) => Leads(loc[q].e, loc[q].info)'
      BY <2>2, <3>1, <3>2 DEF Asks, Leads
    <3> QED
      BY <3>1, <3>3, <1>7 DEF Asks
  <2>4. \A h \in Thread : info'[h].mapped => Leads(info[h].exec_env, h)'
    <3>1. \A h \in Thread : info[h].mapped => info[h].exec_env \in Addr
      BY <1>2 DEF Ordered, PthreadTypes, InfoType
    <3> QED
      BY <3>1, <2>2, <1>2 DEF Ends
  <2>5. JoinWaits'
    BY <1>2 DEF Ends, JoinWaits
  <2>6. \A b \in Addr : ~aliased' /\ env'[b].alive /\ env'[b].tid \in Thread /\ env'[b].detached =>
             env'[b].tid \in ended' \/ app'[env'[b].tid] = "detached"
    BY <1>2, <1>4 DEF Ends
  <2>7. \A h \in Thread : /\ app'[h] = "joinable" => info'[h].mapped \/ h \in ended'
                          /\ info'[h].status = "THREAD_EXIT" => h \in ended'
    BY <1>2 DEF Ends
  <2>8. \A s \in Thread : pc'[s] \in Exits \cup {"leave", "over"} => s \in ended'
    BY <2>1, <1>2 DEF Ends
  <2> QED
    BY <2>3, <2>4, <2>5, <2>6, <2>7, <2>8 DEF Ends, Leads
<1>17. AuxExact'
  <2>1. ASSUME NEW b \in Addr PROVE HasSegment(b)' <=> HasSegment(b)
    <3>1. CASE b = a
      <4>1. ~HasSegment(a)'
        BY <1>4 DEF HasSegment
      <4>2. ~HasSegment(a)
        BY <1>3, <1>6 DEF HasSegment
      <4> QED
        BY <3>1, <4>1, <4>2
    <3>2. CASE b # a
      <4>1. SUFFICES ASSUME env[b].alive PROVE HasSegment(b)' <=> HasSegment(b)
        BY <3>2, <1>4 DEF HasSegment
      <4>2. env[b].tid \in Tid /\ env[b].tid # t
        BY <3>2, <4>1, <1>2, <1>3 DEF Owners, PthreadTypes, EnvType
      <4>3. \A q \in Tid : pc'[q] \in {"create_thread", "create_fail2"} <=> pc[q] \in {"create_thread", "create_fail2"}
        BY <1>5
      <4> QED
        BY <3>2, <4>2, <4>3, <1>4, <1>5 DEF HasSegment
    <3> QED
      BY <3>1, <3>2
  <2>2. {b \in Addr : HasSegment(b)'} = {b \in Addr : HasSegment(b)}
    BY <2>1
  <2> QED
    BY <2>2, <1>2, <1>4 DEF AuxExact
<1> QED
  BY <1>8, <1>9, <1>10, <1>11, <1>12, <1>13, <1>14, <1>15, <1>16, <1>17 DEF IInv

(* The end of a thread that leaves others behind.                          *)
LEMMA ExitKeepInv ==
    ASSUME IInv, NEW p \in Tid, Cluster(p), ExitKeep(p)
    PROVE  IInv'
<1>1. /\ pc[p] = "exit_test" /\ UNCHANGED <<list, next, occupied, loc>> /\ destroyed' = destroyed
      /\ ExecEnvDestroy(p)
  BY DEF ExitKeep, At
<1>2. /\ UNCHANGED <<handle_id, info, app, ended, joined>>
      /\ createFailed' \in BOOLEAN /\ aliased' \in BOOLEAN
      /\ (createFailed => createFailed') /\ (aliased => aliased')
  <2>1. destroyed' = destroyed
    BY <1>1
  <2> QED
    BY <2>1, ClusterRest
<1>3. /\ destroyed' \in BOOLEAN /\ info' \in [Thread -> InfoType]
      /\ \A h \in Thread :
            /\ info'[h].mapped => info[h].mapped
            /\ info'[h].exec_env = info[h].exec_env /\ info'[h].status = info[h].status
            /\ app[h] = "joinable" => info'[h].mapped \/ h \in ended
  BY <1>1, <1>2 DEF IInv, PthreadTypes, Ends
<1>4. UNCHANGED <<list, next, occupied, loc, handle_id, app, ended, joined>>
  BY <1>1, <1>2
<1> QED
  BY <1>1, <1>2, <1>3, <1>4, DestroyedInv

(* The last thread of the cluster destroys it, and the nodes of the map    *)
(* with it: the thread of every node is out of the list, so has ended.     *)
LEMMA ExitDestroyInv ==
    ASSUME IInv, NEW p \in Tid, Cluster(p), ExitDestroy(p)
    PROVE  IInv'
<1>1. /\ pc[p] = "exit_test" /\ UNCHANGED <<list, next, occupied, loc>> /\ list = << >>
      /\ ExecEnvDestroy(p)
  BY DEF ExitDestroy, At
<1>2. destroyed' = TRUE /\ ~destroyed
  BY Zenon DEF ExitDestroy
<1>3. UNCHANGED <<handle_id, app, ended, joined>>
  BY DEF Cluster
<1>4. createFailed' \in BOOLEAN /\ (createFailed => createFailed')
  <2>1. createFailed' = (createFailed \/ pc'[p] = "create_fail2")
    BY Zenon DEF Cluster
  <2>2. createFailed \in BOOLEAN
    BY DEF IInv, PthreadTypes
  <2> QED
    BY <2>1, <2>2, Zenon
<1>5. aliased' \in BOOLEAN /\ (aliased => aliased')
  <2>1. aliased' = (aliased \/ (At(p, "detach") /\ env[loc[p].e].tid # loc[p].info))
    BY Zenon DEF Cluster
  <2>2. aliased \in BOOLEAN
    BY DEF IInv, PthreadTypes
  <2> QED
    BY <2>1, <2>2, Zenon
<1>6. info' = [h \in Thread |-> [info[h] EXCEPT !.alive = @ /\ ~info[h].mapped, !.mapped = FALSE]]
  BY <1>2, Zenon DEF Cluster
<1>7. ASSUME NEW h \in Thread
      PROVE  /\ info'[h] \in InfoType /\ ~info'[h].mapped
             /\ info'[h].exec_env = info[h].exec_env /\ info'[h].status = info[h].status
  <2>1. info[h] \in InfoType
    BY DEF IInv, PthreadTypes
  <2>2. info'[h] = [info[h] EXCEPT !.alive = @ /\ ~info[h].mapped, !.mapped = FALSE]
    BY <1>6
  <2> QED
    BY ONLY <2>1, <2>2 DEF InfoType
<1>8. ASSUME NEW h \in Thread, app[h] = "joinable" PROVE h \in ended
  <2>1. SUFFICES ASSUME h \notin ended PROVE FALSE
    OBVIOUS
  <2>2. info[h].mapped /\ Leads(info[h].exec_env, h)
    BY <1>8, <2>1 DEF IInv, Ends
  <2>3. h \in Tid /\ info[h].exec_env \in Addr \cup {NULL} /\ info[h].exec_env # NULL
    BY <2>2 DEF IInv, PthreadTypes, InfoType, Ordered, Thread
  <2>4. env[info[h].exec_env].alive /\ env[info[h].exec_env].tid = h /\ pc[h] # "none"
    BY <2>1, <2>2 DEF Leads
  <2>5. pc[h] # "over"
    BY <2>3, <2>4 DEF IInv, Owners
  <2>6. pc[h] # "exit_test"
    BY <2>1 DEF IInv, Ends, Exits
  <2>7. loc[h].exec_env \in ToSet(list)
    BY <2>3, <2>4, <2>5, <2>6 DEF IInv, Owners, Own, Runs
  <2>8. ToSet(list) = {}
    BY <1>1 DEF ToSet
  <2> QED
    BY <2>7, <2>8
<1>9. info' \in [Thread -> InfoType]
  BY <1>6, <1>7
<1>10. \A h \in Thread :
            /\ info'[h].mapped => info[h].mapped
            /\ info'[h].exec_env = info[h].exec_env /\ info'[h].status = info[h].status
            /\ app[h] = "joinable" => info'[h].mapped \/ h \in ended
  BY <1>7, <1>8
<1>11. UNCHANGED <<list, next, occupied, loc, handle_id, app, ended, joined>>
  BY <1>1, <1>3
<1> QED
  BY <1>1, <1>2, <1>4, <1>5, <1>9, <1>10, <1>11, DestroyedInv

(* The node of a join has been freed since it was found.                   *)
LEMMA UseFreedInfoInv ==
    ASSUME IInv, NEW p \in Tid, UseFreedInfo(p)
    PROVE  IInv'
<1>1. /\ UNCHANGED <<list, next, occupied, env, destroyed, native, pc, loc,
                     handle_id, info, app, ended, joined>>
      /\ createFailed' = createFailed /\ aliased' = aliased
  BY DEF UseFreedInfo, pthreadVars
<1>2. createFailed' \in BOOLEAN /\ aliased' \in BOOLEAN
  BY <1>1 DEF IInv, PthreadTypes
<1> QED
  BY <1>1, <1>2, UndefinedInv

(* A creation that is refused uses up a handle.                            *)
LEMMA CreateRefusedInv ==
    ASSUME IInv, NEW p \in Tid, PthreadCreateRefused(p)
    PROVE  IInv'
<1>1. /\ UNCHANGED <<list, next, occupied, env, destroyed, native, pc, loc,
                     info, app, ended, joined, createFailed, aliased>>
      /\ handle_id' = handle_id + 1
  BY DEF PthreadCreateRefused, tmVars
<1>2. PthreadTypes'
  BY <1>1 DEF IInv, PthreadTypes
<1>3. Framed'
  BY <1>1 DEF IInv, Framed, Frame
<1>4. Owners'
  BY <1>1 DEF IInv, Owners, Own, Runs
<1>5. Listed'
  BY <1>1 DEF IInv, Listed, Creating
<1>6. Handled' /\ AuxExact'
  <2>1. Handled'
    BY <1>1 DEF IInv, Handled
  <2>2. AuxExact'
    BY <1>1 DEF IInv, AuxExact, HasSegment
  <2> QED
    BY <2>1, <2>2
<1>7. Waits'
  BY <1>1 DEF IInv, Waits, AtJoin, Joiner, Joins
<1>8. Ordered'
  BY <1>1 DEF IInv, Ordered, Order, JoinCall, AtJoin
<1>9. Ends'
  <2>1. \A q \in Tid : Asks(q)'
    BY <1>1 DEF IInv, Ends, Asks, JoinCall, AtJoin, Leads
  <2>2. JoinWaits'
    BY <1>1 DEF IInv, Ends, JoinWaits
  <2> QED
    BY <2>1, <2>2, <1>1 DEF IInv, Ends, Leads
<1>10. Created'
  <2>1. \A q \in Tid : Creator(q)'
    BY <1>1 DEF IInv, Created, Creator, Creating
  <2>2. ASSUME NEW a \in Addr, env[a].tid # NULL PROVE env[a].tid < handle_id + 1
    <3>1. env[a].tid < handle_id /\ env[a].tid \in Tid /\ handle_id \in Nat
      BY <2>2 DEF IInv, Created, PthreadTypes, EnvType
    <3> QED
      BY <3>1, ThreadAssumption DEF Tid
  <2>3. ASSUME NEW t \in Thread, t >= handle_id + 1 PROVE pc[t] = "none"
    <3>1. handle_id \in Nat /\ t \in Nat
      BY ThreadAssumption DEF IInv, PthreadTypes, Thread, Tid
    <3>2. t >= handle_id
      BY <2>3, <3>1
    <3> QED
      BY <3>2 DEF IInv, Created
  <2>4. \A q, r \in Tid : Creating(q)' /\ Creating(r)' /\ loc'[q].new = loc'[r].new => q = r
    BY <1>1 DEF IInv, Created, Creating
  <2> QED
    BY <2>1, <2>2, <2>3, <2>4, <1>1 DEF IInv, Created
<1> QED
  BY <1>2, <1>3, <1>4, <1>5, <1>6, <1>7, <1>8, <1>9, <1>10 DEF IInv

(* The main thread begins to wait for the others, or to terminate them.    *)
LEMMA MainTraversesInv ==
    ASSUME IInv, pc[0] \in {"run", "destroy"}, NEW cancel \in BOOLEAN, NEW label \in {"destroy", "exit_del"},
           Traverse(0, MainEnv, cancel, label),
           UNCHANGED <<list, next, occupied, env, destroyed, native, handle_id, info, app, ended, joined>>,
           createFailed' = createFailed, aliased' = aliased
    PROVE  IInv'
<1>1. 0 \in Tid /\ MainEnv \in Addr
  BY ThreadAssumption DEF Tid, Addr, MainEnv
<1>2. PthreadTypes /\ Order(0)
  BY <1>1 DEF IInv, Ordered
<1>3. /\ pc' \in [Tid -> Labels] /\ loc' \in [Tid -> LocalType]
      /\ \A q \in Tid : q # 0 => pc'[q] = pc[q] /\ loc'[q] = loc[q]
      /\ pc'[0] = "traverse" /\ loc'[0].done = label /\ loc'[0].self = MainEnv
      /\ loc'[0].new = loc[0].new /\ loc'[0].exec_env = loc[0].exec_env
  <2>1. label \in {"destroy", "exit_del", "create_failed"}
    OBVIOUS
  <2> QED
    BY <1>1, <1>2, <2>1, TraverseFacts
<1>4. PthreadTypes'
  BY <1>2, <1>3 DEF PthreadTypes
<1>5. Moved(0)
  <2>1. OthersStay(0) /\ EnvSame
    BY <1>3 DEF OthersStay, EnvSame
  <2> QED
    BY <2>1, <1>3 DEF Moved, Stepped, Creating
<1>6. Frame(0)' /\ Asks(0)'
  BY <1>3 DEF Frame, Asks, JoinCall, AtJoin, InCluster
<1>7. Order(0)'
  BY <1>3 DEF Order, JoinCall, InCluster, AtJoin
<1>8. AppMoved
  BY DEF AppMoved
<1> QED
  BY <1>1, <1>3, <1>4, <1>5, <1>6, <1>7, <1>8, QuietInv DEF AtJoin, Exits

(* wasm_application_execute_main waits for the other threads.              *)
LEMMA MainReturnsInv ==
    ASSUME IInv, MainReturns
    PROVE  IInv'
<1>1. pc[0] \in {"run", "destroy"} /\ Traverse(0, MainEnv, FALSE, "destroy")
  BY DEF MainReturns, At
<1>2. /\ UNCHANGED <<list, next, occupied, env, destroyed, native, handle_id, info, app, ended, joined>>
      /\ createFailed' = createFailed /\ aliased' = aliased
  BY DEF MainReturns, pthreadVars
<1> QED
  BY <1>1, <1>2, MainTraversesInv

(* wasm_exec_env_destroy of the main environment terminates them.          *)
LEMMA DestroyExecEnvInv ==
    ASSUME IInv, DestroyExecEnv
    PROVE  IInv'
<1>1. pc[0] \in {"run", "destroy"} /\ Traverse(0, MainEnv, TRUE, "exit_del")
  BY DEF DestroyExecEnv, At
<1>2. /\ UNCHANGED <<list, next, occupied, env, destroyed, native, handle_id, info, app, ended, joined>>
      /\ createFailed' = createFailed /\ aliased' = aliased
  BY DEF DestroyExecEnv, pthreadVars
<1> QED
  BY <1>1, <1>2, MainTraversesInv

(* A thread that ends gives its auxiliary stack back.                      *)
LEMMA EndedAux ==
    ASSUME IInv, NEW t \in Tid, t # 0, pc[t] \in {"run", "leave", "init"}, pc'[t] = "exit_detach",
           OthersStay(t), UNCHANGED <<env, native, loc>>, free_aux_stack(loc[t].exec_env)
    PROVE  AuxExact'
<1>1. /\ PthreadTypes /\ Owners /\ Handled /\ AuxExact
  BY DEF IInv
<1>2. occupied' = occupied \ {env[loc[t].exec_env].aux}
  BY DEF free_aux_stack
<1>3. PICK a \in Addr :
      /\ a = loc[t].exec_env /\ env[a].alive /\ env[a].tid = t /\ env[a].aux # NULL /\ native[t] # "none"
      /\ \A b \in Addr : env[b].alive /\ env[b].tid = t => b = a
  <2> DEFINE a == loc[t].exec_env
  <2>1. Own(t) /\ Runs(t) /\ a \in Addr \cup {NULL}
    BY <1>1 DEF Owners, Runs, PthreadTypes, LocalType
  <2>2. a \in Addr /\ env[a].alive /\ env[a].tid = t /\ env[a].aux # NULL
    BY <2>1 DEF Own
  <2> QED
    BY <2>2, <1>1 DEF Owners, Handled
<1>4. \A q \in Tid : pc'[q] \in {"create_thread", "create_fail2"} <=>
                        pc[q] \in {"create_thread", "create_fail2"}
  BY DEF OthersStay
<1>5. HasSegment(a)
  BY <1>3 DEF HasSegment
<1>6. ~HasSegment(a)'
  BY <1>3 DEF HasSegment
<1>7. ASSUME NEW b \in Addr, b # a PROVE HasSegment(b)' <=> HasSegment(b)
  <2>1. SUFFICES ASSUME env[b].alive PROVE HasSegment(b)' <=> HasSegment(b)
    BY DEF HasSegment
  <2>2. env[b].tid \in Tid /\ env[b].tid # t
    BY <2>1, <1>1, <1>3, <1>7 DEF Owners, PthreadTypes, EnvType
  <2>3. pc'[env[b].tid] \in Exits <=> pc[env[b].tid] \in Exits
    BY <2>2 DEF Exits, OthersStay
  <2> QED
    BY <2>3, <1>4 DEF HasSegment, Exits
<1> QED
  BY <1>1, <1>2, <1>3, <1>5, <1>6, <1>7, AuxFreed

(* The steps of a thread that ends its app function.                       *)
LEMMA EndInv ==
    ASSUME IInv, PthreadTypes', NEW t \in Tid, t # 0, pc[t] \in {"run", "leave", "init"},
           pc'[t] = "exit_detach", OthersStay(t),
           UNCHANGED <<list, next, env, native, loc, handle_id, joined, createFailed, aliased>>,
           free_aux_stack(loc[t].exec_env), AppMoved, t \in ended'
    PROVE  IInv'
<1>1. PthreadTypes /\ Owners /\ Handled /\ Waits /\ Frame(t)
  BY DEF IInv, Framed
<1>2. OthersStay(t) /\ EnvSame
  BY DEF EnvSame
<1>3. loc[t].done = "none"
  <2>1. loc[t].done \in {"none", "destroy", "exit_del", "create_failed"}
    BY <1>1 DEF PthreadTypes, LocalType
  <2> QED
    BY <2>1, <1>1 DEF Frame
<1>4. Moved(t)
  BY <1>2, <1>3 DEF Moved, Stepped, Creating
<1>5. Frame(t)' /\ Order(t)' /\ Asks(t)'
  BY <1>3 DEF Frame, Order, Asks, JoinCall, AtJoin, InCluster
<1>6. AuxExact'
  BY <1>2, EndedAux
<1>7. Handled'
  <2>1. /\ \A s \in Tid : \/ native'[s] = native[s]
                          \/ s \in Thread /\ native[s] = "zombie" /\ native'[s] = "gone"
        /\ \A a \in Addr : env'[a].detached = env[a].detached
    OBVIOUS
  <2> QED
    BY <1>1, <1>4, <2>1, MovedHandled DEF Moved
<1>8. Waits'
  <2>1. /\ AtJoin(t)' <=> AtJoin(t)
        /\ AtJoin(t) => loc'[t].h = loc[t].h
        /\ pc'[t] = "joining" => pc[t] = "joining"
        /\ pc'[t] \notin {"exit_del", "exit_test"}
        /\ createFailed => createFailed'
    BY DEF AtJoin
  <2>2. /\ \A a \in Addr : env'[a].detached = env[a].detached /\ env'[a].wait_count = env[a].wait_count
        /\ \A s \in Tid : native'[s] = native[s]
    OBVIOUS
  <2> QED
    BY <1>1, <1>4, <2>1, <2>2, MovedWaits DEF Moved
<1> QED
  BY <1>4, <1>5, <1>6, <1>7, <1>8, MovedRest

(* The app function returns.                                               *)
LEMMA AppReturnsInv ==
    ASSUME IInv, NEW t \in Tid, AppReturns(t)
    PROVE  IInv'
<1>1. /\ t # 0 /\ t \in Thread /\ pc[t] = "run" /\ ended' = ended \cup {t}
      /\ UNCHANGED <<list, next, env, destroyed, native, loc>>
      /\ UNCHANGED <<handle_id, app, joined, createFailed, aliased>>
  BY DEF AppReturns, At, Thread
<1>2. PthreadTypes /\ info \in [Thread -> InfoType] /\ info[t] \in InfoType
  BY <1>1 DEF IInv, PthreadTypes
<1>3. CASE info[t].joinable
  <2>1. /\ info' = [info EXCEPT ![t].ret = t] /\ pc' = [pc EXCEPT ![t] = "leave"] /\ occupied' = occupied
    BY <1>3 DEF AppReturns, Goto
  <2>2. [info[t] EXCEPT !.ret = t] \in InfoType
    BY <1>1, <1>2 DEF InfoType
  <2>3. info' \in [Thread -> InfoType] /\ info'[t] = [info[t] EXCEPT !.ret = t]
        /\ \A h \in Thread : h # t => info'[h] = info[h]
    BY <1>1, <1>2, <2>1, <2>2
  <2>4. info'[t].mapped = info[t].mapped /\ info'[t].exec_env = info[t].exec_env
        /\ info'[t].status = info[t].status
    BY ONLY <1>2, <2>3 DEF InfoType
  <2>5. /\ pc' \in [Tid -> Labels] /\ pc'[t] = "leave" /\ \A q \in Tid : q # t => pc'[q] = pc[q]
    BY <1>2, <2>1 DEF PthreadTypes, Labels
  <2>6. PthreadTypes'
    BY <1>1, <1>2, <2>1, <2>3, <2>5 DEF PthreadTypes
  <2>7. AppMoved
    BY <1>1, <2>3, <2>4 DEF AppMoved
  <2>8. loc[t].done = "none"
    BY <1>1 DEF IInv, Framed, Frame
  <2>9. Moved(t)
    <3>1. OthersStay(t) /\ EnvSame
      BY <1>1, <2>5 DEF OthersStay, EnvSame
    <3> QED
      BY <3>1, <1>1, <2>1, <2>5, <2>8 DEF Moved, Stepped, Creating
  <2>10. Frame(t)' /\ Order(t)' /\ Asks(t)'
    BY <1>1, <2>5, <2>8 DEF Frame, Order, Asks, JoinCall, AtJoin, InCluster
  <2> QED
    BY <1>1, <2>1, <2>5, <2>6, <2>7, <2>9, <2>10, QuietInv DEF AtJoin, Exits
<1>4. CASE ~info[t].joinable
  <2>1. /\ info' = [info EXCEPT ![t].alive = FALSE, ![t].mapped = FALSE]
        /\ pc' = [pc EXCEPT ![t] = "exit_detach"] /\ free_aux_stack(loc[t].exec_env)
    BY <1>4 DEF AppReturns, Goto, Deleted
  <2>2. [info[t] EXCEPT !.alive = FALSE, !.mapped = FALSE] \in InfoType
    BY <1>2 DEF InfoType
  <2>3. info' \in [Thread -> InfoType] /\ info'[t] = [info[t] EXCEPT !.alive = FALSE, !.mapped = FALSE]
        /\ \A h \in Thread : h # t => info'[h] = info[h]
    BY <1>1, <1>2, <2>1, <2>2
  <2>4. ~info'[t].mapped /\ info'[t].status = info[t].status
    BY ONLY <1>2, <2>3 DEF InfoType
  <2>5. /\ pc' \in [Tid -> Labels] /\ pc'[t] = "exit_detach" /\ \A q \in Tid : q # t => pc'[q] = pc[q]
    BY <1>2, <2>1 DEF PthreadTypes, Labels
  <2>6. PthreadTypes'
    <3>1. occupied' \subseteq Seg /\ ended' \subseteq Thread
      BY <1>1, <1>2, <2>1 DEF PthreadTypes, free_aux_stack
    <3> QED
      BY <3>1, <1>1, <1>2, <2>3, <2>5 DEF PthreadTypes
  <2>7. AppMoved
    BY <1>1, <2>3, <2>4, <2>5 DEF AppMoved
  <2>8. OthersStay(t)
    BY <1>1, <2>5 DEF OthersStay
  <2> QED
    BY <1>1, <2>1, <2>5, <2>6, <2>7, <2>8, EndInv
<1> QED
  BY <1>3, <1>4

(* The status of the node is set and the auxiliary stack given back.       *)
LEMMA LeaveInv ==
    ASSUME IInv, NEW t \in Tid, Leave(t)
    PROVE  IInv'
<1>1. /\ pc[t] = "leave" /\ info' = [info EXCEPT ![t].status = "THREAD_EXIT"]
      /\ pc' = [pc EXCEPT ![t] = "exit_detach"] /\ free_aux_stack(loc[t].exec_env)
      /\ UNCHANGED <<list, next, env, destroyed, native, loc>>
      /\ UNCHANGED <<handle_id, app, ended, joined, createFailed, aliased>>
  BY DEF Leave, At, Goto
<1>2. PthreadTypes /\ info \in [Thread -> InfoType]
  BY DEF IInv, PthreadTypes
<1>3. t # 0 /\ t \in Thread /\ t \in ended /\ info[t] \in InfoType
  <2>1. t # 0
    BY <1>1 DEF IInv, Framed, Frame
  <2> QED
    BY <2>1, <1>1, <1>2 DEF IInv, Ends, Thread
<1>4. [info[t] EXCEPT !.status = "THREAD_EXIT"] \in InfoType
  BY <1>3 DEF InfoType
<1>5. info' \in [Thread -> InfoType] /\ info'[t] = [info[t] EXCEPT !.status = "THREAD_EXIT"]
      /\ \A h \in Thread : h # t => info'[h] = info[h]
  BY <1>1, <1>2, <1>3, <1>4
<1>6. info'[t].mapped = info[t].mapped /\ info'[t].exec_env = info[t].exec_env
  BY ONLY <1>3, <1>5 DEF InfoType
<1>7. /\ pc' \in [Tid -> Labels] /\ pc'[t] = "exit_detach" /\ \A q \in Tid : q # t => pc'[q] = pc[q]
  BY <1>1, <1>2 DEF PthreadTypes, Labels
<1>8. PthreadTypes'
  <2>1. occupied' \subseteq Seg
    BY <1>1, <1>2 DEF PthreadTypes, free_aux_stack
  <2> QED
    BY <2>1, <1>1, <1>2, <1>5, <1>7 DEF PthreadTypes
<1>9. AppMoved
  BY <1>1, <1>3, <1>5, <1>6, <1>7 DEF AppMoved
<1>10. OthersStay(t)
  BY <1>1, <1>7 DEF OthersStay
<1> QED
  BY <1>1, <1>3, <1>7, <1>8, <1>9, <1>10, EndInv

(* A call returns to the app.                                              *)
LEMMA ToAppFacts ==
    ASSUME PthreadTypes, NEW p \in Tid, Goto(p, "run"), ToApp(p)
    PROVE  /\ pc' \in [Tid -> Labels] /\ loc' \in [Tid -> LocalType]
           /\ \A q \in Tid : q # p => pc'[q] = pc[q] /\ loc'[q] = loc[q]
           /\ pc'[p] = "run" /\ loc'[p].exec_env = loc[p].exec_env
           /\ ~Creating(p)' /\ Frame(p)' /\ Order(p)' /\ Asks(p)'
<1> DEFINE m == Locals(loc[p].exec_env)
<1>1. loc[p].exec_env \in Addr \cup {NULL}
  BY DEF PthreadTypes, LocalType
<1>2. m \in LocalType /\ m.exec_env = loc[p].exec_env /\ m.done = "none"
  BY <1>1 DEF Locals, NoLocals, LocalType
<1> HIDE DEF m
<1>3. pc' = [pc EXCEPT ![p] = "run"] /\ loc' = [loc EXCEPT ![p] = m]
  BY DEF Goto, ToApp, m
<1>4. /\ pc' \in [Tid -> Labels] /\ loc' \in [Tid -> LocalType]
      /\ \A q \in Tid : q # p => pc'[q] = pc[q] /\ loc'[q] = loc[q]
      /\ pc'[p] = "run" /\ loc'[p].exec_env = loc[p].exec_env /\ loc'[p].done = "none"
  BY <1>2, <1>3 DEF PthreadTypes, Labels
<1> QED
  BY <1>4 DEF Creating, Frame, Order, Asks, JoinCall, AtJoin, InCluster

(* A step of a call of the app that leaves the thread manager alone.       *)
LEMMA CallInv ==
    ASSUME IInv, PthreadTypes', NEW p \in Tid,
           pc[p] \in {"run", "join_status", "joined"}, pc'[p] \in {"run", "join_status", "find"},
           \A q \in Tid : q # p => pc'[q] = pc[q] /\ loc'[q] = loc[q],
           loc'[p].exec_env = loc[p].exec_env, ~Creating(p)',
           UNCHANGED <<list, next, occupied, env, destroyed, native, handle_id>>,
           Frame(p)', Order(p)', Asks(p)', AppMoved
    PROVE  IInv'
<1>1. Moved(p)
  <2>1. OthersStay(p) /\ EnvSame
    BY DEF OthersStay, EnvSame
  <2> QED
    BY <2>1 DEF Moved, Stepped
<1>2. /\ \A t \in Tid : native'[t] = native[t]
      /\ \A a \in Addr : env'[a].detached = env[a].detached /\ env'[a].wait_count = env[a].wait_count
  OBVIOUS
<1>3. /\ ~AtJoin(p) /\ ~AtJoin(p)'
      /\ pc'[p] \in {"create_thread", "create_fail2"} <=> pc[p] \in {"create_thread", "create_fail2"}
      /\ loc'[p].new = loc[p].new \/ pc[p] \notin {"create_thread", "create_fail2"}
      /\ pc'[p] \in Exits <=> pc[p] \in Exits
      /\ pc'[p] \notin Exits \cup {"leave"}
  BY DEF AtJoin, Exits
<1>4. pc'[p] \notin {"exit_del", "exit_test"}
  OBVIOUS
<1> QED
  BY <1>1, <1>2, <1>3, <1>4, QuietInv

(* pthread_join: a node that is gone is that of a thread that has ended.   *)
LEMMA PthreadJoinInv ==
    ASSUME IInv, NEW p \in Tid, NEW h \in Thread, PthreadJoin(p, h)
    PROVE  IInv'
<1>1. /\ pc[p] = "run" /\ app[h] = "joinable" /\ h > p /\ app' = [app EXCEPT ![h] = "joined"]
      /\ UNCHANGED <<list, next, occupied, env, destroyed, native>>
      /\ UNCHANGED <<handle_id, info, ended, createFailed, aliased>>
  BY DEF PthreadJoin, At
<1>2. /\ PthreadTypes /\ info[h] \in InfoType /\ loc[p] \in LocalType
      /\ app \in [Thread -> {"none", "joinable", "joined", "detached"}]
  BY DEF IInv, PthreadTypes
<1>3. /\ app' \in [Thread -> {"none", "joinable", "joined", "detached"}] /\ app'[h] = "joined"
      /\ \A t \in Thread : t # h => app'[t] = app[t]
  BY <1>1, <1>2
<1>4. pc[h] \notin {"none", "start", "init"} /\ h # p
  BY <1>1, ThreadAssumption DEF IInv, Created, Thread, Tid
<1>5. CASE info[h].mapped
  <2> DEFINE a == [loc[p] EXCEPT !.info = h]
             b == [a EXCEPT !.e = info[h].exec_env]
  <2>1. pc' = [pc EXCEPT ![p] = "join_status"] /\ loc' = [loc EXCEPT ![p] = b] /\ joined' = joined
    BY <1>2, <1>5 DEF PthreadJoin, Goto, LocalType, PthreadTypes
  <2>2. info[h].exec_env \in Addr /\ info[h].exec_env # NULL /\ env[info[h].exec_env].tid >= h
        /\ Leads(info[h].exec_env, h)
    BY <1>2, <1>5 DEF IInv, Ordered, Ends, InfoType
  <2> HIDE DEF a, b
  <2>3. a \in LocalType /\ a.info = h /\ a.exec_env = loc[p].exec_env /\ a.done = loc[p].done
    BY <1>2 DEF LocalType, a
  <2>4. b \in LocalType /\ b.info = h /\ b.exec_env = loc[p].exec_env /\ b.done = loc[p].done
        /\ b.e = info[h].exec_env
    BY <2>2, <2>3 DEF LocalType, b
  <2>5. /\ pc' \in [Tid -> Labels] /\ loc' \in [Tid -> LocalType]
        /\ \A q \in Tid : q # p => pc'[q] = pc[q] /\ loc'[q] = loc[q]
        /\ pc'[p] = "join_status" /\ loc'[p] = b
    BY <1>2, <2>1, <2>4 DEF PthreadTypes, Labels
  <2>6. PthreadTypes'
    BY <1>1, <1>2, <1>3, <2>1, <2>5 DEF PthreadTypes
  <2>7. loc[p].done = "none"
    BY <1>1 DEF IInv, Framed, Frame
  <2>8. Frame(p)' /\ ~Creating(p)'
    <3>1. h # NULL
      BY <1>2, ThreadAssumption DEF Thread, Tid
    <3> QED
      BY <3>1, <2>2, <2>4, <2>5, <2>7 DEF Frame, InCluster, Creating
  <2>9. Order(p)'
    BY <1>1, <2>2, <2>4, <2>5, <2>7 DEF Order, JoinCall, InCluster, AtJoin
  <2>10. Asks(p)'
    <3>1. Leads(info[h].exec_env, h) => Leads(info[h].exec_env, h)'
      BY <1>1, <1>4, <2>1, <2>5 DEF Leads, Thread
    <3> QED
      BY <3>1, <1>1, <1>3, <2>2, <2>4, <2>5 DEF Asks, JoinCall, InCluster, AtJoin, Leads
  <2>11. AppMoved
    BY <1>1, <1>3, <1>4, <2>1, <2>5 DEF AppMoved, Thread
  <2> QED
    BY <1>1, <2>1, <2>4, <2>5, <2>6, <2>8, <2>9, <2>10, <2>11, CallInv
<1>6. CASE ~info[h].mapped
  <2>1. Goto(p, "run") /\ ToApp(p)
        /\ joined' = [joined EXCEPT ![h] = IF NULL = h THEN "value" ELSE "other"]
    BY <1>6 DEF PthreadJoin, JoinReturn
  <2>2. /\ pc' \in [Tid -> Labels] /\ loc' \in [Tid -> LocalType]
        /\ \A q \in Tid : q # p => pc'[q] = pc[q] /\ loc'[q] = loc[q]
        /\ pc'[p] = "run" /\ loc'[p].exec_env = loc[p].exec_env
        /\ ~Creating(p)' /\ Frame(p)' /\ Order(p)' /\ Asks(p)'
    BY <1>2, <2>1, ToAppFacts
  <2>3. /\ joined' \in [Thread -> {"none", "failed", "value", "other"}]
        /\ \A t \in Thread : t # h => joined'[t] = joined[t]
    BY <1>2, <2>1 DEF PthreadTypes
  <2>4. PthreadTypes'
    BY <1>1, <1>2, <1>3, <2>2, <2>3 DEF PthreadTypes
  <2>5. h \in ended
    BY <1>1, <1>6 DEF IInv, Ends
  <2>6. AppMoved
    BY <1>1, <1>3, <1>4, <2>2, <2>3, <2>5 DEF AppMoved, Thread
  <2> QED
    BY <1>1, <2>2, <2>4, <2>6, CallInv
<1> QED
  BY <1>5, <1>6

(* pthread_join looks at the status of the node.                           *)
LEMMA JoinStatusInv ==
    ASSUME IInv, NEW p \in Tid, JoinStatus(p)
    PROVE  IInv'
<1> DEFINE h == loc[p].info
<1>1. /\ pc[p] = "join_status"
      /\ UNCHANGED <<list, next, occupied, env, destroyed, native>>
      /\ UNCHANGED <<handle_id, info, app, ended, createFailed, aliased>>
  BY DEF JoinStatus, At
<1>2. /\ PthreadTypes /\ Frame(p) /\ Order(p) /\ Asks(p) /\ loc[p] \in LocalType /\ h \in Thread
      /\ loc[p].e \in Addr /\ h \in Tid
  BY <1>1 DEF IInv, PthreadTypes, Framed, Ordered, Ends, Frame, LocalType, Thread
<1>3. CASE info[h].status = "THREAD_EXIT"
  <2>1. Goto(p, "run") /\ ToApp(p)
        /\ joined' = [joined EXCEPT ![h] = IF info[h].ret = h THEN "value" ELSE "other"]
    BY <1>3 DEF JoinStatus, JoinReturn
  <2>2. /\ pc' \in [Tid -> Labels] /\ loc' \in [Tid -> LocalType]
        /\ \A q \in Tid : q # p => pc'[q] = pc[q] /\ loc'[q] = loc[q]
        /\ pc'[p] = "run" /\ loc'[p].exec_env = loc[p].exec_env
        /\ ~Creating(p)' /\ Frame(p)' /\ Order(p)' /\ Asks(p)'
    BY <1>2, <2>1, ToAppFacts
  <2>3. h \in ended
    BY <1>2, <1>3 DEF IInv, Ends
  <2> HIDE DEF h
  <2>4. /\ joined' \in [Thread -> {"none", "failed", "value", "other"}]
        /\ \A t \in Thread : t # h => joined'[t] = joined[t]
    BY <1>2, <2>1 DEF PthreadTypes
  <2>5. PthreadTypes'
    BY <1>1, <1>2, <2>2, <2>4 DEF PthreadTypes
  <2>6. AppMoved
    BY <1>1, <2>2, <2>3, <2>4 DEF AppMoved, Thread
  <2> QED
    BY <1>1, <2>2, <2>5, <2>6, CallInv
<1>4. CASE info[h].status # "THREAD_EXIT"
  <2> DEFINE a == [loc[p] EXCEPT !.then = "join"]
             b == [a EXCEPT !.back = "joined"]
  <2>1. pc' = [pc EXCEPT ![p] = "find"] /\ loc' = [loc EXCEPT ![p] = b] /\ joined' = joined
    BY <1>2, <1>4 DEF JoinStatus, Goto, LocalType, PthreadTypes
  <2> HIDE DEF a, b
  <2>2. /\ a \in LocalType /\ a.then = "join" /\ a.info = loc[p].info /\ a.exec_env = loc[p].exec_env
        /\ a.done = loc[p].done /\ a.e = loc[p].e
    BY <1>2 DEF LocalType, a
  <2>3. /\ b \in LocalType /\ b.then = "join" /\ b.info = loc[p].info /\ b.exec_env = loc[p].exec_env
        /\ b.done = loc[p].done /\ b.e = loc[p].e /\ b.back = "joined"
    BY <2>2 DEF LocalType, b
  <2>4. /\ pc' \in [Tid -> Labels] /\ loc' \in [Tid -> LocalType]
        /\ \A q \in Tid : q # p => pc'[q] = pc[q] /\ loc'[q] = loc[q]
        /\ pc'[p] = "find" /\ loc'[p] = b
    BY <1>2, <2>1, <2>3 DEF PthreadTypes, Labels
  <2>5. PthreadTypes'
    BY <1>1, <1>2, <2>1, <2>4 DEF PthreadTypes
  <2>6. Frame(p)' /\ ~Creating(p)'
    BY <1>1, <1>2, <2>3, <2>4 DEF Frame, InCluster, Creating
  <2>7. Order(p)'
    BY <1>1, <1>2, <2>3, <2>4 DEF Order, JoinCall, InCluster, AtJoin, Frame
  <2>8. Asks(p)'
    <3>1. Leads(loc[p].e, h) => Leads(loc[p].e, h)'
      <4>1. pc[h] # "none" => pc'[h] # "none"
        BY <1>2, <2>4
      <4>2. Leads(loc[p].e, h)' <=> h \in ended \/ (env[loc[p].e].alive /\ env[loc[p].e].tid = h /\ pc'[h] # "none")
        BY <1>1, <2>3, <2>4 DEF Leads
      <4> QED
        BY <4>1, <4>2 DEF Leads
    <3> QED
      BY <3>1, <1>1, <1>2, <2>3, <2>4 DEF Asks, JoinCall, InCluster, AtJoin
  <2>9. AppMoved
    BY <1>1, <2>1, <2>4 DEF AppMoved
  <2> QED
    BY <1>1, <2>1, <2>3, <2>4, <2>5, <2>6, <2>7, <2>8, <2>9, CallInv
<1> QED
  BY <1>3, <1>4

(* The join of the thread manager returns to pthread_join.                 *)
LEMMA PthreadJoinedInv ==
    ASSUME IInv, NEW p \in Tid, PthreadJoined(p)
    PROVE  IInv'
<1> DEFINE h == loc[p].info
<1>1. /\ pc[p] = "joined" /\ Goto(p, "run") /\ ToApp(p)
      /\ UNCHANGED <<list, next, occupied, env, destroyed, native>>
      /\ UNCHANGED <<handle_id, info, app, ended, createFailed, aliased>>
      /\ joined' = [joined EXCEPT ![h] = IF loc[p].ret # 0 THEN "failed"
                                         ELSE IF loc[p].h = h THEN "value" ELSE "other"]
  BY DEF PthreadJoined, At, JoinReturn
<1>2. /\ PthreadTypes /\ h \in Thread
  BY <1>1 DEF IInv, PthreadTypes, Framed, Frame, LocalType
<1>3. /\ pc' \in [Tid -> Labels] /\ loc' \in [Tid -> LocalType]
      /\ \A q \in Tid : q # p => pc'[q] = pc[q] /\ loc'[q] = loc[q]
      /\ pc'[p] = "run" /\ loc'[p].exec_env = loc[p].exec_env
      /\ ~Creating(p)' /\ Frame(p)' /\ Order(p)' /\ Asks(p)'
  BY <1>1, <1>2, ToAppFacts
<1>4. loc[p].ret = 0 => aliased \/ h \in ended
  BY <1>1 DEF IInv, Ends, Asks
<1> HIDE DEF h
<1>5. /\ joined' \in [Thread -> {"none", "failed", "value", "other"}]
      /\ \A t \in Thread : t # h => joined'[t] = joined[t]
      /\ joined'[h] = "failed" \/ loc[p].ret = 0
  BY <1>1, <1>2 DEF PthreadTypes
<1>6. PthreadTypes'
  BY <1>1, <1>2, <1>3, <1>5 DEF PthreadTypes
<1>7. AppMoved
  <2>1. \A t \in Thread : joined'[t] \in {joined[t], "failed"} \/ t \in ended' \/ aliased'
    BY <1>1, <1>4, <1>5
  <2> QED
    BY <2>1, <1>1, <1>3 DEF AppMoved, Thread
<1> QED
  BY <1>1, <1>3, <1>6, <1>7, CallInv

(* pthread_detach and pthread_cancel go on to find the environment.        *)
LEMMA CallFindInv ==
    ASSUME IInv, NEW p \in Tid, NEW h \in Thread, pc[p] = "run", info[h].mapped,
           Goto(p, "find"), NEW l \in LocalType, loc' = [loc EXCEPT ![p] = l],
           l.exec_env = loc[p].exec_env, l.done = loc[p].done, l.e = info[h].exec_env,
           l.back = "run",
           \/ l.then = "detach" /\ l.info = h /\ app'[h] = "detached"
           \/ l.then = "cancel",
           info' \in [Thread -> InfoType],
           \A t \in Thread : /\ info'[t].mapped = info[t].mapped /\ info'[t].exec_env = info[t].exec_env
                             /\ info'[t].status # info[t].status => t = h /\ info'[t].status = "THREAD_CANCELLED",
           app' \in [Thread -> {"none", "joinable", "joined", "detached"}],
           \A t \in Thread : app'[t] = app[t] \/ (t = h /\ app[t] = "joinable" /\ app'[t] = "detached"),
           UNCHANGED <<list, next, occupied, env, destroyed, native>>,
           UNCHANGED <<handle_id, ended, joined, createFailed, aliased>>
    PROVE  IInv'
<1>1. /\ PthreadTypes /\ h \in Tid /\ info[h].exec_env \in Addr /\ info[h].exec_env # NULL /\ h # NULL
      /\ loc[p].done = "none"
  BY ThreadAssumption DEF IInv, PthreadTypes, Ordered, Framed, Frame, InfoType, Thread, Tid
<1>2. pc[h] \notin {"none", "start", "init"}
  BY DEF IInv, Created
<1>3. /\ pc' \in [Tid -> Labels] /\ loc' \in [Tid -> LocalType]
      /\ \A q \in Tid : q # p => pc'[q] = pc[q] /\ loc'[q] = loc[q]
      /\ pc'[p] = "find" /\ loc'[p] = l
  BY <1>1 DEF PthreadTypes, Labels, Goto
<1>4. PthreadTypes'
  BY <1>1, <1>3 DEF PthreadTypes
<1>5. Frame(p)' /\ ~Creating(p)'
  BY <1>1, <1>3 DEF Frame, InCluster, Creating
<1>6. Order(p)'
  BY <1>1, <1>3 DEF Order, JoinCall, InCluster, AtJoin
<1>7. Asks(p)'
  BY <1>1, <1>3 DEF Asks, JoinCall, InCluster, AtJoin
<1>8. AppMoved
  <2>1. \A t \in Thread : pc'[t] \in {"none", "start", "init"} => t # h
    BY <1>1, <1>2, <1>3
  <2>2. \A t \in Thread : joined'[t] = joined[t]
    OBVIOUS
  <2> QED
    BY <2>1, <2>2 DEF AppMoved
<1> QED
  BY <1>3, <1>4, <1>5, <1>6, <1>7, <1>8, CallInv

(* pthread_detach: nothing is found of a thread whose node is gone.        *)
LEMMA PthreadDetachInv ==
    ASSUME IInv, NEW p \in Tid, NEW h \in Thread, PthreadDetach(p, h)
    PROVE  IInv'
<1>1. /\ pc[p] = "run" /\ app[h] = "joinable" /\ app' = [app EXCEPT ![h] = "detached"]
      /\ UNCHANGED <<list, next, occupied, env, destroyed, native>>
      /\ UNCHANGED <<handle_id, ended, joined, createFailed, aliased>>
  BY DEF PthreadDetach, At
<1>2. /\ PthreadTypes /\ info \in [Thread -> InfoType] /\ info[h] \in InfoType /\ loc[p] \in LocalType
      /\ app \in [Thread -> {"none", "joinable", "joined", "detached"}]
      /\ loc[p].done = "none"
  BY <1>1 DEF IInv, PthreadTypes, Framed, Frame
<1>3. /\ app' \in [Thread -> {"none", "joinable", "joined", "detached"}] /\ app'[h] = "detached"
      /\ \A t \in Thread : t # h => app'[t] = app[t]
  BY <1>1, <1>2
<1>4. CASE info[h].mapped
  <2> DEFINE a == [loc[p] EXCEPT !.e = info[h].exec_env]
             b == [a EXCEPT !.then = "detach"]
             c == [b EXCEPT !.back = "run"]
             d == [c EXCEPT !.info = h]
  <2>1. /\ info' = [info EXCEPT ![h].joinable = FALSE] /\ Goto(p, "find")
        /\ loc' = [loc EXCEPT ![p] = d]
    <3>1. /\ info' = [info EXCEPT ![h].joinable = FALSE] /\ Goto(p, "find")
          /\ loc' = [loc EXCEPT ![p].e = info[h].exec_env, ![p].then = "detach",
                                ![p].back = "run", ![p].info = h]
      BY <1>4 DEF PthreadDetach
    <3>2. loc \in [Tid -> LocalType] /\ loc[p] \in LocalType
      BY <1>2 DEF PthreadTypes
    <3>3. loc' = [loc EXCEPT ![p] = d]
      BY ONLY <3>1, <3>2, p \in Tid DEF LocalType
    <3> QED
      BY <3>1, <3>3
  <2>2. [info[h] EXCEPT !.joinable = FALSE] \in InfoType
    BY <1>2 DEF InfoType
  <2>3. info' \in [Thread -> InfoType] /\ info'[h] = [info[h] EXCEPT !.joinable = FALSE]
        /\ \A t \in Thread : t # h => info'[t] = info[t]
    BY <1>2, <2>1, <2>2
  <2>4. info'[h].mapped = info[h].mapped /\ info'[h].exec_env = info[h].exec_env
        /\ info'[h].status = info[h].status
    BY ONLY <1>2, <2>3 DEF InfoType
  <2>5. info[h].exec_env \in Addr \cup {NULL}
    BY <1>2 DEF InfoType
  <2> HIDE DEF a, b, c, d
  <2>6. a \in LocalType /\ a.e = info[h].exec_env /\ a.exec_env = loc[p].exec_env /\ a.done = loc[p].done
    BY <1>2, <2>5 DEF LocalType, a
  <2>7. b \in LocalType /\ b.e = a.e /\ b.exec_env = a.exec_env /\ b.done = a.done /\ b.then = "detach"
    BY <2>6 DEF LocalType, b
  <2>8. c \in LocalType /\ c.e = b.e /\ c.exec_env = b.exec_env /\ c.done = b.done /\ c.then = "detach"
        /\ c.back = "run"
    BY <2>7 DEF LocalType, c
  <2>9. d \in LocalType /\ d.e = c.e /\ d.exec_env = c.exec_env /\ d.done = c.done /\ d.then = "detach"
        /\ d.back = "run" /\ d.info = h
    BY <2>8 DEF LocalType, d
  <2>10. \A t \in Thread :
             /\ info'[t].mapped = info[t].mapped /\ info'[t].exec_env = info[t].exec_env
             /\ info'[t].status # info[t].status => t = h /\ info'[t].status = "THREAD_CANCELLED"
    BY <2>3, <2>4
  <2>11. \A t \in Thread : app'[t] = app[t] \/ (t = h /\ app[t] = "joinable" /\ app'[t] = "detached")
    BY <1>1, <1>3
  <2>12. /\ d \in LocalType /\ d.exec_env = loc[p].exec_env /\ d.done = loc[p].done
         /\ d.e = info[h].exec_env /\ d.back = "run"
         /\ \/ d.then = "detach" /\ d.info = h /\ app'[h] = "detached"
            \/ d.then = "cancel"
    BY <1>3, <2>6, <2>7, <2>8, <2>9
  <2> QED
    BY <1>1, <1>3, <1>4, <2>1, <2>3, <2>10, <2>11, <2>12, CallFindInv
<1>5. CASE ~info[h].mapped
  <2>1. UNCHANGED <<info, pc, loc>>
    BY <1>5 DEF PthreadDetach
  <2>2. PthreadTypes'
    BY <1>1, <1>2, <1>3, <2>1 DEF PthreadTypes
  <2>3. Frame(p)' /\ ~Creating(p)'
    BY <1>1, <1>2, <2>1 DEF Frame, InCluster, Creating
  <2>4. Order(p)' /\ Asks(p)'
    BY <1>1, <1>2, <2>1 DEF Order, Asks, JoinCall, InCluster, AtJoin
  <2>5. pc[h] \notin {"none", "start", "init"}
    BY <1>1 DEF IInv, Created
  <2>6. AppMoved
    BY <1>1, <1>3, <2>1, <2>5 DEF AppMoved
  <2> QED
    BY <1>1, <2>1, <2>2, <2>3, <2>4, <2>6, CallInv
<1> QED
  BY <1>4, <1>5

(* pthread_cancel: the node is marked and the environment looked for.      *)
LEMMA PthreadCancelInv ==
    ASSUME IInv, NEW p \in Tid, NEW h \in Thread, PthreadCancel(p, h)
    PROVE  IInv'
<1>1. /\ pc[p] = "run" /\ info[h].mapped
      /\ info' = [info EXCEPT ![h].status = "THREAD_CANCELLED", ![h].joinable = FALSE]
      /\ Goto(p, "find")
      /\ UNCHANGED <<list, next, occupied, env, destroyed, native>>
      /\ UNCHANGED <<handle_id, app, ended, joined, createFailed, aliased>>
  BY DEF PthreadCancel, At
<1>2. /\ PthreadTypes /\ info \in [Thread -> InfoType] /\ info[h] \in InfoType /\ loc[p] \in LocalType
      /\ app \in [Thread -> {"none", "joinable", "joined", "detached"}]
  BY DEF IInv, PthreadTypes
<1> DEFINE i == [info[h] EXCEPT !.status = "THREAD_CANCELLED", !.joinable = FALSE]
<1>3. i \in InfoType
  BY <1>2 DEF InfoType
<1>4. info' \in [Thread -> InfoType] /\ info'[h] = i /\ \A t \in Thread : t # h => info'[t] = info[t]
  BY <1>1, <1>2, <1>3
<1>5. i.mapped = info[h].mapped /\ i.exec_env = info[h].exec_env /\ i.status = "THREAD_CANCELLED"
  BY ONLY <1>2 DEF InfoType
<1>6. info[h].exec_env \in Addr \cup {NULL}
  BY <1>2 DEF InfoType
<1> DEFINE a == [loc[p] EXCEPT !.e = info[h].exec_env]
           b == [a EXCEPT !.then = "cancel"]
           c == [b EXCEPT !.back = "run"]
<1>7. loc' = [loc EXCEPT ![p] = c]
  BY <1>2 DEF PthreadCancel, LocalType, PthreadTypes
<1> HIDE DEF i, a, b, c
<1>8. a \in LocalType /\ a.e = info[h].exec_env /\ a.exec_env = loc[p].exec_env /\ a.done = loc[p].done
  BY <1>2, <1>6 DEF LocalType, a
<1>9. b \in LocalType /\ b.e = a.e /\ b.exec_env = a.exec_env /\ b.done = a.done /\ b.then = "cancel"
  BY <1>8 DEF LocalType, b
<1>10. c \in LocalType /\ c.e = b.e /\ c.exec_env = b.exec_env /\ c.done = b.done /\ c.then = "cancel"
       /\ c.back = "run"
  BY <1>9 DEF LocalType, c
<1>11. \A t \in Thread :
           /\ info'[t].mapped = info[t].mapped /\ info'[t].exec_env = info[t].exec_env
           /\ info'[t].status # info[t].status => t = h /\ info'[t].status = "THREAD_CANCELLED"
  BY <1>4, <1>5
<1>12. /\ app' \in [Thread -> {"none", "joinable", "joined", "detached"}]
       /\ \A t \in Thread : app'[t] = app[t] \/ (t = h /\ app[t] = "joinable" /\ app'[t] = "detached")
  BY <1>1, <1>2
<1>13. /\ c \in LocalType /\ c.exec_env = loc[p].exec_env /\ c.done = loc[p].done
       /\ c.e = info[h].exec_env /\ c.back = "run"
       /\ \/ c.then = "detach" /\ c.info = h /\ app'[h] = "detached"
          \/ c.then = "cancel"
  BY <1>8, <1>9, <1>10
<1> QED
  BY <1>1, <1>4, <1>7, <1>11, <1>12, <1>13, CallFindInv

(* A creation without a native thread ends: its environment and its node,  *)
(* which nobody else knows, are freed.                                     *)
LEMMA CreateFailedInv ==
    ASSUME IInv, NEW p \in Tid, PthreadCreateFails(p)
    PROVE  IInv'
<1> DEFINE a == loc[p].new
           t == env[a].tid
<1>1. /\ pc[p] = "create_failed" /\ env' = [env EXCEPT ![a].alive = FALSE]
      /\ info' = [info EXCEPT ![t].alive = FALSE, ![t].mapped = FALSE]
      /\ Goto(p, "run") /\ ToApp(p)
      /\ UNCHANGED <<list, next, occupied, destroyed, native>>
      /\ UNCHANGED <<handle_id, app, ended, joined, createFailed, aliased>>
  BY DEF PthreadCreateFails, At, Deleted
<1>2. /\ PthreadTypes /\ Framed /\ Owners /\ Created /\ Listed /\ Handled /\ Waits /\ Ordered /\ Ends
      /\ AuxExact /\ Frame(p)
  BY DEF IInv, Framed
<1>3. Creating(p) /\ pc[p] # "create_thread"
  BY <1>1, <1>2 DEF Creating, Frame
<1>4. /\ a \in Addr /\ env[a].alive /\ t \in Thread /\ t \in Tid /\ pc[t] = "none" /\ env[a] \in EnvType
      /\ \A q \in Tid : Runs(q) => loc[q].exec_env # a
      /\ \A q \in Tid : q # p /\ Creating(q) => loc[q].new # a
      /\ \A b \in Addr : env[b].alive /\ env[b].tid = t => b = a
      /\ a \notin ToSet(list)
  <2>1. /\ a \in Addr /\ env[a].alive /\ t \in Thread /\ t \in Tid /\ pc[t] = "none"
        /\ \A q \in Tid : Runs(q) => loc[q].exec_env # a
        /\ \A q \in Tid : q # p /\ Creating(q) => loc[q].new # a
        /\ \A b \in Addr : env[b].alive /\ env[b].tid = t => b = a
    BY <1>2, <1>3, CreatorFacts
  <2>2. env[a] \in EnvType
    BY <2>1, <1>2 DEF PthreadTypes
  <2> QED
    BY <2>1, <2>2, <1>2, <1>3 DEF Listed
<1>5. native[t] = "none" /\ env[a].handle = NULL
  <2>1. native[t] = "none"
    BY <1>2, <1>4 DEF Handled
  <2> QED
    BY <2>1, <1>2, <1>4 DEF Handled
<1> HIDE DEF a, t
<1>6. /\ env' \in [Addr -> EnvType] /\ ~env'[a].alive
      /\ \A b \in Addr : /\ env'[b].handle = env[b].handle /\ env'[b].tid = env[b].tid
                         /\ env'[b].aux = env[b].aux /\ env'[b].detached = env[b].detached
                         /\ env'[b].wait_count = env[b].wait_count
                         /\ b # a => env'[b].alive = env[b].alive
                         /\ env'[b].alive <=> env[b].alive /\ b # a
  <2>1. [env[a] EXCEPT !.alive = FALSE] \in EnvType
    BY <1>4 DEF EnvType
  <2>2. env' \in [Addr -> EnvType] /\ env'[a] = [env[a] EXCEPT !.alive = FALSE]
        /\ \A b \in Addr : b # a => env'[b] = env[b]
    BY <1>1, <1>2, <1>4, <2>1 DEF PthreadTypes
  <2>3. /\ env'[a].alive = FALSE /\ env'[a].tid = env[a].tid /\ env'[a].handle = env[a].handle
        /\ env'[a].aux = env[a].aux /\ env'[a].detached = env[a].detached
        /\ env'[a].wait_count = env[a].wait_count
    <3>1. env[a] \in EnvType /\ env'[a] = [env[a] EXCEPT !.alive = FALSE]
      BY <1>4, <2>2
    <3> QED
      BY ONLY <3>1 DEF EnvType
  <2> QED
    BY <2>2, <2>3
<1>7. /\ info' \in [Thread -> InfoType]
      /\ \A h \in Thread : /\ info'[h].mapped => info[h].mapped
                           /\ h # t => info'[h].mapped = info[h].mapped
                           /\ info'[h].exec_env = info[h].exec_env /\ info'[h].status = info[h].status
  <2>1. info \in [Thread -> InfoType] /\ info[t] \in InfoType
    BY <1>2, <1>4 DEF PthreadTypes
  <2>2. [info[t] EXCEPT !.alive = FALSE, !.mapped = FALSE] \in InfoType
    BY <2>1 DEF InfoType
  <2>3. info' \in [Thread -> InfoType] /\ info'[t] = [info[t] EXCEPT !.alive = FALSE, !.mapped = FALSE]
        /\ \A h \in Thread : h # t => info'[h] = info[h]
    BY <1>1, <1>4, <2>1, <2>2
  <2>4. /\ ~info'[t].mapped /\ info'[t].exec_env = info[t].exec_env /\ info'[t].status = info[t].status
    BY ONLY <2>1, <2>3 DEF InfoType
  <2> QED
    BY <2>3, <2>4
<1>8. /\ pc' \in [Tid -> Labels] /\ loc' \in [Tid -> LocalType]
      /\ \A q \in Tid : q # p => pc'[q] = pc[q] /\ loc'[q] = loc[q]
      /\ pc'[p] = "run" /\ loc'[p].exec_env = loc[p].exec_env
      /\ ~Creating(p)' /\ Frame(p)' /\ Order(p)' /\ Asks(p)'
  BY <1>1, <1>2, ToAppFacts
<1>9. /\ OthersStay(p)
      /\ \A q \in Tid : /\ Runs(q)' <=> Runs(q)
                        /\ loc'[q].exec_env = loc[q].exec_env
                        /\ Creating(q)' => Creating(q) /\ q # p
                        /\ AtJoin(q)' <=> AtJoin(q)
                        /\ AtJoin(q) \/ JoinCall(q) => q # p
                        /\ pc'[q] \in {"none", "start", "init", "create_thread", "create_fail2", "exit_test",
                                       "joining"}
                              <=> pc[q] = pc'[q] /\ pc[q] \in {"none", "start", "init", "create_thread",
                                                               "create_fail2", "exit_test", "joining"}
                        /\ pc[q] = "none" <=> pc'[q] = "none"
                        /\ pc'[q] \in Exits <=> pc[q] \in Exits
                        /\ pc'[q] \in Exits \cup {"leave", "over"} => pc[q] = pc'[q]
  BY <1>1, <1>8 DEF OthersStay, Runs, Creating, AtJoin, JoinCall, InCluster, Exits
<1>10. PthreadTypes'
  BY <1>1, <1>2, <1>6, <1>7, <1>8 DEF PthreadTypes
<1>11. Framed'
  BY <1>2, <1>8, <1>9, <1>10, MovedFramed
<1>12. Owners'
  <2>1. ASSUME NEW q \in Tid PROVE Own(q)'
    <3>1. SUFFICES ASSUME Runs(q) PROVE Own(q)'
      BY <1>9 DEF Own
    <3>2. Own(q) /\ loc[q].exec_env \in Addr \cup {NULL} /\ loc[q].exec_env # a
      BY <3>1, <1>2, <1>4 DEF Owners, PthreadTypes, LocalType
    <3>3. /\ pc'[q] # "start" => pc[q] # "start"
          /\ pc'[q] # "exit_test" => pc[q] # "exit_test"
      BY <1>1, <1>8
    <3> QED
      BY <3>1, <3>2, <3>3, <1>1, <1>6, <1>9 DEF Own
  <2>2. \A b, c \in Addr : env'[b].alive /\ env'[c].alive /\ env'[b].tid = env'[c].tid => b = c
    BY <1>2, <1>6 DEF Owners
  <2>3. ASSUME NEW b \in Addr, env'[b].alive PROVE env'[b].tid # NULL /\ pc'[env'[b].tid] # "over"
    <3>1. env[b].alive /\ env[b].tid \in Tid \cup {NULL} /\ env'[b].tid = env[b].tid
      BY <2>3, <1>2, <1>6 DEF PthreadTypes, EnvType
    <3>2. env[b].tid # NULL /\ pc[env[b].tid] # "over"
      BY <3>1, <1>2 DEF Owners
    <3>3. \A q \in Tid : pc[q] # "over" => pc'[q] # "over"
      BY <1>8
    <3> QED
      BY <3>1, <3>2, <3>3
  <2> QED
    BY <2>1, <2>2, <2>3 DEF Owners
<1>13. Created'
  <2>1. ASSUME NEW q \in Tid PROVE Creator(q)'
    <3>1. CASE Creating(q) /\ q # p
      <4>1. /\ loc[q].new \in Addr /\ env[loc[q].new].alive /\ env[loc[q].new].tid \in Thread
            /\ env[loc[q].new].tid \in Tid
            /\ env[loc[q].new].aux # NULL /\ pc[env[loc[q].new].tid] = "none"
        BY <1>2, <3>1, CreatorFacts
      <4>2. loc[q].new # NULL /\ loc[q].new # a /\ loc'[q] = loc[q]
        BY <4>1, <3>1, <1>4, <1>8, ThreadAssumption DEF Addr
      <4> QED
        BY <4>1, <4>2, <1>6, <1>9 DEF Creator
    <3> QED
      BY <3>1, <1>9 DEF Creator
  <2>2. \A s \in Thread : s \in Tid
    BY DEF Thread
  <2>3. \A s \in Thread : /\ s >= handle_id' => pc'[s] = "none"
                          /\ pc'[s] \in {"none", "start", "init"} =>
                                app'[s] = "none" /\ ~info'[s].mapped /\ info'[s].status = "THREAD_INIT"
    BY <1>1, <1>2, <1>7, <1>9, <2>2 DEF Created
  <2>4. \A q, r \in Tid : Creating(q)' /\ Creating(r)' /\ loc'[q].new = loc'[r].new => q = r
    BY <1>2, <1>8, <1>9 DEF Created
  <2>5. \A b \in Addr : env'[b].tid # NULL => env'[b].tid < handle_id'
    BY <1>1, <1>2, <1>6 DEF Created
  <2> QED
    BY <2>1, <2>3, <2>4, <2>5 DEF Created
<1>14. Listed'
  <2>1. Once(list') /\ \A q \in Tid : pc'[q] = "create_thread" => loc'[q].new \in ToSet(list')
    BY <1>1, <1>2, <1>8 DEF Listed
  <2>2. ASSUME NEW b \in ToSet(list')
        PROVE  /\ env'[b].alive
               /\ \A q \in Tid : Creating(q)' /\ pc'[q] # "create_thread" => loc'[q].new # b
               /\ \A q \in Tid : pc'[q] = "exit_test" => loc'[q].exec_env # b
    <3>1. b \in ToSet(list) /\ b \in Addr /\ b # a
      BY <2>2, <1>1, <1>2, <1>4, ToSetIs DEF PthreadTypes
    <3>2. env'[b].alive
      BY <3>1, <1>2, <1>6 DEF Listed
    <3>3. \A q \in Tid : Creating(q)' /\ pc'[q] # "create_thread" => loc'[q].new # b
      BY <3>1, <1>2, <1>8, <1>9 DEF Listed
    <3>4. \A q \in Tid : pc'[q] = "exit_test" => loc'[q].exec_env # b
      BY <3>1, <1>2, <1>8 DEF Listed
    <3> QED
      BY <3>2, <3>3, <3>4
  <2> QED
    BY <2>1, <2>2 DEF Listed
<1>15. Handled'
  <2>1. /\ \A q \in Tid : native'[q] = "none" <=> pc'[q] = "none"
        /\ \A q \in Thread : native'[q] \in {"zombie", "gone"} <=> pc'[q] = "over"
        /\ native'[0] \in {"running", "detached"}
    <3>1. \A q \in Thread : q \in Tid /\ (pc'[q] = "over" <=> pc[q] = "over")
      BY <1>1, <1>8 DEF Thread
    <3> QED
      BY <3>1, <1>1, <1>2, <1>9 DEF Handled
  <2>2. ASSUME NEW q \in Tid, pc'[q] = "start"
        PROVE  native'[q] = "running" /\ \A b \in Addr : env'[b].handle # q
    BY <2>2, <1>1, <1>2, <1>6, <1>8 DEF Handled
  <2>3. ASSUME NEW b \in Addr
        PROVE  LET h == env'[b].handle IN
               /\ h \in {NULL, env'[b].tid}
               /\ h # NULL => pc'[h] # "none"
               /\ env'[b].alive /\ h = NULL => ~env'[b].detached
               /\ env'[b].alive /\ h \in Thread => (env'[b].detached <=> native'[h] = "detached")
               /\ ~env'[b].alive /\ h \in Thread => native'[h] \in {"zombie", "gone"}
               /\ env'[b].tid = 0 => b = MainEnv
    <3>1. env[b].handle \in Tid \cup {NULL} /\ \A q \in Tid : pc[q] # "none" => pc'[q] # "none"
      BY <1>2, <1>9 DEF PthreadTypes, EnvType
    <3>2. env[b].handle # NULL => pc'[env[b].handle] # "none"
      BY <3>1, <1>2 DEF Handled
    <3>3. CASE b = a
      <4>1. env'[b].handle = NULL /\ NULL \notin Thread
        BY <3>3, <1>5, <1>6, ThreadAssumption DEF Thread, Tid
      <4> QED
        BY <4>1, <3>3, <1>2, <1>6 DEF Handled
    <3>4. CASE b # a
      BY <3>2, <3>4, <1>1, <1>2, <1>6 DEF Handled
    <3> QED
      BY <3>3, <3>4
  <2> QED
    BY <2>1, <2>2, <2>3 DEF Handled
<1>16. Waits'
  <2>1. ASSUME NEW q \in Tid, AtJoin(q)', loc'[q].h \in Thread
        PROVE  /\ native'[loc'[q].h] \notin {"none", "detached"} /\ pc'[loc'[q].h] # "start"
               /\ \A b \in Addr : env'[b].alive /\ env'[b].handle = loc'[q].h => env'[b].wait_count > 0
    <3>1. AtJoin(q) /\ q # p /\ loc'[q] = loc[q] /\ loc[q].h \in Tid
      BY <2>1, <1>8, <1>9 DEF Thread
    <3>2. /\ native[loc[q].h] \notin {"none", "detached"} /\ pc[loc[q].h] # "start"
          /\ \A b \in Addr : env[b].alive /\ env[b].handle = loc[q].h => env[b].wait_count > 0
      BY <2>1, <3>1, <1>2 DEF Waits
    <3>3. pc'[loc[q].h] # "start"
      BY <3>1, <3>2, <1>8
    <3> QED
      BY <3>1, <3>2, <3>3, <1>1, <1>6
  <2>2. \A q \in Tid : pc'[q] = "joining" => pc[q] = "joining" /\ loc'[q] = loc[q]
    BY <1>8
  <2>3. \A q, r \in Tid : \A s \in Thread : Joins(q, s)' /\ Joins(r, s)' => q = r
    BY <2>2, <1>2 DEF Waits, Joins
  <2>4. \A q \in Tid : pc'[q] = "joining" /\ loc'[q].h \in Thread => native'[loc'[q].h] # "gone"
    BY <2>2, <1>1, <1>2 DEF Waits
  <2>5. ASSUME NEW s \in Thread, pc'[s] \in {"exit_del", "exit_test"}
        PROVE  env'[loc'[s].exec_env].detached \/ env'[loc'[s].exec_env].wait_count > 0
    <3>1. s \in Tid /\ pc[s] \in {"exit_del", "exit_test"} /\ loc'[s].exec_env = loc[s].exec_env
      BY <2>5, <1>8, <1>9 DEF Thread
    <3>2. loc[s].exec_env \in Addr
      BY <3>1, <1>2 DEF Owners, Own, Runs, PthreadTypes, LocalType
    <3> QED
      BY <3>1, <3>2, <1>2, <1>6 DEF Waits
  <2>6. \A s : Joiner(s) => Joiner(s)'
    BY <1>8, <1>9 DEF Joiner
  <2>7. ASSUME ~createFailed', NEW s \in Thread, native'[s] = "zombie" PROVE Joiner(s)'
    BY <2>6, <2>7, <1>1, <1>2 DEF Waits
  <2>8. ASSUME ~createFailed', NEW b \in Addr, env'[b].alive, env'[b].tid \in Thread, env'[b].wait_count > 0
        PROVE  Joiner(env[b].tid)'
    <3>1. Joiner(env[b].tid) /\ env'[b].tid = env[b].tid
      BY <2>8, <1>1, <1>2, <1>6 DEF Waits
    <3> QED
      BY <3>1, <2>6
  <2> QED
    BY <2>1, <2>3, <2>4, <2>5, <2>7, <2>8, <1>6 DEF Waits
<1>17. Ordered'
  <2>1. \A b \in Addr : env'[b].tid = env[b].tid
    BY <1>6
  <2>2. \A h \in Thread : info'[h].mapped =>
               info[h].mapped /\ info'[h].exec_env = info[h].exec_env
    BY <1>7
  <2>3. createFailed => createFailed'
    BY <1>1
  <2> QED
    BY <2>1, <2>2, <2>3, <1>2, <1>8, <1>9, <1>10, MovedOrdered
<1>18. Ends'
  <2>1. \A q \in Thread : q \in Tid
    BY DEF Thread
  <2>2. ASSUME NEW e \in Addr, NEW h \in Thread, Leads(e, h) PROVE Leads(e, h)'
    <3>1. CASE h \in ended
      BY <3>1, <1>1 DEF Leads
    <3>2. CASE env[e].alive /\ env[e].tid = h /\ pc[h] # "none"
      <4>1. e # a /\ pc'[h] # "none"
        BY <3>2, <2>1, <1>4, <1>9 DEF t
      <4> QED
        BY <4>1, <3>2, <1>6 DEF Leads
    <3> QED
      BY <2>2, <3>1, <3>2 DEF Leads
  <2>3. ASSUME NEW q \in Tid PROVE Asks(q)'
    <3>1. SUFFICES ASSUME q # p PROVE Asks(q)'
      BY <1>8
    <3>2. pc'[q] = pc[q] /\ loc'[q] = loc[q] /\ Asks(q) /\ Frame(q) /\ loc[q] \in LocalType
      BY <3>1, <1>2, <1>8 DEF Ends, Framed, PthreadTypes
    <3>3. JoinCall(q) => loc[q].info \in Thread /\ loc[q].e \in Addr
      BY <3>2 DEF Frame, JoinCall, InCluster, LocalType
    <3>4. JoinCall(q) => Leads(loc[q].e, loc[q].info)'
      BY <2>2, <3>2, <3>3 DEF Asks, Leads
    <3> QED
      BY <3>2, <3>4, <1>1 DEF Asks, JoinCall, AtJoin
  <2>4. \A h \in Thread : info'[h].mapped => Leads(info[h].exec_env, h)'
    <3>1. \A h \in Thread : info[h].mapped => info[h].exec_env \in Addr
      BY <1>2 DEF Ordered, PthreadTypes, InfoType
    <3> QED
      BY <3>1, <2>2, <1>2, <1>7 DEF Ends
  <2>5. JoinWaits'
    BY <1>1, <1>2 DEF Ends, JoinWaits
  <2>6. \A b \in Addr : ~aliased' /\ env'[b].alive /\ env'[b].tid \in Thread /\ env'[b].detached =>
             env'[b].tid \in ended' \/ app'[env'[b].tid] = "detached"
    BY <1>1, <1>2, <1>6 DEF Ends
  <2>7. app[t] = "none"
    BY <1>2, <1>4 DEF Created
  <2>8. \A h \in Thread : /\ app'[h] = "joinable" => info'[h].mapped \/ h \in ended'
                          /\ info'[h].status = "THREAD_EXIT" => h \in ended'
    BY <2>7, <1>1, <1>2, <1>7 DEF Ends
  <2>9. \A s \in Thread : pc'[s] \in Exits \cup {"leave", "over"} => s \in ended'
    BY <2>1, <1>1, <1>2, <1>9 DEF Ends
  <2> QED
    BY <2>3, <2>4, <2>5, <2>6, <2>8, <2>9, <1>7 DEF Ends, Leads
<1>19. AuxExact'
  <2>1. \A q \in Tid : pc'[q] \in {"create_thread", "create_fail2"} <=> pc[q] \in {"create_thread", "create_fail2"}
    BY <1>1, <1>8
  <2>2. ASSUME NEW b \in Addr PROVE HasSegment(b)' <=> HasSegment(b)
    <3>1. CASE b = a
      <4>1. ~HasSegment(b)'
        BY <3>1, <1>6 DEF HasSegment
      <4>2. \A q \in Tid : pc[q] \in {"create_thread", "create_fail2"} => loc[q].new # a
        BY <1>1, <1>4 DEF Creating
      <4>3. ~HasSegment(b)
        BY <3>1, <4>2, <1>4, <1>5 DEF HasSegment, t
      <4> QED
        BY <4>1, <4>3
    <3>2. CASE b # a
      <4>1. SUFFICES ASSUME env[b].alive PROVE HasSegment(b)' <=> HasSegment(b)
        BY <3>2, <1>6 DEF HasSegment
      <4>2. env[b].tid \in Tid
        BY <4>1, <1>2 DEF Owners, PthreadTypes, EnvType
      <4>3. (\E q \in Tid : loc'[q].new = b /\ pc'[q] \in {"create_thread", "create_fail2"})
              <=> \E q \in Tid : loc[q].new = b /\ pc[q] \in {"create_thread", "create_fail2"}
        BY <2>1, <1>1, <1>8
      <4>4. pc'[env[b].tid] \in Exits <=> pc[env[b].tid] \in Exits
        BY <4>2, <1>9
      <4> QED
        BY <3>2, <4>3, <4>4, <1>1, <1>6 DEF HasSegment, Exits
    <3> QED
      BY <3>1, <3>2
  <2>3. {b \in Addr : HasSegment(b)'} = {b \in Addr : HasSegment(b)}
    BY <2>2
  <2> QED
    BY <2>3, <1>1, <1>2, <1>6 DEF AuxExact
<1> QED
  BY <1>10, <1>11, <1>12, <1>13, <1>14, <1>15, <1>16, <1>17, <1>18, <1>19 DEF IInv

(* A thread starts: it puts its node into the map, and its parent goes on. *)
LEMMA StartRoutineInv ==
    ASSUME IInv, NEW t \in Tid, StartRoutine(t)
    PROVE  IInv'
<1> DEFINE i == [info[t] EXCEPT !.mapped = TRUE, !.exec_env = loc[t].exec_env, !.status = "THREAD_RUNNING"]
<1>1. /\ pc[t] = "init" /\ pc[loc[t].parent] = "create_wait"
      /\ pc' = [pc EXCEPT ![t] = "run", ![loc[t].parent] = "run"]
      /\ info' = [info EXCEPT ![t].mapped = TRUE, ![t].exec_env = loc[t].exec_env,
                              ![t].status = "THREAD_RUNNING"]
      /\ app' = [app EXCEPT ![t] = "joinable"]
      /\ UNCHANGED <<list, next, occupied, env, destroyed, native, loc>>
      /\ UNCHANGED <<handle_id, ended, joined, createFailed, aliased>>
  BY DEF StartRoutine, At
<1>2. /\ PthreadTypes /\ Owners /\ Created /\ Frame(t) /\ info \in [Thread -> InfoType]
  BY DEF IInv, Framed, PthreadTypes
<1>3. t # 0 /\ t \in Thread /\ info[t] \in InfoType /\ loc[t] \in LocalType
  BY <1>1, <1>2 DEF Frame, Thread, PthreadTypes
<1>4. loc[t].exec_env \in Addr /\ env[loc[t].exec_env].alive /\ env[loc[t].exec_env].tid = t
  BY <1>1, <1>2, <1>3 DEF Owners, Own, Runs, LocalType
<1>5. i \in InfoType /\ i.exec_env = loc[t].exec_env /\ i.mapped /\ i.status = "THREAD_RUNNING"
  BY <1>3, <1>4 DEF InfoType
<1>6. info' \in [Thread -> InfoType] /\ info'[t] = i /\ \A h \in Thread : h # t => info'[h] = info[h]
  <2>1. info' = [info EXCEPT ![t] = i]
    BY ONLY <1>1, <1>2, <1>3 DEF InfoType
  <2> HIDE DEF i
  <2> QED
    BY <2>1, <1>2, <1>3, <1>5
<1> HIDE DEF i
<1>7. /\ pc' \in [Tid -> Labels] /\ pc'[t] = "run"
      /\ \A q \in Tid : q # t => pc'[q] = pc[q] \/ (pc[q] = "create_wait" /\ pc'[q] = "run")
  BY <1>1, <1>2 DEF PthreadTypes, Labels
<1>8. /\ app' \in [Thread -> {"none", "joinable", "joined", "detached"}]
      /\ app'[t] = "joinable" /\ \A h \in Thread : h # t => app'[h] = app[h]
      /\ app[t] = "none"
  BY <1>1, <1>2, <1>3 DEF PthreadTypes, Created
<1>9. PthreadTypes'
  BY <1>1, <1>2, <1>6, <1>7, <1>8 DEF PthreadTypes
<1>10. loc[t].done = "none"
  BY <1>1, <1>2 DEF Frame
<1>11. Moved(t)
  <2>1. OthersStay(t) /\ EnvSame
    BY <1>1, <1>7 DEF OthersStay, EnvSame
  <2> QED
    BY <2>1, <1>1, <1>7, <1>10 DEF Moved, Stepped, Creating
<1>12. Frame(t)' /\ Order(t)' /\ Asks(t)'
  BY <1>1, <1>7, <1>10 DEF Frame, Order, Asks, JoinCall, AtJoin, InCluster
<1>13. AppMoved
  <2>1. Placed(t)'
    BY <1>1, <1>4, <1>5, <1>6, <1>7 DEF Placed
  <2>2. \A h \in Thread : h # t => info'[h] = info[h] /\ app'[h] = app[h] /\ joined'[h] = joined[h]
    BY <1>1, <1>6, <1>8
  <2> QED
    BY <2>1, <2>2, <1>1, <1>5, <1>6, <1>7, <1>8 DEF AppMoved
<1> QED
  BY <1>1, <1>3, <1>7, <1>9, <1>11, <1>12, <1>13, QuietInv DEF AtJoin, Exits

(* A thread whose node cannot be put into the map ends at once.            *)
LEMMA StartRoutineFailsInv ==
    ASSUME IInv, NEW t \in Tid, StartRoutineFails(t)
    PROVE  IInv'
<1>1. /\ pc[t] = "init" /\ pc[loc[t].parent] = "create_wait"
      /\ pc' = [pc EXCEPT ![t] = "exit_detach", ![loc[t].parent] = "run"]
      /\ info' = [info EXCEPT ![t].alive = FALSE, ![t].mapped = FALSE]
      /\ app' = [app EXCEPT ![t] = "joinable"] /\ ended' = ended \cup {t}
      /\ free_aux_stack(loc[t].exec_env)
      /\ UNCHANGED <<list, next, env, destroyed, native, loc>>
      /\ UNCHANGED <<handle_id, joined, createFailed, aliased>>
  BY DEF StartRoutineFails, At, Deleted
<1>2. /\ PthreadTypes /\ Created /\ Frame(t) /\ info \in [Thread -> InfoType]
  BY DEF IInv, Framed, PthreadTypes
<1>3. t # 0 /\ t \in Thread /\ info[t] \in InfoType
  BY <1>1, <1>2 DEF Frame, Thread
<1>4. [info[t] EXCEPT !.alive = FALSE, !.mapped = FALSE] \in InfoType
  BY <1>3 DEF InfoType
<1>5. info' \in [Thread -> InfoType] /\ info'[t] = [info[t] EXCEPT !.alive = FALSE, !.mapped = FALSE]
      /\ \A h \in Thread : h # t => info'[h] = info[h]
  BY <1>1, <1>2, <1>3, <1>4
<1>6. ~info'[t].mapped /\ info'[t].status = info[t].status
  BY ONLY <1>3, <1>5 DEF InfoType
<1>7. /\ pc' \in [Tid -> Labels] /\ pc'[t] = "exit_detach"
      /\ \A q \in Tid : q # t => pc'[q] = pc[q] \/ (pc[q] = "create_wait" /\ pc'[q] = "run")
  BY <1>1, <1>2 DEF PthreadTypes, Labels
<1>8. /\ app' \in [Thread -> {"none", "joinable", "joined", "detached"}]
      /\ app'[t] = "joinable" /\ \A h \in Thread : h # t => app'[h] = app[h]
      /\ app[t] = "none"
  BY <1>1, <1>2, <1>3 DEF PthreadTypes, Created
<1>9. PthreadTypes'
  <2>1. occupied' \subseteq Seg /\ ended' \subseteq Thread
    BY <1>1, <1>2, <1>3 DEF PthreadTypes, free_aux_stack
  <2> QED
    BY <2>1, <1>1, <1>2, <1>5, <1>7, <1>8 DEF PthreadTypes
<1>10. AppMoved
  <2>1. \A h \in Thread : h # t => info'[h] = info[h] /\ app'[h] = app[h] /\ joined'[h] = joined[h]
    BY <1>1, <1>5, <1>8
  <2> QED
    BY <2>1, <1>1, <1>6, <1>7, <1>8 DEF AppMoved
<1>11. OthersStay(t)
  BY <1>1, <1>7 DEF OthersStay
<1> QED
  BY <1>1, <1>3, <1>7, <1>9, <1>10, <1>11, EndInv

(* A creation begins: the address of its environment was free, and who     *)
(* still knows it from before knows that the earlier thread has ended.     *)
LEMMA PthreadCreateInv ==
    ASSUME IInv, NEW p \in Tid, PthreadCreate(p)
    PROVE  IInv'
<1> DEFINE t == handle_id
<1>1. /\ pc[p] = "run" /\ t <= MaxThreads /\ handle_id' = t + 1 /\ CreateExecEnv(p, t)
      /\ info' = [info EXCEPT ![t] = [NoInfo EXCEPT !.alive = TRUE]]
      /\ UNCHANGED <<destroyed, native, app, ended, joined, createFailed, aliased>>
  BY DEF PthreadCreate, At
<1>2. PICK a \in Places, s \in Seg :
        /\ allocate_aux_stack(s) /\ env' = [env EXCEPT ![a] = [FreshEnv(t) EXCEPT !.aux = s]]
        /\ bh_list_insert(a) /\ loc' = [loc EXCEPT ![p].new = a] /\ Goto(p, "create_thread")
  BY <1>1 DEF CreateExecEnv
<1>3. /\ PthreadTypes /\ Framed /\ Owners /\ Created /\ Listed /\ Handled /\ Waits /\ Ordered /\ Ends
      /\ AuxExact /\ Frame(p) /\ loc[p] \in LocalType
  BY DEF IInv, Framed, PthreadTypes
<1>4. /\ t \in Thread /\ t \in Tid /\ t \in Nat /\ t # 0 /\ pc[t] = "none" /\ native[t] = "none"
      /\ app[t] = "none" /\ t # NULL /\ t # p /\ pc'[t] = "none"
      /\ \A h \in Thread : h \in Tid /\ h \in Nat /\ (pc[h] # "none" => h < t)
  <2>1. t \in Nat \ {0} /\ MaxThreads \in Nat
    BY <1>3, ThreadAssumption DEF PthreadTypes
  <2>2. t \in Thread /\ t \in Tid /\ t \in Nat /\ t # 0 /\ t # NULL
    BY <2>1, <1>1, ThreadAssumption DEF Thread, Tid
  <2>3. t >= handle_id
    BY <2>1
  <2>4. pc[t] = "none"
    BY <2>2, <2>3, <1>3 DEF Created
  <2>5. native[t] = "none" /\ app[t] = "none" /\ t # p
    BY <2>2, <2>4, <1>1, <1>3 DEF Handled, Created
  <2>6. pc'[t] = "none"
    BY <2>2, <2>4, <2>5, <1>2, <1>3 DEF Goto, PthreadTypes
  <2>7. ASSUME NEW h \in Thread PROVE h \in Tid /\ h \in Nat /\ (pc[h] # "none" => h < t)
    <3>1. h \in Tid /\ h \in Nat
      BY ThreadAssumption DEF Thread, Tid
    <3>2. h >= handle_id => pc[h] = "none"
      BY <1>3 DEF Created
    <3> QED
      BY <3>1, <3>2, <2>1
  <2> QED
    BY <2>2, <2>4, <2>5, <2>6, <2>7
<1>5. /\ a \in Addr /\ ~env[a].alive /\ s \in Seg /\ s \notin occupied /\ s # NULL
      /\ occupied' = occupied \cup {s} /\ a \notin ToSet(list) /\ a # NULL
      /\ \A q \in Tid : Runs(q) => loc[q].exec_env # a
      /\ \A q \in Tid : Creating(q) => loc[q].new # a
  <2>1. a \in Addr /\ ~env[a].alive /\ s \in Seg /\ s \notin occupied /\ occupied' = occupied \cup {s}
    BY <1>2 DEF Places, allocate_aux_stack
  <2>2. a \notin ToSet(list)
    BY <2>1, <1>3 DEF Listed
  <2>3. s # NULL /\ a # NULL
    BY <2>1, ThreadAssumption DEF Seg, Addr
  <2>4. \A q \in Tid : Runs(q) => loc[q].exec_env # a
    BY <2>1, <1>3 DEF Owners, Own
  <2>5. \A q \in Tid : Creating(q) => loc[q].new # a
    BY <2>1, <1>3 DEF Created, Creator
  <2> QED
    BY <2>1, <2>2, <2>3, <2>4, <2>5
<1> HIDE DEF t
<1>6. /\ env' \in [Addr -> EnvType] /\ \A b \in Addr : b # a => env'[b] = env[b]
      /\ env'[a].alive /\ env'[a].tid = t /\ env'[a].handle = NULL /\ env'[a].wait_count = 0
      /\ ~env'[a].detached /\ env'[a].aux = s
  <2> DEFINE f == [FreshEnv(t) EXCEPT !.aux = s]
  <2>1. /\ f \in EnvType /\ f.alive /\ f.tid = t /\ f.handle = NULL /\ f.wait_count = 0
        /\ ~f.detached /\ f.aux = s
    BY <1>4, <1>5 DEF FreshEnv, EnvType
  <2> HIDE DEF f
  <2>2. env' = [env EXCEPT ![a] = f]
    BY <1>2 DEF f
  <2> QED
    BY <2>1, <2>2, <1>3, <1>5 DEF PthreadTypes
<1>7. /\ info' \in [Thread -> InfoType] /\ \A h \in Thread : h # t => info'[h] = info[h]
      /\ ~info'[t].mapped /\ info'[t].status = "THREAD_INIT"
  <2> DEFINE f == [NoInfo EXCEPT !.alive = TRUE]
  <2>1. f \in InfoType /\ ~f.mapped /\ f.status = "THREAD_INIT"
    BY DEF NoInfo, InfoType
  <2> HIDE DEF f
  <2>2. info' = [info EXCEPT ![t] = f]
    BY <1>1 DEF f, t
  <2> QED
    BY <2>1, <2>2, <1>3, <1>4 DEF PthreadTypes
<1>8. /\ pc' \in [Tid -> Labels] /\ loc' \in [Tid -> LocalType]
      /\ \A q \in Tid : q # p => pc'[q] = pc[q] /\ loc'[q] = loc[q]
      /\ pc'[p] = "create_thread" /\ loc'[p].new = a
      /\ loc'[p].exec_env = loc[p].exec_env /\ loc'[p].done = loc[p].done
  <2> DEFINE l == [loc[p] EXCEPT !.new = a]
  <2>1. l \in LocalType /\ l.new = a /\ l.exec_env = loc[p].exec_env /\ l.done = loc[p].done
    BY <1>3, <1>5 DEF LocalType
  <2>2. loc' = [loc EXCEPT ![p] = l]
    BY <1>2
  <2> HIDE DEF l
  <2> QED
    BY <2>1, <2>2, <1>2, <1>3 DEF PthreadTypes, Labels, Goto
<1>9. /\ list' \in Seq(Addr) /\ ToSet(list') = ToSet(list) \cup {a} /\ Once(list')
      /\ next' \in [Addr -> Addr \cup {NULL}]
  BY <1>2, <1>3, <1>5, InsertFacts
<1>10. loc[p].done = "none" /\ handle_id' = t + 1 /\ handle_id = t
  BY <1>1, <1>3 DEF Frame, t
<1>11. /\ OthersStay(p)
       /\ \A q \in Tid : /\ Runs(q)' <=> Runs(q)
                         /\ loc'[q].exec_env = loc[q].exec_env
                         /\ Creating(q)' <=> Creating(q) \/ q = p
                         /\ AtJoin(q)' <=> AtJoin(q)
                         /\ JoinCall(q)' <=> JoinCall(q)
                         /\ AtJoin(q) \/ JoinCall(q) \/ Creating(q) => q # p
                         /\ pc[q] = "none" <=> pc'[q] = "none"
                         /\ pc'[q] \in Exits <=> pc[q] \in Exits
                         /\ pc'[q] \in Exits \cup {"leave", "over", "start", "init", "joining"} <=>
                            pc[q] = pc'[q] /\ pc[q] \in Exits \cup {"leave", "over", "start", "init", "joining"}
  BY <1>1, <1>8, <1>10 DEF OthersStay, Runs, Creating, AtJoin, JoinCall, InCluster, Exits
<1>12. PthreadTypes'
  <2>1. occupied' \subseteq Seg /\ handle_id' \in Nat \ {0}
    BY <1>3, <1>4, <1>5, <1>10 DEF PthreadTypes
  <2> QED
    BY <2>1, <1>1, <1>3, <1>6, <1>7, <1>8, <1>9 DEF PthreadTypes
<1>13. Framed'
  <2>1. Frame(p)'
    BY <1>8, <1>10 DEF Frame, InCluster
  <2> QED
    BY <2>1, <1>3, <1>11, <1>12, MovedFramed
<1>14. \A b \in Addr : env[b].tid \in Tid \cup {NULL} /\ env[b].tid # t
  <2>1. ASSUME NEW b \in Addr PROVE env[b].tid \in Tid \cup {NULL} /\ env[b].tid # t
    <3>1. env[b].tid \in Tid \cup {NULL}
      BY <1>3 DEF PthreadTypes, EnvType
    <3>2. env[b].tid # NULL => env[b].tid < t
      BY <1>3, <1>10 DEF Created
    <3> QED
      BY <3>1, <3>2, <1>4
  <2> QED
    BY <2>1
<1>15. Owners'
  <2>1. ASSUME NEW q \in Tid PROVE Own(q)'
    <3>1. SUFFICES ASSUME Runs(q) PROVE Own(q)'
      BY <1>11 DEF Own
    <3>2. Own(q) /\ loc[q].exec_env \in Addr \cup {NULL} /\ loc[q].exec_env # a
      BY <3>1, <1>3, <1>5 DEF Owners, PthreadTypes, LocalType
    <3>3. /\ pc'[q] # "start" => pc[q] # "start"
          /\ pc'[q] # "exit_test" => pc[q] # "exit_test"
          /\ loc'[q].exec_env = loc[q].exec_env
      BY <1>1, <1>8, <1>11
    <3>4. env'[loc[q].exec_env] = env[loc[q].exec_env]
      BY <3>1, <3>2, <1>6 DEF Own
    <3> QED
      BY <3>1, <3>2, <3>3, <3>4, <1>9 DEF Own
  <2>2. ASSUME NEW b \in Addr, NEW c \in Addr, env'[b].alive, env'[c].alive, env'[b].tid = env'[c].tid
        PROVE  b = c
    BY <2>2, <1>3, <1>6, <1>14 DEF Owners
  <2>3. ASSUME NEW b \in Addr, env'[b].alive PROVE env'[b].tid # NULL /\ pc'[env'[b].tid] # "over"
    <3>1. CASE b = a
      BY <3>1, <1>4, <1>6
    <3>2. CASE b # a
      <4>1. env[b].alive /\ env'[b] = env[b] /\ env[b].tid \in Tid \cup {NULL}
        BY <2>3, <3>2, <1>6, <1>14
      <4>2. \A q \in Tid : pc[q] # "over" => pc'[q] # "over"
        BY <1>8
      <4> QED
        BY <4>1, <4>2, <1>3 DEF Owners
    <3> QED
      BY <3>1, <3>2
  <2> QED
    BY <2>1, <2>2, <2>3 DEF Owners
<1>16. Created'
  <2>1. ASSUME NEW q \in Tid PROVE Creator(q)'
    <3>1. CASE q = p
      BY <3>1, <1>4, <1>5, <1>6, <1>8 DEF Creator
    <3>2. CASE Creating(q) /\ q # p
      <4>1. /\ loc[q].new \in Addr /\ env[loc[q].new].alive /\ env[loc[q].new].tid \in Thread
            /\ env[loc[q].new].tid \in Tid
            /\ env[loc[q].new].aux # NULL /\ pc[env[loc[q].new].tid] = "none"
        BY <1>3, <3>2, CreatorFacts
      <4>2. loc[q].new # NULL /\ loc'[q] = loc[q] /\ env'[loc[q].new] = env[loc[q].new]
        BY <4>1, <3>2, <1>5, <1>6, <1>8, ThreadAssumption DEF Addr
      <4> QED
        BY <4>1, <4>2, <1>11 DEF Creator
    <3> QED
      BY <3>1, <3>2, <1>11 DEF Creator
  <2>2. ASSUME NEW q \in Tid, NEW r \in Tid, Creating(q)', Creating(r)', loc'[q].new = loc'[r].new
        PROVE  q = r
    <3>1. CASE q = p /\ r # p
      BY <2>2, <3>1, <1>5, <1>8, <1>11
    <3>2. CASE q # p /\ r = p
      BY <2>2, <3>2, <1>5, <1>8, <1>11
    <3>3. CASE q # p /\ r # p
      BY <2>2, <3>3, <1>3, <1>8, <1>11 DEF Created
    <3> QED
      BY <3>1, <3>2, <3>3
  <2>3. ASSUME NEW b \in Addr, env'[b].tid # NULL PROVE env'[b].tid < handle_id'
    <3>1. CASE b = a
      BY <3>1, <1>4, <1>6, <1>10
    <3>2. CASE b # a
      <4>1. env'[b] = env[b] /\ env[b].tid < t /\ env[b].tid \in Tid
        BY <2>3, <3>2, <1>3, <1>6, <1>10, <1>14 DEF Created
      <4> QED
        BY <4>1, <1>4, <1>10, ThreadAssumption DEF Tid
    <3> QED
      BY <3>1, <3>2
  <2>4. ASSUME NEW h \in Thread, h >= handle_id' PROVE pc'[h] = "none"
    <3>1. h >= t
      BY <2>4, <1>4, <1>10
    <3> QED
      BY <3>1, <1>3, <1>4, <1>10, <1>11 DEF Created
  <2>5. ASSUME NEW h \in Thread, pc'[h] \in {"none", "start", "init"}
        PROVE  app'[h] = "none" /\ ~info'[h].mapped /\ info'[h].status = "THREAD_INIT"
    <3>1. CASE h = t
      BY <3>1, <1>1, <1>4, <1>7
    <3>2. CASE h # t
      <4>1. pc[h] \in {"none", "start", "init"}
        BY <2>5, <1>4, <1>8, <1>11
      <4> QED
        BY <4>1, <3>2, <1>1, <1>3, <1>7 DEF Created
    <3> QED
      BY <3>1, <3>2
  <2> QED
    BY <2>1, <2>2, <2>3, <2>4, <2>5 DEF Created
<1>17. Listed'
  <2>1. ASSUME NEW q \in Tid, pc'[q] = "create_thread" PROVE loc'[q].new \in ToSet(list')
    <3>1. CASE q = p
      BY <3>1, <1>8, <1>9
    <3>2. CASE q # p
      BY <2>1, <3>2, <1>3, <1>8, <1>9 DEF Listed
    <3> QED
      BY <3>1, <3>2
  <2>2. ASSUME NEW b \in ToSet(list')
        PROVE  /\ env'[b].alive
               /\ \A q \in Tid : Creating(q)' /\ pc'[q] # "create_thread" => loc'[q].new # b
               /\ \A q \in Tid : pc'[q] = "exit_test" => loc'[q].exec_env # b
    <3>1. b \in Addr /\ (b = a \/ (b \in ToSet(list) /\ b # a))
      <4>1. b \in ToSet(list) \/ b = a
        BY <2>2, <1>9
      <4>2. b \in ToSet(list) => b \in Addr
        BY <1>3, ToSetIs DEF PthreadTypes
      <4> QED
        BY <4>1, <4>2, <1>5
    <3>2. env'[b].alive
      BY <3>1, <1>3, <1>6 DEF Listed
    <3>3. ASSUME NEW q \in Tid, Creating(q)', pc'[q] # "create_thread" PROVE loc'[q].new # b
      <4>1. q # p /\ Creating(q) /\ loc'[q] = loc[q] /\ pc[q] # "create_thread"
        BY <3>3, <1>8, <1>11
      <4> QED
        BY <4>1, <3>1, <1>3, <1>5 DEF Listed
    <3>4. ASSUME NEW q \in Tid, pc'[q] = "exit_test" PROVE loc'[q].exec_env # b
      <4>1. pc[q] = "exit_test" /\ loc'[q] = loc[q] /\ Runs(q)
        BY <3>4, <1>8 DEF Runs
      <4> QED
        BY <4>1, <3>1, <1>3, <1>5 DEF Listed
    <3> QED
      BY <3>2, <3>3, <3>4
  <2> QED
    BY <2>1, <2>2, <1>9 DEF Listed
<1>18. Handled'
  <2>1. /\ \A q \in Tid : native'[q] = "none" <=> pc'[q] = "none"
        /\ \A q \in Thread : native'[q] \in {"zombie", "gone"} <=> pc'[q] = "over"
        /\ native'[0] \in {"running", "detached"}
    <3>1. \A q \in Thread : q \in Tid /\ (pc'[q] = "over" <=> pc[q] = "over")
      BY <1>1, <1>8 DEF Thread
    <3> QED
      BY <3>1, <1>1, <1>3, <1>11 DEF Handled
  <2>2. ASSUME NEW q \in Tid, pc'[q] = "start"
        PROVE  native'[q] = "running" /\ \A b \in Addr : env'[b].handle # q
    <3>1. pc[q] = "start" /\ q # NULL
      BY <2>2, <1>8, ThreadAssumption DEF Tid
    <3>2. native[q] = "running" /\ \A b \in Addr : env[b].handle # q
      BY <3>1, <1>3 DEF Handled
    <3> QED
      BY <3>1, <3>2, <1>1, <1>6
  <2>3. ASSUME NEW b \in Addr
        PROVE  LET h == env'[b].handle IN
               /\ h \in {NULL, env'[b].tid}
               /\ h # NULL => pc'[h] # "none"
               /\ env'[b].alive /\ h = NULL => ~env'[b].detached
               /\ env'[b].alive /\ h \in Thread => (env'[b].detached <=> native'[h] = "detached")
               /\ ~env'[b].alive /\ h \in Thread => native'[h] \in {"zombie", "gone"}
               /\ env'[b].tid = 0 => b = MainEnv
    <3>1. CASE b = a
      <4>1. NULL \notin Thread
        BY ThreadAssumption DEF Thread, Tid
      <4> QED
        BY <4>1, <3>1, <1>4, <1>6
    <3>2. CASE b # a
      <4>1. env[b].handle \in Tid \cup {NULL} /\ env'[b] = env[b]
        BY <3>2, <1>3, <1>6 DEF PthreadTypes, EnvType
      <4>2. env[b].handle # NULL => pc'[env[b].handle] # "none"
        BY <4>1, <1>3, <1>11 DEF Handled
      <4> QED
        BY <4>1, <4>2, <1>1, <1>3 DEF Handled
    <3> QED
      BY <3>1, <3>2
  <2> QED
    BY <2>1, <2>2, <2>3 DEF Handled
<1>19. Waits'
  <2>1. ASSUME NEW q \in Tid, AtJoin(q)', loc'[q].h \in Thread
        PROVE  /\ native'[loc'[q].h] \notin {"none", "detached"} /\ pc'[loc'[q].h] # "start"
               /\ \A b \in Addr : env'[b].alive /\ env'[b].handle = loc'[q].h => env'[b].wait_count > 0
    <3>1. AtJoin(q) /\ q # p /\ loc'[q] = loc[q] /\ loc[q].h \in Tid /\ loc[q].h # NULL
      BY <2>1, <1>8, <1>11, ThreadAssumption DEF Thread, Tid
    <3>2. /\ native[loc[q].h] \notin {"none", "detached"} /\ pc[loc[q].h] # "start"
          /\ \A b \in Addr : env[b].alive /\ env[b].handle = loc[q].h => env[b].wait_count > 0
      BY <2>1, <3>1, <1>3 DEF Waits
    <3>3. pc'[loc[q].h] # "start"
      BY <3>1, <3>2, <1>8
    <3> QED
      BY <3>1, <3>2, <3>3, <1>1, <1>6
  <2>2. \A q \in Tid : pc'[q] = "joining" => pc[q] = "joining" /\ loc'[q] = loc[q]
    BY <1>8
  <2>3. \A q, r \in Tid : \A h \in Thread : Joins(q, h)' /\ Joins(r, h)' => q = r
    BY <2>2, <1>3 DEF Waits, Joins
  <2>4. \A q \in Tid : pc'[q] = "joining" /\ loc'[q].h \in Thread => native'[loc'[q].h] # "gone"
    BY <2>2, <1>1, <1>3 DEF Waits
  <2>5. ASSUME NEW q \in Thread, pc'[q] \in {"exit_del", "exit_test"}
        PROVE  env'[loc'[q].exec_env].detached \/ env'[loc'[q].exec_env].wait_count > 0
    <3>1. q \in Tid /\ pc[q] \in {"exit_del", "exit_test"} /\ loc'[q].exec_env = loc[q].exec_env
      BY <2>5, <1>4, <1>8, <1>11
    <3>2. Runs(q) /\ loc[q].exec_env \in Addr /\ loc[q].exec_env # a
      BY <3>1, <1>3, <1>5 DEF Owners, Own, Runs, PthreadTypes, LocalType
    <3>3. env'[loc[q].exec_env] = env[loc[q].exec_env]
      BY <3>2, <1>6
    <3> QED
      BY <3>1, <3>3, <1>3 DEF Waits
  <2>6. \A h : Joiner(h) => Joiner(h)'
    BY <1>8, <1>11 DEF Joiner
  <2>7. ASSUME ~createFailed', NEW h \in Thread, native'[h] = "zombie" PROVE Joiner(h)'
    BY <2>6, <2>7, <1>1, <1>3 DEF Waits
  <2>8. ASSUME ~createFailed', NEW b \in Addr, env'[b].alive, env'[b].tid \in Thread, env'[b].wait_count > 0
        PROVE  Joiner(env[b].tid)' /\ b # a
    <3>1. b # a
      BY <2>8, <1>6
    <3>2. Joiner(env[b].tid) /\ env'[b].tid = env[b].tid
      BY <3>1, <2>8, <1>1, <1>3, <1>6 DEF Waits
    <3> QED
      BY <3>1, <3>2, <2>6
  <2> QED
    BY <2>1, <2>3, <2>4, <2>5, <2>7, <2>8, <1>6 DEF Waits
<1>20. Ordered'
  <2>1. ASSUME NEW h \in Thread, info'[h].mapped
        PROVE  info'[h].exec_env # NULL /\ env'[info'[h].exec_env].tid >= h
    <3>1. h # t /\ info'[h] = info[h]
      BY <2>1, <1>7
    <3>2. /\ info[h].exec_env # NULL /\ env[info[h].exec_env].tid >= h
          /\ info[h].exec_env \in Addr \cup {NULL} /\ pc[h] # "none"
      BY <2>1, <3>1, <1>3 DEF Ordered, PthreadTypes, InfoType, Created
    <3>3. CASE info[h].exec_env = a
      <4>1. h < t
        BY <3>2, <1>4
      <4>2. t >= h
        BY <4>1, <1>4
      <4> QED
        BY <4>2, <3>1, <3>2, <3>3, <1>6
    <3>4. CASE info[h].exec_env # a
      BY <3>1, <3>2, <3>4, <1>6
    <3> QED
      BY <3>3, <3>4
  <2>2. ASSUME NEW q \in Tid PROVE Order(q)'
    <3>1. CASE q = p
      BY <3>1, <1>8, <1>10 DEF Order, JoinCall, AtJoin, InCluster
    <3>2. CASE q # p
      <4>1. pc'[q] = pc[q] /\ loc'[q] = loc[q] /\ Order(q) /\ Asks(q) /\ Frame(q) /\ loc[q] \in LocalType
        BY <3>2, <1>3, <1>8 DEF Ordered, Ends, Framed, PthreadTypes
      <4>2. JoinCall(q) \/ pc[q] = "join" => loc[q].e \in Addr
        BY <4>1 DEF Frame, JoinCall, InCluster, LocalType
      <4>3. ASSUME JoinCall(q) PROVE loc[q].info > q /\ env'[loc[q].e].tid >= loc[q].info
        <5>1. loc[q].info \in Thread /\ app[loc[q].info] = "joined"
          BY <4>1, <4>3 DEF Frame, Asks, JoinCall, InCluster, LocalType
        <5>2. loc[q].info \in Nat /\ loc[q].info < t
          BY <5>1, <1>3, <1>4 DEF Created
        <5>3. t >= loc[q].info
          BY <5>2, <1>4
        <5>4. CASE loc[q].e = a
          BY <5>3, <5>4, <4>1, <4>3, <1>6 DEF Order
        <5>5. CASE loc[q].e # a
          BY <5>5, <4>1, <4>2, <4>3, <1>6 DEF Order
        <5> QED
          BY <5>4, <5>5
      <4>4. pc[q] = "join" /\ env[loc[q].e].tid # NULL => env'[loc[q].e].tid # NULL
        <5>1. CASE loc[q].e = a
          BY <5>1, <1>4, <1>6
        <5>2. CASE loc[q].e # a
          BY <5>2, <4>2, <1>6
        <5> QED
          BY <5>1, <5>2
      <4> QED
        BY <4>1, <4>3, <4>4, <1>1 DEF Order, JoinCall, AtJoin
    <3> QED
      BY <3>1, <3>2
  <2> QED
    BY <2>1, <2>2 DEF Ordered
<1>21. Ends'
  <2>1. ASSUME NEW e \in Addr, NEW h \in Thread, Leads(e, h) PROVE Leads(e, h)'
    <3>1. CASE h \in ended
      BY <3>1, <1>1 DEF Leads
    <3>2. CASE env[e].alive /\ env[e].tid = h /\ pc[h] # "none"
      <4>1. env'[e] = env[e] /\ pc'[h] # "none"
        BY <3>2, <1>4, <1>5, <1>6, <1>11
      <4> QED
        BY <4>1, <3>2 DEF Leads
    <3> QED
      BY <2>1, <3>1, <3>2 DEF Leads
  <2>2. ASSUME NEW q \in Tid PROVE Asks(q)'
    <3>1. CASE q = p
      BY <3>1, <1>8 DEF Asks, JoinCall, AtJoin, InCluster
    <3>2. CASE q # p
      <4>1. pc'[q] = pc[q] /\ loc'[q] = loc[q] /\ Asks(q) /\ Frame(q) /\ loc[q] \in LocalType
        BY <3>2, <1>3, <1>8 DEF Ends, Framed, PthreadTypes
      <4>2. JoinCall(q) => loc[q].info \in Thread /\ loc[q].e \in Addr
        BY <4>1 DEF Frame, JoinCall, InCluster, LocalType
      <4>3. JoinCall(q) => Leads(loc[q].e, loc[q].info)'
        BY <2>1, <4>1, <4>2 DEF Asks, Leads
      <4> QED
        BY <4>1, <4>3, <1>1 DEF Asks, JoinCall, AtJoin
    <3> QED
      BY <3>1, <3>2
  <2>3. \A h \in Thread : info'[h].mapped => Leads(info[h].exec_env, h)'
    <3>1. \A h \in Thread : info'[h].mapped => h # t
      BY <1>7
    <3>2. \A h \in Thread : info[h].mapped => info[h].exec_env \in Addr
      BY <1>3 DEF Ordered, PthreadTypes, InfoType
    <3> QED
      BY <3>1, <3>2, <2>1, <1>3, <1>7 DEF Ends, Leads
  <2>4. JoinWaits'
    BY <1>1, <1>3 DEF Ends, JoinWaits
  <2>5. \A b \in Addr : ~aliased' /\ env'[b].alive /\ env'[b].tid \in Thread /\ env'[b].detached =>
             env'[b].tid \in ended' \/ app'[env'[b].tid] = "detached"
    BY <1>1, <1>3, <1>6 DEF Ends
  <2>6. ASSUME NEW h \in Thread
        PROVE  /\ app'[h] = "joinable" => info'[h].mapped \/ h \in ended'
               /\ info'[h].status = "THREAD_EXIT" => h \in ended'
    BY <1>1, <1>3, <1>4, <1>7 DEF Ends
  <2>7. \A h \in Thread : pc'[h] \in Exits \cup {"leave", "over"} => h \in ended'
    BY <1>1, <1>3, <1>4, <1>11 DEF Ends
  <2> QED
    BY <2>2, <2>3, <2>4, <2>5, <2>6, <2>7 DEF Ends
<1>22. AuxExact'
  <2>1. HasSegment(a)'
    BY <1>1, <1>4, <1>5, <1>6, <1>8 DEF HasSegment
  <2>2. ~HasSegment(a)
    BY <1>5 DEF HasSegment
  <2>3. ASSUME NEW b \in Addr, b # a PROVE HasSegment(b)' <=> HasSegment(b)
    <3>1. SUFFICES ASSUME env[b].alive PROVE HasSegment(b)' <=> HasSegment(b)
      BY <2>3, <1>6 DEF HasSegment
    <3>2. env[b].tid \in Tid /\ env'[b] = env[b]
      BY <2>3, <3>1, <1>3, <1>6 DEF Owners, PthreadTypes, EnvType
    <3>3. (\E q \in Tid : loc'[q].new = b /\ pc'[q] \in {"create_thread", "create_fail2"})
            <=> \E q \in Tid : loc[q].new = b /\ pc[q] \in {"create_thread", "create_fail2"}
      BY <2>3, <1>1, <1>8
    <3>4. pc'[env[b].tid] \in Exits <=> pc[env[b].tid] \in Exits
      BY <3>2, <1>11
    <3> QED
      BY <3>2, <3>3, <3>4, <1>1 DEF HasSegment, Exits
  <2> DEFINE users == {b \in Addr : HasSegment(b)}
             users2 == {b \in Addr : HasSegment(b)'}
  <2>4. users2 = users \cup {a} /\ a \notin users /\ users \subseteq Addr
    BY <2>1, <2>2, <2>3, <1>5
  <2>5. occupied = {env[b].aux : b \in users} /\ \A b, c \in users : b # c => env[b].aux # env[c].aux
    BY <1>3 DEF AuxExact
  <2> HIDE DEF users, users2
  <2>6. \A b \in users : env'[b].aux = env[b].aux /\ env[b].aux # s
    BY <2>4, <2>5, <1>5, <1>6
  <2>7. occupied' = {env'[b].aux : b \in users2}
    BY <2>4, <2>5, <2>6, <1>5, <1>6
  <2>8. \A b, c \in users2 : b # c => env'[b].aux # env'[c].aux
    BY <2>4, <2>5, <2>6, <1>6
  <2> QED
    BY <2>7, <2>8 DEF AuxExact, users2
<1> QED
  BY <1>12, <1>13, <1>15, <1>16, <1>17, <1>18, <1>19, <1>20, <1>21, <1>22 DEF IInv

----------------------------------------------------------------------------
(* The invariant *)

(* The main thread alone, with its environment in the list.                *)
LEMMA InitInv ==
    ASSUME Init
    PROVE  IInv
<1>1. /\ TMInit /\ handle_id = 1 /\ info = [h \in Thread |-> NoInfo] /\ app = [h \in Thread |-> "none"]
      /\ ended = {} /\ joined = [h \in Thread |-> "none"] /\ createFailed = FALSE /\ aliased = FALSE
  BY DEF Init
<1>2. /\ list = <<MainEnv>> /\ occupied = {} /\ next = [a \in Addr |-> NULL] /\ destroyed = FALSE
      /\ env = [a \in Addr |-> IF a = MainEnv THEN [FreshEnv(0) EXCEPT !.handle = 0]
                               ELSE [FreshEnv(NULL) EXCEPT !.alive = FALSE]]
      /\ native = [t \in Tid |-> IF t = 0 THEN "running" ELSE "none"]
      /\ pc = [t \in Tid |-> IF t = 0 THEN "run" ELSE "none"]
      /\ loc = [t \in Tid |-> IF t = 0 THEN Locals(MainEnv) ELSE NoLocals]
  BY <1>1 DEF TMInit
<1>3. /\ 0 \in Tid /\ 0 \in Addr /\ MainEnv = 0 /\ NULL \notin Tid /\ NULL \notin Addr /\ NULL \notin Thread
      /\ 0 \notin Thread /\ \A h \in Thread : h \in Tid /\ h # 0
      /\ NULL # 0 /\ NULL \notin Seg
  BY ThreadAssumption DEF Tid, Addr, MainEnv, Thread, Seg
<1>4. /\ env \in [Addr -> EnvType]
      /\ \A a \in Addr :
            /\ env[a].alive <=> a = 0
            /\ env[a].tid = (IF a = 0 THEN 0 ELSE NULL) /\ env[a].handle = (IF a = 0 THEN 0 ELSE NULL)
            /\ env[a].wait_count = 0 /\ env[a].detached = FALSE /\ env[a].aux = NULL
  <2> DEFINE f == [FreshEnv(0) EXCEPT !.handle = 0]
             g == [FreshEnv(NULL) EXCEPT !.alive = FALSE]
  <2>1. /\ f \in EnvType /\ f.alive /\ f.tid = 0 /\ f.handle = 0 /\ f.wait_count = 0
        /\ f.detached = FALSE /\ f.aux = NULL
    BY <1>3 DEF FreshEnv, EnvType
  <2>2. /\ g \in EnvType /\ ~g.alive /\ g.tid = NULL /\ g.handle = NULL /\ g.wait_count = 0
        /\ g.detached = FALSE /\ g.aux = NULL
    BY <1>3 DEF FreshEnv, EnvType
  <2>3. env = [a \in Addr |-> IF a = 0 THEN f ELSE g]
    BY <1>2, <1>3
  <2> HIDE DEF f, g
  <2> QED
    BY <2>1, <2>2, <2>3
<1>5. /\ loc \in [Tid -> LocalType]
      /\ \A t \in Tid : loc[t].done = "none" /\ (t = 0 => loc[t].exec_env = 0)
  <2>1. /\ Locals(MainEnv) \in LocalType /\ Locals(MainEnv).done = "none" /\ Locals(MainEnv).exec_env = 0
    BY <1>3 DEF Locals, NoLocals, LocalType
  <2>2. NoLocals \in LocalType /\ NoLocals.done = "none"
    BY DEF NoLocals, LocalType
  <2> QED
    BY <2>1, <2>2, <1>2
<1>6. /\ info \in [Thread -> InfoType]
      /\ \A h \in Thread : ~info[h].mapped /\ info[h].status = "THREAD_INIT"
  <2>1. NoInfo \in InfoType /\ ~NoInfo.mapped /\ NoInfo.status = "THREAD_INIT"
    BY DEF NoInfo, InfoType
  <2> QED
    BY <2>1, <1>1
<1>7. /\ list \in Seq(Addr) /\ Len(list) = 1 /\ list[1] = 0 /\ ToSet(list) = {0}
  <2>1. list \in Seq(Addr) /\ Len(list) = 1 /\ list[1] = 0
    BY <1>2, <1>3
  <2> QED
    BY <2>1, ToSetIs
<1>8. /\ pc \in [Tid -> Labels] /\ \A t \in Tid : pc[t] = IF t = 0 THEN "run" ELSE "none"
  BY <1>2 DEF Labels
<1>9. PthreadTypes
  <2>1. /\ next \in [Addr -> Addr \cup {NULL}] /\ occupied \subseteq Seg
        /\ native \in [Tid -> {"none", "running", "detached", "zombie", "gone"}]
    BY <1>2
  <2>2. /\ app \in [Thread -> {"none", "joinable", "joined", "detached"}] /\ ended \subseteq Thread
        /\ joined \in [Thread -> {"none", "failed", "value", "other"}] /\ handle_id \in Nat \ {0}
    BY <1>1
  <2>3. createFailed \in BOOLEAN /\ aliased \in BOOLEAN /\ destroyed \in BOOLEAN
    BY <1>1, <1>2, Zenon
  <2> QED
    BY <2>1, <2>2, <2>3, <1>4, <1>5, <1>6, <1>7, <1>8 DEF PthreadTypes
<1>10. Framed
  BY <1>5, <1>8 DEF Framed, Frame, InCluster
<1>11. \A t \in Tid : /\ Runs(t) <=> t = 0
                      /\ ~Creating(t) /\ ~AtJoin(t) /\ ~JoinCall(t)
                      /\ pc[t] \in {"run", "none"}
  BY <1>5, <1>8 DEF Runs, Creating, AtJoin, JoinCall, InCluster
<1>12. Owners
  <2>1. \A t \in Tid : Own(t)
    BY <1>3, <1>4, <1>5, <1>7, <1>8, <1>11 DEF Own
  <2> QED
    BY <2>1, <1>3, <1>4, <1>8 DEF Owners
<1>13. Created
  BY <1>1, <1>3, <1>4, <1>6, <1>8, <1>11 DEF Created, Creator
<1>14. Listed
  <2>1. Once(list)
    BY <1>7 DEF Once
  <2> QED
    BY <2>1, <1>4, <1>7, <1>11 DEF Listed
<1>15. Handled
  <2>1. /\ \A t \in Tid : native[t] = "none" <=> pc[t] = "none"
        /\ \A t \in Thread : native[t] \in {"zombie", "gone"} <=> pc[t] = "over"
        /\ native[0] \in {"running", "detached"}
    BY <1>2, <1>3, <1>8
  <2> QED
    BY <2>1, <1>3, <1>4, <1>8 DEF Handled
<1>16. Waits
  <2>1. \A t \in Thread : native[t] = "none"
    BY <1>2, <1>3
  <2> QED
    BY <2>1, <1>3, <1>4, <1>8, <1>11 DEF Waits, Joins
<1>17. Ordered
  <2>1. \A p \in Tid : Order(p)
    BY <1>5, <1>8, <1>11 DEF Order, InCluster
  <2> QED
    BY <2>1, <1>6 DEF Ordered
<1>18. Ends
  <2>1. \A p \in Tid : Asks(p)
    BY <1>8, <1>11 DEF Asks, InCluster
  <2>2. JoinWaits
    BY <1>1 DEF JoinWaits
  <2> QED
    BY <2>1, <2>2, <1>1, <1>3, <1>4, <1>6, <1>8 DEF Ends, Exits
<1>19. AuxExact
  <2>1. \A a \in Addr : ~HasSegment(a)
    BY <1>4 DEF HasSegment
  <2> QED
    BY <2>1, <1>2 DEF AuxExact
<1> QED
  BY <1>9, <1>10, <1>12, <1>13, <1>14, <1>15, <1>16, <1>17, <1>18, <1>19 DEF IInv

(* Every step of the thread manager keeps the invariant.                   *)
LEMMA ClusterInv ==
    ASSUME IInv, NEW p \in Tid, Cluster(p)
    PROVE  IInv'
<1>1. ClusterStep(p)
  BY DEF Cluster
<1>2. CASE Find(p)
  BY <1>2, FindInv
<1>3. CASE JoinMark(p)
  BY <1>3, JoinMarkInv
<1>4. CASE OsThreadJoin(p)
  BY <1>4, OsThreadJoinInv
<1>5. CASE Joined(p)
  BY <1>5, JoinedInv
<1>6. CASE DetachMark(p)
  BY <1>6, DetachMarkInv
<1>7. CASE CancelMark(p)
  BY <1>7, CancelMarkInv
<1>8. CASE UseFreedEnv(p) \/ UseFreedNode(p) \/ ExitDestroyed(p)
  BY <1>8, FreedInv
<1>9. CASE TraverseNext(p)
  BY <1>9, TraverseNextInv
<1>10. CASE CreateThread(p)
  BY <1>10, CreateThreadInv
<1>11. CASE CreateFails(p)
  BY <1>11, CreateFailsInv
<1>12. CASE CreateFail2(p)
  BY <1>12, CreateFail2Inv
<1>13. CASE Start(p)
  BY <1>13, StartInv
<1>14. CASE ExitDetach(p)
  BY <1>14, ExitDetachInv
<1>15. CASE ExitDel(p)
  BY <1>15, ExitDelInv
<1>16. CASE ExitKeep(p)
  BY <1>16, ExitKeepInv
<1>17. CASE ExitDestroy(p)
  BY <1>17, ExitDestroyInv
<1> QED
  BY <1>1, <1>2, <1>3, <1>4, <1>5, <1>6, <1>7, <1>8, <1>9, <1>10, <1>11, <1>12, <1>13, <1>14,
     <1>15, <1>16, <1>17 DEF ClusterStep

(* And so does every step.                                                 *)
LEMMA NextInv ==
    ASSUME IInv, [Next]_vars
    PROVE  IInv'
<1>1. ASSUME NEW p \in Tid, Call(p) PROVE IInv'
  <2>1. CASE PthreadCreate(p)
    BY <2>1, PthreadCreateInv
  <2>2. CASE PthreadCreateRefused(p)
    BY <2>2, CreateRefusedInv
  <2>3. ASSUME NEW h \in Thread, PthreadJoin(p, h) PROVE IInv'
    BY <2>3, PthreadJoinInv
  <2>4. ASSUME NEW h \in Thread, PthreadDetach(p, h) PROVE IInv'
    BY <2>4, PthreadDetachInv
  <2>5. ASSUME NEW h \in Thread, PthreadCancel(p, h) PROVE IInv'
    BY <2>5, PthreadCancelInv
  <2> QED
    BY <1>1, <2>1, <2>2, <2>3, <2>4, <2>5 DEF Call
<1>2. ASSUME NEW p \in Tid, Step(p) PROVE IInv'
  <2>1. CASE PthreadCreateFails(p)
    BY <2>1, CreateFailedInv
  <2>2. CASE StartRoutine(p)
    BY <2>2, StartRoutineInv
  <2>3. CASE StartRoutineFails(p)
    BY <2>3, StartRoutineFailsInv
  <2>4. CASE AppReturns(p)
    BY <2>4, AppReturnsInv
  <2>5. CASE Leave(p)
    BY <2>5, LeaveInv
  <2>6. CASE JoinStatus(p)
    BY <2>6, JoinStatusInv
  <2>7. CASE PthreadJoined(p)
    BY <2>7, PthreadJoinedInv
  <2>8. CASE UseFreedInfo(p)
    BY <2>8, UseFreedInfoInv
  <2>9. CASE Cluster(p)
    BY <2>9, ClusterInv
  <2> QED
    BY <1>2, <2>1, <2>2, <2>3, <2>4, <2>5, <2>6, <2>7, <2>8, <2>9 DEF Step
<1>3. CASE MainReturns
  BY <1>3, MainReturnsInv
<1>4. CASE DestroyExecEnv
  BY <1>4, DestroyExecEnvInv
<1>5. CASE UNCHANGED vars
  <2>1. /\ UNCHANGED <<list, next, occupied, env, destroyed, native, pc, loc,
                       handle_id, info, app, ended, joined>>
        /\ createFailed' = createFailed /\ aliased' = aliased
    BY <1>5 DEF vars, tmVars, pthreadVars
  <2>2. createFailed' \in BOOLEAN /\ aliased' \in BOOLEAN
    BY <2>1 DEF IInv, PthreadTypes
  <2> QED
    BY <2>1, <2>2, UndefinedInv
<1> QED
  BY <1>1, <1>2, <1>3, <1>4, <1>5 DEF Next

(* The invariant of the threads of an app.                                 *)
THEOREM PthreadInvariant == Spec => []IInv
<1>1. Init => IInv
  BY InitInv
<1>2. IInv /\ [Next]_vars => IInv'
  BY NextInv
<1> QED
  BY <1>1, <1>2, PTL DEF Spec

(* The auxiliary stacks marked in the cluster (allocate_aux_stack,         *)
(* free_aux_stack) are those in use, and no two threads share one, for any *)
(* number of threads and segments.                                         *)
THEOREM AuxExactHolds == Spec => []AuxExact
<1>1. IInv => AuxExact
  BY DEF IInv
<1> QED
  BY <1>1, PthreadInvariant, PTL

(* A native thread is either joined or detached, once                      *)
(* (wasm_cluster_join_thread, wasm_cluster_detach_thread, the end of       *)
(* thread_manager_start_routine).                                          *)
THEOREM ReclaimedHolds == Spec => []Reclaimed
<1>1. IInv => Reclaimed
  <2>1. SUFFICES ASSUME IInv, NEW t \in Thread
                 PROVE  /\ native[t] \in {"detached", "gone"} => ~\E p \in Tid : Joins(p, t)
                        /\ native[t] = "zombie" /\ ~createFailed =>
                              \E p \in Tid : /\ pc[p] \in {"os_thread_join", "joining"}
                                             /\ loc[p].h \in {t, NULL}
    BY DEF Reclaimed
  <2>2. Waits
    BY <2>1 DEF IInv
  <2>3. \A p \in Tid : Joins(p, t) => native[t] \notin {"detached", "gone"}
    BY <2>2 DEF Waits, Joins, AtJoin
  <2>4. native[t] = "zombie" /\ ~createFailed => Joiner(t)
    BY <2>2 DEF Waits
  <2> QED
    BY <2>3, <2>4 DEF Joiner, AtJoin
<1> QED
  BY <1>1, PthreadInvariant, PTL

(* pthread_join returns 0 only when the function of its thread has         *)
(* returned, unless pthread_detach has detached another thread than the    *)
(* one it was called for.                                                  *)
THEOREM JoinWaitsHolds == Spec => []JoinWaits
<1>1. IInv => JoinWaits
  BY DEF IInv, Ends
<1> QED
  BY <1>1, PthreadInvariant, PTL
=============================================================================
