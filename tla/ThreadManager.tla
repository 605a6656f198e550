---------------------------- MODULE ThreadManager ----------------------------
(***************************************************************************)
(* One cluster of threads (core/iwasm/libraries/thread-mgr/                *)
(* thread_manager.c): the list of its execution environments, its auxiliary*)
(* stacks, and the calls that create, join, detach, cancel and wait for    *)
(* threads.  LibPthread calls them for the app.                            *)
(*                                                                         *)
(* Join, detach and cancel look an environment up under cluster_list_lock, *)
(* but environments are inserted and removed under the lock of the cluster.*)
(* One action is what a thread does between two points where another       *)
(* thread can come in: a critical section, or one unprotected access.      *)
(* A freed environment keeps its contents until its address is used again; *)
(* a step that uses it goes on with them, or undefined becomes TRUE and    *)
(* nothing more is said.                                                   *)
(***************************************************************************)
EXTENDS Naturals, FiniteSets, Sequences, SequencesExt

CONSTANTS
    MaxThreads,     \* how many threads are created
    MaxEnv,         \* how many environments there is room for, but one
    MaxAux,         \* cluster_max_thread_num
    NULL

(* Native threads, 0 being the main one.                                   *)
Tid == 0 .. MaxThreads
Seg == 1 .. MaxAux

(* The addresses of execution environments, and the main thread's.         *)
Addr == 0 .. MaxEnv
MainEnv == 0

ASSUME ThreadAssumption ==
    /\ MaxThreads \in Nat /\ MaxAux \in Nat /\ MaxEnv \in Nat
    /\ NULL \notin Nat

VARIABLES
    list,           \* cluster->exec_env_list, the latest first
    next,           \* the link of each environment, in the list or not
    occupied,       \* stack_segment_occupied
    env,            \* the execution environments
    list_lock,      \* who holds cluster_list_lock
    destroyed,      \* the cluster has been destroyed
    native,         \* the state of each native thread
    pc, loc,        \* where each thread is, and its local variables
    undefined       \* freed memory has been used

tmVars == <<list, next, occupied, env, list_lock, destroyed, native, pc, loc,
            undefined>>

(* tid and aux are what the address stands for now: the thread it was      *)
(* created for and the segment it was given (aux_stack_bottom).            *)
FreshEnv(t) ==
    [alive |-> TRUE, tid |-> t, handle |-> NULL, wait_count |-> 0,
     detached |-> FALSE, terminate |-> FALSE, aux |-> NULL]

NoLocals ==
    [exec_env |-> NULL, parent |-> NULL, new |-> NULL,
     e |-> NULL, h |-> NULL, then |-> "none", back |-> "none", ret |-> 0,
     info |-> NULL,
     node |-> NULL, nextNode |-> NULL, self |-> NULL, cancel |-> FALSE,
     done |-> "none"]

Locals(a) == [NoLocals EXCEPT !.exec_env = a]

(* wasm_exec_env_create of the main environment and wasm_cluster_create.   *)
TMInit ==
    /\ list = <<MainEnv>>
    /\ next = [a \in Addr |-> NULL]
    /\ occupied = {}
    /\ env = [a \in Addr |->
                IF a = MainEnv THEN [FreshEnv(0) EXCEPT !.handle = 0]
                ELSE [FreshEnv(NULL) EXCEPT !.alive = FALSE]]
    /\ list_lock = NULL
    /\ destroyed = FALSE
    /\ native = [t \in Tid |-> IF t = 0 THEN "running" ELSE "none"]
    /\ pc = [t \in Tid |-> IF t = 0 THEN "run" ELSE "none"]
    /\ loc = [t \in Tid |->
                IF t = 0 THEN Locals(MainEnv) ELSE NoLocals]
    /\ undefined = FALSE

At(p, label) == pc[p] = label /\ ~undefined
Goto(p, label) == pc' = [pc EXCEPT ![p] = label]

(* A thread goes back to the app; nothing of a call is left.               *)
ToApp(p) == loc' = [loc EXCEPT ![p] = Locals(loc[p].exec_env)]

(* A cluster call returns ret: to the app, to a traversal, which joins a   *)
(* thread it has cancelled and goes on to the node it kept, or to          *)
(* pthread_join.                                                           *)
Return(p, ret) ==
    \/ /\ loc[p].back = "run"
       /\ Goto(p, "run") /\ ToApp(p)
    \/ /\ loc[p].back = "traverse" /\ loc[p].then = "cancel"
       /\ Goto(p, "find")
       /\ loc' = [loc EXCEPT ![p].then = "join"]
    \/ /\ loc[p].back = "traverse" /\ loc[p].then = "join"
       /\ Goto(p, "traverse")
       /\ loc' = [loc EXCEPT ![p].node = loc[p].nextNode, ![p].nextNode = NULL,
                             ![p].e = NULL, ![p].h = NULL]
    \/ /\ loc[p].back = "joined"
       /\ Goto(p, "joined")
       /\ loc' = [loc EXCEPT ![p].ret = ret]

(* bh_list_insert and bh_list_remove.                                      *)
bh_list_insert(a) ==
    /\ next' = [next EXCEPT ![a] = IF list = <<>> THEN NULL ELSE Head(list)]
    /\ list' = <<a>> \o list
bh_list_remove(a) ==
    /\ list' = RemoveFirst(list, a)
    /\ next' = [b \in Addr |->
                  IF b \in ToSet(list) /\ a \in ToSet(list) /\ next[b] = a
                  THEN next[a] ELSE next[b]]

clusters_have_exec_env(a) == a \in ToSet(list)

----------------------------------------------------------------------------
(* Auxiliary stacks.  The search of free_aux_stack needs no lock: the tops *)
(* never change.                                                           *)

allocate_aux_stack(s) ==
    /\ s \in Seg \ occupied /\ \A r \in Seg \ occupied : s <= r
    /\ occupied' = occupied \cup {s}

free_aux_stack(a) == occupied' = occupied \ {env[a].aux}

----------------------------------------------------------------------------
(* Joining, detaching and cancelling.  loc.then says which of the three    *)
(* goes on once the environment has been found.                            *)

(* Under cluster_list_lock: an environment that is in no list belongs to   *)
(* no thread any more, and the call returns 0.  A cancellation gives the   *)
(* lock back at once.                                                      *)
Find(p) ==
    /\ At(p, "find")
    /\ list_lock = NULL
    /\ IF clusters_have_exec_env(loc[p].e)
       THEN /\ Goto(p, loc[p].then)
            /\ list_lock' = IF loc[p].then = "cancel" THEN NULL ELSE p
            /\ UNCHANGED loc
       ELSE Return(p, 0) /\ UNCHANGED list_lock
    /\ UNCHANGED <<list, next, occupied, env, destroyed, native, undefined>>

(* Mutant: the join is not counted.                                        *)
JoinMarkUncounted(p) ==
    LET e == loc[p].e IN
    /\ At(p, "join")
    /\ list_lock' = NULL
    /\ UNCHANGED env
    /\ IF env[e].detached
       THEN Return(p, 0)
       ELSE /\ loc' = [loc EXCEPT ![p].h = env[e].handle]
            /\ Goto(p, "os_thread_join")
    /\ UNCHANGED <<list, next, occupied, destroyed, native, undefined>>

(* The rest of the critical section of wasm_cluster_join_thread.           *)
JoinMark(p) ==
    LET e == loc[p].e IN
    /\ At(p, "join")
    /\ list_lock' = NULL
    /\ IF env[e].detached
       THEN Return(p, 0) /\ UNCHANGED env
       ELSE /\ env' = [env EXCEPT ![e].wait_count = @ + 1]
            /\ loc' = [loc EXCEPT ![p].h = env[e].handle]
            /\ Goto(p, "os_thread_join")
    /\ UNCHANGED <<list, next, occupied, destroyed, native, undefined>>

Joins(p, t) == pc[p] = "joining" /\ loc[p].h = t

(* pthread_join, as glibc does it: a thread cannot join itself or one that *)
(* joins it, and only one thread can join another.  There is nothing to    *)
(* join behind a handle that is not set or a thread that was joined.       *)
OsThreadJoin(p) ==
    LET t == loc[p].h
        fails == t = p \/ Joins(t, p) \/ \E q \in Tid : Joins(q, t)
    IN  /\ At(p, "os_thread_join")
        /\ IF t = NULL \/ native[t] = "gone"
           THEN undefined' = TRUE /\ UNCHANGED <<pc, loc>>
           ELSE /\ UNCHANGED undefined
                /\ IF fails THEN Return(p, 1)
                   ELSE Goto(p, "joining") /\ UNCHANGED loc
        /\ UNCHANGED <<list, next, occupied, env, list_lock, destroyed, native>>

Joined(p) ==
    /\ At(p, "joining")
    /\ native[loc[p].h] = "zombie"
    /\ native' = [native EXCEPT ![loc[p].h] = "gone"]
    /\ Return(p, 0)
    /\ UNCHANGED <<list, next, occupied, env, list_lock, destroyed, undefined>>

(* The rest of wasm_cluster_detach_thread.  A thread that is being joined  *)
(* is left to its joiner.                                                  *)
Detachable(e) == env[e].wait_count = 0 /\ ~env[e].detached
Detach(e) ==
    IF Detachable(e)
    THEN /\ env' = [env EXCEPT ![e].detached = TRUE]
         /\ native' = [native EXCEPT ![env[e].handle] =
                         IF @ = "running" THEN "detached" ELSE @]
    ELSE UNCHANGED <<env, native>>

(* There is nothing to detach behind a handle that is not set.             *)
DetachMark(p) ==
    LET e == loc[p].e IN
    /\ At(p, "detach")
    /\ IF Detachable(e) /\ env[e].handle = NULL
       THEN undefined' = TRUE /\ UNCHANGED <<env, list_lock, native, pc, loc>>
       ELSE /\ list_lock' = NULL
            /\ Detach(e)
            /\ Return(p, 0)
            /\ UNCHANGED undefined
    /\ UNCHANGED <<list, next, occupied, destroyed>>

(* The rest of wasm_cluster_cancel_thread, without the lock.               *)
CancelMark(p) ==
    /\ At(p, "cancel")
    /\ env' = [env EXCEPT ![loc[p].e].terminate = TRUE]
    /\ Return(p, 0)
    /\ UNCHANGED <<list, next, occupied, list_lock, destroyed, native, undefined>>

(* The environment found has been freed since.                             *)
UseFreedEnv(p) ==
    /\ At(p, "join") \/ At(p, "detach") \/ At(p, "cancel")
    /\ ~env[loc[p].e].alive
    /\ undefined' = TRUE
    /\ UNCHANGED <<list, next, occupied, env, list_lock, destroyed, native, pc, loc>>

----------------------------------------------------------------------------
(* wasm_cluster_wait_for_all_except_self, terminate_all_except_self: a     *)
(* traversal without a lock, which keeps the next node while it visits one.*)

Traverse(p, self, cancel, label) ==
    /\ Goto(p, "traverse")
    /\ loc' = [loc EXCEPT ![p].node = IF list = <<>> THEN NULL ELSE Head(list),
                          ![p].self = self, ![p].cancel = cancel,
                          ![p].done = label]

(* terminate_thread_visitor cancels and joins, wait_for_thread_visitor     *)
(* joins.                                                                  *)
TraverseNext(p) ==
    LET n == loc[p].node
    IN  /\ At(p, "traverse")
        /\ IF n = NULL THEN Goto(p, loc[p].done) /\ UNCHANGED loc
           ELSE IF n = loc[p].self
           THEN /\ loc' = [loc EXCEPT ![p].node = next[n]]
                /\ UNCHANGED pc
           ELSE /\ Goto(p, "find")
                /\ loc' = [loc EXCEPT ![p].nextNode = next[n], ![p].e = n,
                              ![p].then = IF loc[p].cancel THEN "cancel" ELSE "join",
                              ![p].back = "traverse"]
        /\ UNCHANGED <<list, next, occupied, env, list_lock, destroyed, native,
                       undefined>>

(* The node kept has been freed since; its link is read.                   *)
UseFreedNode(p) ==
    /\ At(p, "traverse")
    /\ loc[p].node # NULL /\ ~env[loc[p].node].alive
    /\ undefined' = TRUE
    /\ UNCHANGED <<list, next, occupied, env, list_lock, destroyed, native, pc, loc>>

----------------------------------------------------------------------------
(* wasm_cluster_create_thread *)

(* wasm_exec_env_create_internal, at an address that is free, perhaps for  *)
(* the second time, allocate_aux_stack and wasm_cluster_add_exec_env, for  *)
(* thread t.                                                               *)
Places == {a \in Addr : /\ ~env[a].alive
                        /\ \A b \in Addr : b < a => env[b].tid # NULL}

CreateExecEnv(p, t) ==
    \E a \in Places, s \in Seg :
        /\ allocate_aux_stack(s)
        /\ env' = [env EXCEPT ![a] = [FreshEnv(t) EXCEPT !.aux = s]]
        /\ bh_list_insert(a)
        /\ loc' = [loc EXCEPT ![p].new = a]
        /\ Goto(p, "create_thread")

(* os_thread_create succeeds, and the creator, which has nothing of this   *)
(* call left, goes on to wait.                                             *)
CreateThread(p) ==
    LET t == env[loc[p].new].tid IN
    /\ At(p, "create_thread")
    /\ native' = [native EXCEPT ![t] = "running"]
    /\ pc' = [pc EXCEPT ![p] = "create_wait", ![t] = "start"]
    /\ loc' = [loc EXCEPT ![p] = Locals(loc[p].exec_env),
                          ![t] = [Locals(loc[p].new) EXCEPT !.parent = p]]
    /\ UNCHANGED <<list, next, occupied, env, list_lock, destroyed, undefined>>

(* os_thread_create fails: fail3, the environment leaves the list.  (The   *)
(* list holds the creator: it is not empty.)                               *)
CreateFails(p) ==
    /\ At(p, "create_thread")
    /\ bh_list_remove(loc[p].new)
    /\ Goto(p, "create_fail2")
    /\ UNCHANGED <<occupied, env, list_lock, destroyed, native, loc, undefined>>

(* Mutant: the auxiliary stack is not given back.                          *)
CreateFail2Leaks(p) ==
    /\ At(p, "create_fail2")
    /\ Traverse(p, loc[p].new, TRUE, "create_failed")
    /\ UNCHANGED <<list, next, occupied, env, list_lock, destroyed, native, undefined>>

(* fail2, and fail1: wasm_exec_env_destroy of an environment that has a    *)
(* cluster begins by terminating all the other threads of the cluster.     *)
CreateFail2(p) ==
    /\ At(p, "create_fail2")
    /\ free_aux_stack(loc[p].new)
    /\ Traverse(p, loc[p].new, TRUE, "create_failed")
    /\ UNCHANGED <<list, next, env, list_lock, destroyed, native, undefined>>

----------------------------------------------------------------------------
(* The end of a thread: thread_manager_start_routine after the routine has *)
(* returned, and for the main thread wasm_exec_env_destroy.                *)

(* exec_env->handle = os_self_thread() *)
Start(t) ==
    /\ At(t, "start")
    /\ env' = [env EXCEPT ![loc[t].exec_env].handle = t]
    /\ Goto(t, "init")
    /\ UNCHANGED <<list, next, occupied, list_lock, destroyed, native, loc, undefined>>

(* wasm_cluster_detach_thread of its own environment, which is in the list.*)
ExitDetach(t) ==
    /\ At(t, "exit_detach")
    /\ list_lock = NULL
    /\ Detach(loc[t].exec_env)
    /\ Goto(t, "exit_del")
    /\ UNCHANGED <<list, next, occupied, list_lock, destroyed, loc, undefined>>

(* wasm_cluster_del_exec_env: the list is changed under the lock of the    *)
(* cluster and its length looked at after it.                              *)
ExitDel(t) ==
    /\ At(t, "exit_del")
    /\ bh_list_remove(loc[t].exec_env)
    /\ Goto(t, "exit_test")
    /\ UNCHANGED <<occupied, env, list_lock, destroyed, native, loc, undefined>>

(* wasm_exec_env_destroy_internal, then os_thread_exit.                    *)
ExecEnvDestroy(t) ==
    /\ env' = [env EXCEPT ![loc[t].exec_env].alive = FALSE]
    /\ native' = [native EXCEPT ![t] = IF t = 0 THEN @
                                       ELSE IF @ = "detached" THEN "gone" ELSE "zombie"]
    /\ Goto(t, "over")

ExitKeep(t) ==
    /\ At(t, "exit_test")
    /\ ~destroyed /\ list # <<>>
    /\ ExecEnvDestroy(t)
    /\ UNCHANGED <<list, next, occupied, list_lock, destroyed, loc, undefined>>

(* The last one destroys the cluster, under cluster_list_lock.             *)
ExitDestroy(t) ==
    /\ At(t, "exit_test")
    /\ ~destroyed /\ list = <<>>
    /\ list_lock = NULL
    /\ destroyed' = TRUE
    /\ ExecEnvDestroy(t)
    /\ UNCHANGED <<list, next, occupied, list_lock, loc, undefined>>

(* Another thread has destroyed it: the length is read in freed memory.    *)
ExitDestroyed(t) ==
    /\ At(t, "exit_test")
    /\ destroyed
    /\ undefined' = TRUE
    /\ UNCHANGED <<list, next, occupied, env, list_lock, destroyed, native, pc, loc>>

ClusterStep(p) ==
    \/ Find(p) \/ JoinMark(p) \/ OsThreadJoin(p) \/ Joined(p) \/ DetachMark(p)
    \/ CancelMark(p) \/ UseFreedEnv(p)
    \/ TraverseNext(p) \/ UseFreedNode(p)
    \/ CreateThread(p) \/ CreateFails(p)
    \/ CreateFail2(p)
    \/ Start(p) \/ ExitDetach(p) \/ ExitDel(p)
    \/ ExitKeep(p) \/ ExitDestroy(p) \/ ExitDestroyed(p)
=============================================================================
