----------------------------- MODULE LibPthread -----------------------------
(***************************************************************************)
(* The threads of an app: the pthread functions of core/iwasm/libraries/   *)
(* lib-pthread/lib_pthread_wrapper.c on top of ThreadManager.              *)
(*                                                                         *)
(* thread_info_map leads from the handle that the app was given to an info *)
(* node; handles are numbered as threads are created, and a handle stands  *)
(* for its thread here.  The node of a thread that has ended stays, with a *)
(* pointer to the environment that the thread had.                         *)
(*                                                                         *)
(* The app uses threads as POSIX allows: it joins or detaches a thread at  *)
(* most once and not both, a thread joins later ones only (no cycles), and *)
(* it cancels a thread that it has not yet joined or detached.  To bound   *)
(* the states, only the main thread cancels, and only it and the thread    *)
(* itself detach a thread.                                                 *)
(***************************************************************************)
EXTENDS ThreadManager

CONSTANT MaxCalls   \* how often the app joins, detaches or cancels a thread

ASSUME CallsAssumption == MaxCalls \in Nat

VARIABLES
    calls,          \* how often it has
    handle_id,      \* the next handle
    info,           \* the info node of each handle
    app,            \* what the app may still do with a handle
    ended,          \* threads whose app function has returned
    joined,         \* handle -> what pthread_join returned 0 with
    createFailed,   \* os_thread_create has failed once
    aliased         \* pthread_detach has detached another thread

pthreadVars == <<calls, handle_id, info, app, ended, joined, createFailed, aliased>>
vars == <<tmVars, pthreadVars>>

Thread == Tid \ {0}

NoInfo == [alive |-> FALSE, mapped |-> FALSE, exec_env |-> NULL,
           status |-> "THREAD_INIT", joinable |-> TRUE, ret |-> NULL]

Init ==
    /\ TMInit
    /\ calls = 0 /\ handle_id = 1
    /\ info = [h \in Thread |-> NoInfo]
    /\ app = [h \in Thread |-> "none"]
    /\ ended = {}
    /\ joined = [h \in Thread |-> "none"]
    /\ createFailed = FALSE
    /\ aliased = FALSE

(* delete_thread_info_node, or wasm_runtime_free of a node not yet mapped. *)
Deleted(h) == [info EXCEPT ![h].alive = FALSE, ![h].mapped = FALSE]

----------------------------------------------------------------------------
(* pthread_create_wrapper.  The node is made and wait_lock taken, and      *)
(* wasm_cluster_create_thread begins.                                      *)
PthreadCreate(p) ==
    /\ At(p, "run")
    /\ handle_id <= MaxThreads
    /\ handle_id' = handle_id + 1
    /\ info' = [info EXCEPT ![handle_id] = [NoInfo EXCEPT !.alive = TRUE]]
    /\ CreateExecEnv(p, handle_id)
    /\ UNCHANGED <<list_lock, destroyed, native, undefined>>
    /\ UNCHANGED <<calls, app, ended, joined, createFailed, aliased>>

(* No memory or no auxiliary stack is left: what was allocated is freed    *)
(* and the call returns -1.                                                *)
PthreadCreateRefused(p) ==
    /\ At(p, "run")
    /\ handle_id <= MaxThreads
    /\ handle_id' = handle_id + 1
    /\ UNCHANGED tmVars
    /\ UNCHANGED <<calls, info, app, ended, joined, createFailed, aliased>>

(* The end of a creation for which there was no native thread, once the    *)
(* other threads have been terminated: the environment, which is in no     *)
(* list any more, and the node are freed and the call returns -1.          *)
PthreadCreateFails(p) ==
    LET a == loc[p].new IN
    /\ At(p, "create_failed")
    /\ env' = [env EXCEPT ![a].alive = FALSE]
    /\ info' = Deleted(env[a].tid)
    /\ Goto(p, "run") /\ ToApp(p)
    /\ UNCHANGED <<list, next, occupied, list_lock, destroyed, native, undefined>>
    /\ UNCHANGED <<calls, handle_id, app, ended, joined, createFailed, aliased>>

(* Mutant: the parent is not signalled.                                    *)
StartRoutineSilent(t) ==
    LET p == loc[t].parent IN
    /\ At(t, "init") /\ pc[p] = "create_wait"
    /\ info' = [info EXCEPT ![t].mapped = TRUE, ![t].exec_env = loc[t].exec_env,
                            ![t].status = "THREAD_RUNNING"]
    /\ pc' = [pc EXCEPT ![t] = "run"]
    /\ app' = [app EXCEPT ![t] = "joinable"]
    /\ UNCHANGED <<list, next, occupied, env, list_lock, destroyed, native, loc,
                   undefined>>
    /\ UNCHANGED <<calls, handle_id, ended, joined, createFailed, aliased>>

(* The beginning of pthread_start_routine, under the wait_lock of the      *)
(* parent, which is free once the parent waits; the parent is woken and    *)
(* returns the handle.                                                     *)
StartRoutine(t) ==
    LET p == loc[t].parent IN
    /\ At(t, "init") /\ pc[p] = "create_wait"
    /\ info' = [info EXCEPT ![t].mapped = TRUE, ![t].exec_env = loc[t].exec_env,
                            ![t].status = "THREAD_RUNNING"]
    /\ pc' = [pc EXCEPT ![t] = "run", ![p] = "run"]
    /\ app' = [app EXCEPT ![t] = "joinable"]
    /\ UNCHANGED <<list, next, occupied, env, list_lock, destroyed, native, loc,
                   undefined>>
    /\ UNCHANGED <<calls, handle_id, ended, joined, createFailed, aliased>>

(* The node cannot be put into the map: the thread ends without having     *)
(* called the app, and the parent has been given its handle all the same.  *)
StartRoutineFails(t) ==
    LET p == loc[t].parent IN
    /\ At(t, "init") /\ pc[p] = "create_wait"
    /\ info' = Deleted(t)
    /\ pc' = [pc EXCEPT ![t] = "exit_detach", ![p] = "run"]
    /\ app' = [app EXCEPT ![t] = "joinable"]
    /\ ended' = ended \cup {t}
    /\ free_aux_stack(loc[t].exec_env)
    /\ UNCHANGED <<list, next, env, list_lock, destroyed, native, loc, undefined>>
    /\ UNCHANGED <<calls, handle_id, joined, createFailed, aliased>>

(* The app function returns or calls pthread_exit, which comes to the same *)
(* with a jump buffer on the stack, or the flag has made it stop.  Its     *)
(* result is kept for a later join; but the node of a thread that is not   *)
(* joinable is deleted.                                                    *)
AppReturns(t) ==
    /\ t # 0 /\ At(t, "run")
    /\ ended' = ended \cup {t}
    /\ IF info[t].joinable
       THEN /\ info' = [info EXCEPT ![t].ret = t]
            /\ Goto(t, "leave")
            /\ UNCHANGED occupied
       ELSE /\ info' = Deleted(t)
            /\ Goto(t, "exit_detach")
            /\ free_aux_stack(loc[t].exec_env)
    /\ UNCHANGED <<list, next, env, list_lock, destroyed, native, loc, undefined>>
    /\ UNCHANGED <<calls, handle_id, app, joined, createFailed, aliased>>

(* Update node status after ret value was set; thread_manager_start_routine*)
(* frees the auxiliary stack.                                              *)
Leave(t) ==
    /\ At(t, "leave")
    /\ info' = [info EXCEPT ![t].status = "THREAD_EXIT"]
    /\ free_aux_stack(loc[t].exec_env)
    /\ Goto(t, "exit_detach")
    /\ UNCHANGED <<list, next, env, list_lock, destroyed, native, loc, undefined>>
    /\ UNCHANGED <<calls, handle_id, app, ended, joined, createFailed, aliased>>

----------------------------------------------------------------------------
(* pthread_join_wrapper *)

(* pthread_join of h returns; value is what it stores for the app.         *)
JoinReturn(p, h, ret, value) ==
    /\ Goto(p, "run") /\ ToApp(p)
    /\ joined' = [joined EXCEPT ![h] =
                    IF ret # 0 THEN "failed"
                    ELSE IF value = h THEN "value" ELSE "other"]

PthreadJoin(p, h) ==
    /\ At(p, "run")
    /\ calls < MaxCalls /\ calls' = calls + 1
    /\ app[h] = "joinable" /\ h > p
    /\ app' = [app EXCEPT ![h] = "joined"]
    /\ IF info[h].mapped
       THEN /\ Goto(p, "join_status")
            /\ loc' = [loc EXCEPT ![p].info = h, ![p].e = info[h].exec_env]
            /\ UNCHANGED joined
       ELSE JoinReturn(p, h, 0, NULL)
    /\ UNCHANGED <<list, next, occupied, env, list_lock, destroyed, native, undefined>>
    /\ UNCHANGED <<handle_id, info, ended, createFailed, aliased>>

(* Mutant: whatever is not running is taken for exited.                    *)
JoinStatusNotRunning(p) ==
    LET h == loc[p].info IN
    /\ At(p, "join_status")
    /\ IF info[h].status # "THREAD_RUNNING"
       THEN JoinReturn(p, h, 0, info[h].ret)
       ELSE /\ Goto(p, "find")
            /\ loc' = [loc EXCEPT ![p].then = "join", ![p].back = "joined"]
            /\ UNCHANGED joined
    /\ UNCHANGED <<list, next, occupied, env, list_lock, destroyed, native, undefined>>
    /\ UNCHANGED <<calls, handle_id, info, app, ended, createFailed, aliased>>

(* A thread that has exited is not looked for in the cluster.              *)
JoinStatus(p) ==
    LET h == loc[p].info IN
    /\ At(p, "join_status")
    /\ IF info[h].status = "THREAD_EXIT"
       THEN JoinReturn(p, h, 0, info[h].ret)
       ELSE /\ Goto(p, "find")
            /\ loc' = [loc EXCEPT ![p].then = "join", ![p].back = "joined"]
            /\ UNCHANGED joined
    /\ UNCHANGED <<list, next, occupied, env, list_lock, destroyed, native, undefined>>
    /\ UNCHANGED <<calls, handle_id, info, app, ended, createFailed, aliased>>

PthreadJoined(p) ==
    /\ At(p, "joined")
    /\ JoinReturn(p, loc[p].info, loc[p].ret, loc[p].h)
    /\ UNCHANGED <<list, next, occupied, env, list_lock, destroyed, native, undefined>>
    /\ UNCHANGED <<calls, handle_id, info, app, ended, createFailed, aliased>>

(* The node has been freed since it was found: the thread was cancelled    *)
(* and has ended.                                                          *)
UseFreedInfo(p) ==
    /\ At(p, "join_status")
    /\ ~info[loc[p].info].alive
    /\ undefined' = TRUE
    /\ UNCHANGED <<list, next, occupied, env, list_lock, destroyed, native, pc, loc>>
    /\ UNCHANGED pthreadVars

----------------------------------------------------------------------------
(* pthread_detach_wrapper, pthread_cancel_wrapper *)

PthreadDetach(p, h) ==
    /\ At(p, "run")
    /\ calls < MaxCalls /\ calls' = calls + 1
    /\ app[h] = "joinable" /\ p \in {0, h}
    /\ app' = [app EXCEPT ![h] = "detached"]
    /\ IF info[h].mapped
       THEN /\ info' = [info EXCEPT ![h].joinable = FALSE]
            /\ Goto(p, "find")
            /\ loc' = [loc EXCEPT ![p].e = info[h].exec_env, ![p].then = "detach",
                                  ![p].back = "run", ![p].info = h]
       ELSE UNCHANGED <<info, pc, loc>>
    /\ UNCHANGED <<list, next, occupied, env, list_lock, destroyed, native, undefined>>
    /\ UNCHANGED <<handle_id, ended, joined, createFailed, aliased>>

PthreadCancel(p, h) ==
    /\ At(p, "run")
    /\ calls < MaxCalls /\ calls' = calls + 1
    /\ app[h] = "joinable" /\ p = 0
    /\ info[h].mapped /\ info[h].status # "THREAD_CANCELLED"
    /\ info' = [info EXCEPT ![h].status = "THREAD_CANCELLED", ![h].joinable = FALSE]
    /\ Goto(p, "find")
    /\ loc' = [loc EXCEPT ![p].e = info[h].exec_env, ![p].then = "cancel",
                          ![p].back = "run"]
    /\ UNCHANGED <<list, next, occupied, env, list_lock, destroyed, native, undefined>>
    /\ UNCHANGED <<handle_id, app, ended, joined, createFailed, aliased>>

----------------------------------------------------------------------------
(* The main function of the app returns: wasm_application_execute_main     *)
(* waits for all the other threads.                                        *)
MainReturns ==
    /\ At(0, "run")
    /\ Traverse(0, MainEnv, FALSE, "destroy")
    /\ UNCHANGED <<list, next, occupied, env, list_lock, destroyed, native, undefined>>
    /\ UNCHANGED pthreadVars

(* The host destroys the main environment: wasm_exec_env_destroy.          *)
DestroyExecEnv ==
    /\ At(0, "destroy")
    /\ Traverse(0, MainEnv, TRUE, "exit_del")
    /\ UNCHANGED <<list, next, occupied, env, list_lock, destroyed, native, undefined>>
    /\ UNCHANGED pthreadVars

(* A step of the thread manager.  When the cluster is destroyed, its info  *)
(* goes, with every node in the map (lib_pthread_destroy_callback).  The   *)
(* environment that pthread_detach took from a node may have been freed    *)
(* and made again, for another thread, before it is detached.              *)
Cluster(p) ==
    /\ ClusterStep(p)
    /\ info' = IF destroyed' /\ ~destroyed
               THEN [h \in Thread |-> [info[h] EXCEPT !.alive = @ /\ ~info[h].mapped,
                                                      !.mapped = FALSE]]
               ELSE info
    /\ createFailed' = (createFailed \/ pc'[p] = "create_fail2")
    /\ aliased' = 
            (aliased \/ (At(p, "detach") /\ env[loc[p].e].tid # loc[p].info))
    /\ UNCHANGED <<calls, handle_id, app, ended, joined>>

Step(p) ==
    \/ PthreadCreateFails(p) \/ StartRoutine(p) \/ StartRoutineFails(p)
    \/ AppReturns(p) \/ Leave(p)
    \/ JoinStatus(p) \/ PthreadJoined(p) \/ UseFreedInfo(p)
    \/ Cluster(p)

Call(p) ==
    \/ PthreadCreate(p) \/ PthreadCreateRefused(p)
    \/ \E h \in Thread : PthreadJoin(p, h) \/ PthreadDetach(p, h) \/ PthreadCancel(p, h)

Next ==
    \/ \E p \in Tid : Call(p) \/ Step(p)
    \/ MainReturns \/ DestroyExecEnv

(* Threads are scheduled, and the functions of the app return.             *)
Fairness ==
    /\ \A p \in Tid : WF_vars(Step(p))
    /\ WF_vars(MainReturns) /\ WF_vars(DestroyExecEnv)

Spec == Init /\ [][Next]_vars /\ Fairness

----------------------------------------------------------------------------
(* An environment has a segment from the moment it is given one until its  *)
(* thread, or the creation that failed, gives it back.                     *)
HasSegment(a) ==
    LET t == env[a].tid IN
    /\ env[a].alive /\ env[a].aux # NULL
    /\ IF native[t] = "none"
       THEN \E p \in Tid :
               /\ loc[p].new = a
               /\ pc[p] \in {"create_thread", "create_fail2"}
       ELSE pc[t] \notin {"exit_detach", "exit_del", "exit_test"}

(* No two threads share an auxiliary stack and none is lost: the segments  *)
(* marked by allocate_aux_stack are those of environments that have one.   *)
(* Segments are given back by the end of a thread and by a failed creation *)
(* while others are created.                                               *)
AuxExact ==
    LET users == {a \in Addr : HasSegment(a)} IN
    /\ occupied = {env[a].aux : a \in users}
    /\ \A a, b \in users : a # b => env[a].aux # env[b].aux

(* A native thread is either joined or detached, so that the system        *)
(* resources for it are released once (the counting of joins in            *)
(* wasm_cluster_join_thread and wasm_cluster_detach_thread): nobody waits  *)
(* for a detached thread, and one that has ended without being detached    *)
(* has a joiner.  The joiner may have read the handle before Start set it, *)
(* and is undefined then; a creation that fails may join its own thread:   *)
(* see CreateFail2.                                                        *)
Reclaimed ==
    \A t \in Thread :
        /\ native[t] \in {"detached", "gone"} => ~\E p \in Tid : Joins(p, t)
        /\ native[t] = "zombie" /\ ~createFailed =>
              \E p \in Tid : /\ pc[p] \in {"os_thread_join", "joining"}
                             /\ loc[p].h \in {t, NULL}

(* pthread_join returns 0 only after the function of the thread has        *)
(* returned, unless pthread_detach has detached a thread it was not called *)
(* for: a thread that is detached is not waited for.                       *)
JoinWaits ==
    \A h \in Thread : joined[h] \in {"value", "other"} /\ ~aliased => h \in ended

(* The host gets through the end of the main thread, and all threads end.  *)
Settles ==
    <>(undefined \/ createFailed \/ \A t \in Tid : pc[t] \in {"none", "over"})
=============================================================================
