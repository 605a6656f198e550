------------------------------ MODULE UdfHost ------------------------------
(***************************************************************************)
(* The benchmark driver src/main.c and the user-defined functions of       *)
(* wasm-app/testapp.c that it calls.  main acquires the runtime, the file, *)
(* the module, the instance and an execution environment, allocates four   *)
(* buffers of BUFF_MAX_LEN bytes in the app heap, tells the app where its  *)
(* results go, runs one test case cnt times, and releases what it holds.   *)
(*                                                                         *)
(* A test case comes in two forms: the first sends a protobuf message and  *)
(* unpacks the one the app packs into pResult, the second (_exec) passes   *)
(* raw arguments.  A message is abstracted to its type and the iteration   *)
(* it belongs to.  main also takes a stream and memory from the host; it   *)
(* never tests this memory and gives none of it back: kept and nulls.      *)
(***************************************************************************)
EXTENDS Integers, FiniteSets

CONSTANTS
    Ids,        \* values of the first argument, beyond the test cases too
    MaxCnt,     \* the second argument is at most this
    Rooms,      \* how many blocks of BUFF_MAX_LEN bytes the app heap holds
    GuestRoom   \* how many unpacked messages the heap of the app holds

ASSUME HostAssumption ==
    Ids \subseteq Int /\ MaxCnt \in Nat /\ Rooms \subseteq Nat /\ GuestRoom \in Nat

(* The enumeration of the test cases: two forms for each type of message.  *)
Valid == 0 .. 9
FIB_EXEC == 3
BUILD_USER_ID == 4
BUILD_USER_ID_EXEC == 5
SPLITER == 6
SPLITER_EXEC == 7
POINT_POLYGEN_DISTANCE_EXEC == 9
Splits == {SPLITER, SPLITER_EXEC}
IsExec(test) == test % 2 = 1
MessageOf(test) ==
    CASE test \div 2 = 0 -> "Person"
      [] test \div 2 = 1 -> "Fib"
      [] test \div 2 = 2 -> "UserId"
      [] test \div 2 = 3 -> "Spliter"
      [] OTHER           -> "PointPolygenDistance"

GARBAGE == <<"garbage", 0>>

VARIABLES
    pc,         \* the next step of main
    id, cnt,    \* the arguments
    held,       \* what the fail: part of main has to release
    room,       \* blocks left in the app heap
    ptr,        \* the pointers to app memory that are not NULL
    out,        \* where the app packs its results
    kept,       \* what main has from the host and no part of it gives back
    nulls,      \* the pointers to host memory that malloc has left NULL
    i,          \* iterations that are over, of the loop main is in
    result,     \* the contents of the block at pResult
    unpacked,   \* messages that the app has unpacked; it frees none
    ended       \* how main has ended

vars == <<pc, id, cnt, held, room, ptr, out, kept, nulls, i, result, unpacked, ended>>
appVars == <<ptr, out, result, unpacked>>
hostVars == <<kept, nulls>>
argVars == <<id, cnt>>

Init ==
    /\ pc = "start"
    /\ id \in Ids /\ cnt \in 0 .. MaxCnt
    /\ held = {}
    /\ room \in Rooms
    /\ ptr = {} /\ out = "unset"
    /\ kept = {} /\ nulls = {}
    /\ i = 0
    /\ result = GARBAGE
    /\ unpacked = 0
    /\ ended = "no"

(* main leaves in the middle: by return, by exit, or by undefined          *)
(* behaviour, which may also be a crash.                                   *)
End(how) == pc' = "end" /\ ended' = how

----------------------------------------------------------------------------
(* Setting up.                                                             *)

print_usage ==
    /\ pc = "start"
    /\ End("return")
    /\ UNCHANGED <<argVars, hostVars, held, room, appVars, i>>

wasm_runtime_full_init ==
    /\ pc = "start"
    /\ \/ pc' = "read" /\ held' = {"runtime"} /\ UNCHANGED ended
       \/ End("return") /\ UNCHANGED held
    /\ UNCHANGED <<argVars, hostVars, room, appVars, i>>

(* A call that returns a handle, or NULL and main goes to fail.            *)
Acquire(from, handle, to) ==
    /\ pc = from
    /\ \/ pc' = to /\ held' = held \cup {handle}
       \/ pc' = "fail" /\ UNCHANGED held
    /\ UNCHANGED <<argVars, hostVars, room, appVars, i, ended>>

bh_read_file_to_buffer == Acquire("read", "buffer", "load")
wasm_runtime_load == Acquire("load", "module", "instantiate")
wasm_runtime_instantiate == Acquire("instantiate", "module_inst", "create")
wasm_runtime_create_exec_env == Acquire("create", "exec_env", "lookup init")

lookup_init_ringbuffer ==
    /\ pc = "lookup init"
    /\ pc' \in {"arguments", "fail"}
    /\ UNCHANGED <<argVars, hostVars, held, room, appVars, i, ended>>

(* malloc for the k-th block of a kind, NULL if it fails.                  *)
host_malloc(kind, k) ==
    \/ kept' = kept \cup {<<kind, k>>} /\ UNCHANGED nulls
    \/ nulls' = nulls \cup {kind} /\ UNCHANGED kept

(* The two split tests read strings from a file: the table of the strings, *)
malloc_split_str ==
    /\ pc = "arguments"
    /\ IF id \in Splits THEN pc' = "open" /\ host_malloc("split_str", 0)
                       ELSE pc' = "lookup" /\ UNCHANGED hostVars
    /\ UNCHANGED <<argVars, held, room, appVars, i, ended>>

(* the stream, which is never closed,                                      *)
open_split_file ==
    /\ pc = "open"
    /\ \/ pc' = "lines" /\ kept' = kept \cup {<<"stream", 0>>} /\ UNCHANGED ended
       \/ End("exit") /\ UNCHANGED kept
    /\ UNCHANGED <<argVars, held, room, appVars, nulls, i>>

(* and one string after the other until the file ends: neither the table   *)
(* nor the string is tested before it is written.                          *)
read_split_str ==
    /\ pc = "lines" /\ i < cnt
    /\ host_malloc("line", i)
    /\ \/ nulls' = {} /\ pc' = "lines" /\ i' = i + 1 /\ UNCHANGED ended
       \/ "split_str" \notin nulls /\ pc' = "lookup" /\ i' = 0 /\ UNCHANGED ended
       \/ nulls' # {} /\ End("crash") /\ UNCHANGED i
    /\ UNCHANGED <<argVars, held, room, appVars>>

split_str_read ==
    /\ pc = "lines" /\ i >= cnt
    /\ pc' = "lookup" /\ i' = 0
    /\ UNCHANGED <<argVars, hostVars, held, room, appVars, ended>>

(* FuncName[id] is read for any id.                                        *)
lookup_benchMarkFunc ==
    /\ pc = "lookup"
    /\ \/ pc' \in {"ring", "fail"} /\ UNCHANGED ended
       \/ id \notin Valid /\ End("crash")
    /\ UNCHANGED <<argVars, hostVars, held, room, appVars, i>>

(* wasm_runtime_module_malloc of BUFF_MAX_LEN bytes, ptr the pointers      *)
(* before it: a failed call leaves the pointer NULL.                       *)
module_malloc(p) ==
    IF room > 0 THEN ptr' = ptr \cup {p} /\ room' = room - 1
                ELSE UNCHANGED <<ptr, room>>

(* InitRingBuff clears bytes at pHead without testing it.                  *)
InitRingBuff ==
    /\ pc = "ring"
    /\ module_malloc("pHead")
    /\ IF "pHead" \in ptr' THEN pc' = "result" /\ UNCHANGED ended
                           ELSE End("crash")
    /\ UNCHANGED <<argVars, hostVars, held, out, i, result, unpacked>>

malloc_pResult ==
    /\ pc = "result"
    /\ module_malloc("pResult")
    /\ pc' = "attach"
    /\ UNCHANGED <<argVars, hostVars, held, out, i, result, unpacked, ended>>

(* init_ringbuffer in the app.  Nobody looks whether the call succeeded.   *)
call_init_ringbuffer ==
    /\ pc = "attach"
    /\ out' \in {"unset", IF "pResult" \in ptr THEN "pResult" ELSE "null"}
    /\ pc' = "buffer"
    /\ UNCHANGED <<argVars, hostVars, held, room, ptr, i, result, unpacked, ended>>

malloc_native_buffer ==
    /\ pc = "buffer"
    /\ module_malloc("native_buffer")
    /\ pc' = "buffer 2"
    /\ UNCHANGED <<argVars, hostVars, held, out, i, result, unpacked, ended>>

(* Mutant: wasm_buffer is not tested.                                      *)
malloc_native_buffer_2Blind ==
    /\ pc = "buffer 2"
    /\ module_malloc("native_buffer_2")
    /\ pc' = "test"
    /\ UNCHANGED <<argVars, hostVars, held, out, i, result, unpacked, ended>>

(* The second buffer, and the test of wasm_buffer, the first one.          *)
malloc_native_buffer_2 ==
    /\ pc = "buffer 2"
    /\ module_malloc("native_buffer_2")
    /\ IF "native_buffer" \in ptr THEN pc' = "test" /\ UNCHANGED ended
                                  ELSE End("return")
    /\ UNCHANGED <<argVars, hostVars, held, out, i, result, unpacked>>

----------------------------------------------------------------------------
(* The test cases.                                                         *)

test_main ==
    /\ pc = "test"
    /\ IF id \in Valid THEN pc' = "pack" /\ UNCHANGED ended ELSE End("exit")
    /\ UNCHANGED <<argVars, hostVars, held, room, appVars, i>>

(* The buffers that the arguments of a test are written to.                *)
ArgumentBuffers ==
    IF id = FIB_EXEC THEN {}
    ELSE IF id \in {BUILD_USER_ID_EXEC, POINT_POLYGEN_DISTANCE_EXEC}
    THEN {"native_buffer", "native_buffer_2"}
    ELSE {"native_buffer"}

(* The head of the loop and the arguments of the call.  test_spliter takes *)
(* an array for them, one more in each iteration.                          *)
pack_arguments ==
    /\ pc = "pack" /\ i < cnt
    /\ IF id = SPLITER THEN host_malloc("data", i) ELSE UNCHANGED hostVars
    /\ IF ArgumentBuffers \subseteq ptr /\ "data" \notin nulls'
       THEN pc' = "call" /\ UNCHANGED ended
       ELSE End("crash")
    /\ UNCHANGED <<argVars, held, room, ptr, out, i, result, unpacked>>

(* The call fails, for whatever reason, and the test gives up.             *)
call_fails ==
    /\ pc = "call"
    /\ End("exit")
    /\ UNCHANGED <<argVars, hostVars, held, room, appVars, i>>

(* A function of the app that takes raw arguments.                         *)
call_exec ==
    /\ pc = "call" /\ IsExec(id)
    /\ pc' = "pack" /\ i' = i + 1
    /\ UNCHANGED <<argVars, hostVars, held, room, appVars, ended>>

(* What pResult holds after the app has unpacked its argument and packed   *)
(* its answer.  Without memory for the argument it works on address 0, and *)
(* _spliter answers with the address of a local array.                     *)
ResultOfCall ==
    IF out # "pResult" THEN {result}
    ELSE IF unpacked >= GuestRoom \/ id = SPLITER THEN {GARBAGE, <<MessageOf(id), i>>}
    ELSE {<<MessageOf(id), i>>}

(* A function of the app that takes and answers a message.  build_user_id  *)
(* calls fib__pack, whose assertion is compiled in there: it always traps. *)
call_with_message ==
    /\ pc = "call" /\ ~IsExec(id)
    /\ unpacked' = unpacked + 1
    /\ IF id = BUILD_USER_ID
       THEN End("exit") /\ UNCHANGED result
       ELSE /\ result' \in ResultOfCall
            /\ pc' = "unpack" /\ UNCHANGED ended
    /\ UNCHANGED <<argVars, hostVars, held, room, ptr, out, i>>

(* The unpacked message, which nobody frees, is NULL if there is no memory *)
(* for it, and may be if pResult holds anything but a message of the type; *)
(* all tests but the first look into it.  Without pResult, unpacking reads *)
(* at NULL, unless the app has answered with a length of 0.                *)
unpack_result ==
    /\ pc = "unpack"
    /\ \/ /\ kept' = kept \cup {<<"message", i>>}
          /\ pc' = "pack" /\ i' = i + 1 /\ UNCHANGED <<nulls, ended>>
       \/ /\ \/ nulls' = nulls \cup {"message"}
             \/ result[1] # MessageOf(id) /\ UNCHANGED nulls
          /\ IF MessageOf(id) = "Person"
             THEN pc' = "pack" /\ i' = i + 1 /\ UNCHANGED ended
             ELSE End("crash") /\ UNCHANGED i
          /\ UNCHANGED kept
       \/ "pResult" \notin ptr /\ End("crash") /\ UNCHANGED <<hostVars, i>>
    /\ UNCHANGED <<argVars, held, room, appVars>>

test_over ==
    /\ pc = "pack" /\ i >= cnt
    /\ pc' = "fail"
    /\ UNCHANGED <<argVars, hostVars, held, room, appVars, i, ended>>

----------------------------------------------------------------------------
(* fail: release what is held, in the order of the code.                   *)

Release(from, handle, to) ==
    /\ pc = from
    /\ held' = held \ {handle}
    /\ pc' = to
    /\ UNCHANGED <<argVars, hostVars, room, appVars, i, ended>>

(* Mutant: the instance goes first.                                        *)
destroy_exec_envLast == Release("fail", "module_inst", "fail instance")

destroy_exec_env == Release("fail", "exec_env", "fail instance")

(* The instance takes the app heap with it; wasm_buffer, the one block     *)
(* that is freed by itself, goes right before.                             *)
deinstantiate ==
    /\ pc = "fail instance"
    /\ held' = held \ {"module_inst"}
    /\ ptr' = {}
    /\ pc' = "fail module"
    /\ UNCHANGED <<argVars, hostVars, room, out, i, result, unpacked, ended>>

unload == Release("fail module", "module", "fail buffer")
free_buffer == Release("fail buffer", "buffer", "fail runtime")

(* Mutant: the runtime is left.                                            *)
wasm_runtime_destroyNot ==
    /\ pc = "fail runtime"
    /\ End("return")
    /\ UNCHANGED <<argVars, hostVars, held, room, appVars, i>>

wasm_runtime_destroy ==
    /\ pc = "fail runtime"
    /\ held' = held \ {"runtime"}
    /\ End("return")
    /\ UNCHANGED <<argVars, hostVars, room, appVars, i>>

main_setup ==
    \/ print_usage \/ wasm_runtime_full_init \/ bh_read_file_to_buffer
    \/ wasm_runtime_load \/ wasm_runtime_instantiate
    \/ wasm_runtime_create_exec_env \/ lookup_init_ringbuffer
    \/ malloc_split_str \/ open_split_file \/ read_split_str \/ split_str_read
    \/ lookup_benchMarkFunc \/ InitRingBuff
    \/ malloc_pResult \/ call_init_ringbuffer
    \/ malloc_native_buffer \/ malloc_native_buffer_2

main_test ==
    \/ test_main \/ pack_arguments \/ call_fails \/ call_exec
    \/ call_with_message \/ unpack_result \/ test_over

main_fail ==
    \/ destroy_exec_env \/ deinstantiate \/ unload \/ free_buffer
    \/ wasm_runtime_destroy

Next == main_setup \/ main_test \/ main_fail

Spec == Init /\ [][Next]_vars

----------------------------------------------------------------------------
Handles == {"runtime", "buffer", "module", "module_inst", "exec_env"}

(* What a handle is made from: a module keeps pointers into the file, an   *)
(* instance into its module, an execution environment into its instance.   *)
Under(handle) ==
    CASE handle = "exec_env"    -> {"module_inst", "module", "buffer", "runtime"}
      [] handle = "module_inst" -> {"module", "buffer", "runtime"}
      [] handle = "module"      -> {"buffer", "runtime"}
      [] handle = "buffer"      -> {"runtime"}
      [] OTHER                  -> {}

(* On every path through main, failing calls and the fail: part included,  *)
(* a handle is released before what it was made from, and a buffer of the  *)
(* app heap is there only as long as the instance.                         *)
Nested ==
    /\ \A h \in held : Under(h) \subseteq held
    /\ ptr # {} => "module_inst" \in held

(* What the test case makes main keep: the stream, the table and its       *)
(* strings, then for every iteration the array and the message.            *)
NeverFreed ==
    (IF id \in Splits THEN {<<"stream", 0>>, <<"split_str", 0>>} ELSE {})
        \cup (IF id \in Splits THEN {"line"} \X (0 .. cnt - 1) ELSE {})
        \cup (IF id = SPLITER THEN {"data"} \X (0 .. cnt - 1) ELSE {})
        \cup (IF IsExec(id) THEN {} ELSE {"message"} \X (0 .. cnt - 1))

(* When main returns it holds no handle of the runtime and no file buffer, *)
(* except when wasm_buffer could not be allocated: then it gives back none *)
(* of them.  What it has from the host by fopen, malloc and unpack it      *)
(* gives back in no case; this is at most NeverFreed.                      *)
Released ==
    ended = "return" =>
        /\ held = {} \/ (held = Handles /\ "native_buffer" \notin ptr)
        /\ kept \subseteq NeverFreed

(* main tests one of its four allocations in the app heap, none in the     *)
(* host's, and not the call of init_ringbuffer.  The tests that write      *)
(* through NULL, or look into a message they did not get, are those for an *)
(* unknown id or SPLITER, and otherwise                                    *)
(*   - SPLITER_EXEC without memory for the strings,                        *)
(*   - all, if the app heap is full from the start,                        *)
(*   - those with two buffers, without the second,                         *)
(*   - those with messages, without pResult or, but for Person, if the app *)
(*     was not told of pResult, or it or the host lacks memory to unpack.  *)
CrashFree ==
    ended = "crash" =>
        \/ id \notin Valid \/ id = SPLITER
        \/ id = SPLITER_EXEC /\ nulls \cap {"split_str", "line"} # {}
        \/ room = 0 /\ "pHead" \notin ptr
        \/ /\ id \in {BUILD_USER_ID_EXEC, POINT_POLYGEN_DISTANCE_EXEC}
           /\ "native_buffer_2" \notin ptr
        \/ ~IsExec(id) /\ "pResult" \notin ptr
        \/ /\ ~IsExec(id) /\ MessageOf(id) # "Person"
           /\ out # "pResult" \/ cnt > GuestRoom \/ "message" \in nulls
============================================================================
