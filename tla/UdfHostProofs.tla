--------------------------- MODULE UdfHostProofs ---------------------------
(***************************************************************************)
(* Nested, Released and CrashFree of UdfHost, for any number of            *)
(* iterations, any argument and heaps of any size.                         *)
(*                                                                         *)
(* What main holds and which pointers it has follows from where main is.   *)
(* The inductive invariant says this for every step of main: which handles *)
(* are there at least, which are gone, and which of the pointers that main *)
(* never tests are nevertheless not NULL.  Fresh is needed for CrashFree:  *)
(* what a test finds in pResult decides whether it looks into NULL.        *)
(***************************************************************************)
EXTENDS UdfHost, TLAPS

(* The steps of main with everything acquired, before and in the test.     *)
Reading == {"open", "lines"}
Prepare == {"lookup init", "arguments", "lookup", "ring", "result", "attach"} \cup Reading
Test == {"test", "pack", "call", "unpack"}
Running == Prepare \cup {"buffer", "buffer 2"} \cup Test

(* The steps of the fail: part after which a handle is gone.               *)
AfterBuffer == {"fail runtime"}
AfterModule == AfterBuffer \cup {"fail buffer"}
AfterInst == AfterModule \cup {"fail module"}
AfterEnv == AfterInst \cup {"fail instance"}

HostTypes ==
    /\ pc \in {"start", "read", "load", "instantiate", "create", "fail", "end"}
                \cup Running \cup AfterEnv
    /\ id \in Int /\ cnt \in Nat /\ i \in Nat /\ room \in Nat /\ unpacked \in Nat
    /\ held \in SUBSET Handles
    /\ ptr \in SUBSET {"pHead", "pResult", "native_buffer", "native_buffer_2"}
    /\ nulls \in SUBSET {"split_str", "line", "data", "message"}
    /\ ended \in {"no", "return", "exit", "crash"}
    /\ pc # "end" => ended = "no"

(* A handle is there only with those it was made from.                     *)
Stacked ==
    /\ "exec_env" \in held => "module_inst" \in held
    /\ "module_inst" \in held => "module" \in held
    /\ "module" \in held => "buffer" \in held
    /\ "buffer" \in held => "runtime" \in held
    /\ ptr # {} => "module_inst" \in held

(* What is acquired when main gets to a step.                              *)
Acquired ==
    /\ pc = "start" => held = {}
    /\ pc = "read" => "runtime" \in held
    /\ pc = "load" => "buffer" \in held
    /\ pc = "instantiate" => "module" \in held
    /\ pc = "create" => "module_inst" \in held
    /\ pc \in Running => "exec_env" \in held

(* What is released.                                                       *)
Gone ==
    /\ pc \in AfterEnv => "exec_env" \notin held
    /\ pc \in AfterInst => "module_inst" \notin held
    /\ pc \in AfterModule => "module" \notin held
    /\ pc \in AfterBuffer => "buffer" \notin held

(* The pointers to app memory that are not NULL, and to host memory that   *)
(* may be.                                                                 *)
Pointers ==
    /\ pc \in Test => "native_buffer" \in ptr
    /\ pc \in {"start", "read", "load", "instantiate", "create", "lookup init", "arguments"}
        => nulls = {}
    /\ pc \in Reading => id \in Splits /\ nulls \subseteq {"split_str", "line"}
    /\ "data" \in nulls => id = SPLITER

(* The app unpacks one message in each iteration.                          *)
Counted ==
    /\ pc \notin Test \cup {"fail", "end"} \cup AfterEnv => unpacked = 0
    /\ pc \notin {"unpack", "fail", "end"} \cup AfterEnv => unpacked <= i
    /\ pc = "unpack" => unpacked <= i + 1 /\ ~IsExec(id)
    /\ pc \in {"call", "unpack"} => i < cnt

(* In pResult is the answer to the call just made, if the app was told     *)
(* about pResult and had memory for the message.                           *)
Fresh ==
    pc = "unpack" /\ out = "pResult" /\ unpacked <= GuestRoom /\ id # SPLITER
        => result[1] = MessageOf(id)

(* Released, of the handles.                                               *)
Returned == ended = "return" => held = {} \/ (held = Handles /\ "native_buffer" \notin ptr)

(* The inductive invariant.                                                *)
HostInv ==
    /\ HostTypes /\ Stacked /\ Acquired /\ Gone /\ Pointers /\ Counted
    /\ Fresh /\ Returned /\ CrashFree

(* With an execution environment, main has everything.                     *)
LEMMA AllHeld ==
    ASSUME HostTypes, Stacked, "exec_env" \in held
    PROVE  held = Handles
BY Zenon DEF HostTypes, Stacked, Handles

(* The numbers are numbers.                                                *)
LEMMA HostNumbers ==
    ASSUME HostInv
    PROVE  cnt \in Nat /\ i \in Nat /\ unpacked \in Nat
BY Zenon DEF HostInv, HostTypes

USE DEF Reading, Prepare, Test, Running, AfterBuffer, AfterModule, AfterInst,
        AfterEnv, Handles

(* main starts with nothing.                                               *)
LEMMA HostStart == Init => HostInv
BY HostAssumption DEF Init, HostInv, HostTypes, Stacked, Acquired, Gone, Pointers,
    Counted, Fresh, Returned, CrashFree

(* module_malloc adds at most the one pointer, and all others stay.        *)
LEMMA MallocEffect ==
    ASSUME HostTypes, NEW p \in {"pHead", "pResult", "native_buffer", "native_buffer_2"},
           module_malloc(p)
    PROVE  /\ room' \in Nat
           /\ (ptr' = ptr /\ room' = 0) \/ ptr' = ptr \cup {p}
           /\ ptr' \in SUBSET {"pHead", "pResult", "native_buffer", "native_buffer_2"}
<1>1. CASE room > 0
  <2>1. ptr' = ptr \cup {p} /\ room' = room - 1
    BY <1>1 DEF module_malloc
  <2>2. room' \in Nat
    <3>1. room \in Nat
      BY Zenon DEF HostTypes
    <3> QED
      BY <1>1, <2>1, <3>1
  <2>3. ptr' \in SUBSET {"pHead", "pResult", "native_buffer", "native_buffer_2"}
    BY <2>1, Zenon DEF HostTypes
  <2> QED
    BY <2>1, <2>2, <2>3
<1>2. CASE ~(room > 0)
  <2>1. room \in Nat /\ ptr \in SUBSET {"pHead", "pResult", "native_buffer", "native_buffer_2"}
    BY Zenon DEF HostTypes
  <2>2. room' = room /\ ptr' = ptr
    BY <1>2 DEF module_malloc
  <2> QED
    BY <1>2, <2>1, <2>2
<1> QED
  BY <1>1, <1>2

(* host_malloc adds at most the one block, or the one NULL pointer.        *)
LEMMA HostMallocEffect ==
    ASSUME HostTypes, NEW kind \in {"split_str", "line", "data", "message"}, NEW k,
           host_malloc(kind, k)
    PROVE  /\ nulls' = nulls \/ nulls' = nulls \cup {kind}
           /\ nulls' \in SUBSET {"split_str", "line", "data", "message"}
<1>1. nulls \in SUBSET {"split_str", "line", "data", "message"}
  BY Zenon DEF HostTypes
<1>2. nulls' = nulls \/ nulls' = nulls \cup {kind}
  BY Zenon DEF host_malloc
<1> QED
  BY <1>1, <1>2

(* Acquiring the handles and the buffers, failing calls included.          *)
LEMMA SetupKeepsHostInv ==
    ASSUME HostInv, main_setup
    PROVE  HostInv'
<1> USE DEF HostInv, HostTypes, Stacked, Acquired, Gone, Pointers,
    Counted, Fresh, Returned, CrashFree, argVars, appVars, hostVars, End, Acquire
<1>1. CASE print_usage
  BY <1>1 DEF print_usage
<1>2. CASE wasm_runtime_full_init
  BY <1>2 DEF wasm_runtime_full_init
<1>3. CASE bh_read_file_to_buffer
  BY <1>3 DEF bh_read_file_to_buffer
<1>4. CASE wasm_runtime_load
  BY <1>4 DEF wasm_runtime_load
<1>5. CASE wasm_runtime_instantiate
  BY <1>5 DEF wasm_runtime_instantiate
<1>6. CASE wasm_runtime_create_exec_env
  BY <1>6 DEF wasm_runtime_create_exec_env
<1>7. CASE lookup_init_ringbuffer
  BY <1>7 DEF lookup_init_ringbuffer
<1>8. CASE malloc_split_str \/ open_split_file \/ read_split_str \/ split_str_read
  <2>1. CASE malloc_split_str
    <3>1. CASE id \in Splits
      <4>1. /\ nulls' = nulls \/ nulls' = nulls \cup {"split_str"}
            /\ nulls' \in SUBSET {"split_str", "line", "data", "message"}
        BY <2>1, <3>1, HostMallocEffect DEF malloc_split_str
      <4> QED
        BY <2>1, <3>1, <4>1 DEF malloc_split_str
    <3>2. CASE id \notin Splits
      BY <2>1, <3>2 DEF malloc_split_str
    <3> QED
      BY <3>1, <3>2
  <2>2. CASE open_split_file
    BY <1>8, <2>2 DEF open_split_file
  <2>3. CASE read_split_str
    <3>1. /\ nulls' = nulls \/ nulls' = nulls \cup {"line"}
          /\ nulls' \in SUBSET {"split_str", "line", "data", "message"}
      BY <2>3, HostMallocEffect DEF read_split_str
    <3>2. i' \in Nat
      BY <2>3 DEF read_split_str
    <3>3. id \in Splits /\ nulls' \subseteq {"split_str", "line"}
      BY <2>3, <3>1 DEF read_split_str
    <3>4. CrashFree'
      BY <2>3, <3>3 DEF read_split_str, Splits
    <3>5. pc = "lines" /\ pc' \in {"lines", "lookup", "end"} /\ id' = id /\ held' = held
      BY <2>3 DEF read_split_str
    <3>6. HostTypes'
      BY <2>3, <3>1, <3>2, <3>5 DEF read_split_str
    <3>7. (Stacked /\ Acquired /\ Gone)'
      BY <2>3, <3>5 DEF read_split_str
    <3>8. Pointers'
      <4>1. pc' = "lines" \/ pc' = "lookup" \/ pc' = "end"
        BY <3>5
      <4>2. "data" \notin nulls'
        BY <3>3
      <4>3. id' \in Splits
        BY <3>3, <3>5
      <4> QED
        BY ONLY <3>3, <4>1, <4>2, <4>3 DEF Pointers, Reading, Test
    <3>9. (Counted /\ Fresh /\ Returned)'
      <4>1. unpacked' = unpacked /\ unpacked = 0 /\ i' \in Nat /\ 0 <= i'
        BY <2>3, <3>2, <3>5 DEF read_split_str
      <4>2. ended' \in {"no", "crash"}
        BY <2>3 DEF read_split_str
      <4> QED
        BY <3>5, <4>1, <4>2
    <3> QED
      BY <3>4, <3>6, <3>7, <3>8, <3>9
  <2>4. CASE split_str_read
    BY <1>8, <2>4 DEF split_str_read
  <2> QED
    BY <1>8, <2>1, <2>2, <2>3, <2>4
<1>9. CASE lookup_benchMarkFunc
  BY <1>9 DEF lookup_benchMarkFunc
<1>10. CASE InitRingBuff
  BY <1>10, MallocEffect DEF InitRingBuff
<1>11. CASE malloc_pResult
  BY <1>11, MallocEffect DEF malloc_pResult
<1>12. CASE call_init_ringbuffer
  BY <1>12 DEF call_init_ringbuffer
<1>13. CASE malloc_native_buffer
  BY <1>13, MallocEffect DEF malloc_native_buffer
<1>14. CASE malloc_native_buffer_2
  <2>1. /\ room' \in Nat
        /\ ptr' = ptr \/ ptr' = ptr \cup {"native_buffer_2"}
        /\ ptr' \in SUBSET {"pHead", "pResult", "native_buffer", "native_buffer_2"}
    BY <1>14, MallocEffect DEF malloc_native_buffer_2
  <2>2. held = Handles /\ pc = "buffer 2"
    <3>1. pc = "buffer 2"
      BY <1>14, Zenon DEF malloc_native_buffer_2
    <3> QED
      BY <3>1, AllHeld
  <2>3. CASE "native_buffer" \in ptr
    <3>1. HostTypes'
      BY <1>14, <2>1, <2>2, <2>3 DEF malloc_native_buffer_2
    <3>2. Stacked'
      BY <1>14, <2>1, <2>2, <2>3 DEF malloc_native_buffer_2
    <3>3. Acquired'
      BY <1>14, <2>1, <2>2, <2>3 DEF malloc_native_buffer_2
    <3>4. Gone'
      BY <1>14, <2>1, <2>2, <2>3 DEF malloc_native_buffer_2
    <3>5. Pointers'
      BY <1>14, <2>1, <2>2, <2>3 DEF malloc_native_buffer_2
    <3>6. Counted'
      BY <1>14, <2>1, <2>2, <2>3 DEF malloc_native_buffer_2
    <3>7. Returned'
      BY <1>14, <2>1, <2>2, <2>3 DEF malloc_native_buffer_2
    <3>8. Fresh'
      BY <1>14, <2>1, <2>2, <2>3 DEF malloc_native_buffer_2
    <3>9. CrashFree'
      BY <1>14, <2>1, <2>2, <2>3 DEF malloc_native_buffer_2
    <3> QED
      BY <3>1, <3>2, <3>3, <3>4, <3>5, <3>6, <3>7, <3>8, <3>9
  <2>4. CASE "native_buffer" \notin ptr
    <3>1. "native_buffer" \notin ptr'
      <4>1. "native_buffer" # "native_buffer_2"
        OBVIOUS
      <4> QED
        BY <2>1, <2>4, <4>1, Zenon
    <3>2. HostTypes'
      BY <1>14, <2>1, <2>2, <2>4, <3>1 DEF malloc_native_buffer_2
    <3>3. Stacked'
      BY <1>14, <2>1, <2>2, <2>4, <3>1 DEF malloc_native_buffer_2
    <3>4. Acquired'
      BY <1>14, <2>1, <2>2, <2>4, <3>1 DEF malloc_native_buffer_2
    <3>5. Gone'
      BY <1>14, <2>1, <2>2, <2>4, <3>1 DEF malloc_native_buffer_2
    <3>6. Pointers'
      BY <1>14, <2>1, <2>2, <2>4, <3>1 DEF malloc_native_buffer_2
    <3>7. Counted'
      BY <1>14, <2>1, <2>2, <2>4, <3>1 DEF malloc_native_buffer_2
    <3>8. Returned'
      BY <1>14, <2>1, <2>2, <2>4, <3>1 DEF malloc_native_buffer_2
    <3>9. Fresh'
      BY <1>14, <2>1, <2>2, <2>4, <3>1 DEF malloc_native_buffer_2
    <3>10. CrashFree'
      BY <1>14, <2>1, <2>2, <2>4, <3>1 DEF malloc_native_buffer_2
    <3> QED
      BY <3>2, <3>3, <3>4, <3>5, <3>6, <3>7, <3>8, <3>9, <3>10
  <2> QED
    BY <2>3, <2>4
<1> QED
  BY <1>1, <1>2, <1>3, <1>4, <1>5, <1>6, <1>7, <1>8, <1>9, <1>10, <1>11, <1>12,
     <1>13, <1>14 DEF main_setup

(* The loop of a test: pack the arguments, call, unpack the answer.        *)
LEMMA TestKeepsHostInv ==
    ASSUME HostInv, main_test
    PROVE  HostInv'
<1> USE DEF HostInv, HostTypes, Stacked, Acquired, Gone, Pointers,
    Counted, Fresh, Returned, CrashFree, argVars, appVars, hostVars, End
<1>1. CASE test_main
  BY <1>1 DEF test_main
<1>2. CASE pack_arguments
  <2>0. /\ nulls' \in SUBSET {"split_str", "line", "data", "message"}
        /\ "data" \in nulls' => id = SPLITER
    <3>1. CASE id = SPLITER
      BY <1>2, <3>1, HostMallocEffect DEF pack_arguments
    <3>2. CASE id # SPLITER
      BY <1>2, <3>2 DEF pack_arguments
    <3> QED
      BY <3>1, <3>2
  <2>1. CASE ArgumentBuffers \subseteq ptr
    BY <1>2, <2>0, <2>1 DEF pack_arguments
  <2>2. CASE ~(ArgumentBuffers \subseteq ptr)
    BY <1>2, <2>0, <2>2 DEF pack_arguments, ArgumentBuffers
  <2> QED
    BY <2>1, <2>2
<1>3. CASE call_fails
  BY <1>3 DEF call_fails
<1>4. CASE call_exec
  BY <1>4 DEF call_exec
<1>5. CASE call_with_message
  <2>0. /\ cnt' \in Nat /\ i' \in Nat /\ unpacked' \in Nat
        /\ unpacked <= i => unpacked' <= i' + 1
    BY <1>5, HostNumbers DEF call_with_message
  <2>1. HostTypes'
    BY <1>5, <2>0 DEF call_with_message
  <2>2. Stacked'
    BY <1>5, HostAssumption DEF call_with_message, ResultOfCall
  <2>3. Acquired'
    BY <1>5, HostAssumption DEF call_with_message, ResultOfCall
  <2>4. Gone'
    BY <1>5, HostAssumption DEF call_with_message, ResultOfCall
  <2>5. Pointers'
    BY <1>5, HostAssumption DEF call_with_message, ResultOfCall
  <2>6. Counted'
    <3>1. pc = "call" /\ ~IsExec(id) /\ IsExec(id)' = IsExec(id) /\ pc' \in {"unpack", "end"}
      BY <1>5 DEF call_with_message, IsExec
    <3>2. unpacked <= i /\ i < cnt /\ i' = i /\ cnt' = cnt
      BY <1>5, <3>1 DEF call_with_message
    <3> QED
      BY <2>0, <3>1, <3>2
  <2>7. Returned'
    BY <1>5, HostAssumption DEF call_with_message, ResultOfCall
  <2>8. Fresh'
    BY <1>5, HostAssumption DEF call_with_message, ResultOfCall
  <2>9. CrashFree'
    BY <1>5, HostAssumption DEF call_with_message, ResultOfCall
  <2> QED
    BY <2>1, <2>2, <2>3, <2>4, <2>5, <2>6, <2>7, <2>8, <2>9
<1>6. CASE unpack_result
  <2>0. cnt' \in Nat /\ i' \in Nat /\ unpacked' \in Nat
    BY <1>6, HostNumbers DEF unpack_result
  <2>1. HostTypes'
    BY <1>6, <2>0 DEF unpack_result
  <2>2. Stacked'
    BY <1>6, HostAssumption DEF unpack_result
  <2>3. Acquired'
    BY <1>6, HostAssumption DEF unpack_result
  <2>4. Gone'
    BY <1>6, HostAssumption DEF unpack_result
  <2>5. Pointers'
    BY <1>6, HostAssumption DEF unpack_result
  <2>6. Counted'
    BY <1>6, HostAssumption DEF unpack_result
  <2>7. Returned'
    BY <1>6, HostAssumption DEF unpack_result
  <2>8. Fresh'
    BY <1>6, HostAssumption DEF unpack_result
  <2>9. CrashFree'
    BY <1>6, HostAssumption DEF unpack_result
  <2> QED
    BY <2>1, <2>2, <2>3, <2>4, <2>5, <2>6, <2>7, <2>8, <2>9
<1>7. CASE test_over
  BY <1>7 DEF test_over
<1> QED
  BY <1>1, <1>2, <1>3, <1>4, <1>5, <1>6, <1>7 DEF main_test

(* fail: releases a handle after those made from it.                       *)
LEMMA FailKeepsHostInv ==
    ASSUME HostInv, main_fail
    PROVE  HostInv'
<1> USE DEF HostInv, HostTypes, Stacked, Acquired, Gone, Pointers,
    Counted, Fresh, Returned, CrashFree, argVars, appVars, hostVars, End, Release
<1>1. CASE destroy_exec_env
  BY <1>1 DEF destroy_exec_env
<1>2. CASE deinstantiate
  BY <1>2 DEF deinstantiate
<1>3. CASE unload
  BY <1>3 DEF unload
<1>4. CASE free_buffer
  <2>1. HostTypes'
    BY <1>4 DEF free_buffer
  <2>2. Stacked'
    BY <1>4 DEF free_buffer
  <2>3. Acquired'
    BY <1>4 DEF free_buffer
  <2>4. Gone'
    BY <1>4 DEF free_buffer
  <2>5. Pointers'
    BY <1>4 DEF free_buffer
  <2>6. Counted'
    BY <1>4 DEF free_buffer
  <2>7. Returned'
    BY <1>4 DEF free_buffer
  <2>8. Fresh'
    BY <1>4 DEF free_buffer
  <2>9. CrashFree'
    BY <1>4 DEF free_buffer
  <2> QED
    BY <2>1, <2>2, <2>3, <2>4, <2>5, <2>6, <2>7, <2>8, <2>9
<1>5. CASE wasm_runtime_destroy
  <2>1. held \ {"runtime"} = {}
    <3>1. pc = "fail runtime"
      BY <1>5 DEF wasm_runtime_destroy
    <3>2. /\ "buffer" \notin held /\ "module" \notin held
          /\ "module_inst" \notin held /\ "exec_env" \notin held
      BY <3>1
    <3>3. held \in SUBSET Handles
      BY Zenon
    <3> QED
      BY <3>2, <3>3, Zenon
  <2>2. held' = {} /\ pc' = "end" /\ ended' = "return"
    BY <1>5, <2>1 DEF wasm_runtime_destroy
  <2> QED
    BY <1>5, <2>2 DEF wasm_runtime_destroy
<1> QED
  BY <1>1, <1>2, <1>3, <1>4, <1>5 DEF main_fail

(* What main keeps from the host stays within what its test case makes it  *)
(* keep: a line, array or message is one of the iterations below cnt.      *)
Kept == kept \subseteq NeverFreed

(* It depends on the arguments alone.                                     *)
LEMMA NeverFreedFixed ==
    ASSUME id' = id, cnt' = cnt
    PROVE  NeverFreed' = NeverFreed
BY DEF NeverFreed, Splits, IsExec

(* One more block of those.                                                *)
LEMMA KeepOne ==
    ASSUME HostInv, Kept, NEW kind, NEW k, id' = id, cnt' = cnt,
           host_malloc(kind, k) \/ kept' = kept \cup {<<kind, k>>}, <<kind, k>> \in NeverFreed
    PROVE  Kept'
<1>1. kept' \subseteq kept \cup {<<kind, k>>}
  BY Zenon DEF host_malloc
<1>2. NeverFreed' = NeverFreed
  BY NeverFreedFixed
<1> QED
  BY <1>1, <1>2, Zenon DEF Kept

(* Every step of main keeps at most one more of those.                     *)
LEMMA KeptStep ==
    ASSUME HostInv, Kept, [Next]_vars
    PROVE  Kept'
<1>1. id' = id /\ cnt' = cnt
  BY Zenon DEF Next, main_setup, main_test, main_fail, vars, argVars, Acquire, Release,
     print_usage, wasm_runtime_full_init, bh_read_file_to_buffer, wasm_runtime_load,
     wasm_runtime_instantiate, wasm_runtime_create_exec_env, lookup_init_ringbuffer,
     malloc_split_str, open_split_file, read_split_str, split_str_read,
     lookup_benchMarkFunc, InitRingBuff, malloc_pResult, call_init_ringbuffer,
     malloc_native_buffer, malloc_native_buffer_2, test_main, pack_arguments, call_fails,
     call_exec, call_with_message, unpack_result, test_over, destroy_exec_env,
     deinstantiate, unload, free_buffer, wasm_runtime_destroy
<1>2. cnt \in Nat /\ i \in Nat
  BY HostNumbers
<1>3. pc \in Reading => id \in Splits
  BY DEF HostInv, Pointers
<1>4. CASE malloc_split_str
  <2>1. CASE id \in Splits
    <3>1. <<"split_str", 0>> \in NeverFreed
      BY <2>1 DEF NeverFreed
    <3>2. host_malloc("split_str", 0)
      BY <1>4, <2>1 DEF malloc_split_str
    <3> QED
      BY <1>1, <3>1, <3>2, KeepOne
  <2>2. CASE id \notin Splits
    BY <1>1, <1>4, <2>2, NeverFreedFixed DEF malloc_split_str, hostVars, Kept
  <2> QED
    BY <2>1, <2>2
<1>5. CASE open_split_file
  <2>1. <<"stream", 0>> \in NeverFreed
    BY <1>3, <1>5 DEF NeverFreed, open_split_file
  <2>2. kept' = kept \/ kept' = kept \cup {<<"stream", 0>>}
    BY <1>5, Zenon DEF open_split_file
  <2> QED
    BY <1>1, <2>1, <2>2, KeepOne, NeverFreedFixed DEF Kept
<1>6. CASE read_split_str
  <2>1. pc = "lines" /\ i < cnt /\ host_malloc("line", i)
    BY <1>6, Zenon DEF read_split_str
  <2>2. <<"line", i>> \in {"line"} \X (0 .. cnt - 1)
    BY <1>2, <2>1
  <2>3. <<"line", i>> \in NeverFreed
    BY <1>3, <2>1, <2>2 DEF NeverFreed
  <2> QED
    BY <1>1, <2>1, <2>3, KeepOne
<1>7. CASE pack_arguments
  <2>1. pc = "pack" /\ i < cnt
    BY <1>7, Zenon DEF pack_arguments
  <2>2. CASE id = SPLITER
    <3>1. <<"data", i>> \in {"data"} \X (0 .. cnt - 1)
      BY <1>2, <2>1
    <3>2. <<"data", i>> \in NeverFreed
      BY <2>2, <3>1 DEF NeverFreed
    <3>3. host_malloc("data", i)
      BY <1>7, <2>2, Zenon DEF pack_arguments
    <3> QED
      BY <1>1, <3>2, <3>3, KeepOne
  <2>3. CASE id # SPLITER
    BY <1>1, <1>7, <2>3, NeverFreedFixed, Zenon DEF pack_arguments, hostVars, Kept
  <2> QED
    BY <2>2, <2>3
<1>8. CASE unpack_result
  <2>1. pc = "unpack" /\ i < cnt /\ ~IsExec(id)
    BY <1>8, Zenon DEF unpack_result, HostInv, Counted
  <2>2. <<"message", i>> \in {"message"} \X (0 .. cnt - 1)
    BY <1>2, <2>1
  <2>3. <<"message", i>> \in NeverFreed
    BY <2>1, <2>2 DEF NeverFreed
  <2>4. kept' = kept \/ kept' = kept \cup {<<"message", i>>}
    BY <1>8, Zenon DEF unpack_result, hostVars
  <2> QED
    BY <1>1, <2>3, <2>4, KeepOne, NeverFreedFixed DEF Kept
<1>9. ASSUME ~malloc_split_str, ~open_split_file, ~read_split_str, ~pack_arguments,
             ~unpack_result
      PROVE  Kept'
  <2>1. kept' = kept
    BY <1>9, Zenon DEF Next, main_setup, main_test, main_fail, vars, hostVars, Acquire,
       Release, print_usage, wasm_runtime_full_init, bh_read_file_to_buffer,
       wasm_runtime_load, wasm_runtime_instantiate, wasm_runtime_create_exec_env,
       lookup_init_ringbuffer, split_str_read, lookup_benchMarkFunc, InitRingBuff,
       malloc_pResult, call_init_ringbuffer, malloc_native_buffer, malloc_native_buffer_2,
       test_main, call_fails, call_exec, call_with_message, test_over, destroy_exec_env,
       deinstantiate, unload, free_buffer, wasm_runtime_destroy
  <2> QED
    BY <1>1, <2>1, NeverFreedFixed DEF Kept
<1> QED
  BY <1>4, <1>5, <1>6, <1>7, <1>8, <1>9

(* The inductive invariant holds throughout.                               *)
THEOREM HostInvariant == Spec => [](HostInv /\ Kept)
<1>1. HostInv /\ UNCHANGED vars => HostInv'
  <2> SUFFICES ASSUME HostInv, UNCHANGED vars
               PROVE  HostInv'
    OBVIOUS
  <2>1. (HostTypes /\ Stacked /\ Acquired)'
    BY DEF vars, HostInv, HostTypes, Stacked, Acquired
  <2>2. Gone' /\ Pointers'
    BY DEF vars, HostInv, Gone, Pointers
  <2>5. Counted'
    BY DEF vars, HostInv, Counted, IsExec
  <2>3. Fresh' /\ Returned'
    BY DEF vars, HostInv, Fresh, Returned
  <2>4. CrashFree'
    BY DEF vars, HostInv, CrashFree
  <2> QED
    BY <2>1, <2>2, <2>3, <2>4, <2>5 DEF HostInv
<1>2. HostInv /\ [Next]_vars => HostInv'
  BY <1>1, SetupKeepsHostInv, TestKeepsHostInv, FailKeepsHostInv DEF Next
<1>3. Init => Kept
  BY DEF Init, Kept
<1>4. (HostInv /\ Kept) /\ [Next]_vars => (HostInv /\ Kept)'
  BY <1>2, KeptStep
<1> QED
  BY <1>3, <1>4, HostStart, PTL DEF Spec

(* Whichever of its calls fail, main releases a handle before what it was  *)
(* made from, and has no pointer into the app heap without the instance.   *)
THEOREM NestedHolds == Spec => []Nested
<1>1. HostInv => Nested
  <2> SUFFICES ASSUME HostInv, NEW h \in held
               PROVE  Under(h) \subseteq held
    BY DEF Nested, HostInv, Stacked
  <2>1. Stacked /\ h \in Handles
    BY DEF HostInv, HostTypes
  <2> QED
    BY <2>1 DEF Stacked, Under
<1> QED
  BY <1>1, HostInvariant, PTL

(* When main returns it holds no handle, or every handle if native_buffer  *)
(* was not allocated; what it never frees is at most the stream, table and *)
(* strings of a split test and an array and message for each iteration.    *)
THEOREM ReleasedHolds == Spec => []Released
<1>1. HostInv /\ Kept => Released
  BY DEF HostInv, Returned, Kept, Released
<1> QED
  BY <1>1, HostInvariant, PTL

(* main writes through NULL, or looks into a message it did not get, only  *)
(* in the cases that CrashFree lists.                                      *)
THEOREM CrashFreeHolds == Spec => []CrashFree
<1>1. HostInv => CrashFree
  BY DEF HostInv
<1> QED
  BY <1>1, HostInvariant, PTL
============================================================================
