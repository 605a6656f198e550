---------------------------- MODULE MCLibPthread ----------------------------
(* The main thread and two more, whose environments may have the same      *)
(* address one after the other, with two auxiliary stacks.                 *)
EXTENDS LibPthread
=============================================================================
