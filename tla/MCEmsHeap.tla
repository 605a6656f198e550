----------------------------- MODULE MCEmsHeap -----------------------------
(* Instances of EmsHeap for TLC.                                           *)
EXTENDS EmsHeap
============================================================================
