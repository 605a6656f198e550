---------------------------- MODULE MCAtomicWait ----------------------------
(* Instances of AtomicWait for TLC.                                        *)
EXTENDS AtomicWait
============================================================================
