----------------------------- MODULE MCUdfHost -----------------------------
(* Instances of UdfHost for TLC.                                           *)
EXTENDS UdfHost
============================================================================
