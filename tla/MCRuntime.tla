----------------------------- MODULE MCRuntime -----------------------------
(* Instances of Runtime for TLC: one session, its runtimes one after the    *)
(* other, as when it is resumed or its working directory changes.           *)
EXTENDS Runtime

CONSTANT s1
=============================================================================
