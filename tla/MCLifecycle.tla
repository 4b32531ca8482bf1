---------------------------- MODULE MCLifecycle ----------------------------
(* Lifecycle for TLC: the process ids NuttX can give out, one more than the *)
(* program has receive tasks.                                               *)
EXTENDS Lifecycle

FourPids == 1 .. 4
=============================================================================
