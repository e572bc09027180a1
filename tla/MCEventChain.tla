---------------------------- MODULE MCEventChain ----------------------------
(* EventChain for TLC.  *)
EXTENDS EventChain, TLC

\* Two threads are alike.
Alike == Permutations(Threads)
=============================================================================
