------------------------------ MODULE MCRealtime ------------------------------
(* Small instances of Realtime. *)
EXTENDS Realtime, TLC
=============================================================================
