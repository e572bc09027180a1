------------------------------ MODULE MCRegistry ------------------------------
(* Small instances of Registry: names are alike. *)
EXTENDS Registry, TLC

Alike == Permutations(Names)
=============================================================================
