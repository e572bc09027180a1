---------------------------- MODULE MCTaskService ----------------------------
(* TaskService for TLC: short histories of every kind.  *)
EXTENDS TaskService, TLC

CONSTANTS MaxHistory   \* bounds announced events, reads and crashes together

Happened == Len(events) + Cardinality(DOMAIN seen) + crashes

\* A client that reads once, at any moment.
Short ==
  /\ Happened' <= MaxHistory
  /\ Happened = MaxHistory => \A w \in Workers : call[w] = Idle => call'[w] = Idle
  /\ \A t \in DOMAIN seen : seen'[t] = seen[t]

\* Two threads are alike.
Alike == Permutations(Workers)
=============================================================================
