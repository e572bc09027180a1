----------------------------- MODULE MCTaskFlow -----------------------------
(* TaskFlow for TLC: long walks through the table with little beside them.  *)
EXTENDS TaskFlow, FiniteSets

CONSTANTS MaxAside   \* bounds everything else that happens on the way

\* Edits of the row, body or checklist, and proofs, questions and reads.
Aside ==
  \A t \in Tasks :
    (task[t].version - 1 - Len(transitions[t]))
      + Cardinality(DOMAIN proofs) + Cardinality(DOMAIN questions)
      + Cardinality(DOMAIN seen) <= MaxAside

\* One client that reads once, at any moment: a later read only starts the same
\* story again.
ReadsOnce == \A t \in DOMAIN seen : seen'[t] = seen[t]
=============================================================================
