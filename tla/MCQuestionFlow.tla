---------------------------- MODULE MCQuestionFlow ----------------------------
(* Small instances of QuestionFlow. *)
EXTENDS QuestionFlow, TLC

CONSTANTS MaxRevoked,            \* bounds the revocations
          AskTargets, Readers    \* whom questions are asked of, who reads his inbox

\* The askings of an instance, and whose reading of his inbox it follows: a
\* reader reads all of it.
Sensible ==
  /\ \A r \in Requests : call'[r].pc = "commit" /\ call[r].pc = "accepted" =>
       LET o == call'[r].o IN
         o.op = "ask" => o.to \in AskTargets /\ DOMAIN questions # Questions
  /\ \A row \in unread \ unread' : call' = call =>
       row[1] \in Readers /\ \A other \in unread' : other[1] # row[1]
  /\ Cardinality({i \in Identities : status'[i] = "revoked"}) <= MaxRevoked

Alike == Permutations(Requests)
=============================================================================
