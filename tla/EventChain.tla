----------------------------- MODULE EventChain -----------------------------
(***************************************************************************)
(* The hash-chained tables of app/chain.py and the threads that append to   *)
(* them.  A connection per call and one database: a transaction starts at   *)
(* its first write and then holds the write lock until it commits; a SELECT *)
(* outside a transaction sees the last commit and holds nothing.            *)
(*                                                                         *)
(*   - statemachine.transition writes the task, then reads the last         *)
(*     transition and appends its own, in one transaction;                  *)
(*   - proofs.add_proof, trash_proof and check_proof write the proof, then  *)
(*     read the last event and append theirs, in one transaction; and       *)
(*     check_proof runs on a thread of its own;                             *)
(*   - every other service, transition too, calls events.emit after its     *)
(*     commit: that reads the last event and only then starts a transaction *)
(*     to append.                                                           *)
(*                                                                         *)
(* Hashes do not collide: the hash of a row is the list of what it and the  *)
(* rows before it say.                                                      *)
(***************************************************************************)
EXTENDS Naturals, Sequences, FiniteSets

CONSTANTS
  Threads,    \* the event loop, and worker threads
  Checkers,   \* those of them that only run api_proofs_check
  Bodies,     \* what rows say, and for a transition, of which task
  MaxRows     \* bounds the rows of both tables together

Nobody == "nobody"   \* holds the write lock when no thread does

ASSUME CheckersAssumption == Checkers \subseteq Threads
ASSUME NobodyAssumption == Nobody \notin Threads
ASSUME MaxRowsAssumption == MaxRows \in Nat

VARIABLES
  rows,     \* the two tables, in id order
  lock,     \* who holds the write lock
  thread,   \* what each thread is appending
  edited,   \* the tables in which a row was edited out of band
  purged    \* whether a project's transitions were deleted

vars == <<rows, lock, thread, edited, purged>>

Tables == {"events", "transitions"}
NoHash == <<>>   \* prev_hash of a table's first row: NULL

Digest(body, prev) == Append(prev, body)

Idle == [pc |-> "idle"]
Reading(table) == [pc |-> "read", table |-> table]

----------------------------------------------------------------------------
(* chained_insert and verify_chain                                          *)

\* SELECT row_hash ... ORDER BY id DESC LIMIT 1
LastHash_Dirty(table) ==
  IF \E w \in Threads : thread[w].pc = "commit" /\ thread[w].table = table
  THEN thread[CHOOSE w \in Threads : thread[w].pc = "commit"
                                     /\ thread[w].table = table].row.hash
  ELSE IF rows[table] = <<>> THEN NoHash ELSE rows[table][Len(rows[table])].hash
LastHash(table) ==
  IF rows[table] = <<>> THEN NoHash ELSE rows[table][Len(rows[table])].hash

\* Every row names its predecessor's hash and has the hash of what it says.
Verifies_LinksOnly(table) ==
  \A i \in DOMAIN rows[table] :
    rows[table][i].prev = IF i = 1 THEN NoHash ELSE rows[table][i - 1].hash
Verifies(table) ==
  \A i \in DOMAIN rows[table] :
    LET row == rows[table][i] IN
      /\ row.prev = IF i = 1 THEN NoHash ELSE rows[table][i - 1].hash
      /\ row.hash = Digest(row.body, row.prev)

----------------------------------------------------------------------------
Init ==
  /\ rows = [table \in Tables |-> <<>>]
  /\ lock = Nobody
  /\ thread = [w \in Threads |-> Idle]
  /\ edited = {} /\ purged = FALSE

\* The first write of a service's transaction takes the lock.
BeginTransaction_NoLock(w) == UNCHANGED lock
BeginTransaction(w) == lock = Nobody /\ lock' = w

BeginTransition(w) ==
  /\ thread[w] = Idle
  /\ BeginTransaction(w)
  /\ thread' = [thread EXCEPT ![w] = Reading("transitions")]
  /\ UNCHANGED <<rows, edited, purged>>

BeginProof(w) ==
  /\ thread[w] = Idle
  /\ BeginTransaction(w)
  /\ thread' = [thread EXCEPT ![w] = Reading("events")]
  /\ UNCHANGED <<rows, edited, purged>>

\* A service that has committed what it did goes on to events.emit.
BeginEmit(w) ==
  /\ thread[w] = Idle
  /\ thread' = [thread EXCEPT ![w] = Reading("events")]
  /\ UNCHANGED <<rows, lock, edited, purged>>

ReadLast(w) ==
  /\ thread[w].pc = "read"
  /\ thread' = [thread EXCEPT ![w] = [pc |-> "insert", table |-> @.table,
                                      prev |-> LastHash(@.table)]]
  /\ UNCHANGED <<rows, lock, edited, purged>>

MayWrite(w) == lock \in {Nobody, w}

\* The INSERT, in the transaction that is open or in one that it opens.
Insert(w, body) ==
  /\ thread[w].pc = "insert"
  /\ MayWrite(w)
  /\ lock' = w
  /\ thread' = [thread EXCEPT ![w] =
       [pc |-> "commit", table |-> @.table,
        row |-> [body |-> body, prev |-> @.prev, hash |-> Digest(body, @.prev)]]]
  /\ UNCHANGED <<rows, edited, purged>>

\* A call fails: its write waited for the lock for longer than busy_timeout, the
\* disk is full, the process stops (then every call fails).  Its transaction is
\* rolled back, and what it would have announced is not.
Fail(w) ==
  /\ thread[w] # Idle
  /\ thread' = [thread EXCEPT ![w] = Idle]
  /\ lock' = IF lock = w THEN Nobody ELSE lock
  /\ UNCHANGED <<rows, edited, purged>>

\* A committed transition is announced next.
Commit(w) ==
  /\ thread[w].pc = "commit"
  /\ LET table == thread[w].table IN
       /\ Len(rows["events"]) + Len(rows["transitions"]) < MaxRows
       /\ rows' = [rows EXCEPT ![table] = Append(@, thread[w].row)]
       /\ thread' = [thread EXCEPT ![w] =
            IF table = "transitions" THEN Reading("events") ELSE Idle]
  /\ lock' = Nobody
  /\ UNCHANGED <<edited, purged>>

\* objects.purge_project deletes the transitions of the project's tasks.  The
\* model follows one purge, and one edit.
Purge(task) ==
  /\ lock = Nobody
  /\ ~purged
  /\ rows' = [rows EXCEPT !["transitions"] = SelectSeq(@, LAMBDA r : r.body # task)]
  /\ purged' = TRUE
  /\ UNCHANGED <<lock, thread, edited>>

\* Someone edits what a row says, or one of its hashes, with another tool: puts
\* another body, or a hash of the table, NULL, or that of the row with another body.
\* Whoever deletes rows, or works out anew the hashes of all that follow, is not
\* followed: without a secret in them, the hashes cannot show that.
SomeHashes(table, row) ==
  {NoHash} \cup {rows[table][j].hash : j \in DOMAIN rows[table]}
           \cup {Digest(body, row.prev) : body \in Bodies}
Edited(table, row) ==
  {[row EXCEPT !.body = body] : body \in Bodies \ {row.body}}
    \cup {[row EXCEPT !.prev = hash] : hash \in SomeHashes(table, row) \ {row.prev}}
    \cup {[row EXCEPT !.hash = hash] : hash \in SomeHashes(table, row) \ {row.hash}}
Edit(table, i) ==
  /\ lock = Nobody
  /\ edited = {} /\ edited' = {table}
  /\ i \in DOMAIN rows[table]
  /\ \E row \in Edited(table, rows[table][i]) : rows' = [rows EXCEPT ![table][i] = row]
  /\ UNCHANGED <<lock, thread, purged>>

Next ==
  \/ \E w \in Threads :
       \/ w \notin Checkers /\ (BeginTransition(w) \/ BeginEmit(w))
       \/ BeginProof(w) \/ ReadLast(w)
       \/ \E body \in Bodies : Insert(w, body)
       \/ Commit(w) \/ Fail(w)
  \/ \E body \in Bodies : Purge(body)
  \/ \E table \in Tables, i \in 1 .. MaxRows : Edit(table, i)

Spec == Init /\ [][Next]_vars

----------------------------------------------------------------------------
(* Properties *)

\* Hashes are lists of what rows say; a thread with a row to commit holds the
\* lock, and whoever holds it is inside a transaction.
Hashes == Seq(Bodies)
Rows == [body : Bodies, prev : Hashes, hash : Hashes]
Calls == {Idle} \cup [pc : {"read"}, table : Tables]
         \cup [pc : {"insert"}, table : Tables, prev : Hashes]
         \cup [pc : {"commit"}, table : Tables, row : Rows]
TypeOK ==
  /\ rows \in [Tables -> Seq(Rows)]
  /\ lock \in Threads \cup {Nobody}
  /\ thread \in [Threads -> Calls]
  /\ \A w \in Threads : thread[w].pc = "commit" => lock = w
  /\ lock # Nobody => thread[lock].pc # "idle"
  /\ edited \subseteq Tables /\ purged \in BOOLEAN

\* However the threads interleave and whenever the process stops, the chain of
\* transitions verifies, as long as nobody edits a row or purges a project: the
\* last row is read under the lock that its successor is written under.
TransitionsVerify ==
  purged \/ "transitions" \in edited \/ Verifies("transitions")

\* An out-of-band edit, of what a row says or of a hash, is found by every later
\* verification: no append that follows heals the chain.
EditIsFound ==
  \A table \in edited : purged \/ ~Verifies(table)

\* Even where threads race, an appended event follows some committed event, never
\* one that was rolled back; and those that follow none were all appended by
\* threads that found the table empty, so there are no more of them than threads;
\* as long as nobody edits a row.
EarlierHashes(table, i) == {rows[table][j].hash : j \in 1 .. i - 1}
EventsHangTogether ==
  LET log == rows["events"]
      first == {i \in DOMAIN log : log[i].prev = NoHash}
  IN "events" \notin edited =>
     /\ Cardinality(first) <= Cardinality(Threads)
     /\ \A i \in DOMAIN log \ first : log[i].prev \in EarlierHashes("events", i)

\* As the documentation has it, each event commits to its predecessor: the chain
\* of events fails to verify only if someone edited it.
EventsVerify == "events" \in edited \/ Verifies("events")

\* As the documentation has it, the transitions are append-only for everyone:
\* their chain fails to verify only if someone edited it.
OnlyEditsBreakTransitions == "transitions" \in edited \/ Verifies("transitions")
=============================================================================
