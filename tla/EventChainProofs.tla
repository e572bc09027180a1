-------------------------- MODULE EventChainProofs --------------------------
(***************************************************************************)
(* What the chains of EventChain guarantee for any number of threads and    *)
(* rows.                                                                   *)
(***************************************************************************)
EXTENDS EventChain, FiniteSetTheorems, TLAPS

\* What Append does to a sequence.
LEMMA AppendFacts ==
  ASSUME NEW S, NEW s \in Seq(S), NEW x \in S
  PROVE  /\ Append(s, x) \in Seq(S)
         /\ Len(s) \in Nat /\ Len(Append(s, x)) = Len(s) + 1
         /\ DOMAIN s = 1 .. Len(s) /\ DOMAIN Append(s, x) = 1 .. Len(s) + 1
         /\ Append(s, x)[Len(s) + 1] = x
         /\ \A i \in 1 .. Len(s) : Append(s, x)[i] = s[i]
         /\ s = <<>> <=> Len(s) = 0
OBVIOUS

\* The hash of a row tells what the row says, and what it follows.
LEMMA DigestInjective ==
  ASSUME NEW p \in Hashes, NEW q \in Hashes, NEW x \in Bodies, NEW y \in Bodies,
         Digest(x, p) = Digest(y, q)
  PROVE  x = y /\ p = q
<1>1. /\ Len(p) \in Nat /\ Len(Append(p, x)) = Len(p) + 1 /\ Append(p, x)[Len(p) + 1] = x
      /\ Len(q) \in Nat /\ Len(Append(q, y)) = Len(q) + 1 /\ Append(q, y)[Len(q) + 1] = y
      /\ \A i \in 1 .. Len(p) : Append(p, x)[i] = p[i]
      /\ \A i \in 1 .. Len(q) : Append(q, y)[i] = q[i]
  BY AppendFacts DEF Hashes
<1>2. Len(p) = Len(q) /\ x = y /\ \A i \in 1 .. Len(p) : p[i] = q[i]
  BY <1>1 DEF Digest
<1>3. p \in [1 .. Len(p) -> Bodies] /\ q \in [1 .. Len(q) -> Bodies]
  BY DEF Hashes
<1>4. q \in [1 .. Len(p) -> Bodies]
  BY <1>2, <1>3
<1>5. p = q
  BY <1>2, <1>3, <1>4
<1> QED
  BY <1>2, <1>5

\* An edited row is a row still, but another one, with a body, a predecessor or a
\* hash of its own.
LEMMA EditedType ==
  ASSUME TypeOK, NEW table \in Tables, NEW old \in Rows, NEW row \in Edited(table, old)
  PROVE  /\ row \in Rows
         /\ \/ row.body # old.body /\ row.prev = old.prev /\ row.hash = old.hash
            \/ row.body = old.body /\ row.prev # old.prev /\ row.hash = old.hash
            \/ row.body = old.body /\ row.prev = old.prev /\ row.hash # old.hash
<1>1. SomeHashes(table, old) \subseteq Hashes
  <2>1. \A body \in Bodies : Digest(body, old.prev) \in Hashes
    BY AppendFacts DEF Digest, Hashes, Rows
  <2>2. rows[table] \in Seq(Rows) /\ NoHash \in Hashes
    BY DEF TypeOK, NoHash, Hashes
  <2>3. \A j \in DOMAIN rows[table] : rows[table][j] \in Rows
    BY <2>2
  <2>4. \A j \in DOMAIN rows[table] : rows[table][j].hash \in Hashes
    BY <2>3 DEF Rows
  <2> QED
    BY <2>1, <2>2, <2>4 DEF SomeHashes
<1>2. CASE \E body \in Bodies \ {old.body} : row = [old EXCEPT !.body = body]
  BY <1>2 DEF Rows
<1>3. CASE \E hash \in Hashes \ {old.prev} : row = [old EXCEPT !.prev = hash]
  BY <1>3 DEF Rows
<1>4. CASE \E hash \in Hashes \ {old.hash} : row = [old EXCEPT !.hash = hash]
  BY <1>4 DEF Rows
<1> QED
  BY <1>1, <1>2, <1>3, <1>4 DEF Edited

\* The hash a new row will point to is a hash.
LEMMA LastHashType == ASSUME TypeOK, NEW table \in Tables PROVE LastHash(table) \in Hashes
<1>1. CASE rows[table] = <<>>
  BY <1>1 DEF LastHash, NoHash, Hashes
<1>2. CASE rows[table] # <<>>
  <2>1. rows[table] \in Seq(Rows)
    BY DEF TypeOK
  <2>2. rows[table][Len(rows[table])] \in Rows
    BY <1>2, <2>1
  <2> QED
    BY <1>2, <2>2 DEF LastHash, Rows
<1> QED
  BY <1>1, <1>2

\* A thread other than w is as it was, when w's call becomes c.
LEMMA OtherThreads ==
  ASSUME thread \in [Threads -> Calls], NEW w \in Threads, NEW c \in Calls,
         thread' = [thread EXCEPT ![w] = c]
  PROVE  /\ thread' \in [Threads -> Calls] /\ thread'[w] = c
         /\ \A v \in Threads \ {w} : thread'[v] = thread[v]
OBVIOUS

----------------------------------------------------------------------------
(* Types, up to the first purge.  What SelectSeq keeps of a chain is beyond  *)
(* the provers, and no theorem below speaks of a purged chain.              *)

\* An empty database has the right types.
LEMMA TypeInit == Init => TypeOK
<1> SUFFICES ASSUME Init PROVE TypeOK
  OBVIOUS
<1>1. rows \in [Tables -> Seq(Rows)]
  BY DEF Init
<1>2. thread \in [Threads -> Calls] /\ \A w \in Threads : thread[w].pc = "idle"
  BY DEF Init, Calls, Idle
<1> QED
  BY <1>1, <1>2 DEF Init, TypeOK

\* Every step but a purge keeps the types, and the lock its meaning.
LEMMA TypeStep ==
  ASSUME TypeOK, [Next]_vars
  PROVE  TypeOK' \/ purged'
<1>0. SUFFICES ASSUME ~purged' PROVE TypeOK'
  OBVIOUS
<1>1. ASSUME NEW w \in Threads, BeginTransition(w) \/ BeginProof(w) PROVE TypeOK'
  <2>1. PICK table \in Tables : thread' = [thread EXCEPT ![w] = Reading(table)]
    BY <1>1 DEF BeginTransition, BeginProof, Tables
  <2>2. Reading(table) \in Calls /\ Reading(table).pc = "read"
    BY DEF Reading, Calls
  <2>3. lock = Nobody /\ lock' = w /\ UNCHANGED <<rows, edited, purged>>
    BY <1>1 DEF BeginTransition, BeginProof, BeginTransaction
  <2> QED
    BY <2>1, <2>2, <2>3, NobodyAssumption DEF TypeOK
<1>2. ASSUME NEW w \in Threads, BeginEmit(w) PROVE TypeOK'
  <2>1. Reading("events") \in Calls /\ Reading("events").pc = "read"
    BY DEF Reading, Calls, Tables
  <2> QED
    BY <1>2, <2>1 DEF BeginEmit, TypeOK, Idle
<1>3. ASSUME NEW w \in Threads, ReadLast(w) PROVE TypeOK'
  <2>1. thread[w].pc = "read" /\ thread[w].table \in Tables
    BY <1>3 DEF ReadLast, TypeOK, Calls, Idle
  <2> DEFINE c == [pc |-> "insert", table |-> thread[w].table,
                   prev |-> LastHash(thread[w].table)]
  <2>2. c \in Calls /\ c.pc = "insert"
    BY <2>1, LastHashType DEF Calls
  <2>3. thread' = [thread EXCEPT ![w] = c] /\ UNCHANGED <<rows, lock, edited, purged>>
    BY <1>3 DEF ReadLast
  <2> HIDE DEF c
  <2> QED
    BY <2>1, <2>2, <2>3 DEF TypeOK
<1>4. ASSUME NEW w \in Threads, NEW body \in Bodies, Insert(w, body) PROVE TypeOK'
  <2>1. thread[w].pc = "insert" /\ thread[w].table \in Tables /\ thread[w].prev \in Hashes
    BY <1>4 DEF Insert, TypeOK, Calls, Idle
  <2> DEFINE row == [body |-> body, prev |-> thread[w].prev,
                     hash |-> Digest(body, thread[w].prev)]
             c == [pc |-> "commit", table |-> thread[w].table, row |-> row]
  <2>2. row \in Rows
    BY <2>1, AppendFacts DEF Rows, Digest, Hashes
  <2>3. c \in Calls /\ c.pc = "commit"
    BY <2>1, <2>2 DEF Calls
  <2>4. /\ thread' = [thread EXCEPT ![w] = c] /\ lock' = w
        /\ lock \in {Nobody, w} /\ UNCHANGED <<rows, edited, purged>>
    BY <1>4 DEF Insert, MayWrite
  <2> HIDE DEF c
  <2> QED
    BY <2>1, <2>3, <2>4, NobodyAssumption DEF TypeOK
<1>5. ASSUME NEW w \in Threads, Commit(w) PROVE TypeOK'
  <2>1. thread[w].pc = "commit" /\ thread[w].table \in Tables /\ thread[w].row \in Rows
        /\ lock = w
    BY <1>5 DEF Commit, TypeOK, Calls, Idle
  <2>2. rows' \in [Tables -> Seq(Rows)]
    BY <1>5, <2>1, AppendFacts DEF Commit, TypeOK
  <2> DEFINE c == IF thread[w].table = "transitions" THEN Reading("events") ELSE Idle
  <2>3. thread' = [thread EXCEPT ![w] = c] /\ c \in Calls /\ c.pc # "commit"
    BY <1>5 DEF Commit, Calls, Reading, Idle, Tables
  <2> HIDE DEF c
  <2>4. lock' = Nobody /\ UNCHANGED <<edited, purged>>
    BY <1>5 DEF Commit
  <2> QED
    BY <2>1, <2>2, <2>3, <2>4, NobodyAssumption DEF TypeOK
<1>6. ASSUME NEW w \in Threads, Fail(w) PROVE TypeOK'
  <2>1. Idle \in Calls /\ Idle.pc = "idle"
    BY DEF Calls, Idle
  <2> QED
    BY <1>6, <2>1, NobodyAssumption DEF Fail, TypeOK
<1>7. ASSUME NEW task \in Bodies, Purge(task) PROVE TypeOK'
  BY <1>0, <1>7 DEF Purge
<1>8. ASSUME NEW table \in Tables, NEW i \in 1 .. MaxRows, Edit(table, i)
      PROVE  TypeOK'
  <2>1. rows[table] \in Seq(Rows) /\ i \in DOMAIN rows[table]
    BY <1>8 DEF TypeOK, Edit
  <2>2. PICK row \in Edited(table, rows[table][i]) : rows' = [rows EXCEPT ![table][i] = row]
    BY <1>8 DEF Edit
  <2>3. row \in Rows
    BY <2>1, EditedType
  <2>4. rows' \in [Tables -> Seq(Rows)]
    BY <2>1, <2>2, <2>3 DEF TypeOK
  <2> QED
    BY <1>8, <2>4 DEF Edit, TypeOK
<1>9. CASE UNCHANGED vars
  BY <1>9 DEF vars, TypeOK
<1> QED
  BY <1>1, <1>2, <1>3, <1>4, <1>5, <1>6, <1>7, <1>8, <1>9 DEF Next

----------------------------------------------------------------------------
(* The chain of transitions.  Its threads hold the write lock from before    *)
(* they read the last hash until they commit, so what they read is still     *)
(* last when they append; and a row that was edited does not have the hash   *)
(* of what it says, whatever is appended after it.                          *)

OwnHash(row) == row.hash = Digest(row.body, row.prev)

Linked(log) ==
  \A i \in DOMAIN log : log[i].prev = IF i = 1 THEN NoHash ELSE log[i - 1].hash

Honest ==
  /\ \A table \in Tables \ edited : \A i \in DOMAIN rows[table] : OwnHash(rows[table][i])
  /\ \A table \in edited : \E i \in DOMAIN rows[table] : ~OwnHash(rows[table][i])
  /\ \A w \in Threads : thread[w].pc = "commit" => OwnHash(thread[w].row)

UnderLock ==
  /\ \A w \in Threads :
       thread[w].pc # "idle" /\ thread[w].table = "transitions" =>
         /\ lock = w
         /\ thread[w].pc = "insert" => thread[w].prev = LastHash("transitions")
         /\ thread[w].pc = "commit" => thread[w].row.prev = LastHash("transitions")
  /\ "transitions" \notin edited => Linked(rows["transitions"])

Inv == TypeOK /\ Honest /\ UnderLock

\* An empty database is honest, and nobody holds the write lock.
LEMMA InvInit == Init => Inv
BY TypeInit DEF Init, Inv, Honest, UnderLock, Linked, Idle, Tables

\* A committed row that names the last hash extends a linked chain.
LEMMA LinkedAppend ==
  ASSUME NEW log \in Seq(Rows), NEW row \in Rows, Linked(log),
         row.prev = IF log = <<>> THEN NoHash ELSE log[Len(log)].hash
  PROVE  Linked(Append(log, row))
<1> DEFINE new == Append(log, row)
<1>1. /\ Len(log) \in Nat /\ DOMAIN log = 1 .. Len(log) /\ DOMAIN new = 1 .. Len(log) + 1
      /\ new[Len(log) + 1] = row /\ \A i \in 1 .. Len(log) : new[i] = log[i]
      /\ log = <<>> <=> Len(log) = 0
  BY AppendFacts
<1> HIDE DEF new
<1>2. Linked(new)
  BY <1>1 DEF Linked
<1> QED
  BY <1>2 DEF new

\* A commit extends its chain, and gives the lock back.
LEMMA InvCommit ==
  ASSUME Inv, NEW w \in Threads, Commit(w)
  PROVE  Honest' /\ UnderLock'
<1> DEFINE table == thread[w].table
           row == thread[w].row
           c == IF table = "transitions" THEN Reading("events") ELSE Idle
<1>1. /\ thread[w].pc = "commit" /\ table \in Tables /\ row \in Rows
      /\ lock = w /\ lock' = Nobody /\ OwnHash(row)
  BY DEF Commit, Inv, TypeOK, Honest, Calls, Idle
<1>2. /\ rows \in [Tables -> Seq(Rows)] /\ thread \in [Threads -> Calls]
      /\ edited \subseteq Tables
      /\ rows' = [rows EXCEPT ![table] = Append(@, row)]
      /\ thread' = [thread EXCEPT ![w] = c]
      /\ UNCHANGED <<edited, purged>>
  BY DEF Commit, Inv, TypeOK
<1>3. /\ rows'[table] = Append(rows[table], row)
      /\ \A other \in Tables \ {table} : rows'[other] = rows[other]
      /\ thread'[w] = c /\ \A v \in Threads \ {w} : thread'[v] = thread[v]
  BY <1>1, <1>2
<1>4. /\ DOMAIN rows'[table] = 1 .. Len(rows[table]) + 1
      /\ DOMAIN rows[table] = 1 .. Len(rows[table]) /\ Len(rows[table]) \in Nat
      /\ rows'[table][Len(rows[table]) + 1] = row
      /\ \A i \in DOMAIN rows[table] : rows'[table][i] = rows[table][i]
  BY <1>1, <1>2, <1>3, AppendFacts
<1>5. /\ c.pc \in {"idle", "read"} /\ (c.pc = "read" => c.table = "events")
  BY DEF Reading, Idle
<1>6. \A v \in Threads \ {w} : thread[v].pc # "idle" => thread[v].table # "transitions"
                               /\ thread[v].pc # "commit"
  BY <1>1 DEF Inv, TypeOK, UnderLock
<1> HIDE DEF table, row, c
<1>7. \A x \in Tables \ edited' : \A i \in DOMAIN rows'[x] : OwnHash(rows'[x][i])
  BY <1>1, <1>2, <1>3, <1>4 DEF Inv, Honest
<1>8. \A x \in edited' : \E i \in DOMAIN rows'[x] : ~OwnHash(rows'[x][i])
  <2> SUFFICES ASSUME NEW x \in edited PROVE \E i \in DOMAIN rows'[x] : ~OwnHash(rows'[x][i])
    BY <1>2
  <2>1. PICK i \in DOMAIN rows[x] : ~OwnHash(rows[x][i])
    BY DEF Inv, Honest
  <2>2. i \in DOMAIN rows'[x] /\ rows'[x][i] = rows[x][i]
    BY <1>2, <1>3, <1>4
  <2> QED
    BY <2>1, <2>2
<1>9. Honest'
  BY <1>3, <1>5, <1>6, <1>7, <1>8 DEF Honest
<1>10. ASSUME "transitions" \notin edited' PROVE Linked(rows'["transitions"])
  <2>1. CASE table = "transitions"
    <3>1. row.prev = LastHash("transitions")
      BY <1>1, <2>1 DEF Inv, UnderLock, table, row
    <3>2. Linked(rows["transitions"]) /\ rows["transitions"] \in Seq(Rows)
      BY <1>1, <1>2, <1>10, <2>1 DEF Inv, UnderLock
    <3> QED
      BY <1>1, <1>3, <2>1, <3>1, <3>2, LinkedAppend DEF LastHash
  <2>2. CASE table # "transitions"
    BY <1>2, <1>3, <1>10, <2>2 DEF Inv, UnderLock, Tables
  <2> QED
    BY <2>1, <2>2
<1>11. UnderLock'
  BY <1>2, <1>3, <1>5, <1>6, <1>10 DEF UnderLock
<1> QED
  BY <1>9, <1>11

\* Steps that write no row: what a thread does between its first write and its
\* commit.
LEMMA InvThread ==
  ASSUME Inv, NEW w \in Threads, UNCHANGED <<rows, edited, purged>>,
         NEW c \in Calls, thread' = [thread EXCEPT ![w] = c],
         c.pc = "commit" => OwnHash(c.row),
         \A v \in Threads \ {w} :
           thread[v].pc # "idle" /\ thread[v].table = "transitions" => lock' = v,
         c.pc # "idle" /\ c.table = "transitions" =>
           /\ lock' = w
           /\ c.pc = "insert" => c.prev = LastHash("transitions")
           /\ c.pc = "commit" => c.row.prev = LastHash("transitions")
  PROVE  Honest' /\ UnderLock'
<1>1. thread'[w] = c /\ \A v \in Threads \ {w} : thread'[v] = thread[v]
  BY DEF Inv, TypeOK
<1>2. LastHash("transitions")' = LastHash("transitions")
  BY DEF LastHash
<1>3. Honest'
  BY <1>1 DEF Inv, Honest
<1>4. UnderLock'
  BY <1>1, <1>2 DEF Inv, UnderLock
<1> QED
  BY <1>3, <1>4

\* An edit outside the program leaves its row with a hash that is not its own.
LEMMA InvEdit ==
  ASSUME Inv, NEW table \in Tables, NEW i \in 1 .. MaxRows, Edit(table, i)
  PROVE  Honest' /\ UnderLock'
<1> PICK old : old = rows[table][i]
  OBVIOUS
<1>1. /\ rows \in [Tables -> Seq(Rows)] /\ rows[table] \in Seq(Rows)
      /\ i \in DOMAIN rows[table]
      /\ edited = {} /\ edited' = {table} /\ lock = Nobody
      /\ UNCHANGED <<lock, thread>>
  BY DEF Inv, TypeOK, Edit
<1>2. old \in Rows /\ OwnHash(old)
  BY <1>1 DEF Inv, Honest
<1>3. PICK row \in Edited(table, old) : rows' = [rows EXCEPT ![table][i] = row]
  BY DEF Edit
<1>4. /\ row \in Rows
      /\ \/ row.body # old.body /\ row.prev = old.prev /\ row.hash = old.hash
         \/ row.body = old.body /\ row.prev # old.prev /\ row.hash = old.hash
         \/ row.body = old.body /\ row.prev = old.prev /\ row.hash # old.hash
  BY <1>2, EditedType DEF Inv
<1>5. /\ DOMAIN rows'[table] = DOMAIN rows[table] /\ rows'[table][i] = row
      /\ \A j \in DOMAIN rows[table] \ {i} : rows'[table][j] = rows[table][j]
      /\ \A x \in Tables \ {table} : rows'[x] = rows[x]
  BY <1>1, <1>3
<1>6. ~OwnHash(row)
  BY <1>2, <1>4, DigestInjective DEF OwnHash, Rows
<1>7. \A w \in Threads : thread[w].pc # "commit" /\ ~(thread[w].pc # "idle"
                                                 /\ thread[w].table = "transitions")
  BY <1>1, NobodyAssumption DEF Inv, TypeOK, UnderLock
<1>8. Honest'
  BY <1>1, <1>5, <1>6, <1>7 DEF Inv, Honest
<1>9. "transitions" \notin edited' => Linked(rows'["transitions"])
  BY <1>1, <1>5 DEF Inv, UnderLock, Tables
<1>10. UnderLock'
  BY <1>1, <1>7, <1>9 DEF UnderLock
<1> QED
  BY <1>8, <1>10

\* Every step keeps the invariant, until a purge.
LEMMA InvStep == ASSUME Inv, [Next]_vars PROVE Inv' \/ purged'
<1>0. SUFFICES ASSUME ~purged' PROVE Honest' /\ UnderLock'
  BY TypeStep DEF Inv
<1>1. \A v \in Threads : thread[v].pc # "idle" /\ thread[v].table = "transitions" => lock = v
  BY DEF Inv, UnderLock
<1>2. ASSUME NEW w \in Threads, BeginTransition(w) \/ BeginProof(w)
      PROVE  Honest' /\ UnderLock'
  <2>1. PICK table \in Tables : thread' = [thread EXCEPT ![w] = Reading(table)]
    BY <1>2 DEF BeginTransition, BeginProof, Tables
  <2>2. Reading(table) \in Calls /\ Reading(table).pc = "read"
    BY DEF Reading, Calls
  <2>3. lock = Nobody /\ lock' = w /\ UNCHANGED <<rows, edited, purged>>
    BY <1>2 DEF BeginTransition, BeginProof, BeginTransaction
  <2> QED
    BY <1>1, <2>1, <2>2, <2>3, InvThread, NobodyAssumption
<1>3. ASSUME NEW w \in Threads, BeginEmit(w) PROVE Honest' /\ UnderLock'
  <2>1. /\ Reading("events") \in Calls /\ Reading("events").pc = "read"
        /\ Reading("events").table = "events"
    BY DEF Reading, Calls, Tables
  <2>2. thread' = [thread EXCEPT ![w] = Reading("events")]
        /\ UNCHANGED <<rows, lock, edited, purged>>
    BY <1>3 DEF BeginEmit
  <2> QED
    BY <1>1, <2>1, <2>2, InvThread
<1>4. ASSUME NEW w \in Threads, ReadLast(w) PROVE Honest' /\ UnderLock'
  <2>1. thread[w].pc = "read" /\ thread[w].table \in Tables
    BY <1>4 DEF ReadLast, Inv, TypeOK, Calls, Idle
  <2> DEFINE c == [pc |-> "insert", table |-> thread[w].table,
                   prev |-> LastHash(thread[w].table)]
  <2>2. /\ c \in Calls /\ c.pc = "insert" /\ c.table = thread[w].table
        /\ c.prev = LastHash(thread[w].table)
    BY <2>1, LastHashType DEF Calls, Inv
  <2>3. thread' = [thread EXCEPT ![w] = c] /\ UNCHANGED <<rows, lock, edited, purged>>
    BY <1>4 DEF ReadLast
  <2> HIDE DEF c
  <2> QED
    BY <1>1, <2>1, <2>2, <2>3, InvThread
<1>5. ASSUME NEW w \in Threads, NEW body \in Bodies, Insert(w, body)
      PROVE  Honest' /\ UnderLock'
  <2>1. thread[w].pc = "insert" /\ thread[w].table \in Tables /\ thread[w].prev \in Hashes
    BY <1>5 DEF Insert, Inv, TypeOK, Calls, Idle
  <2> DEFINE row == [body |-> body, prev |-> thread[w].prev,
                     hash |-> Digest(body, thread[w].prev)]
             c == [pc |-> "commit", table |-> thread[w].table, row |-> row]
  <2>2. row \in Rows /\ OwnHash(row) /\ row.prev = thread[w].prev
    BY <2>1, AppendFacts DEF Rows, Digest, Hashes, OwnHash
  <2>3. c \in Calls /\ c.pc = "commit" /\ c.table = thread[w].table /\ c.row = row
    BY <2>1, <2>2 DEF Calls
  <2>4. /\ thread' = [thread EXCEPT ![w] = c] /\ lock' = w
        /\ lock \in {Nobody, w} /\ UNCHANGED <<rows, edited, purged>>
    BY <1>5 DEF Insert, MayWrite
  <2>5. thread[w].table = "transitions" => thread[w].prev = LastHash("transitions")
    BY <2>1 DEF Inv, UnderLock
  <2> HIDE DEF c, row
  <2> QED
    BY <1>1, <2>2, <2>3, <2>4, <2>5, InvThread, NobodyAssumption
<1>6. ASSUME NEW w \in Threads, Fail(w) PROVE Honest' /\ UnderLock'
  <2>1. Idle \in Calls /\ Idle.pc = "idle"
    BY DEF Calls, Idle
  <2>2. /\ thread' = [thread EXCEPT ![w] = Idle] /\ UNCHANGED <<rows, edited, purged>>
        /\ lock' = IF lock = w THEN Nobody ELSE lock
    BY <1>6 DEF Fail
  <2> QED
    BY <1>1, <2>1, <2>2, InvThread
<1>7. ASSUME UNCHANGED vars PROVE Honest' /\ UnderLock'
  <2>1. LastHash("transitions")' = LastHash("transitions")
    BY <1>7 DEF vars, LastHash
  <2> QED
    BY <1>7, <2>1 DEF vars, Inv, Honest, UnderLock
<1>8. ASSUME NEW task \in Bodies, Purge(task) PROVE Honest' /\ UnderLock'
  BY <1>0, <1>8 DEF Purge
<1> QED
  BY <1>2, <1>3, <1>4, <1>5, <1>6, <1>7, <1>8, InvCommit, InvEdit DEF Next

\* The invariant holds until a purge.
LEMMA InvHolds == Spec => [](purged \/ Inv)
<1>1. purged /\ [Next]_vars => purged'
  BY DEF Next, vars, BeginTransition, BeginProof, BeginEmit, ReadLast, Insert, Commit,
         Fail, Purge, Edit
<1>2. (purged \/ Inv) /\ [Next]_vars => (purged \/ Inv)'
  BY <1>1, InvStep
<1> QED
  BY <1>2, InvInit, PTL DEF Spec

\* However threads interleave and calls fail, the chain of transitions verifies
\* until someone edits it or purges a project.
THEOREM TransitionsAlwaysVerify == Spec => []TransitionsVerify
<1>1. purged \/ Inv => TransitionsVerify
  <2> SUFFICES ASSUME Inv, "transitions" \notin edited PROVE Verifies("transitions")
    BY DEF TransitionsVerify
  <2> QED
    BY DEF Inv, Honest, UnderLock, Linked, OwnHash, Verifies, Tables
<1> QED
  BY <1>1, InvHolds, PTL

\* No later append makes an edited chain verify again.
THEOREM EditIsAlwaysFound == Spec => []EditIsFound
<1>1. purged \/ Inv => EditIsFound
  BY DEF EditIsFound, Inv, Honest, OwnHash, Verifies
<1> QED
  BY <1>1, InvHolds, PTL

----------------------------------------------------------------------------
(* The log of events, until someone edits it.  A thread holds no lock        *)
(* between its reading of the last event and its append, so that several may *)
(* write a row that follows the same one; each of them has read a row that   *)
(* was committed, or an empty table.                                        *)

EventLog == rows["events"]

\* A thread that has read the last event, and what its row will follow.
Appends(w) == thread[w].pc \in {"insert", "commit"} /\ thread[w].table = "events"
PrevOf(w) == IF thread[w].pc = "insert" THEN thread[w].prev ELSE thread[w].row.prev

\* Those that found the table empty, and the rows that such threads have written.
Finders == {w \in Threads : Appends(w) /\ PrevOf(w) = NoHash}
First == {i \in DOMAIN EventLog : EventLog[i].prev = NoHash}

\* Each of these rows stands for a thread of its own, which is not a finder again.
Placed ==
  \E g \in [First -> Threads \ Finders] : \A i, j \in First : g[i] = g[j] => i = j

\* What a row names as its predecessor is there, for a row of the log before it.
EventRow(row) == row \in Rows /\ row.hash # NoHash
Committed(prev) == prev = NoHash \/ \E j \in DOMAIN EventLog : EventLog[j].hash = prev
Hangs(i) ==
  /\ EventRow(EventLog[i])
  /\ EventLog[i].prev = NoHash \/ \E j \in 1 .. i - 1 : EventLog[j].hash = EventLog[i].prev

WellFormed(w) ==
  /\ thread[w].pc \in {"idle", "read", "insert", "commit"}
  /\ Appends(w) /\ thread[w].pc = "insert" => thread[w].prev \in Hashes
  /\ Appends(w) /\ thread[w].pc = "commit" => EventRow(thread[w].row)
  /\ Appends(w) => Committed(PrevOf(w))

EventInv ==
  /\ DOMAIN rows = Tables /\ EventLog \in Seq(Rows) /\ DOMAIN thread = Threads
  /\ \A i \in DOMAIN EventLog : Hangs(i)
  /\ \A w \in Threads : WellFormed(w)
  /\ Placed

----------------------------------------------------------------------------
\* A hash that a row has is never NULL.
LEMMA DigestIsHash ==
  ASSUME NEW prev \in Hashes, NEW body \in Bodies
  PROVE  Digest(body, prev) \in Hashes /\ Digest(body, prev) # NoHash
<1>1. Append(prev, body) \in Seq(Bodies) /\ Len(Append(prev, body)) = Len(prev) + 1
      /\ Len(prev) \in Nat /\ Len(<<>>) = 0
  BY AppendFacts DEF Hashes
<1>2. Append(prev, body) # <<>>
  BY <1>1
<1> QED
  BY <1>1, <1>2 DEF Digest, Hashes, NoHash

\* One thread moves and no row is added, nor another thread a finder.
LEMMA EventsStay ==
  ASSUME EventInv, NEW w \in Threads, DOMAIN thread' = Threads,
         DOMAIN rows' = Tables, EventLog' = EventLog,
         \A v \in Threads \ {w} : thread'[v] = thread[v],
         WellFormed(w)', w \in Finders' => w \in Finders
  PROVE  EventInv'
<1>1. \A v \in Threads \ {w} : /\ Appends(v)' <=> Appends(v)
                               /\ PrevOf(v)' = PrevOf(v)
                               /\ WellFormed(v)'
  BY DEF EventInv, Appends, PrevOf, WellFormed, Committed
<1>2. EventLog' = EventLog /\ First' = First
  BY DEF First
<1>3. Finders' \subseteq Finders
  BY <1>1 DEF Finders
<1>4. Placed'
  <2>1. PICK g \in [First -> Threads \ Finders] : \A i, j \in First : g[i] = g[j] => i = j
    BY DEF EventInv, Placed
  <2>2. g \in [First' -> Threads \ Finders']
    BY <1>2, <1>3, <2>1
  <2> QED
    BY <1>2, <2>1, <2>2 DEF Placed
<1>5. \A i \in DOMAIN EventLog' : Hangs(i)'
  BY <1>2 DEF EventInv, Hangs
<1> QED
  BY <1>1, <1>2, <1>4, <1>5 DEF EventInv

\* Nor do a purge, or an edit of a transition, disturb what rows follow.
LEMMA EventsKept ==
  ASSUME EventInv, thread' = thread, DOMAIN rows' = Tables, EventLog' = EventLog
  PROVE  EventInv'
<1>1. \A w \in Threads : Appends(w)' = Appends(w) /\ PrevOf(w)' = PrevOf(w)
  BY DEF Appends, PrevOf
<1>2. First' = First /\ Finders' = Finders
  BY <1>1 DEF First, Finders
<1>3. \A w \in Threads : WellFormed(w)'
  BY <1>1 DEF EventInv, WellFormed, Committed
<1>4. \A i \in DOMAIN EventLog' : Hangs(i)'
  BY DEF EventInv, Hangs
<1>5. Placed'
  BY <1>2 DEF EventInv, Placed
<1> QED
  BY <1>3, <1>4, <1>5 DEF EventInv

\* The row of a thread is appended: if it follows nothing, its thread was a finder
\* and stands for it from now on.
LEMMA EventsAppended ==
  ASSUME EventInv, NEW w \in Threads, NEW c, c.pc = "idle", Appends(w), thread[w].pc = "commit",
         thread' = [thread EXCEPT ![w] = c],
         rows' = [rows EXCEPT !["events"] = Append(EventLog, thread[w].row)]
  PROVE  EventInv'
<1> DEFINE row == thread[w].row
<1> PICK n : n = Len(EventLog) + 1
  OBVIOUS
<1>1. EventRow(row) /\ Committed(row.prev) /\ EventLog \in Seq(Rows)
  BY DEF EventInv, WellFormed, PrevOf
<1> HIDE DEF row
<1>2. EventLog' = Append(EventLog, row) /\ DOMAIN rows' = Tables
  BY DEF EventInv, EventLog, Tables, row
<1>3. /\ Len(EventLog) \in Nat /\ DOMAIN EventLog = 1 .. Len(EventLog)
      /\ DOMAIN EventLog' = DOMAIN EventLog \cup {n} /\ n \notin DOMAIN EventLog
      /\ Len(EventLog') = n /\ EventLog'[n] = row /\ EventLog' \in Seq(Rows)
      /\ \A i \in DOMAIN EventLog : EventLog'[i] = EventLog[i]
  BY <1>1, <1>2 DEF EventRow
<1>4. \A p : Committed(p) => Committed(p)'
  BY <1>3 DEF Committed
<1>6. /\ DOMAIN thread' = Threads /\ thread'[w].pc = "idle"
      /\ \A v \in Threads \ {w} : thread'[v] = thread[v]
  BY DEF EventInv
<1>7. /\ ~Appends(w)'
      /\ \A v \in Threads \ {w} : Appends(v)' = Appends(v) /\ PrevOf(v)' = PrevOf(v)
  BY <1>6 DEF Appends, PrevOf
<1>8. \A v \in Threads : WellFormed(v)'
  <2> SUFFICES ASSUME NEW v \in Threads PROVE WellFormed(v)'
    OBVIOUS
  <2>1. CASE v = w
    BY <1>6, <1>7, <2>1 DEF WellFormed
  <2>2. CASE v # w
    <3> PICK p : p = PrevOf(v)
      OBVIOUS
    <3>1. WellFormed(v) /\ (Committed(p) => Committed(p)')
      BY <1>4 DEF EventInv
    <3> QED
      BY <1>6, <1>7, <2>2, <3>1 DEF WellFormed, Committed
  <2> QED
    BY <2>1, <2>2
<1>9. \A i \in DOMAIN EventLog' : Hangs(i)'
  <2>1. ASSUME NEW i \in DOMAIN EventLog PROVE Hangs(i)'
    <3>1. \A j \in 1 .. i - 1 : j \in DOMAIN EventLog
      BY <1>3
    <3>2. Hangs(i)
      BY DEF EventInv
    <3> QED
      BY <1>3, <3>1, <3>2 DEF Hangs
  <2>2. Hangs(n)'
    <3>1. 1 .. n - 1 = DOMAIN EventLog
      BY <1>3
    <3> QED
      BY <1>1, <1>3, <3>1 DEF Hangs, Committed
  <2> QED
    BY <1>3, <2>1, <2>2
<1>10. Placed'
  <2>1. PICK g \in [First -> Threads \ Finders] : \A i, j \in First : g[i] = g[j] => i = j
    BY DEF EventInv, Placed
  <2>2. Finders' \subseteq Finders \ {w}
    BY <1>7 DEF Finders
  <2>3. CASE row.prev = NoHash
    <3>1. w \in Finders
      BY <2>3 DEF Finders, PrevOf, row
    <3>2. First' = First \cup {n} /\ n \notin First
      BY <1>3, <2>3 DEF First
    <3> DEFINE h == [i \in First' |-> IF i = n THEN w ELSE g[i]]
    <3>3. h \in [First' -> Threads \ Finders']
      BY <2>1, <2>2, <3>2
    <3>4. \A i, j \in First' : h[i] = h[j] => i = j
      BY <2>1, <3>1, <3>2
    <3> QED
      BY <3>3, <3>4 DEF Placed
  <2>4. CASE row.prev # NoHash
    <3>1. First' = First
      BY <1>3, <2>4 DEF First
    <3>2. g \in [First' -> Threads \ Finders']
      BY <2>1, <2>2, <3>1
    <3> QED
      BY <2>1, <3>1, <3>2 DEF Placed
  <2> QED
    BY <2>3, <2>4
<1> QED
  BY <1>2, <1>3, <1>6, <1>8, <1>9, <1>10 DEF EventInv

\* A thread reads the last event: it becomes a finder only where there is none.
LEMMA EventsRead ==
  ASSUME EventInv, NEW w \in Threads, ReadLast(w)
  PROVE  EventInv'
<1> DEFINE c == [pc |-> "insert", table |-> thread[w].table, prev |-> LastHash(thread[w].table)]
<1>1. /\ thread' = [thread EXCEPT ![w] = c]
      /\ rows' = rows /\ DOMAIN rows' = Tables /\ EventLog' = EventLog
  BY DEF ReadLast, EventInv, EventLog
<1>2. c.pc = "insert" /\ c.table = thread[w].table /\ c.prev = LastHash(thread[w].table)
  OBVIOUS
<1> HIDE DEF c
<1>3. /\ DOMAIN thread' = Threads /\ thread'[w] = c
      /\ \A v \in Threads \ {w} : thread'[v] = thread[v]
  BY <1>1 DEF EventInv
<1>4. CASE thread[w].table # "events"
  <2>1. ~Appends(w)'
    BY <1>2, <1>3, <1>4 DEF Appends
  <2>2. WellFormed(w)' /\ w \notin Finders'
    BY <1>2, <1>3, <2>1 DEF WellFormed, Finders
  <2> QED
    BY <1>1, <1>3, <2>2, EventsStay
<1>5. CASE thread[w].table = "events"
  <2>1. Appends(w)' /\ PrevOf(w)' = LastHash("events") /\ thread'[w].prev = LastHash("events")
    BY <1>2, <1>3, <1>5 DEF Appends, PrevOf
  <2>2. EventLog' = EventLog /\ EventLog \in Seq(Rows)
    BY <1>1 DEF EventLog, EventInv
  <2>3. CASE EventLog = <<>>
    <3>1. LastHash("events") = NoHash /\ NoHash \in Hashes
      BY <2>3 DEF LastHash, EventLog, NoHash, Hashes
    <3>2. WellFormed(w)'
      BY <1>2, <1>3, <2>1, <3>1 DEF WellFormed, Committed
    <3>3. \A v \in Threads \ {w} : WellFormed(v)'
      BY <1>1, <1>3 DEF EventInv, WellFormed, Appends, PrevOf, Committed, EventLog
    <3>4. First' = {} /\ DOMAIN EventLog' = {}
      BY <2>2, <2>3 DEF First
    <3>5. Placed'
      <4>1. [i \in {} |-> w] \in [{} -> Threads \ Finders']
        OBVIOUS
      <4> QED
        BY <3>4, <4>1 DEF Placed
    <3> QED
      BY <1>1, <1>3, <2>2, <3>2, <3>3, <3>4, <3>5 DEF EventInv
  <2>4. CASE EventLog # <<>>
    <3> DEFINE n == Len(EventLog)
    <3>1. n \in DOMAIN EventLog /\ n \in 1 .. n
      BY <2>2, <2>4
    <3>2. LastHash("events") = EventLog[n].hash
      BY <2>4 DEF LastHash, EventLog
    <3>3. EventRow(EventLog[n])
      BY <3>1 DEF EventInv, Hangs
    <3> HIDE DEF n
    <3>4. LastHash("events") \in Hashes /\ LastHash("events") # NoHash
      BY <3>2, <3>3 DEF EventRow, Rows
    <3> PICK p : p = LastHash("events")
      OBVIOUS
    <3>5. Committed(p)'
      BY <2>2, <3>1, <3>2 DEF Committed
    <3>6. WellFormed(w)' /\ w \notin Finders'
      BY <1>2, <1>3, <2>1, <3>4, <3>5 DEF WellFormed, Finders, Committed
    <3> QED
      BY <1>1, <1>3, <3>6, EventsStay
  <2> QED
    BY <2>3, <2>4
<1> QED
  BY <1>4, <1>5

\* Writing the row keeps what it follows.
LEMMA EventsInserted ==
  ASSUME EventInv, NEW w \in Threads, NEW body \in Bodies, Insert(w, body)
  PROVE  EventInv'
<1> DEFINE row == [body |-> body, prev |-> thread[w].prev, hash |-> Digest(body, thread[w].prev)]
           c == [pc |-> "commit", table |-> thread[w].table, row |-> row]
<1>1. /\ thread[w].pc = "insert" /\ thread' = [thread EXCEPT ![w] = c]
      /\ rows' = rows /\ DOMAIN rows' = Tables /\ EventLog' = EventLog
  BY DEF Insert, EventInv, EventLog
<1>2. c.pc = "commit" /\ c.table = thread[w].table /\ c.row = row /\ row.prev = thread[w].prev
  OBVIOUS
<1>3. thread[w].prev \in Hashes => EventRow(row)
  BY DigestIsHash DEF EventRow, Rows
<1> HIDE DEF c, row
<1>4. /\ DOMAIN thread' = Threads /\ thread'[w] = c
      /\ \A v \in Threads \ {w} : thread'[v] = thread[v]
  BY <1>1 DEF EventInv
<1>5. Appends(w)' = Appends(w) /\ PrevOf(w)' = PrevOf(w)
  BY <1>1, <1>2, <1>4 DEF Appends, PrevOf
<1>6. WellFormed(w)'
  <2>1. WellFormed(w) /\ EventLog' = EventLog
    BY <1>1 DEF EventInv, EventLog
  <2> QED
    BY <1>1, <1>2, <1>3, <1>4, <1>5, <2>1 DEF WellFormed, Committed
<1>7. w \in Finders' => w \in Finders
  BY <1>5 DEF Finders
<1> QED
  BY <1>1, <1>4, <1>6, <1>7, EventsStay

\* Every step of every thread and every purge keeps it, and so does every edit but
\* that of an event.
LEMMA EventInvStep ==
  ASSUME EventInv, [Next]_vars
  PROVE  EventInv' \/ "events" \in edited'
<1>1. ASSUME NEW w \in Threads, NEW c, c.pc = "idle" \/ c.pc = "read",
             thread' = [thread EXCEPT ![w] = c], DOMAIN rows' = Tables, EventLog' = EventLog
      PROVE  EventInv'
  <2>1. /\ DOMAIN thread' = Threads /\ thread'[w] = c
        /\ \A v \in Threads \ {w} : thread'[v] = thread[v]
    BY <1>1 DEF EventInv
  <2>2. ~Appends(w)'
    BY <1>1, <2>1 DEF Appends
  <2>3. WellFormed(w)' /\ w \notin Finders'
    BY <1>1, <2>1, <2>2 DEF WellFormed, Finders
  <2> QED
    BY <1>1, <2>1, <2>3, EventsStay
<1>2. ASSUME NEW w \in Threads, BeginTransition(w) \/ BeginProof(w) \/ BeginEmit(w) \/ Fail(w)
      PROVE  EventInv'
  <2>1. Idle.pc = "idle" /\ \A table \in Tables : Reading(table).pc = "read"
    BY DEF Idle, Reading
  <2>2. DOMAIN rows' = Tables /\ EventLog' = EventLog
    BY <1>2 DEF BeginTransition, BeginProof, BeginEmit, Fail, EventInv, EventLog
  <2> QED
    BY <1>1, <1>2, <2>1, <2>2 DEF BeginTransition, BeginProof, BeginEmit, Fail, Tables
<1>3. ASSUME NEW w \in Threads, Commit(w) PROVE EventInv'
  <2> DEFINE table == thread[w].table
             c == IF table = "transitions" THEN Reading("events") ELSE Idle
  <2>1. /\ thread[w].pc = "commit" /\ thread' = [thread EXCEPT ![w] = c]
        /\ rows' = [rows EXCEPT ![table] = Append(rows[table], thread[w].row)]
    BY <1>3 DEF Commit
  <2>2. /\ table = "transitions" => c.pc = "read"
        /\ table # "transitions" => c.pc = "idle"
    BY DEF Reading, Idle
  <2> HIDE DEF c
  <2>3. CASE table = "events"
    <3>1. Appends(w)
      BY <2>1, <2>3 DEF Appends
    <3> QED
      BY <2>1, <2>2, <2>3, <3>1, EventsAppended DEF EventLog
  <2>4. CASE table # "events"
    <3>1. DOMAIN rows' = Tables /\ EventLog' = EventLog
      BY <2>1, <2>4 DEF EventInv, EventLog, Tables
    <3> QED
      BY <1>1, <2>1, <2>2, <3>1
  <2> QED
    BY <2>3, <2>4
<1>4. ASSUME NEW task \in Bodies, Purge(task) PROVE EventInv'
  <2>1. DOMAIN rows' = Tables /\ EventLog' = EventLog /\ thread' = thread
    BY <1>4 DEF Purge, EventInv, EventLog, Tables
  <2> QED
    BY <2>1, EventsKept DEF EventInv
<1>5. ASSUME NEW table \in Tables, NEW i \in 1 .. MaxRows, Edit(table, i)
      PROVE  EventInv' \/ "events" \in edited'
  <2>1. CASE table = "events"
    BY <1>5, <2>1 DEF Edit
  <2>2. CASE table # "events"
    <3>1. DOMAIN rows' = Tables /\ EventLog' = EventLog /\ thread' = thread
      BY <1>5, <2>2 DEF Edit, EventInv, EventLog, Tables
    <3> QED
      BY <3>1, EventsKept
  <2> QED
    BY <2>1, <2>2
<1>6. CASE UNCHANGED vars
  <2>1. rows' = rows /\ thread' = thread /\ EventLog' = EventLog
    BY <1>6 DEF vars, EventLog
  <2> QED
    BY <2>1, EventsKept DEF EventInv
<1> QED
  BY <1>2, <1>3, <1>4, <1>5, <1>6, EventsRead, EventsInserted DEF Next

\* However many threads race, and whatever is rolled back or purged: each event follows
\* an earlier one of the table, but for at most as many as there are threads, which
\* follow none; as long as nobody edits an event.
THEOREM EventsAlwaysHangTogether ==
  ASSUME IsFiniteSet(Threads) PROVE Spec => []EventsHangTogether
<1>1. Init => EventInv
  <2> SUFFICES ASSUME Init PROVE EventInv
    OBVIOUS
  <2>1. /\ DOMAIN rows = Tables /\ EventLog = <<>> /\ DOMAIN thread = Threads
        /\ \A w \in Threads : thread[w].pc = "idle"
    BY DEF Init, EventLog, Tables, Idle
  <2>2. \A w \in Threads : WellFormed(w)
    BY <2>1 DEF WellFormed, Appends
  <2>3. First = {} /\ [i \in {} |-> i] \in [{} -> Threads \ Finders]
    BY <2>1 DEF First
  <2>4. Placed
    BY <2>3 DEF Placed
  <2> QED
    BY <2>1, <2>2, <2>4 DEF EventInv
<1> DEFINE Unedited == "events" \notin edited
<1>2. (~Unedited \/ EventInv) /\ [Next]_vars => (~Unedited \/ EventInv)'
  <2>1. ~Unedited /\ [Next]_vars => ~Unedited'
    BY DEF Next, vars, BeginTransition, BeginProof, BeginEmit, ReadLast, Insert, Commit,
           Fail, Purge, Edit
  <2> QED
    BY <2>1, EventInvStep
<1>3. ASSUME EventInv PROVE EventsHangTogether
  <2>1. Cardinality(First) <= Cardinality(Threads)
    <3>1. PICK g \in [First -> Threads \ Finders] : \A i, j \in First : g[i] = g[j] => i = j
      BY <1>3 DEF EventInv, Placed
    <3>2. g \in Injection(First, Threads)
      BY <3>1 DEF Injection, IsInjective
    <3> QED
      BY <3>2, FS_Injection
  <2>2. \A i \in DOMAIN EventLog \ First : EventLog[i].prev \in EarlierHashes("events", i)
    BY <1>3 DEF EventInv, Hangs, First, EarlierHashes, EventLog
  <2> QED
    BY <2>1, <2>2 DEF EventsHangTogether, First, EventLog
<1>4. ~Unedited => EventsHangTogether
  BY DEF EventsHangTogether
<1> QED
  BY <1>1, <1>2, <1>3, <1>4, PTL DEF Spec

=============================================================================
