----------------------------- MODULE TaskService -----------------------------
(***************************************************************************)
(* The calls of TaskFlow as the services execute them: one SELECT after     *)
(* another outside any transaction, then one transaction that writes what   *)
(* the reads led to, then another that appends the event, then for some     *)
(* calls one that adds a notification.                                      *)
(*                                                                         *)
(* A worker is a thread that runs service calls: the event loop, which runs *)
(* each REST handler's call without yielding, or a thread of the pool that  *)
(* runs the synchronous MCP tools.  With one worker this implements         *)
(* TaskFlow; with two the reads of one interleave with the writes of the    *)
(* other.  The process may stop between any two steps; what was committed   *)
(* stays.                                                                  *)
(***************************************************************************)
EXTENDS StateMachine, Naturals, Sequences, FiniteSets

CONSTANTS
  Tasks, Todos, Proofs, Questions, MaxVersion,   \* as in TaskFlow
  Workers,
  MaxCrashes                                     \* bounds the restarts

ASSUME BoundAssumption == MaxVersion \in Nat

VARIABLES
  task, revisions, transitions, todos, proofs, questions, seen,  \* TaskFlow's
  events,         \* the event log: verb and task, and for transitions from, to
  notifications,  \* rows of the human attention queue
  call,           \* what each worker is executing
  crashes

tables == <<task, revisions, transitions, todos, proofs, questions>>
vars == <<task, revisions, transitions, todos, proofs, questions, seen, events,
          notifications, call, crashes>>

\* The atomic calls, on the same tables: only what is in progress is hidden.
Flow == INSTANCE TaskFlow WITH
  task <- task, revisions <- revisions, transitions <- transitions, todos <- todos,
  proofs <- proofs, questions <- questions, seen <- seen

----------------------------------------------------------------------------
(* A call in progress: what is left to check (guards: the objects whose     *)
(* open questions are still to be looked for), the row it loaded, and the   *)
(* event it will announce.                                                 *)

Idle == [pc |-> "idle"]

Event(verb, t, from, to) == [verb |-> verb, task |-> t, from |-> from, to |-> to]
Announce(verb, t) == Event(verb, t, NoState, NoState)

\* Worker w starts a call: its first reads have passed.
Start(w, c) ==
  /\ call[w] = Idle
  /\ call' = [call EXCEPT ![w] = c]
  /\ UNCHANGED <<tables, seen, events, notifications, crashes>>

\* statemachine.transition up to the freeze check.  A clanker asking for what
\* only humans may is refused, which is announced.
LoadTransition(w, t, to, actor, note, versioned) ==
  LET row == task[t] IN
  /\ Flow!FreshTask(t, versioned)
  /\ to \in TRANSITIONS[row.state]
  /\ IF IsHumanOnly(row.state, to) /\ actor # "human"
     THEN Start(w, [pc |-> "emit",
                    event |-> Event("task.transition_denied", t, row.state, to)])
     ELSE Start(w, [pc |-> "guards", op |-> "transition", guards |-> <<t>>,
                    t |-> t, to |-> to, actor |-> actor, note |-> note,
                    versioned |-> versioned, row |-> row])

\* objects.edit_task
LoadEdit(w, t, fields, actor, versioned) ==
  /\ Flow!FreshTask(t, versioned)
  /\ "body" \in fields =>
       ~(actor # "human" /\ task[t].state \in BodyFrozenForAgents)
  /\ "waiver" \in fields => actor = "human"
  /\ Start(w, [pc |-> "guards", op |-> "edit", guards |-> <<t>>, t |-> t,
               fields |-> fields, actor |-> actor, versioned |-> versioned,
               row |-> task[t]])

\* objects.add_todo, tick_todo, trash_todo
LoadAddTodo(w, t, d) ==
  Start(w, [pc |-> "guards", op |-> "add_todo", guards |-> <<t>>, t |-> t, d |-> d])
LoadTickTodo(w, d, done, versioned) ==
  /\ d \in DOMAIN todos /\ ~todos[d].trashed
  /\ Flow!FreshTodo(d, versioned)
  /\ Start(w, [pc |-> "guards", op |-> "tick", guards |-> <<todos[d].task, d>>,
               t |-> todos[d].task, d |-> d, done |-> done])
LoadTrashTodo(w, d, actor) ==
  /\ d \in DOMAIN todos /\ ~todos[d].trashed
  /\ actor = "human"
  /\ Start(w, [pc |-> "guards", op |-> "trash_todo",
               guards |-> <<todos[d].task, d>>, t |-> todos[d].task, d |-> d])

\* proofs.add_proof, trash_proof
LoadAddProof(w, t, p, gate) ==
  Start(w, [pc |-> "guards", op |-> "add_proof", guards |-> <<t>>, t |-> t,
            p |-> p, gate |-> gate])
LoadTrashProof(w, p, actor) ==
  /\ p \in DOMAIN proofs /\ ~proofs[p].trashed
  /\ actor = "human"
  /\ Start(w, [pc |-> "commit", op |-> "trash_proof", t |-> proofs[p].task, p |-> p])

\* questions.ask, and answer / withdraw
LoadAsk(w, q, obj) ==
  /\ obj \in Tasks \cup DOMAIN todos
  /\ Start(w, [pc |-> "commit", op |-> "ask", q |-> q, obj |-> obj])
LoadResolve(w, q) ==
  /\ q \in DOMAIN questions /\ questions[q].open
  /\ Start(w, [pc |-> "commit", op |-> "resolve", q |-> q])

Load(w) ==
  \/ \E t \in Tasks, to \in Requests, actor \in Kinds, note, v \in BOOLEAN :
       LoadTransition(w, t, to, actor, note, v)
  \/ \E t \in Tasks, fields \in (SUBSET {"body", "waiver", "columns"}) \ {{}},
       actor \in Kinds, v \in BOOLEAN : LoadEdit(w, t, fields, actor, v)
  \/ \E t \in Tasks, d \in Todos : LoadAddTodo(w, t, d)
  \/ \E d \in Todos, done, v \in BOOLEAN : LoadTickTodo(w, d, done, v)
  \/ \E d \in Todos, actor \in Kinds : LoadTrashTodo(w, d, actor)
  \/ \E t \in Tasks, p \in Proofs, gate \in BOOLEAN : LoadAddProof(w, t, p, gate)
  \/ \E p \in Proofs, actor \in Kinds : LoadTrashProof(w, p, actor)
  \/ \E q \in Questions, obj \in Tasks \cup Todos : LoadAsk(w, q, obj)
  \/ \E q \in Questions : LoadResolve(w, q)

----------------------------------------------------------------------------
(* The checks that read other rows                                          *)

\* One _guard_freeze: refuse, or go on to the next one.
AfterGuard_Unread(c) == [c EXCEPT !.guards = Tail(@)]
AfterGuard(c) ==
  IF Flow!GuardFreeze(Head(c.guards)) THEN [c EXCEPT !.guards = Tail(@)] ELSE Idle

CheckFreeze(w) ==
  /\ call[w].pc = "guards" /\ call[w].guards # <<>>
  /\ call' = [call EXCEPT ![w] = AfterGuard(@)]
  /\ UNCHANGED <<tables, seen, events, notifications, crashes>>

TargetOf(c) == Target(c.row.state, c.row.previous_state, c.to)

\* _proof_ok and _todos_outstanding; the waiver is the loaded row's.
GateOpen(c) ==
  /\ c.row.state = "building" /\ TargetOf(c) = "review" =>
       c.row.proof_waived \/ Flow!ProofOK(c.t)
  /\ c.row.state = "review" /\ TargetOf(c) = "done" =>
       c.note \/ ~Flow!TodosOutstanding(c.t)

CheckGate(w) ==
  /\ call[w].pc = "guards" /\ call[w].guards = <<>>
  /\ call' = [call EXCEPT ![w] = IF @.op = "transition" /\ ~GateOpen(@) THEN Idle
                                 ELSE [@ EXCEPT !.pc = "commit"]]
  /\ UNCHANGED <<tables, seen, events, notifications, crashes>>

----------------------------------------------------------------------------
(* The transactions.  What a transition writes comes from the loaded row,   *)
(* except the version, which SQL adds to.                                   *)

NextVersion_FromRow(c, n) == IF c.op \in {"transition", "edit"} THEN c.row.version + 1
                             ELSE n + 1
NextVersion(c, n) == n + 1

Bump(c) == task' = [task EXCEPT ![c.t].version = NextVersion(c, @)]

\* After the commit: the event is announced next, by Emit.
Committed(w, event) ==
  /\ call' = [call EXCEPT ![w] = [pc |-> "emit", event |-> event]]
  /\ UNCHANGED <<seen, events, notifications, crashes>>

MoveEvent_Requested(c) == Event("task.transitioned", c.t, c.row.state, c.to)
MoveEvent(c) == Event("task.transitioned", c.t, c.row.state, TargetOf(c))

CommitTransition(w, c) ==
  LET target == TargetOf(c) IN
  /\ c.op = "transition"
  /\ task' = [task EXCEPT
       ![c.t].state = target,
       ![c.t].previous_state = PreviousState(c.row.state, target),
       ![c.t].version = NextVersion(c, @)]
  /\ transitions' = [transitions EXCEPT
       ![c.t] = Append(@, Flow!LogEntry(c.row.state, target, c.actor))]
  /\ Committed(w, MoveEvent(c))
  /\ UNCHANGED <<revisions, todos, proofs, questions>>

CommitEdit(w, c) ==
  /\ c.op = "edit"
  /\ task' = [task EXCEPT
       ![c.t].proof_waived = IF "waiver" \in c.fields THEN ~c.row.proof_waived ELSE @,
       ![c.t].version = NextVersion(c, @)]
  /\ revisions' = IF "body" \in c.fields
                   THEN [revisions EXCEPT ![c.t] = Append(@, c.actor)] ELSE revisions
  /\ Committed(w, Announce("task.edited", c.t))
  /\ UNCHANGED <<transitions, todos, proofs, questions>>

CommitTodo(w, c) ==
  /\ \/ /\ c.op = "add_todo" /\ c.d \notin DOMAIN todos
        /\ todos' = Flow!Put(todos, c.d, [task |-> c.t, done |-> FALSE,
                                          trashed |-> FALSE, version |-> 1])
     \/ /\ c.op = "tick"
        /\ todos' = [todos EXCEPT ![c.d].done = c.done, ![c.d].version = @ + 1]
     \/ /\ c.op = "trash_todo"
        /\ todos' = [todos EXCEPT ![c.d].trashed = TRUE]
  /\ Bump(c)
  /\ Committed(w, Announce("todo", c.t))
  /\ UNCHANGED <<revisions, transitions, proofs, questions>>

\* The event of a proof is appended inside the proof's own transaction.
CommitProof(w, c) ==
  /\ \/ /\ c.op = "add_proof" /\ c.p \notin DOMAIN proofs
        /\ proofs' = Flow!Put(proofs, c.p, [task |-> c.t, gate |-> c.gate,
                                            trashed |-> FALSE])
     \/ /\ c.op = "trash_proof"
        /\ proofs' = [proofs EXCEPT ![c.p].trashed = TRUE]
  /\ events' = Append(events, Announce("proof", c.t))
  /\ call' = [call EXCEPT ![w] = Idle]
  /\ UNCHANGED <<task, revisions, transitions, todos, questions, seen,
                 notifications, crashes>>

CommitQuestion(w, c) ==
  /\ \/ /\ c.op = "ask" /\ c.q \notin DOMAIN questions
        /\ questions' = Flow!Put(questions, c.q, [on |-> c.obj, open |-> TRUE])
     \/ /\ c.op = "resolve"
        /\ questions' = [questions EXCEPT ![c.q].open = FALSE]
  /\ Committed(w, Announce("question", NoState))
  /\ UNCHANGED <<task, revisions, transitions, todos, proofs>>

\* Ids that are in the table by now are another call's: the database gives this
\* one the next.  The last conjunct is the model's bound on writes.
Commit(w) ==
  LET c == call[w] IN
  /\ c.pc = "commit"
  /\ \/ CommitTransition(w, c) \/ CommitEdit(w, c) \/ CommitTodo(w, c)
     \/ CommitProof(w, c) \/ CommitQuestion(w, c)
  /\ \A t \in Tasks : task'[t].version <= MaxVersion

----------------------------------------------------------------------------
(* events.emit and notify.notify                                            *)

NeedsAttention_Leaving(e) == e.verb = "task.transitioned" /\ e.from \in {"proposed", "review"}
NeedsAttention(e) == e.verb = "task.transitioned" /\ e.to \in {"proposed", "review"}

AfterEmit(e) == IF NeedsAttention(e) THEN [pc |-> "notify", event |-> e] ELSE Idle

Emit(w) ==
  /\ call[w].pc = "emit"
  /\ events' = Append(events, call[w].event)
  /\ call' = [call EXCEPT ![w] = AfterEmit(@.event)]
  /\ UNCHANGED <<tables, seen, notifications, crashes>>

Notify(w) ==
  /\ call[w].pc = "notify"
  /\ notifications' = Append(notifications,
       [task |-> call[w].event.task, state |-> call[w].event.to])
  /\ call' = [call EXCEPT ![w] = Idle]
  /\ UNCHANGED <<tables, seen, events, crashes>>

----------------------------------------------------------------------------
\* The process stops and is started again on the same database.
Crash ==
  /\ crashes < MaxCrashes
  /\ crashes' = crashes + 1
  /\ call' = [w \in Workers |-> Idle]
  /\ UNCHANGED <<tables, seen, events, notifications>>

ReadTask(t) ==
  /\ Flow!ReadTask(t)
  /\ UNCHANGED <<events, notifications, call, crashes>>

Init ==
  /\ Flow!Init
  /\ events = <<>> /\ notifications = <<>>
  /\ call = [w \in Workers |-> Idle]
  /\ crashes = 0

Step(w) == CheckFreeze(w) \/ CheckGate(w) \/ Commit(w) \/ Emit(w) \/ Notify(w)

Next ==
  \/ \E w \in Workers : Load(w) \/ Step(w)
  \/ \E t \in Tasks : ReadTask(t)
  \/ Crash

Spec == Init /\ [][Next]_vars

----------------------------------------------------------------------------
(* Properties *)

\* One worker: whatever the crashes, every call either does what its atomic
\* action of TaskFlow does, when it commits, or changes nothing.
ImplementsTaskFlow == Flow!Spec

\* Where the transitions of a task are announced, and who is about to announce one.
Announced(t) ==
  {i \in DOMAIN events : events[i].verb = "task.transitioned" /\ events[i].task = t}
Announcing(t) ==
  {w \in Workers : call[w].pc = "emit" /\ call[w].event.task = t
                   /\ call[w].event.verb = "task.transitioned"}

\* The events of a task's transitions are its log, in the same order, but for
\* those being announced right now and at most one for every crash.
Tells(e, entry) == e.from = entry.from /\ e.to = entry.to
EventsFollowLog ==
  \A t \in Tasks :
    /\ \E f \in [Announced(t) -> DOMAIN transitions[t]] :
         /\ \A i \in Announced(t) : Tells(events[i], transitions[t][f[i]])
         /\ \A i, j \in Announced(t) : i < j => f[i] < f[j]
    /\ Len(transitions[t]) - Cardinality(Announced(t))
         <= crashes + Cardinality(Announcing(t))

\* Every announced arrival in proposed or review, and nothing else, has called
\* for a human's attention, but for those doing it right now and at most one
\* for every crash.
AttentionIsRaised ==
  \A t \in Tasks, state \in States :
    LET arrivals == {i \in DOMAIN events : /\ events[i].verb = "task.transitioned"
                                           /\ events[i].task = t
                                           /\ events[i].to = state
                                           /\ state \in {"proposed", "review"}}
        raised == {i \in DOMAIN notifications :
                     notifications[i] = [task |-> t, state |-> state]}
        raising == {w \in Workers : call[w].pc = "notify"}
    IN /\ Cardinality(raised) <= Cardinality(arrivals)
       /\ Cardinality(arrivals) <=
            Cardinality(raised) + Cardinality(raising) + crashes

\* Whatever the interleaving, tasks.version is one more than the number of
\* committed writes of the task and its checklist: two writers that started from
\* the same version leave it two further, so that no later reader is misled.
VersionCountsWrites ==
  crashes = 0 => \A t \in Tasks :
    LET writes == {"task.transitioned", "task.edited", "todo"}
        announced == {i \in DOMAIN events : events[i].task = t /\ events[i].verb \in writes}
        pending == {w \in Workers : call[w].pc = "emit" /\ call[w].event.task = t
                                    /\ call[w].event.verb \in writes}
    IN task[t].version - 1 = Cardinality(announced) + Cardinality(pending)

\* Whatever the interleaving, the last entry of a task's log says which state
\* its row is in and, if it is settled, where it came from: row and log are
\* written by one transaction.
RowAgreesWithLog ==
  \A t \in Tasks : transitions[t] # <<>> =>
    LET last == transitions[t][Len(transitions[t])] IN
      /\ task[t].state = last.to
      /\ task[t].previous_state = IF last.to \in Settled THEN last.from ELSE NoState
=============================================================================
