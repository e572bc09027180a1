------------------------------ MODULE TaskFlow ------------------------------
(***************************************************************************)
(* The workflow of tasks, one action per service call: statemachine        *)
(* .transition, objects.edit_task / add_todo / tick_todo / trash_todo,     *)
(* proofs.add_proof / trash_proof, and the asking and resolving of the     *)
(* questions that freeze a task or a todo.  A call is atomic here, as it   *)
(* is for the handlers of one event loop; TaskService splits the same calls *)
(* at their reads, commits and events and is shown to implement this.      *)
(*                                                                         *)
(* A table is a function from the ids of its rows to the rows.  All tasks  *)
(* belong to one project that stays unarchived, and exist from the start.  *)
(***************************************************************************)
EXTENDS StateMachine, Naturals, Sequences

CONSTANTS
  Tasks, Todos, Proofs, Questions,   \* row ids of the four tables
  MaxVersion                         \* bounds the number of writes to a task

ASSUME MaxVersionAssumption == MaxVersion \in Nat

VARIABLES
  task,         \* tasks: state, previous_state, proof_waived, version
  revisions,    \* task_revisions: who wrote each new body, per task
  transitions,  \* the transition log, per task in id order
  todos, proofs, questions,
  seen          \* what a client last read of a task, with its version

vars == <<task, revisions, transitions, todos, proofs, questions, seen>>

TaskRow == [state : States, previous_state : States \cup {NoState},
            proof_waived : BOOLEAN, version : Nat]
LogRow == [from : States, to : States, actor : Kinds]
TodoRow == [task : Tasks, done : BOOLEAN, trashed : BOOLEAN, version : Nat]
ProofRow == [task : Tasks, gate : BOOLEAN, trashed : BOOLEAN]
QuestionRow == [on : Tasks \cup Todos, open : BOOLEAN]

EmptyTable == [x \in {} |-> x]

\* f with the row r inserted or replaced under id k.
Put(f, k, r) == [x \in DOMAIN f \cup {k} |-> IF x = k THEN r ELSE f[x]]

----------------------------------------------------------------------------
(* Reads *)

\* open_questions_on(conn, attach_type, attach_id) # []
Frozen(obj) ==
  \E q \in DOMAIN questions :
    questions[q].on = obj /\ questions[q].open

\* _guard_freeze: nobody changes what an open question is attached to.
GuardFreeze_Skipped(obj) == TRUE
GuardFreeze(obj) == ~Frozen(obj)

\* _proof_ok: waived, or a live proof of kind mr or pr.
ProofOK(t) ==
  \/ task[t].proof_waived
  \/ \E p \in DOMAIN proofs :
       proofs[p].task = t /\ proofs[p].gate /\ ~proofs[p].trashed

\* _todos_outstanding # 0
TodosOutstanding(t) ==
  \E d \in DOMAIN todos :
    todos[d].task = t /\ ~todos[d].done /\ ~todos[d].trashed

\* What GET /api/tasks/{id} returns of the task and its checklist.
Snapshot(t) ==
  [row |-> task[t], revisions |-> revisions[t],
   todos |-> [d \in {x \in DOMAIN todos : todos[x].task = t} |-> todos[d]]]

\* A call that names no version, or the version its client read.
FreshTask(t, versioned) ==
  versioned => t \in DOMAIN seen /\ seen[t].row.version = task[t].version
FreshTodo(d, versioned) ==
  versioned => /\ todos[d].task \in DOMAIN seen
               /\ d \in DOMAIN seen[todos[d].task].todos
               /\ seen[todos[d].task].todos[d].version = todos[d].version

----------------------------------------------------------------------------
Init ==
  /\ task = [t \in Tasks |-> [state |-> "idea", previous_state |-> NoState,
                              proof_waived |-> FALSE, version |-> 1]]
  /\ revisions = [t \in Tasks |-> <<>>]
  /\ transitions = [t \in Tasks |-> <<>>]
  /\ todos = EmptyTable /\ proofs = EmptyTable /\ questions = EmptyTable
  /\ seen = EmptyTable

\* Every write to a task or to its checklist adds one to tasks.version.
NextVersion_Forgotten(n) == n
NextVersion(n) == n + 1

\* The model's bound: MaxVersion - 1 writes per task.
CanBump(t) == task[t].version < MaxVersion

----------------------------------------------------------------------------
(* statemachine.transition *)

\* The row of the transition log.
LogEntry_AfterUpdate(from, to, actor) == [from |-> to, to |-> to, actor |-> actor]
LogEntry(from, to, actor) == [from |-> from, to |-> to, actor |-> actor]

\* building -> review needs a proof or a waiver, review -> done a checklist
\* without open items or a note.
GateOpen(t, target, note) ==
  /\ task[t].state = "building" /\ target = "review" => ProofOK(t)
  /\ task[t].state = "review" /\ target = "done" => note \/ ~TodosOutstanding(t)

Transition(t, to, actor, note, versioned) ==
  LET row == task[t]
      target == Target(row.state, row.previous_state, to)
  IN /\ CanBump(t)
     /\ FreshTask(t, versioned)
     /\ to \in TRANSITIONS[row.state]
     /\ IsHumanOnly(row.state, to) => actor = "human"
     /\ GuardFreeze(t)
     /\ GateOpen(t, target, note)
     /\ task' = [task EXCEPT
          ![t].state = target,
          ![t].previous_state = PreviousState(row.state, target),
          ![t].version = NextVersion(@)]
     /\ transitions' = [transitions EXCEPT ![t] = Append(@,
          LogEntry(row.state, target, actor))]
     /\ UNCHANGED <<revisions, todos, proofs, questions, seen>>

----------------------------------------------------------------------------
(* objects.edit_task, with the kinds of fields that differ in their guards: *)
(* the body, the proof waiver, and the other columns.                       *)

EditTask(t, fields, actor, versioned) ==
  /\ CanBump(t)
  /\ FreshTask(t, versioned)
  /\ GuardFreeze(t)
  /\ "body" \in fields =>
       ~(actor # "human" /\ task[t].state \in BodyFrozenForAgents)
  /\ "waiver" \in fields => actor = "human"
  /\ task' = [task EXCEPT
       ![t].proof_waived = IF "waiver" \in fields THEN ~@ ELSE @,
       ![t].version = NextVersion(@)]
  /\ revisions' = IF "body" \in fields
                   THEN [revisions EXCEPT ![t] = Append(@, actor)]
                   ELSE revisions
  /\ UNCHANGED <<transitions, todos, proofs, questions, seen>>

(* objects.add_todo, tick_todo, trash_todo *)

AddTodo(t, d) ==
  /\ CanBump(t)
  /\ d \notin DOMAIN todos
  /\ GuardFreeze(t)
  /\ todos' = Put(todos, d, [task |-> t, done |-> FALSE, trashed |-> FALSE,
                             version |-> 1])
  /\ task' = [task EXCEPT ![t].version = NextVersion(@)]
  /\ UNCHANGED <<revisions, transitions, proofs, questions, seen>>

TickTodo(d, done, versioned) ==
  /\ d \in DOMAIN todos /\ ~todos[d].trashed
  /\ FreshTodo(d, versioned)
  /\ GuardFreeze(todos[d].task) /\ GuardFreeze(d)
  /\ CanBump(todos[d].task)
  /\ todos' = [todos EXCEPT ![d].done = done, ![d].version = @ + 1]
  /\ task' = [task EXCEPT ![todos[d].task].version = NextVersion(@)]
  /\ UNCHANGED <<revisions, transitions, proofs, questions, seen>>

TrashTodo(d, actor) ==
  /\ d \in DOMAIN todos /\ ~todos[d].trashed
  /\ actor = "human"
  /\ GuardFreeze(todos[d].task) /\ GuardFreeze(d)
  /\ CanBump(todos[d].task)
  /\ todos' = [todos EXCEPT ![d].trashed = TRUE]
  /\ task' = [task EXCEPT ![todos[d].task].version = NextVersion(@)]
  /\ UNCHANGED <<revisions, transitions, proofs, questions, seen>>

----------------------------------------------------------------------------
(* proofs.add_proof and trash_proof.  "gate": the link is an MR or PR.      *)
(* Neither touches tasks.version, and trash_proof does not look at          *)
(* questions.                                                               *)

AddProof(t, p, gate) ==
  /\ p \notin DOMAIN proofs
  /\ GuardFreeze(t)
  /\ proofs' = Put(proofs, p, [task |-> t, gate |-> gate, trashed |-> FALSE])
  /\ UNCHANGED <<task, revisions, transitions, todos, questions, seen>>

TrashProof(p, actor) ==
  /\ p \in DOMAIN proofs /\ ~proofs[p].trashed
  /\ actor = "human"
  /\ proofs' = [proofs EXCEPT ![p].trashed = TRUE]
  /\ UNCHANGED <<task, revisions, transitions, todos, questions, seen>>

----------------------------------------------------------------------------
(* questions.ask with an attachment, and answer / withdraw.  Who may do     *)
(* which, and the inbox, are module QuestionFlow's.                         *)

Ask(q, obj) ==
  /\ q \notin DOMAIN questions
  /\ obj \in Tasks \cup DOMAIN todos
  /\ questions' = Put(questions, q, [on |-> obj, open |-> TRUE])
  /\ UNCHANGED <<task, revisions, transitions, todos, proofs, seen>>

Resolve(q) ==
  /\ q \in DOMAIN questions /\ questions[q].open
  /\ questions' = [questions EXCEPT ![q].open = FALSE]
  /\ UNCHANGED <<task, revisions, transitions, todos, proofs, seen>>

\* A client fetches the task with its checklist, and remembers them.
ReadTask(t) ==
  /\ seen' = Put(seen, t, Snapshot(t))
  /\ UNCHANGED <<task, revisions, transitions, todos, proofs, questions>>

----------------------------------------------------------------------------
Next ==
  \/ \E t \in Tasks, to \in Requests, actor \in Kinds, note, v \in BOOLEAN :
       Transition(t, to, actor, note, v)
  \/ \E t \in Tasks, fields \in (SUBSET {"body", "waiver", "columns"}) \ {{}},
       actor \in Kinds, v \in BOOLEAN : EditTask(t, fields, actor, v)
  \/ \E t \in Tasks, d \in Todos : AddTodo(t, d)
  \/ \E d \in Todos, done, v \in BOOLEAN : TickTodo(d, done, v)
  \/ \E d \in Todos, actor \in Kinds : TrashTodo(d, actor)
  \/ \E t \in Tasks, p \in Proofs, gate \in BOOLEAN : AddProof(t, p, gate)
  \/ \E p \in Proofs, actor \in Kinds : TrashProof(p, actor)
  \/ \E q \in Questions, obj \in Tasks \cup Todos : Ask(q, obj)
  \/ \E q \in Questions : Resolve(q)
  \/ \E t \in Tasks : ReadTask(t)

Spec == Init /\ [][Next]_vars

----------------------------------------------------------------------------
(* Properties *)

\* Every column and every log row keeps its type: in particular the request
\* "previous" never ends up in a column.
TypeOK ==
  /\ task \in [Tasks -> TaskRow]
  /\ revisions \in [Tasks -> Seq(Kinds)]
  /\ transitions \in [Tasks -> Seq(LogRow)]
  /\ DOMAIN todos \subseteq Todos /\ todos \in [DOMAIN todos -> TodoRow]
  /\ DOMAIN proofs \subseteq Proofs /\ proofs \in [DOMAIN proofs -> ProofRow]
  /\ DOMAIN questions \subseteq Questions
  /\ questions \in [DOMAIN questions -> QuestionRow]
  /\ DOMAIN seen \subseteq Tasks
  /\ \A t \in DOMAIN seen : seen[t].row \in TaskRow

\* The append-only log of a task is a walk from "idea" to the state the row is
\* in: no transition is missing from it, and none starts where the one before
\* it did not end (statemachine.transition, the only writer of tasks.state).
LogIsWalk ==
  \A t \in Tasks :
    LET log == transitions[t] IN
      /\ log = <<>> => task[t].state = "idea"
      /\ log # <<>> => log[1].from = "idea" /\ log[Len(log)].to = task[t].state
      /\ \A i \in 1 .. Len(log) - 1 : log[i].to = log[i + 1].from

\* A done or trashed task, and no other, remembers where it came from, which is
\* what its log says, and never another settled state: so the fallback
\* DEFAULT_PREVIOUS is never needed, and two restores cannot loop.
SettledKnowsOrigin ==
  \A t \in Tasks :
    LET log == transitions[t] IN
      IF task[t].state \in Settled
      THEN /\ log # <<>> /\ task[t].previous_state = log[Len(log)].from
           /\ task[t].previous_state \notin Settled
      ELSE task[t].previous_state = NoState

\* "Not done" and "restore" bring a task back to exactly the state it was in
\* when it was finished or trashed, whatever happened to its other columns in
\* between.
RestoreReturns ==
  \A t \in Tasks : \A i \in 1 .. Len(transitions[t]) - 1 :
    transitions[t][i].to \in Settled =>
      transitions[t][i + 1].to = transitions[t][i].from

\* Approving a proposal, finishing, trashing and restoring are in every task's
\* history the acts of humans.
HumanGates ==
  \A t \in Tasks : \A i \in DOMAIN transitions[t] :
    LET e == transitions[t][i] IN
      \/ e.from = "proposed" /\ e.to = "approved"
      \/ e.to \in Settled
      \/ e.from \in Settled
      => e.actor = "human"

\* The optimistic lock has no ABA: a client whose version is still the row's has
\* seen the very row, body and checklist that its write will find
\* (tasks.version is the only thing a stale write is checked against).
VersionIdentifiesTask ==
  \A t \in DOMAIN seen :
    seen[t].row.version = task[t].version => seen[t] = Snapshot(t)

\* While a question on a task is open nothing about the task changes for
\* anyone: not its row, body, log or checklist, and it gains no proof; nor does
\* a todo with an open question change.
OpenOn(obj) == \E q \in DOMAIN questions :
                 questions[q].on = obj /\ questions[q].open
LiveProofs(t) == {p \in DOMAIN proofs : proofs[p].task = t /\ ~proofs[p].trashed}
FrozenIsUntouched ==
  [][/\ \A t \in Tasks : OpenOn(t) =>
          /\ Snapshot(t)' = Snapshot(t)
          /\ transitions'[t] = transitions[t]
          /\ LiveProofs(t)' \subseteq LiveProofs(t)
     /\ \A d \in DOMAIN todos : OpenOn(d) => todos'[d] = todos[d]]_vars

\* As the design has it, a frozen task loses no proof either.
FrozenKeepsProofs ==
  [][\A t \in Tasks : OpenOn(t) => LiveProofs(t) \subseteq LiveProofs(t)']_vars

\* As the design has it, the body a human approved is frozen for clankers: until
\* the task is sent back to plan or proposed, only a human revises it.
ApprovalStands(t) ==
  \E i \in DOMAIN transitions[t] :
    /\ transitions[t][i].from = "proposed" /\ transitions[t][i].to = "approved"
    /\ \A j \in DOMAIN transitions[t] :
         j > i => transitions[t][j].to \notin {"plan", "proposed"}
ApprovedBodyIsFrozen ==
  [][\A t \in Tasks :
       ApprovalStands(t) /\ revisions'[t] # revisions[t] =>
         revisions'[t][Len(revisions'[t])] = "human"]_vars
=============================================================================
