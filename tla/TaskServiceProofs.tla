-------------------------- MODULE TaskServiceProofs --------------------------
(***************************************************************************)
(* Theorems about TaskService for any tasks and any number of workers:     *)
(* what stays true though the reads of one call and the writes of another  *)
(* interleave, and what a single worker's crashes can cost.                *)
(***************************************************************************)
EXTENDS TaskService, FiniteSetTheorems, TLAPS

----------------------------------------------------------------------------
(* Types *)

Objects == Tasks \cup Todos
Guards == Seq(Objects)
Pending == {"guards", "commit"}
Fields == SUBSET {"body", "waiver", "columns"}

TaskRow == [state : States, previous_state : States \cup {NoState},
            proof_waived : BOOLEAN, version : Nat]
LogRow == [from : States, to : States, actor : Kinds]
TodoRow == [task : Tasks, done : BOOLEAN, trashed : BOOLEAN, version : Nat]
ProofRow == [task : Tasks, gate : BOOLEAN, trashed : BOOLEAN]

Moves == [pc : Pending, op : {"transition"}, guards : Guards, t : Tasks, to : Requests,
          actor : Kinds, note : BOOLEAN, versioned : BOOLEAN, row : TaskRow]
Edits == [pc : Pending, op : {"edit"}, guards : Guards, t : Tasks, fields : Fields,
          actor : Kinds, versioned : BOOLEAN, row : TaskRow]
NewTodos == [pc : Pending, op : {"add_todo"}, guards : Guards, t : Tasks, d : Todos]
Ticks == [pc : Pending, op : {"tick"}, guards : Guards, t : Tasks, d : Todos,
          done : BOOLEAN]
TrashedTodos == [pc : Pending, op : {"trash_todo"}, guards : Guards, t : Tasks, d : Todos]
NewProofs == [pc : Pending, op : {"add_proof"}, guards : Guards, t : Tasks, p : Proofs,
              gate : BOOLEAN]
TrashedProofs == [pc : {"commit"}, op : {"trash_proof"}, t : Tasks, p : Proofs]
Asks == [pc : {"commit"}, op : {"ask"}, q : Questions, obj : Objects]
Resolutions == [pc : {"commit"}, op : {"resolve"}, q : Questions]

Guarded == Moves \cup Edits \cup NewTodos \cup Ticks \cup TrashedTodos \cup NewProofs
Working == Guarded \cup TrashedProofs \cup Asks \cup Resolutions

Verbs == {"task.transitioned", "task.transition_denied", "task.edited", "todo", "proof",
          "question"}
Events == [verb : Verbs, task : Tasks \cup {NoState}, from : States \cup {NoState},
           to : Requests \cup {NoState}]
Announcements == [pc : {"emit", "notify"}, event : Events]

Calls == {Idle} \cup Working \cup Announcements

TypeInv ==
  /\ task \in [Tasks -> TaskRow]
  /\ transitions \in [Tasks -> Seq(LogRow)]
  /\ todos \in [DOMAIN todos -> TodoRow]
  /\ proofs \in [DOMAIN proofs -> ProofRow]
  /\ events \in Seq(Events)
  /\ notifications \in Seq([task : Tasks \cup {NoState}, state : Requests \cup {NoState}])
  /\ call \in [Workers -> Calls]
  /\ crashes \in Nat

\* The stages of a call can be told apart, and so can the operations.
LEMMA Stages ==
  ASSUME NEW c \in Calls
  PROVE  /\ c.pc \in {"idle", "guards", "commit", "emit", "notify"}
         /\ c.pc = "idle" => c = Idle
         /\ c.pc \in Pending => c \in Working
         /\ c.pc = "guards" => c \in Guarded
         /\ c.pc \in {"emit", "notify"} => c \in Announcements
BY DEF Calls, Idle, Working, Guarded, Moves, Edits, NewTodos, Ticks, TrashedTodos,
       NewProofs, TrashedProofs, Asks, Resolutions, Announcements, Pending

\* The operation of a call says what it names.
LEMMA OperationKinds ==
  ASSUME NEW c \in Working
  PROVE  /\ c.op = "transition" => c \in Moves
         /\ c.op = "edit" => c \in Edits
         /\ c.op = "add_todo" => c \in NewTodos
         /\ c.op = "tick" => c \in Ticks
         /\ c.op = "trash_todo" => c \in TrashedTodos
         /\ c.op = "add_proof" => c \in NewProofs
         /\ c.op = "trash_proof" => c \in TrashedProofs
         /\ c.op = "ask" => c \in Asks
         /\ c.op = "resolve" => c \in Resolutions
BY DEF Working, Guarded, Moves, Edits, NewTodos, Ticks, TrashedTodos, NewProofs,
       TrashedProofs, Asks, Resolutions

\* What Append does to a sequence.
LEMMA AppendFacts ==
  ASSUME NEW S, NEW s \in Seq(S), NEW x \in S
  PROVE  /\ Append(s, x) \in Seq(S)
         /\ Len(s) \in Nat /\ Len(Append(s, x)) = Len(s) + 1
         /\ DOMAIN s = 1 .. Len(s)
         /\ DOMAIN Append(s, x) = DOMAIN s \cup {Len(s) + 1}
         /\ Len(s) + 1 \notin DOMAIN s
         /\ Append(s, x)[Len(s) + 1] = x
         /\ \A i \in DOMAIN s : Append(s, x)[i] = s[i] /\ s[i] \in S
OBVIOUS

----------------------------------------------------------------------------
(* What the steps do *)

\* A worker starts a call or makes a check: nothing is written.
Checks(w) ==
  \E c \in Calls :
    /\ call[w].pc \in {"idle", "guards"}
    /\ c.pc \in {"idle", "guards", "commit", "emit"}
    /\ c.pc = "emit" => c.event.verb = "task.transition_denied"
    /\ call' = [call EXCEPT ![w] = c]
    /\ UNCHANGED <<tables, seen, events, notifications, crashes>>

\* A worker that starts a call is one that makes a check.
LEMMA StartChecks ==
  ASSUME NEW w \in Workers, NEW c \in Calls, Start(w, c),
         c.pc \in {"guards", "commit", "emit"},
         c.pc = "emit" => c.event.verb = "task.transition_denied"
  PROVE  Checks(w)
<1>1. call[w].pc = "idle"
  BY DEF Start, Idle
<1> QED
  BY <1>1 DEF Start, Checks

\* One guard, and two in a row, are guards.
LEMMA GuardLists ==
  ASSUME NEW a \in Objects
  PROVE  <<a>> \in Guards /\ \A b \in Objects : <<a, b>> \in Guards
BY DEF Guards

\* Every first read of a call is a check.
LEMMA LoadChecks ==
  ASSUME TypeInv, NEW w \in Workers, Load(w)
  PROVE  Checks(w)
<1>1. ASSUME NEW t \in Tasks, NEW to \in Requests, NEW actor \in Kinds,
             NEW note \in BOOLEAN, NEW v \in BOOLEAN,
             LoadTransition(w, t, to, actor, note, v)
      PROVE  Checks(w)
  <2>1. task[t] \in TaskRow /\ task[t].state \in States
    BY DEF TypeInv, TaskRow
  <2> DEFINE e == Event("task.transition_denied", t, task[t].state, to)
             denied == [pc |-> "emit", event |-> e]
             move == [pc |-> "guards", op |-> "transition", guards |-> <<t>>,
                      t |-> t, to |-> to, actor |-> actor, note |-> note,
                      versioned |-> v, row |-> task[t]]
  <2>2. CASE Start(w, denied)
    <3>1. e \in Events /\ e.verb = "task.transition_denied"
      BY <2>1 DEF Events, Event, Verbs
    <3> HIDE DEF e
    <3>2. denied \in Calls
      BY <3>1 DEF Calls, Announcements
    <3> QED
      BY <2>2, <3>1, <3>2, StartChecks
  <2>3. CASE Start(w, move)
    <3>1. <<t>> \in Guards
      BY GuardLists DEF Objects
    <3>2. move \in Moves
      BY <2>1, <3>1 DEF Moves, Pending
    <3>3. move \in Calls
      BY <3>2 DEF Calls, Working, Guarded
    <3> QED
      BY <2>3, <3>3, StartChecks
  <2> QED
    BY <1>1, <2>2, <2>3 DEF LoadTransition
<1>2. ASSUME NEW t \in Tasks, NEW fields \in Fields, NEW actor \in Kinds,
             NEW v \in BOOLEAN, LoadEdit(w, t, fields, actor, v)
      PROVE  Checks(w)
  <2> DEFINE c == [pc |-> "guards", op |-> "edit", guards |-> <<t>>, t |-> t,
                   fields |-> fields, actor |-> actor, versioned |-> v, row |-> task[t]]
  <2>1. <<t>> \in Guards /\ task[t] \in TaskRow
    BY GuardLists DEF Objects, TypeInv
  <2>2. c \in Edits
    BY <2>1 DEF Edits, Pending
  <2>3. c \in Calls
    BY <2>2 DEF Calls, Working, Guarded
  <2> QED
    BY <1>2, <2>3, StartChecks DEF LoadEdit
<1>3. ASSUME NEW t \in Tasks, NEW d \in Todos, LoadAddTodo(w, t, d)
      PROVE  Checks(w)
  <2> DEFINE c == [pc |-> "guards", op |-> "add_todo", guards |-> <<t>>, t |-> t, d |-> d]
  <2>1. <<t>> \in Guards
    BY GuardLists DEF Objects
  <2>2. c \in NewTodos
    BY <2>1 DEF NewTodos, Pending
  <2>3. c \in Calls
    BY <2>2 DEF Calls, Working, Guarded
  <2> QED
    BY <1>3, <2>3, StartChecks DEF LoadAddTodo
<1>4. ASSUME NEW d \in Todos, NEW done \in BOOLEAN, NEW v \in BOOLEAN,
             LoadTickTodo(w, d, done, v)
      PROVE  Checks(w)
  <2> DEFINE c == [pc |-> "guards", op |-> "tick", guards |-> <<todos[d].task, d>>,
                   t |-> todos[d].task, d |-> d, done |-> done]
  <2>1. todos[d].task \in Tasks
    BY <1>4 DEF LoadTickTodo, TypeInv, TodoRow
  <2>2. <<todos[d].task, d>> \in Guards
    BY <2>1, GuardLists DEF Objects
  <2>3. c \in Ticks
    BY <2>1, <2>2 DEF Ticks, Pending
  <2>4. c \in Calls
    BY <2>3 DEF Calls, Working, Guarded
  <2> QED
    BY <1>4, <2>4, StartChecks DEF LoadTickTodo
<1>5. ASSUME NEW d \in Todos, NEW actor \in Kinds, LoadTrashTodo(w, d, actor)
      PROVE  Checks(w)
  <2> DEFINE c == [pc |-> "guards", op |-> "trash_todo", guards |-> <<todos[d].task, d>>,
                   t |-> todos[d].task, d |-> d]
  <2>1. todos[d].task \in Tasks
    BY <1>5 DEF LoadTrashTodo, TypeInv, TodoRow
  <2>2. <<todos[d].task, d>> \in Guards
    BY <2>1, GuardLists DEF Objects
  <2>3. c \in TrashedTodos
    BY <2>1, <2>2 DEF TrashedTodos, Pending
  <2>4. c \in Calls
    BY <2>3 DEF Calls, Working, Guarded
  <2> QED
    BY <1>5, <2>4, StartChecks DEF LoadTrashTodo
<1>6. ASSUME NEW t \in Tasks, NEW p \in Proofs, NEW gate \in BOOLEAN,
             LoadAddProof(w, t, p, gate)
      PROVE  Checks(w)
  <2> DEFINE c == [pc |-> "guards", op |-> "add_proof", guards |-> <<t>>, t |-> t,
                   p |-> p, gate |-> gate]
  <2>1. <<t>> \in Guards
    BY GuardLists DEF Objects
  <2>2. c \in NewProofs
    BY <2>1 DEF NewProofs, Pending
  <2>3. c \in Calls
    BY <2>2 DEF Calls, Working, Guarded
  <2> QED
    BY <1>6, <2>3, StartChecks DEF LoadAddProof
<1>7. ASSUME NEW p \in Proofs, NEW actor \in Kinds, LoadTrashProof(w, p, actor)
      PROVE  Checks(w)
  <2> DEFINE c == [pc |-> "commit", op |-> "trash_proof", t |-> proofs[p].task, p |-> p]
  <2>1. proofs[p].task \in Tasks
    BY <1>7 DEF LoadTrashProof, TypeInv, ProofRow
  <2>2. c \in Calls
    BY <2>1 DEF Calls, Working, TrashedProofs
  <2> QED
    BY <1>7, <2>2, StartChecks DEF LoadTrashProof
<1>8. ASSUME NEW q \in Questions, NEW obj \in Objects, LoadAsk(w, q, obj)
      PROVE  Checks(w)
  <2> DEFINE c == [pc |-> "commit", op |-> "ask", q |-> q, obj |-> obj]
  <2>1. c \in Calls
    BY DEF Calls, Working, Asks
  <2> QED
    BY <1>8, <2>1, StartChecks DEF LoadAsk
<1>9. ASSUME NEW q \in Questions, LoadResolve(w, q)
      PROVE  Checks(w)
  <2> DEFINE c == [pc |-> "commit", op |-> "resolve", q |-> q]
  <2>1. c \in Calls
    BY DEF Calls, Working, Resolutions
  <2> QED
    BY <1>9, <2>1, StartChecks DEF LoadResolve
<1> QED
  BY <1>1, <1>2, <1>3, <1>4, <1>5, <1>6, <1>7, <1>8, <1>9 DEF Load, Objects, Fields

\* So are the checks that read other rows.
LEMMA GuardChecks ==
  ASSUME TypeInv, NEW w \in Workers, CheckFreeze(w) \/ CheckGate(w)
  PROVE  Checks(w)
<1>1. call[w].pc = "guards" /\ call[w] \in Guarded /\ call[w].guards \in Guards
  <2>1. call[w].pc = "guards" /\ call[w] \in Guarded
    BY Stages DEF CheckFreeze, CheckGate, TypeInv
  <2> QED
    BY <2>1 DEF Guarded, Moves, Edits, NewTodos, Ticks, TrashedTodos, NewProofs
<1>2. Idle \in Calls /\ Idle.pc = "idle"
  BY DEF Calls, Idle
<1>3. ASSUME NEW c, c = Idle \/ (c \in Guarded /\ c.pc \in Pending),
             call' = [call EXCEPT ![w] = c],
             UNCHANGED <<tables, seen, events, notifications, crashes>>
      PROVE  Checks(w)
  <2>1. c \in Calls /\ c.pc \in {"idle", "guards", "commit"}
    BY <1>2, <1>3 DEF Calls, Working, Pending
  <2> QED
    BY <1>1, <1>3, <2>1 DEF Checks
<1>4. CASE CheckFreeze(w)
  <2> DEFINE c == [call[w] EXCEPT !.guards = Tail(@)]
  <2>1. call[w].guards # <<>>
    BY <1>4 DEF CheckFreeze
  <2>2. Tail(call[w].guards) \in Guards
    BY <1>1, <2>1 DEF Guards
  <2>3. c \in Guarded /\ c.pc \in Pending
    BY <1>1, <2>2 DEF Guarded, Moves, Edits, NewTodos, Ticks, TrashedTodos, NewProofs, Pending
  <2>4. call' = [call EXCEPT ![w] = AfterGuard(call[w])]
    BY <1>4 DEF CheckFreeze, TypeInv
  <2>5. AfterGuard(call[w]) \in {c, Idle}
    BY DEF AfterGuard
  <2> HIDE DEF c
  <2> QED
    BY <1>3, <1>4, <2>3, <2>4, <2>5 DEF CheckFreeze
<1>5. CASE CheckGate(w)
  <2> DEFINE c == [call[w] EXCEPT !.pc = "commit"]
  <2>1. c \in Guarded /\ c.pc \in Pending
    BY <1>1 DEF Guarded, Moves, Edits, NewTodos, Ticks, TrashedTodos, NewProofs, Pending
  <2>2. call' = [call EXCEPT ![w] = c] \/ call' = [call EXCEPT ![w] = Idle]
    BY <1>5 DEF CheckGate, TypeInv
  <2> HIDE DEF c
  <2> QED
    BY <1>3, <1>5, <2>1, <2>2 DEF CheckGate
<1> QED
  BY <1>4, <1>5

\* A worker has committed, and announces it next.
Announces(w, e) ==
  /\ call' = [call EXCEPT ![w] = [pc |-> "emit", event |-> e]]
  /\ UNCHANGED <<events, notifications, crashes>>

\* What a transaction does to rows and logs: it moves a task and logs that, it
\* writes to a task or its checklist, or it does neither.
Moved(w) ==
  \E t \in Tasks, entry \in LogRow :
    /\ task' \in [Tasks -> TaskRow]
    /\ task'[t].state = entry.to
    /\ task'[t].previous_state = PreviousState(entry.from, entry.to)
    /\ task'[t].version = task[t].version + 1
    /\ \A x \in Tasks \ {t} : task'[x] = task[x]
    /\ transitions' = [transitions EXCEPT ![t] = Append(@, entry)]
    /\ Announces(w, Event("task.transitioned", t, entry.from, entry.to))
Written(w) ==
  \E t \in Tasks, verb \in {"task.edited", "todo"} :
    /\ task' \in [Tasks -> TaskRow]
    /\ task'[t].version = task[t].version + 1
    /\ \A x \in Tasks : /\ task'[x].state = task[x].state
                        /\ task'[x].previous_state = task[x].previous_state
                        /\ x # t => task'[x] = task[x]
    /\ UNCHANGED transitions
    /\ Announces(w, Announce(verb, t))
Linked(w) ==
  \E t \in Tasks :
    /\ UNCHANGED <<task, transitions, notifications, crashes>>
    /\ events' = Append(events, Announce("proof", t))
    /\ call' = [call EXCEPT ![w] = Idle]
Asked(w) ==
  /\ UNCHANGED <<task, transitions>>
  /\ Announces(w, Announce("question", NoState))

\* What a request leads to is a state, if it may be made where the task is.
LEMMA TargetIsState ==
  ASSUME NEW row \in TaskRow, NEW to \in Requests
  PROVE  Target(row.state, row.previous_state, to) \in States
BY DEF Target, DefaultPrevious, TaskRow, States, Requests, NoState

\* The transaction of a transition.
LEMMA CommitMoves ==
  ASSUME TypeInv, NEW w \in Workers, call[w] \in Moves, CommitTransition(w, call[w])
  PROVE  Moved(w) /\ UNCHANGED <<todos, proofs>>
<1> DEFINE c == call[w]
           target == TargetOf(c)
           previous == PreviousState(c.row.state, target)
           entry == [from |-> c.row.state, to |-> target, actor |-> c.actor]
<1>1. c.t \in Tasks /\ c.row \in TaskRow /\ c.to \in Requests /\ c.actor \in Kinds
  BY DEF Moves
<1>2. target \in States
  BY <1>1, TargetIsState DEF TargetOf
<1>3. c.row.state \in States
  BY <1>1 DEF TaskRow
<1>4. previous \in States \cup {NoState}
  BY <1>2, <1>3 DEF PreviousState
<1>5. entry \in LogRow
  BY <1>1, <1>2, <1>3 DEF LogRow
<1>6. task' = [task EXCEPT ![c.t].state = target, ![c.t].previous_state = previous,
                           ![c.t].version = @ + 1]
  BY DEF CommitTransition, NextVersion
<1>7. transitions' = [transitions EXCEPT ![c.t] = Append(@, entry)]
  BY DEF CommitTransition, Flow!LogEntry
<1>8. /\ Announces(w, Event("task.transitioned", c.t, entry.from, entry.to))
      /\ UNCHANGED <<todos, proofs>>
  BY DEF CommitTransition, Committed, Announces, MoveEvent
<1>9. entry.from = c.row.state /\ entry.to = target
  OBVIOUS
<1> HIDE DEF target, previous, entry
<1>10. /\ task' \in [Tasks -> TaskRow]
       /\ task'[c.t].state = target
       /\ task'[c.t].previous_state = previous
       /\ task'[c.t].version = task[c.t].version + 1
       /\ \A x \in Tasks \ {c.t} : task'[x] = task[x]
  <2>1. task \in [Tasks -> TaskRow]
    BY DEF TypeInv
  <2> PICK t \in Tasks : t = c.t
    BY <1>1
  <2> HIDE DEF c
  <2> QED
    BY <1>2, <1>4, <1>6, <2>1 DEF TaskRow
<1>11. previous = PreviousState(entry.from, entry.to)
  BY <1>9 DEF previous
<1> HIDE DEF c
<1> QED
  BY <1>1, <1>5, <1>7, <1>8, <1>9, <1>10, <1>11 DEF Moved

\* A write that only adds one to the version of the call's task.
LEMMA BumpWrites ==
  ASSUME TypeInv, NEW c, c.t \in Tasks, Bump(c)
  PROVE  /\ task' \in [Tasks -> TaskRow]
         /\ task'[c.t].version = task[c.t].version + 1
         /\ \A x \in Tasks : /\ task'[x].state = task[x].state
                             /\ task'[x].previous_state = task[x].previous_state
                             /\ x # c.t => task'[x] = task[x]
<1>1. task' = [task EXCEPT ![c.t].version = @ + 1]
  BY DEF Bump, NextVersion
<1>2. task \in [Tasks -> TaskRow]
  BY DEF TypeInv
<1> PICK t \in Tasks : t = c.t
  OBVIOUS
<1> QED
  BY <1>1, <1>2 DEF TaskRow

\* The transaction of an edit.
LEMMA CommitEditWrites ==
  ASSUME TypeInv, NEW w \in Workers, call[w] \in Edits, CommitEdit(w, call[w])
  PROVE  Written(w) /\ UNCHANGED <<todos, proofs>>
<1> DEFINE c == call[w]
           waived == IF "waiver" \in c.fields THEN ~c.row.proof_waived
                     ELSE task[c.t].proof_waived
<1>1. c.t \in Tasks /\ c.row \in TaskRow
  BY DEF Edits
<1>2. waived \in BOOLEAN
  BY <1>1 DEF TypeInv, TaskRow
<1>3. task' = [task EXCEPT ![c.t].proof_waived = waived, ![c.t].version = @ + 1]
  BY DEF CommitEdit, NextVersion
<1>4. /\ UNCHANGED <<transitions, todos, proofs>>
      /\ Announces(w, Announce("task.edited", c.t))
  BY DEF CommitEdit, Committed, Announces
<1> HIDE DEF waived, c
<1>5. /\ task' \in [Tasks -> TaskRow]
      /\ task'[c.t].version = task[c.t].version + 1
      /\ \A x \in Tasks : /\ task'[x].state = task[x].state
                          /\ task'[x].previous_state = task[x].previous_state
                          /\ x # c.t => task'[x] = task[x]
  <2>1. task \in [Tasks -> TaskRow]
    BY DEF TypeInv
  <2> PICK t \in Tasks : t = c.t
    BY <1>1
  <2> QED
    BY <1>2, <1>3, <2>1 DEF TaskRow
<1> QED
  BY <1>1, <1>4, <1>5 DEF Written

\* The transaction of a call on the checklist.
LEMMA CommitTodoWrites ==
  ASSUME TypeInv, NEW w \in Workers, NEW c \in NewTodos \cup Ticks \cup TrashedTodos,
         c = call[w], CommitTodo(w, c)
  PROVE  /\ Written(w) /\ UNCHANGED proofs
         /\ todos' \in [DOMAIN todos' -> TodoRow]
<1>1. c.t \in Tasks
  BY DEF NewTodos, Ticks, TrashedTodos
<1>2. /\ UNCHANGED <<transitions, proofs>>
      /\ Announces(w, Announce("todo", c.t)) /\ Bump(c)
  BY DEF CommitTodo, Committed, Announces
<1>3. Written(w)
  BY <1>1, <1>2, BumpWrites DEF Written
<1>4. todos' \in [DOMAIN todos' -> TodoRow]
  <2>1. CASE c.op = "add_todo" /\ todos' = Flow!Put(todos, c.d,
                                [task |-> c.t, done |-> FALSE, trashed |-> FALSE, version |-> 1])
    BY <1>1, <2>1 DEF TypeInv, Flow!Put, TodoRow
  <2>2. CASE c.op = "tick" /\ todos' = [todos EXCEPT ![c.d].done = c.done,
                                                     ![c.d].version = @ + 1]
    <3>1. c.done \in BOOLEAN
      BY <2>2 DEF NewTodos, Ticks, TrashedTodos
    <3>2. CASE c.d \in DOMAIN todos
      <4> DEFINE row == [todos[c.d] EXCEPT !.done = c.done, !.version = @ + 1]
      <4>1. row \in TodoRow
        <5>1. todos[c.d] \in TodoRow
          BY <3>2 DEF TypeInv
        <5>2. PICK next \in Nat : next = todos[c.d].version + 1
          BY <5>1 DEF TodoRow
        <5> QED
          BY <3>1, <5>1, <5>2 DEF TodoRow
      <4>2. todos' = [todos EXCEPT ![c.d] = row]
        BY <2>2, <3>2 DEF TypeInv
      <4> HIDE DEF row
      <4> QED
        BY <3>2, <4>1, <4>2 DEF TypeInv
    <3>3. CASE c.d \notin DOMAIN todos
      BY <2>2, <3>3 DEF TypeInv
    <3> QED
      BY <3>2, <3>3
  <2>3. CASE c.op = "trash_todo" /\ todos' = [todos EXCEPT ![c.d].trashed = TRUE]
    BY <2>3 DEF TypeInv, TodoRow
  <2> QED
    BY <2>1, <2>2, <2>3 DEF CommitTodo
<1> QED
  BY <1>2, <1>3, <1>4

\* The transaction of a call on a proof link, which appends the event itself.
LEMMA CommitProofLinks ==
  ASSUME TypeInv, NEW w \in Workers, NEW c \in NewProofs \cup TrashedProofs,
         c = call[w], CommitProof(w, c)
  PROVE  /\ Linked(w) /\ UNCHANGED todos
         /\ proofs' \in [DOMAIN proofs' -> ProofRow]
<1>1. c.t \in Tasks
  BY DEF NewProofs, TrashedProofs
<1>2. Linked(w) /\ UNCHANGED todos
  BY <1>1 DEF CommitProof, Linked
<1>3. proofs' \in [DOMAIN proofs' -> ProofRow]
  <2>1. CASE c.op = "add_proof" /\ proofs' = Flow!Put(proofs, c.p,
                                [task |-> c.t, gate |-> c.gate, trashed |-> FALSE])
    <3>1. c.gate \in BOOLEAN
      BY <2>1 DEF NewProofs, TrashedProofs
    <3> QED
      BY <1>1, <2>1, <3>1 DEF TypeInv, Flow!Put, ProofRow
  <2>2. CASE c.op = "trash_proof" /\ proofs' = [proofs EXCEPT ![c.p].trashed = TRUE]
    BY <2>2 DEF TypeInv, ProofRow
  <2> QED
    BY <2>1, <2>2 DEF CommitProof
<1> QED
  BY <1>2, <1>3

\* Every transaction is of one of the four kinds.
LEMMA CommitKinds ==
  ASSUME TypeInv, NEW w \in Workers, Commit(w)
  PROVE  /\ call[w].pc = "commit"
         /\ Moved(w) \/ Written(w) \/ Linked(w) \/ Asked(w)
         /\ todos' \in [DOMAIN todos' -> TodoRow]
         /\ proofs' \in [DOMAIN proofs' -> ProofRow]
<1> DEFINE c == call[w]
<1>1. c.pc = "commit" /\ c \in Working
  BY Stages DEF Commit, TypeInv, Pending
<1>2. /\ todos \in [DOMAIN todos -> TodoRow] /\ proofs \in [DOMAIN proofs -> ProofRow]
  BY DEF TypeInv
<1>3. CASE CommitTransition(w, c)
  BY <1>1, <1>2, <1>3, OperationKinds, CommitMoves DEF CommitTransition
<1>4. CASE CommitEdit(w, c)
  BY <1>1, <1>2, <1>4, OperationKinds, CommitEditWrites DEF CommitEdit
<1>5. CASE CommitTodo(w, c)
  <2>1. c \in NewTodos \cup Ticks \cup TrashedTodos
    BY <1>1, <1>5, OperationKinds DEF CommitTodo
  <2> QED
    BY <1>1, <1>2, <1>5, <2>1, CommitTodoWrites
<1>6. CASE CommitProof(w, c)
  <2>1. c \in NewProofs \cup TrashedProofs
    BY <1>1, <1>6, OperationKinds DEF CommitProof
  <2> QED
    BY <1>1, <1>2, <1>6, <2>1, CommitProofLinks
<1>7. CASE CommitQuestion(w, c)
  BY <1>1, <1>2, <1>7 DEF CommitQuestion, Committed, Announces, Asked
<1> QED
  BY <1>3, <1>4, <1>5, <1>6, <1>7 DEF Commit

\* A worker appends an event it has announced, or a note, or the process stops.
LEMMA AnnouncementFacts ==
  ASSUME TypeInv, NEW w \in Workers, call[w].pc \in {"emit", "notify"}
  PROVE  /\ call[w] \in Announcements /\ call[w].event \in Events
         /\ AfterEmit(call[w].event) \in Calls
<1>1. call[w] \in Announcements
  BY Stages DEF TypeInv
<1> DEFINE e == call[w].event
<1>2. e \in Events
  BY <1>1 DEF Announcements
<1> HIDE DEF e
<1>3. [pc |-> "notify", event |-> e] \in Calls /\ Idle \in Calls
  BY <1>2 DEF Calls, Announcements
<1>4. AfterEmit(e) \in Calls
  BY <1>3 DEF AfterEmit
<1> QED
  BY <1>1, <1>2, <1>4 DEF e

----------------------------------------------------------------------------
(* Types are kept *)

\* Event records are events.
LEMMA EventTypes ==
  ASSUME NEW verb \in Verbs, NEW t \in Tasks \cup {NoState},
         NEW from \in States \cup {NoState}, NEW to \in Requests \cup {NoState}
  PROVE  Event(verb, t, from, to) \in Events
BY DEF Event, Events

\* A worker that announces an event is in a call.
LEMMA AnnouncesType ==
  ASSUME TypeInv, NEW w \in Workers, NEW e \in Events, Announces(w, e)
  PROVE  /\ call' \in [Workers -> Calls]
         /\ call'[w].pc = "emit" /\ call'[w].event = e
         /\ \A v \in Workers \ {w} : call'[v] = call[v]
<1> DEFINE c == [pc |-> "emit", event |-> e]
<1>1. c \in Calls /\ c.pc = "emit" /\ c.event = e
  BY DEF Calls, Announcements
<1>2. call' = [call EXCEPT ![w] = c]
  BY DEF Announces
<1> HIDE DEF c
<1> QED
  BY <1>1, <1>2 DEF TypeInv

\* Every transaction keeps the types.
LEMMA TypeCommit ==
  ASSUME TypeInv, NEW w \in Workers, Commit(w)
  PROVE  TypeInv'
<1>1. /\ todos' \in [DOMAIN todos' -> TodoRow]
      /\ proofs' \in [DOMAIN proofs' -> ProofRow]
      /\ Moved(w) \/ Written(w) \/ Linked(w) \/ Asked(w)
  BY CommitKinds
<1>2. /\ task \in [Tasks -> TaskRow] /\ transitions \in [Tasks -> Seq(LogRow)]
      /\ events \in Seq(Events) /\ crashes \in Nat
      /\ notifications \in Seq([task : Tasks \cup {NoState}, state : Requests \cup {NoState}])
      /\ call \in [Workers -> Calls]
  BY DEF TypeInv
<1>3. CASE Moved(w)
  <2>1. PICK t \in Tasks, entry \in LogRow :
          /\ task' \in [Tasks -> TaskRow]
          /\ transitions' = [transitions EXCEPT ![t] = Append(@, entry)]
          /\ Announces(w, Event("task.transitioned", t, entry.from, entry.to))
    BY <1>3 DEF Moved
  <2>2. Event("task.transitioned", t, entry.from, entry.to) \in Events
    BY EventTypes DEF LogRow, Requests, Verbs
  <2>3. transitions' \in [Tasks -> Seq(LogRow)]
    BY <1>2, <2>1
  <2>4. /\ call' \in [Workers -> Calls]
        /\ UNCHANGED <<events, notifications, crashes>>
    BY <2>1, <2>2, AnnouncesType DEF Announces
  <2> QED
    BY <1>1, <1>2, <2>1, <2>3, <2>4 DEF TypeInv
<1>4. CASE Written(w)
  <2>1. PICK t \in Tasks, verb \in {"task.edited", "todo"} :
          /\ task' \in [Tasks -> TaskRow] /\ UNCHANGED transitions
          /\ Announces(w, Announce(verb, t))
    BY <1>4 DEF Written
  <2>2. Announce(verb, t) \in Events
    BY EventTypes DEF Announce, Verbs
  <2>3. /\ call' \in [Workers -> Calls]
        /\ UNCHANGED <<events, notifications, crashes>>
    BY <2>1, <2>2, AnnouncesType DEF Announces
  <2> QED
    BY <1>1, <1>2, <2>1, <2>3 DEF TypeInv
<1>5. CASE Linked(w)
  <2>1. PICK t \in Tasks : /\ UNCHANGED <<task, transitions, notifications, crashes>>
                           /\ events' = Append(events, Announce("proof", t))
                           /\ call' = [call EXCEPT ![w] = Idle]
    BY <1>5 DEF Linked
  <2>2. Announce("proof", t) \in Events
    BY EventTypes DEF Announce, Verbs
  <2>3. events' \in Seq(Events)
    BY <1>2, <2>1, <2>2
  <2>4. call' \in [Workers -> Calls]
    BY <1>2, <2>1 DEF Calls
  <2> QED
    BY <1>1, <1>2, <2>1, <2>3, <2>4 DEF TypeInv
<1>6. CASE Asked(w)
  <2>1. Announce("question", NoState) \in Events
    BY EventTypes DEF Announce, Verbs
  <2>2. /\ call' \in [Workers -> Calls]
        /\ UNCHANGED <<task, transitions, events, notifications, crashes>>
    BY <1>6, <2>1, AnnouncesType DEF Asked, Announces
  <2> QED
    BY <1>1, <1>2, <2>2 DEF TypeInv
<1> QED
  BY <1>1, <1>3, <1>4, <1>5, <1>6

\* A step is a check, a transaction, an event, a note, a crash, or changes nothing
\* but what a client has read.
Steps ==
  \/ \E w \in Workers : Checks(w) \/ Commit(w) \/ Emit(w) \/ Notify(w)
  \/ Crash
  \/ UNCHANGED <<tables, events, notifications, call, crashes>>

\* Every step is of these kinds and keeps the types.
LEMMA TypeStep ==
  ASSUME TypeInv, [Next]_vars
  PROVE  TypeInv' /\ Steps
<1>1. ASSUME NEW w \in Workers, Load(w) \/ CheckFreeze(w) \/ CheckGate(w)
      PROVE  Checks(w)
  BY <1>1, LoadChecks, GuardChecks
<1>2. ASSUME NEW w \in Workers, Checks(w) PROVE TypeInv'
  BY <1>2 DEF Checks, TypeInv, tables
<1>3. ASSUME NEW w \in Workers, Emit(w) PROVE TypeInv'
  <2>1. call[w].event \in Events /\ AfterEmit(call[w].event) \in Calls
    BY <1>3, AnnouncementFacts DEF Emit
  <2>2. call' = [call EXCEPT ![w] = AfterEmit(call[w].event)]
    BY <1>3 DEF Emit, TypeInv
  <2>3. events' = Append(events, call[w].event)
    BY <1>3 DEF Emit
  <2>4. events' \in Seq(Events)
    BY <2>1, <2>3 DEF TypeInv
  <2> QED
    BY <1>3, <2>1, <2>2, <2>4 DEF Emit, TypeInv, tables
<1>4. ASSUME NEW w \in Workers, Notify(w) PROVE TypeInv'
  <2> DEFINE note == [task |-> call[w].event.task, state |-> call[w].event.to]
  <2>1. call[w].event \in Events
    BY <1>4, AnnouncementFacts DEF Notify
  <2>2. note \in [task : Tasks \cup {NoState}, state : Requests \cup {NoState}]
    BY <2>1 DEF Events
  <2>3. notifications' = Append(notifications, note)
    BY <1>4 DEF Notify
  <2> HIDE DEF note
  <2>4. notifications' \in Seq([task : Tasks \cup {NoState}, state : Requests \cup {NoState}])
    BY <2>2, <2>3 DEF TypeInv
  <2>5. call' \in [Workers -> Calls]
    BY <1>4 DEF Notify, TypeInv, Calls
  <2> QED
    BY <1>4, <2>4, <2>5 DEF Notify, TypeInv, tables
<1>5. ASSUME Crash PROVE TypeInv'
  BY <1>5 DEF Crash, TypeInv, Calls, tables
<1>6. ASSUME UNCHANGED <<tables, events, notifications, call, crashes>> PROVE TypeInv'
  BY <1>6 DEF TypeInv, tables
<1>7. ASSUME NEW t \in Tasks, ReadTask(t)
      PROVE  UNCHANGED <<tables, events, notifications, call, crashes>>
  BY <1>7 DEF ReadTask, Flow!ReadTask, tables
<1>8. ASSUME UNCHANGED vars
      PROVE  UNCHANGED <<tables, events, notifications, call, crashes>>
  BY <1>8 DEF vars, tables
<1>9. Steps
  BY <1>1, <1>7, <1>8 DEF Next, Step, Steps
<1>10. TypeInv'
  BY <1>2, <1>3, <1>4, <1>5, <1>6, <1>9, TypeCommit DEF Steps
<1> QED
  BY <1>9, <1>10

\* And holds the types at the start.
LEMMA TypeInit == Init => TypeInv
<1> SUFFICES ASSUME Init PROVE TypeInv
  OBVIOUS
<1>1. /\ task = [t \in Tasks |-> [state |-> "idea", previous_state |-> NoState,
                                  proof_waived |-> FALSE, version |-> 1]]
      /\ transitions = [t \in Tasks |-> <<>>]
      /\ todos = [x \in {} |-> x] /\ proofs = [x \in {} |-> x]
      /\ events = <<>> /\ notifications = <<>>
      /\ call = [w \in Workers |-> Idle] /\ crashes = 0
  BY DEF Init, Flow!Init, Flow!NoState, NoState, Flow!EmptyTable
<1>2. [state |-> "idea", previous_state |-> NoState, proof_waived |-> FALSE,
       version |-> 1] \in TaskRow
  BY DEF TaskRow, States
<1>3. task \in [Tasks -> TaskRow]
  BY <1>1, <1>2
<1>4. call \in [Workers -> Calls]
  BY <1>1 DEF Calls
<1>5. /\ transitions \in [Tasks -> Seq(LogRow)]
      /\ events \in Seq(Events)
      /\ notifications \in Seq([task : Tasks \cup {NoState}, state : Requests \cup {NoState}])
  BY <1>1
<1>6. /\ todos \in [DOMAIN todos -> TodoRow]
      /\ proofs \in [DOMAIN proofs -> ProofRow] /\ crashes \in Nat
  BY <1>1
<1> QED
  BY <1>3, <1>4, <1>5, <1>6 DEF TypeInv

\* Types hold for ever.
THEOREM TypesHold == Spec => []TypeInv
BY TypeInit, TypeStep, PTL DEF Spec

----------------------------------------------------------------------------
(* Row and log                                                              *)

\* Every step keeps the row of a task and its log together.
LEMMA RowStep ==
  ASSUME TypeInv, RowAgreesWithLog, [Next]_vars
  PROVE  RowAgreesWithLog'
<1>1. CASE UNCHANGED <<task, transitions>>
  BY <1>1 DEF RowAgreesWithLog
<1>2. ASSUME NEW w \in Workers, Moved(w) PROVE RowAgreesWithLog'
  <2>1. PICK t \in Tasks, entry \in LogRow :
          /\ task'[t].state = entry.to
          /\ task'[t].previous_state = PreviousState(entry.from, entry.to)
          /\ \A x \in Tasks \ {t} : task'[x] = task[x]
          /\ transitions' = [transitions EXCEPT ![t] = Append(@, entry)]
    BY <1>2 DEF Moved
  <2>2. /\ transitions[t] \in Seq(LogRow)
        /\ transitions'[t] = Append(transitions[t], entry)
        /\ \A x \in Tasks \ {t} : transitions'[x] = transitions[x]
    BY <2>1 DEF TypeInv
  <2>3. transitions'[t][Len(transitions'[t])] = entry
    BY <2>2, AppendFacts
  <2> SUFFICES ASSUME NEW x \in Tasks, transitions'[x] # <<>>
               PROVE  LET last == transitions'[x][Len(transitions'[x])] IN
                        /\ task'[x].state = last.to
                        /\ task'[x].previous_state =
                             IF last.to \in Settled THEN last.from ELSE NoState
    BY DEF RowAgreesWithLog
  <2>4. CASE x = t
    BY <2>1, <2>3, <2>4 DEF PreviousState
  <2>5. CASE x # t
    BY <2>1, <2>2, <2>5 DEF RowAgreesWithLog
  <2> QED
    BY <2>4, <2>5
<1>3. ASSUME NEW w \in Workers, Written(w) PROVE RowAgreesWithLog'
  <2>1. /\ \A x \in Tasks : /\ task'[x].state = task[x].state
                            /\ task'[x].previous_state = task[x].previous_state
        /\ UNCHANGED transitions
    BY <1>3 DEF Written
  <2> QED
    BY <2>1 DEF RowAgreesWithLog
<1>4. ASSUME NEW w \in Workers, Commit(w) PROVE RowAgreesWithLog'
  <2>1. Linked(w) \/ Asked(w) => UNCHANGED <<task, transitions>>
    BY DEF Linked, Asked
  <2> QED
    BY <1>1, <1>2, <1>3, <1>4, <2>1, CommitKinds
<1>5. ASSUME NEW w \in Workers, Checks(w) \/ Emit(w) \/ Notify(w)
      PROVE  UNCHANGED <<task, transitions>>
  BY <1>5 DEF Checks, Emit, Notify, tables
<1>6. ASSUME Crash \/ UNCHANGED <<tables, events, notifications, call, crashes>>
      PROVE  UNCHANGED <<task, transitions>>
  BY <1>6 DEF Crash, tables
<1> QED
  BY <1>1, <1>4, <1>5, <1>6, TypeStep DEF Steps

\* However many workers interleave their reads with one another's writes, the last
\* entry of a task's log says where its row is and, if settled, where it came from.
THEOREM RowAlwaysAgreesWithLog == Spec => []RowAgreesWithLog
<1>1. Init => RowAgreesWithLog
  BY DEF Init, Flow!Init, RowAgreesWithLog
<1>2. TypeInv /\ RowAgreesWithLog /\ [Next]_vars => RowAgreesWithLog'
  BY RowStep
<1> QED
  BY <1>1, <1>2, TypesHold, PTL DEF Spec

----------------------------------------------------------------------------
(* Counting rows and calls                                                  *)

\* The rows of a table, and the workers, that are in S.
Where(table, S) == {i \in DOMAIN table : table[i] \in S}
CallsIn(S) == {w \in Workers : call[w] \in S}
Count(condition) == IF condition THEN 1 ELSE 0

\* A sequence has finitely many rows, whichever are meant.
LEMMA WhereFinite ==
  ASSUME NEW E, NEW table \in Seq(E), NEW S
  PROVE  IsFiniteSet(Where(table, S)) /\ Cardinality(Where(table, S)) \in Nat
<1>1. Len(table) \in Nat /\ DOMAIN table = 1 .. Len(table)
  OBVIOUS
<1>2. IsFiniteSet(1 .. Len(table))
  BY <1>1, FS_Interval
<1>3. IsFiniteSet(Where(table, S))
  BY <1>1, <1>2, FS_Subset DEF Where
<1> QED
  BY <1>3, FS_CardinalityType

\* A row more counts once, if it is meant.
LEMMA WhereAppended ==
  ASSUME NEW E, NEW table \in Seq(E), NEW e \in E, NEW S
  PROVE  Cardinality(Where(Append(table, e), S)) = Cardinality(Where(table, S)) + Count(e \in S)
<1> DEFINE n == Len(table) + 1
           old == Where(table, S)
<1>1. /\ DOMAIN Append(table, e) = DOMAIN table \cup {n} /\ n \notin DOMAIN table
      /\ Append(table, e)[n] = e
      /\ \A i \in DOMAIN table : Append(table, e)[i] = table[i]
  BY AppendFacts
<1>2. IsFiniteSet(old) /\ Cardinality(old) \in Nat
  BY WhereFinite
<1>3. n \notin old
  BY <1>1 DEF Where
<1> HIDE DEF n
<1>4. CASE e \in S
  <2>1. Where(Append(table, e), S) = old \cup {n}
    BY <1>1, <1>4 DEF Where
  <2> HIDE DEF old
  <2> QED
    BY <1>2, <1>3, <1>4, <2>1, FS_AddElement DEF Count, old
<1>5. CASE e \notin S
  <2>1. Where(Append(table, e), S) = old
    BY <1>1, <1>5 DEF Where
  <2> QED
    BY <1>2, <1>5, <2>1 DEF Count
<1> QED
  BY <1>4, <1>5

\* A worker that goes on with another call counts for that one.
LEMMA CallsMoved ==
  ASSUME call \in [Workers -> Calls], NEW S, IsFiniteSet(CallsIn(S)),
         NEW w \in Workers, NEW c, call' = [call EXCEPT ![w] = c]
  PROVE  /\ IsFiniteSet(CallsIn(S)')
         /\ Cardinality(CallsIn(S)') + Count(call[w] \in S)
              = Cardinality(CallsIn(S)) + Count(c \in S)
         /\ Cardinality(CallsIn(S)) \in Nat /\ Cardinality(CallsIn(S)') \in Nat
<1> DEFINE old == CallsIn(S)
           rest == old \ {w}
<1>1. call'[w] = c /\ \A v \in Workers \ {w} : call'[v] = call[v]
  OBVIOUS
<1>2. /\ IsFiniteSet(rest) /\ Cardinality(old) \in Nat /\ Cardinality(rest) \in Nat
      /\ Cardinality(rest) + Count(call[w] \in S) = Cardinality(old)
  <2>1. Cardinality(old) \in Nat
    BY FS_CardinalityType
  <2>2. /\ IsFiniteSet(rest)
        /\ Cardinality(rest) = IF w \in old THEN Cardinality(old) - 1 ELSE Cardinality(old)
    <3> HIDE DEF old
    <3> QED
      BY FS_RemoveElement DEF old
  <2>3. Cardinality(rest) \in Nat
    BY <2>2, FS_CardinalityType
  <2>4. w \in old <=> call[w] \in S
    BY DEF CallsIn
  <2> QED
    BY <2>1, <2>2, <2>3, <2>4 DEF Count
<1>3. CASE c \in S
  <2>1. CallsIn(S)' = rest \cup {w} /\ w \notin rest
    BY <1>1, <1>3 DEF CallsIn
  <2> HIDE DEF rest
  <2>2. IsFiniteSet(CallsIn(S)') /\ Cardinality(CallsIn(S)') = Cardinality(rest) + 1
    BY <1>2, <2>1, FS_AddElement
  <2> QED
    BY <1>2, <1>3, <2>2 DEF Count
<1>4. CASE c \notin S
  <2>1. CallsIn(S)' = rest
    BY <1>1, <1>4 DEF CallsIn
  <2> QED
    BY <1>2, <1>4, <2>1 DEF Count
<1> QED
  BY <1>3, <1>4

----------------------------------------------------------------------------
(* The version of a task                                                    *)

\* The events of writes to a task and its checklist, and the calls about to
\* announce one.
Writing(t) ==
  {e \in Events : e.task = t /\ e.verb \in {"task.transitioned", "task.edited", "todo"}}
Telling(t) == {c \in Announcements : c.pc = "emit" /\ c.event \in Writing(t)}

VersionCounts(t) ==
  /\ IsFiniteSet(CallsIn(Telling(t)))
  /\ task[t].version = 1 + Cardinality(Where(events, Writing(t)))
                         + Cardinality(CallsIn(Telling(t)))
VersionInv == crashes = 0 => \A t \in Tasks : VersionCounts(t)

\* A transaction that writes announces an event that counts for its task.
LEMMA VersionWritten ==
  ASSUME TypeInv, NEW w \in Workers, call[w].pc = "commit",
         NEW t \in Tasks, NEW e \in Events, Announces(w, e), e.task = t,
         task'[t].version = task[t].version + 1,
         \A x \in Tasks \ {t} : task'[x] = task[x],
         e.verb \in {"task.transitioned", "task.edited", "todo"},
         NEW x \in Tasks, VersionCounts(x)
  PROVE  VersionCounts(x)'
<1> DEFINE c == [pc |-> "emit", event |-> e]
           S == Telling(x)
<1>1. /\ call \in [Workers -> Calls] /\ call' = [call EXCEPT ![w] = c] /\ events' = events
  BY DEF TypeInv, Announces
<1>2. IsFiniteSet(CallsIn(S))
  BY DEF VersionCounts
<1>3. call[w] \notin S
  BY DEF Telling
<1>4. c \in S <=> x = t
  BY DEF Telling, Writing, Announcements
<1>5. c \in Announcements
  BY DEF Announcements
<1> HIDE DEF c, S
<1>6. /\ IsFiniteSet(CallsIn(S)') /\ Cardinality(CallsIn(S)') \in Nat
      /\ Cardinality(CallsIn(S)) \in Nat
      /\ Cardinality(CallsIn(S)') = Cardinality(CallsIn(S)) + IF x = t THEN 1 ELSE 0
  <2>1. /\ IsFiniteSet(CallsIn(S)')
        /\ Cardinality(CallsIn(S)') + Count(call[w] \in S)
             = Cardinality(CallsIn(S)) + Count(c \in S)
        /\ Cardinality(CallsIn(S)) \in Nat /\ Cardinality(CallsIn(S)') \in Nat
    BY <1>1, <1>2, CallsMoved
  <2>2. Count(call[w] \in S) = 0 /\ Count(c \in S) = IF x = t THEN 1 ELSE 0
    BY <1>3, <1>4 DEF Count
  <2> QED
    BY <2>1, <2>2
<1>7. Cardinality(Where(events, Writing(x))) \in Nat
  BY WhereFinite DEF TypeInv
<1>8. Where(events, Writing(x))' = Where(events, Writing(x))
  BY <1>1 DEF Where
<1>9. task'[x].version = task[x].version + IF x = t THEN 1 ELSE 0
  BY DEF TypeInv, TaskRow
<1> QED
  BY <1>6, <1>7, <1>8, <1>9 DEF VersionCounts, S

\* A step that writes to no task and announces nothing that counts.
LEMMA VersionFrame ==
  ASSUME TypeInv, NEW w \in Workers, NEW c \in Calls, call' = [call EXCEPT ![w] = c],
         NEW x \in Tasks, VersionCounts(x), task'[x] = task[x],
         call[w] \notin Telling(x), c \notin Telling(x),
         Cardinality(Where(events', Writing(x))) = Cardinality(Where(events, Writing(x)))
  PROVE  VersionCounts(x)'
<1> DEFINE S == Telling(x)
<1>1. call \in [Workers -> Calls] /\ IsFiniteSet(CallsIn(S))
  BY DEF TypeInv, VersionCounts
<1>2. call[w] \notin S /\ c \notin S
  OBVIOUS
<1> HIDE DEF S
<1>3. /\ IsFiniteSet(CallsIn(S)')
      /\ Cardinality(CallsIn(S)') = Cardinality(CallsIn(S))
  <2>1. /\ IsFiniteSet(CallsIn(S)')
        /\ Cardinality(CallsIn(S)') + Count(call[w] \in S)
             = Cardinality(CallsIn(S)) + Count(c \in S)
        /\ Cardinality(CallsIn(S)) \in Nat /\ Cardinality(CallsIn(S)') \in Nat
    BY <1>1, CallsMoved
  <2>2. Count(call[w] \in S) = 0 /\ Count(c \in S) = 0
    BY <1>2 DEF Count
  <2> QED
    BY <2>1, <2>2
<1> QED
  BY <1>3 DEF VersionCounts, S, Where

\* One more and one less.
LEMMA Sums ==
  ASSUME NEW a \in Nat, NEW b \in Nat, NEW c \in Nat, NEW d \in Nat, a + b = c + d
  PROVE  1 + c + d = 1 + a + b
OBVIOUS

\* Every step keeps the count.
LEMMA VersionStep ==
  ASSUME TypeInv, VersionInv, [Next]_vars
  PROVE  VersionInv'
<1>1. SUFFICES ASSUME crashes' = 0, NEW x \in Tasks PROVE VersionCounts(x)'
  BY DEF VersionInv
<1>2. CASE Crash
  BY <1>1, <1>2 DEF Crash, TypeInv
<1>3. CASE UNCHANGED <<tables, events, notifications, call, crashes>>
  BY <1>1, <1>3 DEF VersionInv, VersionCounts, tables, Where, CallsIn
<1>4. SUFFICES ASSUME NEW w \in Workers, Checks(w) \/ Commit(w) \/ Emit(w) \/ Notify(w)
      PROVE  VersionCounts(x)'
  BY <1>2, <1>3, TypeStep DEF Steps
<1>5. crashes' = crashes
  <2>1. Commit(w) => crashes' = crashes
    BY CommitKinds DEF Moved, Written, Linked, Asked, Announces
  <2> QED
    BY <1>4, <2>1 DEF Checks, Emit, Notify
<1>6. VersionCounts(x)
  BY <1>1, <1>5 DEF VersionInv
<1>7. Idle \in Calls /\ Idle \notin Telling(x)
  BY DEF Calls, Idle, Telling, Announcements
<1>8. CASE Checks(w)
  <2>1. PICK c \in Calls :
          /\ call[w].pc \in {"idle", "guards"}
          /\ c.pc = "emit" => c.event.verb = "task.transition_denied"
          /\ call' = [call EXCEPT ![w] = c]
          /\ UNCHANGED <<tables, seen, events, notifications, crashes>>
    BY <1>8 DEF Checks
  <2>2. call[w] \notin Telling(x) /\ c \notin Telling(x)
    BY <2>1 DEF Telling, Writing
  <2> QED
    BY <1>6, <2>1, <2>2, VersionFrame DEF tables
<1>9. CASE Commit(w)
  <2>0. call[w].pc = "commit" /\ (Moved(w) \/ Written(w) \/ Linked(w) \/ Asked(w))
    BY <1>9, CommitKinds
  <2>1. CASE Moved(w)
    <3>1. PICK t \in Tasks, entry \in LogRow :
            /\ task'[t].version = task[t].version + 1
            /\ \A y \in Tasks \ {t} : task'[y] = task[y]
            /\ Announces(w, Event("task.transitioned", t, entry.from, entry.to))
      BY <2>1 DEF Moved
    <3> DEFINE e == Event("task.transitioned", t, entry.from, entry.to)
    <3>2. e \in Events
      BY EventTypes DEF LogRow, Requests, Verbs
    <3>3. e.task = t /\ e.verb = "task.transitioned"
      BY DEF Event
    <3> HIDE DEF e
    <3> QED
      BY <1>6, <2>0, <3>1, <3>2, <3>3, VersionWritten DEF e
  <2>2. CASE Written(w)
    <3>1. PICK t \in Tasks, verb \in {"task.edited", "todo"} :
            /\ task'[t].version = task[t].version + 1
            /\ \A y \in Tasks \ {t} : task'[y] = task[y]
            /\ Announces(w, Announce(verb, t))
      BY <2>2 DEF Written
    <3>2. Announce(verb, t) \in Events
      BY EventTypes DEF Announce, Verbs
    <3>3. Announce(verb, t).task = t /\ Announce(verb, t).verb = verb
      BY DEF Announce, Event
    <3> QED
      BY <1>6, <2>0, <3>1, <3>2, <3>3, VersionWritten
  <2>3. CASE Linked(w)
    <3>1. PICK t \in Tasks : /\ UNCHANGED task
                             /\ events' = Append(events, Announce("proof", t))
                             /\ call' = [call EXCEPT ![w] = Idle]
      BY <2>3 DEF Linked
    <3>2. Announce("proof", t) \in Events /\ Announce("proof", t) \notin Writing(x)
      BY EventTypes DEF Announce, Event, Verbs, Writing
    <3>3. events \in Seq(Events)
      BY DEF TypeInv
    <3>4. Cardinality(Where(events, Writing(x))) \in Nat
      BY <3>3, WhereFinite
    <3>5. Cardinality(Where(events', Writing(x))) = Cardinality(Where(events, Writing(x)))
      BY <3>1, <3>2, <3>3, <3>4, WhereAppended DEF Count
    <3>6. call[w] \notin Telling(x)
      BY <2>0 DEF Telling
    <3> QED
      BY <1>6, <1>7, <3>1, <3>5, <3>6, VersionFrame
  <2>4. CASE Asked(w)
    <3> DEFINE c == [pc |-> "emit", event |-> Announce("question", NoState)]
    <3>1. /\ UNCHANGED <<task, events>> /\ call' = [call EXCEPT ![w] = c]
      BY <2>4 DEF Asked, Announces
    <3>2. Announce("question", NoState) \in Events
      BY EventTypes DEF Announce, Verbs
    <3>3. c \in Calls /\ c \notin Telling(x)
      BY <3>2 DEF Calls, Announcements, Telling, Writing, Announce, Event
    <3>4. call[w] \notin Telling(x)
      BY <2>0 DEF Telling
    <3> HIDE DEF c
    <3> QED
      BY <1>6, <3>1, <3>3, <3>4, VersionFrame
  <2> QED
    BY <2>0, <2>1, <2>2, <2>3, <2>4
<1>10. CASE Emit(w)
  <2> DEFINE e == call[w].event
             c == AfterEmit(e)
             S == Telling(x)
  <2>1. /\ call[w] \in Announcements /\ call[w].pc = "emit" /\ e \in Events /\ c \in Calls
        /\ call' = [call EXCEPT ![w] = c] /\ events' = Append(events, e)
        /\ UNCHANGED task
    BY <1>10, AnnouncementFacts DEF Emit, TypeInv, tables
  <2>2. (call[w] \in S <=> e \in Writing(x)) /\ c \notin S
    BY <2>1 DEF Telling, AfterEmit, Idle
  <2>3. events \in Seq(Events) /\ call \in [Workers -> Calls] /\ IsFiniteSet(CallsIn(S))
    BY <1>6 DEF TypeInv, VersionCounts
  <2>4. /\ Cardinality(Where(events, Writing(x))) \in Nat
        /\ Cardinality(Where(events', Writing(x)))
             = Cardinality(Where(events, Writing(x))) + Count(e \in Writing(x))
    <3> HIDE DEF e
    <3> QED
      BY <2>1, <2>3, WhereFinite, WhereAppended
  <2> HIDE DEF c, S
  <2>5. /\ IsFiniteSet(CallsIn(S)')
        /\ Cardinality(CallsIn(S)') + Count(call[w] \in S)
             = Cardinality(CallsIn(S)) + Count(c \in S)
        /\ Cardinality(CallsIn(S)) \in Nat /\ Cardinality(CallsIn(S)') \in Nat
    BY <2>1, <2>3, CallsMoved
  <2> HIDE DEF e
  <2>6. Cardinality(Where(events', Writing(x))) + Cardinality(CallsIn(S)')
          = Cardinality(Where(events, Writing(x))) + Cardinality(CallsIn(S))
    BY <2>2, <2>4, <2>5 DEF Count
  <2>7. Cardinality(Where(events', Writing(x))) \in Nat
    BY <2>4 DEF Count
  <2>8. task[x].version = 1 + Cardinality(Where(events, Writing(x))) + Cardinality(CallsIn(S))
    BY <1>6 DEF VersionCounts, S
  <2>9. task'[x].version =
          1 + Cardinality(Where(events', Writing(x))) + Cardinality(CallsIn(S)')
    <3>1. task'[x].version = task[x].version
      BY <2>1
    <3> QED
      BY <3>1, <2>4, <2>5, <2>6, <2>7, <2>8, Sums
  <2> QED
    BY <2>5, <2>9 DEF VersionCounts, S, Where
<1>11. CASE Notify(w)
  <2>1. /\ call' = [call EXCEPT ![w] = Idle] /\ UNCHANGED <<task, events>>
        /\ call[w].pc = "notify"
    BY <1>11 DEF Notify, tables
  <2>2. call[w] \notin Telling(x)
    BY <2>1 DEF Telling
  <2> QED
    BY <1>6, <1>7, <2>1, <2>2, VersionFrame
<1> QED
  BY <1>4, <1>8, <1>9, <1>10, <1>11

\* Nobody is in a call when the program starts.
LEMMA NobodyCalls ==
  ASSUME Init, NEW S, Idle \notin S
  PROVE  CallsIn(S) = {}
BY DEF Init, CallsIn

\* However many workers write at once, tasks.version counts the writes: of two that
\* started from the same version none is lost, and no reader takes one for the other.
THEOREM VersionAlwaysCountsWrites == Spec => []VersionCountsWrites
<1>1. Init => VersionInv
  <2> SUFFICES ASSUME Init, NEW t \in Tasks PROVE VersionCounts(t)
    BY DEF VersionInv
  <2>1. CallsIn(Telling(t)) = {}
    BY NobodyCalls DEF Telling, Announcements, Idle
  <2>2. Where(events, Writing(t)) = {}
    BY DEF Init, Where
  <2>3. task[t].version = 1
    BY DEF Init, Flow!Init
  <2> QED
    BY <2>1, <2>2, <2>3, FS_EmptySet DEF VersionCounts
<1>2. TypeInv /\ VersionInv /\ [Next]_vars => VersionInv'
  BY VersionStep
<1>3. TypeInv /\ VersionInv => VersionCountsWrites
  <2> SUFFICES ASSUME TypeInv, VersionInv, crashes = 0, NEW t \in Tasks
      PROVE  LET writes == {"task.transitioned", "task.edited", "todo"}
                 announced == {i \in DOMAIN events :
                                 events[i].task = t /\ events[i].verb \in writes}
                 pending == {w \in Workers : /\ call[w].pc = "emit"
                                             /\ call[w].event.task = t
                                             /\ call[w].event.verb \in writes}
             IN task[t].version - 1 = Cardinality(announced) + Cardinality(pending)
    BY DEF VersionCountsWrites
  <2> DEFINE writes == {"task.transitioned", "task.edited", "todo"}
             announced == {i \in DOMAIN events :
                             events[i].task = t /\ events[i].verb \in writes}
             pending == {w \in Workers : /\ call[w].pc = "emit" /\ call[w].event.task = t
                                         /\ call[w].event.verb \in writes}
  <2>1. events \in Seq(Events) /\ \A i \in DOMAIN events : events[i] \in Events
    BY DEF TypeInv
  <2>2. announced = Where(events, Writing(t))
    BY <2>1 DEF Where, Writing
  <2>3. \A w \in Workers : call[w].pc = "emit" => /\ call[w] \in Announcements
                                                  /\ call[w].event \in Events
    BY AnnouncementFacts
  <2>4. pending = CallsIn(Telling(t))
    BY <2>3 DEF CallsIn, Telling, Writing
  <2>5. /\ task[t].version = 1 + Cardinality(Where(events, Writing(t)))
                               + Cardinality(CallsIn(Telling(t)))
        /\ IsFiniteSet(CallsIn(Telling(t)))
    BY DEF VersionInv, VersionCounts
  <2>6. Cardinality(Where(events, Writing(t))) \in Nat
    BY <2>1, WhereFinite
  <2>7. Cardinality(CallsIn(Telling(t))) \in Nat
    BY <2>5, FS_CardinalityType
  <2> HIDE DEF announced, pending
  <2>8. task[t].version - 1 = Cardinality(announced) + Cardinality(pending)
    BY <2>2, <2>4, <2>5, <2>6, <2>7
  <2> QED
    BY <2>8 DEF announced, pending
<1> QED
  BY <1>1, <1>2, <1>3, TypesHold, PTL DEF Spec
=============================================================================
